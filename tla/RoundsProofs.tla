---------------------------- MODULE RoundsProofs ----------------------------
(***************************************************************************)
(* Proofs about Rounds, for every value of its constants: types, safety,   *)
(* what no step may do, and the refinement of CrownRegister.               *)
(*                                                                         *)
(* The inductive invariant.  Each conjunct is what the others need:        *)
(* a live round is the newest one (Sequential), so at most one is live; a  *)
(* busy worker's round is running or void and nobody else's (Claims), so no*)
(* late write lands; the entries of a live round are never scored          *)
(* (Unsettled), so a void returns every challenger; a submission under a   *)
(* gate job is not past the gates (GateState), so an exclusion that waited *)
(* for idle gates stays, but on the submissions an event newer than itself *)
(* kept from it (BanState, escaped); the crown's submission keeps its      *)
(* verdict (LeaderNotQueued), and no round has its incumbent among its     *)
(* challengers (Apart), so a void or a settlement treats it once.          *)
(*                                                                         *)
(* The action properties and the refinement follow from it: the crown is   *)
(* written in three places only, complete_round, which ends the contest in *)
(* the same step, and the exclusion and the vacating, which refuse to run  *)
(* while one is open.                                                      *)
(***************************************************************************)
EXTENDS Rounds, TLAPS

-----------------------------------------------------------------------------
(* Types. *)

\* A busy worker has claimed a round, and a crown refers to rounds that exist.
\* Domains needs both: a deferral adds the claimed ordinal to "waiting", and an
\* exclusion reads the scores of the leader's last round.
Referenced ==
  /\ \A w \in Worker : pc[w] # "idle" => claim[w] \in Ordinal
  /\ leader.sub # NoSub => leader.wonAt \in Ordinal /\ leader.scoredAt \in Ordinal

TypeInv == Domains /\ Referenced

\* An empty report is a report.
LEMMA NoReportType == NoReport \in Report
  BY ScoreAssumption DEF NoReport, Report, Verdict

\* The initial state is well typed.
LEMMA InitTypeInv == Init => TypeInv
<1> SUFFICES ASSUME Init PROVE TypeInv
  OBVIOUS
<1>1. Domains
  BY NoReportType, ScoreAssumption
  DEF Init, Domains, State, JobStatus, EntryStatus, LeaderRow, Vacant, HistoryRow, Row,
      Phase, Ordinal
<1>2. Referenced
  BY DEF Init, Referenced, Vacant
<1> QED
  BY <1>1, <1>2 DEF TypeInv

\* The gate transactions keep the types.
LEMMA GatesType == ASSUME TypeInv, NEW s \in Sub, Gates(s) PROVE TypeInv'
<1> USE DEF TypeInv, Domains, Referenced, State, JobStatus, roundVars, crownVars, workerVars,
            subVars
<1>1. CASE InsertSubmission(s)
  <2>1. \/ /\ state' = [state EXCEPT ![s] = "committed"]
           /\ job' = [job EXCEPT ![s] = "pending"]
        \/ /\ state' = [state EXCEPT ![s] = "rejected"]
           /\ job' = job
    BY <1>1, Zenon DEF InsertSubmission
  <2>3. state' \in [Sub -> State]
    BY <2>1
  <2>4. job' \in [Sub -> JobStatus]
    BY <2>1
  <2>2. UNCHANGED <<campaign, infra, action, roundVars, crownVars, due, workerVars, condemned>>
    BY <1>1 DEF InsertSubmission
  <2> QED
    BY <2>2, <2>3, <2>4
<1>2. CASE ClaimJob(s)
  BY <1>2 DEF ClaimJob
<1>3. CASE DeferJob(s)
  BY <1>3 DEF DeferJob
<1>4. CASE RejectGates(s)
  BY <1>4 DEF RejectGates
<1>5. CASE FailJob(s)
  BY <1>5 DEF FailJob
<1>6. CASE CompleteGates(s)
  BY <1>6 DEF CompleteGates
<1> QED
  BY <1>1, <1>2, <1>3, <1>4, <1>5, <1>6 DEF Gates

\* The watcher's transactions keep the types.
LEMMA WatchType == ASSUME TypeInv, NEW v \in Watcher, Watch(v) PROVE TypeInv'
<1> USE DEF TypeInv, Domains, Referenced, State, roundVars, crownVars, workerVars, subVars
<1>1. CASE ScanQueue(v)
  BY <1>1 DEF ScanQueue
<1>2. CASE CreateRound(v)
  <2>1. Keepers(Oldest(Queued)) \subseteq Sub
    BY DEF Keepers, Oldest, Queued
  <2>2. /\ rstatus' \in [Ordinal -> {"none", "pending", "running", "complete", "void"}]
        /\ incumbent' \in [Ordinal -> Sub \cup {NoSub}]
        /\ cohort' \in [Ordinal -> SUBSET Sub]
    BY <1>2, <2>1 DEF CreateRound, LeaderRow
  <2>3. state' \in [Sub -> State]
    BY <1>2 DEF CreateRound
  <2>4. due' \in [Watcher -> BOOLEAN]
    BY <1>2 DEF CreateRound
  <2>5. UNCHANGED <<campaign, job, infra, action, winner, entry, score, stale, waiting,
                    crownVars, workerVars, condemned>>
    BY <1>2 DEF CreateRound
  <2> QED
    BY <2>2, <2>3, <2>4, <2>5
<1>3. CASE CreateLoses(v)
  BY <1>3 DEF CreateLoses
<1> QED
  BY <1>1, <1>2, <1>3 DEF Watch

\* What voiding a round writes is well typed.
LEMMA VoidToType ==
  ASSUME TypeInv, NEW o \in Ordinal, VoidTo(o)
  PROVE  /\ rstatus' \in [Ordinal -> {"none", "pending", "running", "complete", "void"}]
         /\ stale' \subseteq Ordinal
         /\ entry' \in [Ordinal -> [Sub -> EntryStatus]]
         /\ state' \in [Sub -> State]
<1>1. /\ rstatus' \in [Ordinal -> {"none", "pending", "running", "complete", "void"}]
      /\ stale' \subseteq Ordinal
  BY DEF VoidTo, TypeInv, Domains
<1>2. state' \in [Sub -> State]
  BY DEF VoidTo, Requeue, TypeInv, Domains, State
<1> DEFINE reset == [s \in Sub |-> IF entry[o][s] = "disqualified" /\ s \in EntriesOf(o)
                                   THEN "pending" ELSE entry[o][s]]
<1>3. reset \in [Sub -> EntryStatus]
  BY DEF TypeInv, Domains, EntryStatus
<1>4. entry' = [entry EXCEPT ![o] = reset]
  BY DEF VoidTo, Requeue
<1>5. entry' \in [Ordinal -> [Sub -> EntryStatus]]
  <2> HIDE DEF reset
  <2> QED
    BY <1>3, <1>4 DEF TypeInv, Domains
<1> QED
  BY <1>1, <1>2, <1>5

\* The reaper and the passing of time keep the types.
LEMMA TimeType ==
  ASSUME TypeInv,
         ReapStaleRounds \/ \E o \in Ordinal : GoStale(o) \/ RetryElapsed(o)
  PROVE  TypeInv'
<1> USE DEF TypeInv, Domains, Referenced, roundVars, crownVars, workerVars, subVars
<1>1. CASE ReapStaleRounds
  <2>1. PICK o \in stale : VoidTo(o)
    BY <1>1 DEF ReapStaleRounds
  <2>2. UNCHANGED <<campaign, job, infra, action, incumbent, winner, cohort, score, waiting,
                    crownVars, due, workerVars, condemned>>
    BY <1>1 DEF ReapStaleRounds
  <2>3. o \in Ordinal
    OBVIOUS
  <2> QED
    BY <2>1, <2>2, <2>3, VoidToType
<1>2. CASE \E o \in Ordinal : GoStale(o) \/ RetryElapsed(o)
  BY <1>2 DEF GoStale, RetryElapsed
<1> QED
  BY <1>1, <1>2

\* What settling does to the crown is well typed.
LEMMA CrownType ==
  ASSUME TypeInv, NEW w \in Worker, NEW o \in Ordinal, Crown(w, o)
  PROVE  /\ winner' \in [Ordinal -> Sub \cup {NoSub}]
         /\ leader' \in LeaderRow
         /\ history' \in HistoryRow
         /\ leader'.sub # NoSub => leader'.wonAt \in Ordinal /\ leader'.scoredAt \in Ordinal
<1> USE DEF TypeInv, Domains, Referenced
<1> DEFINE rep == report[w]
           lead == incumbent[o]
           S == Contenders(rep, lead, cohort[o])
           prev == PrevScore(rep, lead, seen[w])
<1>1. /\ rep \in Report /\ lead \in Sub \cup {NoSub} /\ o \in Nat
      /\ \A s \in Sub : rep.score[s] \in Int
      /\ Ordinal \subseteq Nat
  <2>1. rep \in Report /\ lead \in Sub \cup {NoSub}
    OBVIOUS
  <2>2. \A s \in Sub : rep.score[s] \in Score
    BY <2>1 DEF Report
  <2>3. Ordinal \subseteq Nat
    BY SizeAssumption DEF Ordinal
  <2> QED
    BY <2>1, <2>2, <2>3, ScoreAssumption
<1>2. prev \in Int
  BY <1>1 DEF PrevScore
<1>3. S \subseteq Sub
  BY DEF Contenders
<1>4. ASSUME NEW s \in Sub
      PROVE  /\ Seat(s, o, rep.score[s]) \in LeaderRow
             /\ Seat(s, o, rep.score[s]).wonAt \in Ordinal
             /\ Seat(s, o, rep.score[s]).scoredAt \in Ordinal
  BY <1>1, <1>4, NoSubAssumption DEF Seat, LeaderRow
<1>5. ASSUME NEW s \in S,
             leader' = Seat(s, o, rep.score[s]),
             history' = Row(IF lead = NoSub THEN "seated" ELSE "overtaken", s, lead, prev),
             winner' = [winner EXCEPT ![o] = s]
      PROVE  /\ winner' \in [Ordinal -> Sub \cup {NoSub}]
             /\ leader' \in LeaderRow
             /\ history' \in HistoryRow
             /\ leader'.wonAt \in Ordinal /\ leader'.scoredAt \in Ordinal
  <2>1. s \in Sub
    BY <1>3
  <2>2. history' \in HistoryRow
    BY <1>1, <1>2, <1>5, <2>1 DEF Row, HistoryRow
  <2>3. winner' \in [Ordinal -> Sub \cup {NoSub}]
    BY <1>5, <2>1
  <2> QED
    BY <1>4, <1>5, <2>1, <2>2, <2>3
<1>6. CASE /\ leader' = Vacant
           /\ history' = Row("vacated", NoSub, lead, prev)
           /\ UNCHANGED winner
  BY <1>1, <1>2, <1>6 DEF Vacant, LeaderRow, Row, HistoryRow
<1>7. CASE /\ Holds(rep, lead)
           /\ leader' = Seat(lead, o, rep.score[lead])
           /\ winner' = [winner EXCEPT ![o] = lead]
           /\ UNCHANGED history
  <2>1. lead \in Sub
    BY <1>1, <1>7 DEF Holds
  <2>2. winner' \in [Ordinal -> Sub \cup {NoSub}]
    BY <1>7, <2>1
  <2> QED
    BY <1>4, <1>7, <2>1, <2>2
<1>8. CASE UNCHANGED <<leader, history, winner>>
  BY <1>8
<1> QED
  BY <1>5, <1>6, <1>7, <1>8 DEF Crown

\* Settling keeps the types: entries, scores, events and the crown.
LEMMA CompleteType == ASSUME TypeInv, NEW w \in Worker, CompleteRound(w) PROVE TypeInv'
<1> USE DEF TypeInv, Domains, Referenced
<1> DEFINE o == claim[w]
           rep == report[w]
           E == EntriesOf(o)
<1>1. o \in Ordinal /\ rep \in Report /\ E \subseteq Sub /\ incumbent[o] \in Sub \cup {NoSub}
  BY DEF CompleteRound, EntriesOf
<1>2. /\ pc' = [pc EXCEPT ![w] = "idle"]
      /\ claim' = [claim EXCEPT ![w] = 0]
      /\ report' = [report EXCEPT ![w] = NoReport]
      /\ seen' = [seen EXCEPT ![w] = 0]
      /\ UNCHANGED <<campaign, job, action, incumbent, cohort, waiting, due, condemned>>
  BY DEF CompleteRound
<1>3. /\ pc' \in [Worker -> Phase] /\ claim' \in [Worker -> Ordinal \cup {0}]
      /\ report' \in [Worker -> Report] /\ seen' \in [Worker -> Int]
      /\ \A u \in Worker : pc'[u] # "idle" => claim'[u] \in Ordinal
  BY <1>2, NoReportType DEF Phase
<1>4. CASE rstatus[o] # "running"
  <2>1. UNCHANGED <<rstatus, entry, score, state, infra, stale, winner, crownVars>>
    BY <1>4 DEF CompleteRound
  <2> QED
    BY <1>2, <1>3, <2>1 DEF crownVars
<1>5. CASE rstatus[o] = "running"
  <2>1. /\ rstatus' = [rstatus EXCEPT ![o] = "complete"]
        /\ entry' = [entry EXCEPT ![o] =
                       [s \in Sub |-> IF s \in E THEN rep.status[s] ELSE entry[o][s]]]
        /\ score' = [score EXCEPT ![o] =
                       [s \in Sub |-> IF s \in E THEN rep.score[s] ELSE score[o][s]]]
        /\ state' = [s \in Sub |-> IF s \in E THEN SettledState(s, o, rep.status[s])
                                   ELSE state[s]]
        /\ infra' = infra \cup {s \in E : rep.status[s] = "infra_failed"}
        /\ stale' = stale \ {o}
        /\ Crown(w, o)
    BY <1>5 DEF CompleteRound
  <2>2. \A s \in Sub : rep.status[s] \in Verdict /\ rep.score[s] \in Score /\ rep.score[s] \in Int
    BY <1>1, ScoreAssumption DEF Report
  <2>3. [s \in Sub |-> IF s \in E THEN rep.status[s] ELSE entry[o][s]] \in [Sub -> EntryStatus]
    BY <1>1, <2>2 DEF Verdict, EntryStatus
  <2>4. [s \in Sub |-> IF s \in E THEN rep.score[s] ELSE score[o][s]] \in [Sub -> Score]
    BY <1>1, <2>2
  <2>5. /\ entry' \in [Ordinal -> [Sub -> EntryStatus]]
        /\ score' \in [Ordinal -> [Sub -> Score]]
    BY <1>1, <2>1, <2>3, <2>4
  <2>6. state' \in [Sub -> State]
    BY <1>1, <2>1, <2>2 DEF SettledState, Verdict, State
  <2>7. /\ rstatus' \in [Ordinal -> {"none", "pending", "running", "complete", "void"}]
        /\ infra' \subseteq Sub /\ stale' \subseteq Ordinal
    BY <1>1, <2>1
  <2>8. /\ winner' \in [Ordinal -> Sub \cup {NoSub}]
        /\ leader' \in LeaderRow
        /\ history' \in HistoryRow
        /\ leader'.sub # NoSub => leader'.wonAt \in Ordinal /\ leader'.scoredAt \in Ordinal
    BY <1>1, <2>1, CrownType
  <2> QED
    BY <1>2, <1>3, <2>5, <2>6, <2>7, <2>8
<1> QED
  BY <1>4, <1>5

\* The worker's bookkeeping transactions keep the types.
LEMMA WorkType == ASSUME TypeInv, NEW w \in Worker, Work(w) PROVE TypeInv'
<1> USE DEF TypeInv, Domains, Referenced, Phase, roundVars, crownVars, workerVars, subVars
<1>1. CASE ClaimRound(w)
  <2>1. PICK o \in Ordinal \ waiting :
           /\ rstatus' = [rstatus EXCEPT ![o] = "running"]
           /\ stale' = stale \ {o}
           /\ claim' = [claim EXCEPT ![w] = o]
    BY <1>1 DEF ClaimRound
  <2>2. /\ pc' = [pc EXCEPT ![w] = "claimed"]
        /\ UNCHANGED <<campaign, subVars, incumbent, winner, cohort, entry, score, waiting,
                       crownVars, due, report, seen, condemned>>
    BY <1>1 DEF ClaimRound
  <2> QED
    BY <2>1, <2>2
<1>2. CASE StartBench(w)
  BY <1>2 DEF StartBench
<1>3. CASE Heartbeat(w)
  BY <1>3 DEF Heartbeat
<1>4. ASSUME NEW s \in Sub, NEW st \in Beacon, LiveStatus(w, s, st)
      PROVE  TypeInv'
  <2>1. claim[w] \in Ordinal
    BY <1>4 DEF LiveStatus
  <2>2. st \in EntryStatus
    BY DEF Beacon, EntryStatus
  <2>3. entry' = [entry EXCEPT ![claim[w]] = [entry[claim[w]] EXCEPT ![s] = st]]
    BY <1>4 DEF LiveStatus
  <2>4. entry' \in [Ordinal -> [Sub -> EntryStatus]]
    BY <2>1, <2>2, <2>3
  <2>5. UNCHANGED <<campaign, subVars, rstatus, incumbent, winner, cohort, score, stale, waiting,
                    crownVars, due, workerVars, condemned>>
    BY <1>4 DEF LiveStatus
  <2> QED
    BY <2>4, <2>5
<1>5. CASE DeferRound(w)
  <2>1. claim[w] \in Ordinal
    BY <1>5 DEF DeferRound
  <2>2. /\ rstatus' \in [Ordinal -> {"none", "pending", "running", "complete", "void"}]
        /\ waiting' \subseteq Ordinal
        /\ stale' \subseteq Ordinal
    <3>1. CASE rstatus[claim[w]] = "running"
      <4>1. /\ rstatus' = [rstatus EXCEPT ![claim[w]] = "pending"]
            /\ waiting' = waiting \cup {claim[w]}
            /\ stale' = stale \ {claim[w]}
        BY <1>5, <3>1 DEF DeferRound
      <4> QED
        BY <2>1, <4>1
    <3>2. CASE rstatus[claim[w]] # "running"
      BY <1>5, <3>2 DEF DeferRound
    <3> QED
      BY <3>1, <3>2
  <2>3. /\ pc' = [pc EXCEPT ![w] = "idle"]
        /\ claim' = [claim EXCEPT ![w] = 0]
        /\ UNCHANGED <<campaign, subVars, incumbent, winner, cohort, entry, score, crownVars,
                       due, report, seen, condemned>>
    BY <1>5 DEF DeferRound
  <2> QED
    BY <2>2, <2>3
<1>6. CASE RankReport(w)
  <2>1. report' \in [Worker -> Report]
    BY <1>6 DEF RankReport
  <2>2. seen' \in [Worker -> Int]
    BY <1>6 DEF RankReport, LeaderRow
  <2>3. /\ pc[w] = "benching"
        /\ pc' = [pc EXCEPT ![w] = "ranked"]
        /\ UNCHANGED <<campaign, subVars, roundVars, crownVars, due, claim, condemned>>
    BY <1>6 DEF RankReport
  <2> QED
    BY <2>1, <2>2, <2>3
<1>7. CASE CompleteRound(w)
  BY <1>7, CompleteType
<1>8. CASE VoidRound(w)
  <2>1. claim[w] \in Ordinal
    BY <1>8 DEF VoidRound
  <2>2. /\ rstatus' \in [Ordinal -> {"none", "pending", "running", "complete", "void"}]
        /\ stale' \subseteq Ordinal
        /\ entry' \in [Ordinal -> [Sub -> EntryStatus]]
        /\ state' \in [Sub -> State]
    <3>1. CASE VoidTo(claim[w])
      BY <2>1, <3>1, VoidToType
    <3>2. CASE UNCHANGED <<rstatus, stale, entry, state>>
      BY <3>2
    <3> QED
      BY <1>8, <3>1, <3>2 DEF VoidRound
  <2>3. /\ pc' = [pc EXCEPT ![w] = "idle"]
        /\ claim' = [claim EXCEPT ![w] = 0]
        /\ report' = [report EXCEPT ![w] = NoReport]
        /\ seen' = [seen EXCEPT ![w] = 0]
        /\ UNCHANGED <<campaign, job, infra, action, incumbent, winner, cohort, score, waiting,
                       crownVars, due, condemned>>
    BY <1>8 DEF VoidRound
  <2> QED
    BY <2>2, <2>3, NoReportType
<1>9. CASE WorkerCrash(w)
  BY <1>9, NoReportType DEF WorkerCrash
<1> QED
  BY <1>1, <1>2, <1>3, <1>4, <1>5, <1>6, <1>7, <1>8, <1>9 DEF Work

\* What an exclusion may do to the crown.
LEMMA DisqualifyCrown ==
  ASSUME NEW h \in Hotkey, Disqualify(h)
  PROVE  \/ leader.sub \notin {s \in Own(h) : state[s] # "absent"} /\ UNCHANGED crownVars
         \/ /\ leader.sub \in {s \in Own(h) : state[s] # "absent"}
            /\ leader'  = Vacant
            /\ history' = Row("vacated", NoSub, leader.sub, leader.score)
         \/ /\ leader.sub \in {s \in Own(h) : state[s] # "absent"}
            /\ \E s \in RunnersUp(state', action') :
                 /\ leader' = [sub |-> s, wonAt |-> leader.scoredAt,
                               scoredAt |-> leader.scoredAt,
                               score |-> score[leader.scoredAt][s]]
                 /\ history' = Row("seated", s, NoSub, 0)
  BY Zenon DEF Disqualify

\* What an exclusion does to the crown is well typed.
LEMMA DisqualifyCrownType ==
  ASSUME TypeInv, NEW h \in Hotkey, Disqualify(h)
  PROVE  /\ leader' \in LeaderRow
         /\ history' \in HistoryRow
         /\ leader'.sub # NoSub => leader'.wonAt \in Ordinal /\ leader'.scoredAt \in Ordinal
<1> USE DEF TypeInv, Domains, Referenced
<1> DEFINE o == leader.scoredAt
           R == RunnersUp(state', action')
<1>1. CASE UNCHANGED crownVars
  BY <1>1 DEF crownVars
<1>2. CASE /\ leader' = Vacant
           /\ history' = Row("vacated", NoSub, leader.sub, leader.score)
  BY <1>2 DEF Vacant, LeaderRow, HistoryRow, Row
<1>3. ASSUME leader.sub \in Sub, NEW s \in R,
             leader' = [sub |-> s, wonAt |-> o, scoredAt |-> o, score |-> score[o][s]],
             history' = Row("seated", s, NoSub, 0)
      PROVE  /\ leader' \in LeaderRow
             /\ history' \in HistoryRow
             /\ leader'.wonAt \in Ordinal /\ leader'.scoredAt \in Ordinal
  <2>1. o \in Ordinal /\ o \in Nat
    BY <1>3, NoSubAssumption, SizeAssumption DEF Ordinal
  <2>2. s \in Sub
    BY <2>1 DEF RunnersUp, EntriesOf
  <2>3. score[o][s] \in Int
    BY <2>1, <2>2, ScoreAssumption
  <2> QED
    BY <1>3, <2>1, <2>2, <2>3 DEF LeaderRow, HistoryRow, Row
<1> QED
  BY <1>1, <1>2, <1>3, DisqualifyCrown DEF Own

\* An exclusion keeps the types, from its begin to its end.
LEMMA ExcludeType ==
  ASSUME TypeInv, NEW h \in Hotkey, BeginExclusion(h) \/ Disqualify(h) \/ EndExclusion(h)
  PROVE  TypeInv'
<1> USE DEF TypeInv, Domains, Referenced, roundVars, crownVars, workerVars, subVars, engineVars
<1>1. CASE BeginExclusion(h) \/ EndExclusion(h)
  BY <1>1 DEF BeginExclusion, EndExclusion
<1>2. CASE Disqualify(h)
  <2>1. job' \in [Sub -> JobStatus] /\ state' \in [Sub -> State]
    BY <1>2 DEF Disqualify, JobStatus, State
  <2>2. action' \in [Hotkey -> {"none", "disqualified", "waived"}]
    BY <1>2 DEF Disqualify
  <2>3. UNCHANGED <<campaign, infra, roundVars, due, workerVars, condemned>>
    BY <1>2 DEF Disqualify
  <2>4. /\ leader' \in LeaderRow
        /\ history' \in HistoryRow
        /\ leader'.sub # NoSub => leader'.wonAt \in Ordinal /\ leader'.scoredAt \in Ordinal
    BY <1>2, <2>1, DisqualifyCrownType
  <2> QED
    BY <2>1, <2>2, <2>3, <2>4
<1> QED
  BY <1>1, <1>2

\* Operators and the weights process keep the types.
LEMMA OperateType ==
  ASSUME TypeInv, Operate \/ ListIdleLeaders \/ VacateLeader
  PROVE  TypeInv'
<1> USE DEF TypeInv, Domains, Referenced, roundVars, crownVars, workerVars, subVars
<1>1. ASSUME NEW c \in {"open", "closed"}, SetCampaign(c)
      PROVE  TypeInv'
  BY <1>1 DEF SetCampaign
<1>3. ASSUME NEW h \in Hotkey, Waive(h)
      PROVE  TypeInv'
  <2>1. state' \in [Sub -> State]
    BY <1>3 DEF Waive, State
  <2>2. action' \in [Hotkey -> {"none", "disqualified", "waived"}]
    BY <1>3 DEF Waive
  <2> QED
    BY <1>3, <2>1, <2>2 DEF Waive
<1>4. CASE ListIdleLeaders
  <2>1. leader.sub \in Sub
    BY <1>4 DEF ListIdleLeaders, LeaderRow
  <2> QED
    BY <1>4, <2>1, HotkeyAssumption DEF ListIdleLeaders
<1>5. CASE VacateLeader
  <2>1. leader' \in LeaderRow /\ history' \in HistoryRow
    BY <1>5 DEF VacateLeader, Vacant, LeaderRow, HistoryRow, Row
  <2>2. leader'.sub # NoSub => leader'.wonAt \in Ordinal /\ leader'.scoredAt \in Ordinal
    BY <1>5 DEF VacateLeader, Vacant
  <2> QED
    BY <1>5, <2>1, <2>2 DEF VacateLeader
<1> QED
  BY <1>1, <1>3, <1>4, <1>5 DEF Operate

\* Every step keeps the types.
LEMMA NextTypeInv == TypeInv /\ [Next]_vars => TypeInv'
<1> SUFFICES ASSUME TypeInv, [Next]_vars PROVE TypeInv'
  OBVIOUS
<1>1. CASE UNCHANGED vars
  BY <1>1 DEF vars, engineVars, subVars, roundVars, crownVars, workerVars, TypeInv, Domains,
              Referenced
<1>2. CASE Engine
  BY <1>2, GatesType, WatchType, TimeType, WorkType, OperateType DEF Engine
<1> QED
  BY <1>1, <1>2, ExcludeType DEF Next

\* What is recorded about the dates of events.
Dates ==
  /\ excluding \subseteq Hotkey
  /\ later \subseteq Sub \cup Hotkey
  /\ escaped \subseteq Sub

\* Every step keeps the types of what is recorded about dates.
LEMMA NextDates == Dates /\ [Next]_vars => Dates'
<1> SUFFICES ASSUME Dates, [Next]_vars PROVE Dates'
  OBVIOUS
<1>1. CASE UNCHANGED vars
  BY <1>1 DEF vars, dateVars, Dates
<1>2. CASE Engine /\ Dated
  BY <1>2 DEF Dated, Dates
<1>3. ASSUME NEW h \in Hotkey, BeginExclusion(h) \/ EndExclusion(h) PROVE Dates'
  BY <1>3 DEF BeginExclusion, EndExclusion, Dates
<1>4. ASSUME NEW h \in Hotkey, Disqualify(h) PROVE Dates'
  BY <1>4 DEF Disqualify, Own, Dates
<1> QED
  BY <1>1, <1>2, <1>3, <1>4 DEF Next

\* Type correctness of the whole round engine.
THEOREM TypeCorrect == Spec => []TypeOK
<1>1. Spec => []TypeInv
  BY InitTypeInv, NextTypeInv, PTL DEF Spec
<1>2. Init => Dates
  BY DEF Init, Dates
<1>3. Spec => []Dates
  BY <1>2, NextDates, PTL DEF Spec
<1>4. TypeInv /\ Dates => TypeOK
  BY DEF TypeInv, Dates, TypeOK
<1> QED
  BY <1>1, <1>3, <1>4, PTL

-----------------------------------------------------------------------------
(* Safety. *)

\* Rounds are created one after another, each when the ones before are over.
Sequential ==
  \A o, p \in Ordinal : p < o /\ rstatus[o] # "none" => rstatus[p] \in {"complete", "void"}

\* What a worker holds.
Claims ==
  /\ \A w \in Worker : pc[w] = "idle" => claim[w] = 0
  /\ SoleOwner

\* No entry is scored before its round settles.
Unsettled ==
  \A o \in Ordinal : rstatus[o] \in {"none", "pending", "running"} =>
    \A s \in Sub : entry[o][s] # "scored"

\* A job in the gate queue belongs to a submission the gates still decide.
GateState ==
  \A s \in Sub : /\ job[s] = "pending" => state[s] = "committed"
                 /\ job[s] = "running" => state[s] \in {"committed", "rejected"}

\* An excluded hotkey has no work at the gates, and its submissions are all
\* disqualified but those its exclusion missed.
BanState ==
  \A s \in Sub : Banned(hotkeyOf[s]) =>
    /\ job[s] \notin {"pending", "running"}
    /\ s \notin escaped => state[s] \in {"absent", "disqualified"}

\* No round has its incumbent among its challengers.
Apart == \A o \in Ordinal : incumbent[o] \notin cohort[o]

Core ==
  /\ Sequential
  /\ Apart
  /\ Claims
  /\ Unsettled
  /\ GateState
  /\ BanState
  /\ IncumbentFrozen
  /\ NobodyStranded
  /\ LeaderNotQueued
  /\ HistoryNamesCrown
  /\ LeaderBacked

IInv == TypeInv /\ Core

\* Ordinals are totally ordered naturals.
LEMMA OrdinalNat == Ordinal \subseteq Nat
  BY SizeAssumption DEF Ordinal

\* Rounds that follow one another cannot both be live.
LEMMA LiveIsUnique == ASSUME TypeInv, Sequential PROVE OneLiveRound
<1> SUFFICES ASSUME NEW o \in Ordinal, NEW p \in Ordinal, Live(o), Live(p), o # p
             PROVE  FALSE
  BY DEF OneLiveRound
<1>1. o < p \/ p < o
  BY OrdinalNat
<1> QED
  BY <1>1 DEF Sequential, Live

\* The initial state satisfies the invariant.
LEMMA InitIInv == Init => IInv
<1> SUFFICES ASSUME Init PROVE IInv
  OBVIOUS
<1>1. TypeInv
  BY InitTypeInv
<1>2. Core
  BY DEF Init, Core, Sequential, Apart, Claims, SoleOwner, Unsettled, GateState, BanState, Banned,
         IncumbentFrozen, Live, NobodyStranded, LeaderNotQueued, HistoryNamesCrown, Row,
         LeaderBacked, Vacant
<1> QED
  BY <1>1, <1>2 DEF IInv

\* The gate transactions touch only states and jobs of submissions the gates
\* still decide.
LEMMA GatesCore ==
  ASSUME IInv, NEW s \in Sub, Gates(s), escaped' = escaped
  PROVE  Core'
<1> USE DEF IInv, Core
<1>1. /\ UNCHANGED <<campaign, infra, action, roundVars, crownVars, due, workerVars, condemned>>
      /\ state[s] \in {"absent", "committed", "rejected"}
      /\ state'[s] \in {"absent", "committed", "rejected", "bench_queued"}
      /\ \A t \in Sub \ {s} : state'[t] = state[t] /\ job'[t] = job[t]
      /\ job'[s] = "pending" => state'[s] = "committed"
      /\ job'[s] = "running" => state'[s] \in {"committed", "rejected"}
      /\ Banned(hotkeyOf[s]) => /\ job'[s] \notin {"pending", "running"}
                                /\ state'[s] = state[s]
  <2> USE DEF TypeInv, Domains, GateState, BanState, Banned
  <2>1. CASE InsertSubmission(s)
    <3>1. /\ state[s] = "absent"
          /\ ~Banned(hotkeyOf[s])
          /\ UNCHANGED <<campaign, infra, action, roundVars, crownVars, due, workerVars, condemned>>
          /\ \/ /\ state' = [state EXCEPT ![s] = "committed"]
                /\ job' = [job EXCEPT ![s] = "pending"]
             \/ /\ state' = [state EXCEPT ![s] = "rejected"]
                /\ job' = job
      BY <2>1, Zenon DEF InsertSubmission
    <3> QED
      BY <3>1
  <2>2. CASE ClaimJob(s)
    BY <2>2 DEF ClaimJob
  <2>3. CASE DeferJob(s)
    BY <2>3 DEF DeferJob, AtGates
  <2>4. CASE RejectGates(s)
    BY <2>4 DEF RejectGates, AtGates
  <2>5. CASE FailJob(s)
    BY <2>5 DEF FailJob
  <2>6. CASE CompleteGates(s)
    BY <2>6 DEF CompleteGates, AtGates
  <2> QED
    BY <2>1, <2>2, <2>3, <2>4, <2>5, <2>6 DEF Gates
<1>2. Sequential' /\ Apart' /\ Claims' /\ Unsettled' /\ IncumbentFrozen' /\ HistoryNamesCrown' /\ LeaderBacked'
  BY <1>1 DEF roundVars, crownVars, workerVars, Sequential, Apart, Claims, SoleOwner, Unsettled,
              IncumbentFrozen, Live, HistoryNamesCrown, LeaderBacked, EntriesOf
<1>3. GateState' /\ BanState'
  BY <1>1 DEF GateState, BanState, Banned
<1>4. NobodyStranded'
  BY <1>1 DEF NobodyStranded, Live, roundVars
<1>5. LeaderNotQueued'
  <2> SUFFICES ASSUME leader.sub # NoSub PROVE state'[leader.sub] = state[leader.sub]
    BY <1>1 DEF LeaderNotQueued, crownVars
  <2>1. leader.sub \in Sub /\ state[leader.sub] \in {"scored", "disqualified"}
    BY DEF LeaderNotQueued, TypeInv, Domains, LeaderRow
  <2> QED
    BY <1>1, <2>1
<1> QED
  BY <1>2, <1>3, <1>4, <1>5

\* Steps that only move a worker, a watcher or the clock leave the core alone.
LEMMA IdleStepCore ==
  ASSUME IInv, UNCHANGED <<subVars, rstatus, incumbent, cohort, entry, score, crownVars>>,
         UNCHANGED <<pc, claim, escaped>>
  PROVE  Core'
  BY DEF IInv, Core, subVars, crownVars, Sequential, Apart, Claims, SoleOwner, Unsettled, GateState,
         BanState, Banned, IncumbentFrozen, Live, NobodyStranded, LeaderNotQueued,
         HistoryNamesCrown, LeaderBacked, EntriesOf

\* A worker that drops its claim and leaves the database alone.
LEMMA DropCore ==
  ASSUME IInv, NEW w \in Worker,
         UNCHANGED <<subVars, rstatus, incumbent, cohort, entry, score, crownVars>>,
         pc' = [pc EXCEPT ![w] = "idle"], claim' = [claim EXCEPT ![w] = 0],
         escaped' = escaped
  PROVE  Core'
<1>1. Claims'
  BY DEF IInv, Core, Claims, SoleOwner, TypeInv, Domains
<1>2. Sequential' /\ Apart' /\ Unsettled' /\ GateState' /\ BanState' /\ IncumbentFrozen' /\ NobodyStranded'
      /\ LeaderNotQueued' /\ HistoryNamesCrown' /\ LeaderBacked'
  BY DEF IInv, Core, subVars, crownVars, Sequential, Apart, Unsettled, GateState,
         BanState, Banned, IncumbentFrozen, Live, NobodyStranded, LeaderNotQueued,
         HistoryNamesCrown, LeaderBacked, EntriesOf
<1> QED
  BY <1>1, <1>2 DEF Core

\* create_round: the campaign is idle, so the new round is the only live one
\* and its cohort is exactly what becomes round_assigned.
LEMMA CreateCore ==
  ASSUME IInv, NEW v \in Watcher, CreateRound(v), escaped' = escaped
  PROVE  Core'
<1> USE DEF IInv, Core
<1> DEFINE C == Oldest(Queued)
           K == Keepers(C)
<1>1. K \subseteq C /\ C \subseteq Queued /\ C \subseteq Sub
  BY DEF Keepers, Oldest, Queued
<1>2. \A s \in C : state[s] = "bench_queued"
  BY <1>1 DEF Queued
<1>3. PICK o \in Ordinal :
        /\ rstatus[o] = "none"
        /\ \A p \in Ordinal : p < o => rstatus[p] # "none"
        /\ rstatus'   = [rstatus EXCEPT ![o] = "pending"]
        /\ incumbent' = [incumbent EXCEPT ![o] = leader.sub]
        /\ cohort'    = [cohort EXCEPT ![o] = K]
  BY DEF CreateRound
<1>4. /\ Idle
      /\ \A s \in C : state'[s] \in {"bench_queued", IF s \in K THEN "round_assigned"
                                                        ELSE "rejected"}
      /\ \A s \in Sub \ C : state'[s] = state[s]
      /\ UNCHANGED <<campaign, job, infra, action, winner, entry, score, stale, waiting,
                     crownVars, workerVars, condemned>>
  BY <1>1, <1>2 DEF CreateRound, Recheck
<1>5. \A p \in Ordinal : rstatus[p] \in {"none", "complete", "void"}
  BY <1>4 DEF Idle, Live, TypeInv, Domains
<1>6. /\ rstatus'[o] = "pending" /\ cohort'[o] = K /\ incumbent'[o] = leader.sub
      /\ \A p \in Ordinal \ {o} : /\ rstatus'[p] = rstatus[p]
                                  /\ cohort'[p] = cohort[p]
                                  /\ incumbent'[p] = incumbent[p]
  BY <1>3 DEF TypeInv, Domains
<1> HIDE DEF C, K
<1>7. Sequential'
  <2> SUFFICES ASSUME NEW q \in Ordinal, NEW p \in Ordinal, p < q, rstatus'[q] # "none"
               PROVE  rstatus'[p] \in {"complete", "void"}
    BY DEF Sequential
  <2>1. CASE q = o
    BY <1>3, <1>5, <1>6, <2>1, OrdinalNat
  <2>2. CASE q # o
    BY <1>3, <1>6, <2>2 DEF Sequential
  <2> QED
    BY <2>1, <2>2
<1>16. Apart'
  <2>1. leader.sub \notin K
    BY DEF CreateRound, K, C
  <2> QED
    BY <1>6, <2>1 DEF Apart
<1>8. Claims'
  BY <1>3, <1>4, <1>6 DEF Claims, SoleOwner, workerVars
<1>9. Unsettled'
  BY <1>3, <1>4, <1>6 DEF Unsettled
<1>10. GateState' /\ BanState'
  BY <1>1, <1>2, <1>4 DEF GateState, BanState, Banned
<1>11. IncumbentFrozen'
  BY <1>4, <1>5, <1>6 DEF IncumbentFrozen, Live, crownVars
<1>12. NobodyStranded'
  <2> SUFFICES ASSUME NEW s \in Sub
               PROVE  /\ state'[s] = "round_assigned" =>
                           (\E p \in Ordinal : Live(p)' /\ s \in cohort'[p])
                      /\ \A p \in Ordinal : Live(p)' /\ s \in cohort'[p] =>
                           state'[s] \in {"round_assigned", "bench_queued"}
    BY DEF NobodyStranded
  <2>1. state[s] # "round_assigned"
    BY <1>5 DEF NobodyStranded, Live
  <2>2. /\ state'[s] = "round_assigned" => s \in K
        /\ s \in K => state'[s] \in {"round_assigned", "bench_queued"}
    BY <1>1, <1>4, <2>1
  <2>3. \A p \in Ordinal : Live(p)' <=> p = o
    BY <1>5, <1>6 DEF Live
  <2> QED
    BY <1>6, <2>2, <2>3
<1>13. LeaderNotQueued'
  <2> SUFFICES ASSUME leader.sub # NoSub PROVE state'[leader.sub] = state[leader.sub]
    BY <1>4 DEF LeaderNotQueued, crownVars
  <2>1. leader.sub \in Sub /\ state[leader.sub] \in {"scored", "disqualified"}
    BY DEF LeaderNotQueued, TypeInv, Domains, LeaderRow
  <2> QED
    BY <1>1, <1>2, <1>4, <2>1
<1>14. HistoryNamesCrown'
  BY <1>4 DEF HistoryNamesCrown, crownVars
<1>15. LeaderBacked'
  BY <1>3, <1>4, <1>6 DEF LeaderBacked, crownVars, EntriesOf
<1> QED
  BY <1>7, <1>8, <1>9, <1>10, <1>11, <1>12, <1>13, <1>14, <1>15, <1>16

\* Voiding the live round returns its whole cohort to the queue, whatever the
\* pod streamed about it, and disturbs nobody else.
LEMMA VoidToCore ==
  ASSUME IInv, NEW o \in Ordinal, VoidTo(o),
         UNCHANGED <<job, action, incumbent, cohort, score, crownVars, escaped>>,
         Claims'
  PROVE  Core'
<1> USE DEF IInv, Core
<1>1. /\ rstatus[o] = "running"
      /\ rstatus' = [rstatus EXCEPT ![o] = "void"]
  BY DEF VoidTo
<1>2. rstatus'[o] = "void" /\ \A p \in Ordinal \ {o} : rstatus'[p] = rstatus[p]
  BY <1>1 DEF TypeInv, Domains
<1>3. \A p \in Ordinal : Live(p) <=> p = o
  BY <1>1, LiveIsUnique DEF OneLiveRound, Live
<1>4. /\ \A s \in Sub : state[s] = "round_assigned" => s \in cohort[o]
      /\ \A s \in cohort[o] \cap Sub :
           \/ state[s] \in {"round_assigned", "bench_queued"}
           \/ state[s] = "disqualified" /\ s \in escaped
  BY <1>3 DEF NobodyStranded
<1>5. \A p \in Ordinal \ {o} : entry'[p] = entry[p]
  BY DEF VoidTo, Requeue, TypeInv, Domains
<1>6. \A s \in Sub : state'[s] = IF s \in cohort[o] THEN "bench_queued" ELSE state[s]
  <2> DEFINE reset == [s \in Sub |-> IF entry[o][s] = "disqualified" /\ s \in EntriesOf(o)
                                     THEN "pending" ELSE entry[o][s]]
  <2>1. state' = [s \in Sub |-> IF s \in cohort[o] /\ reset[s] \notin Settled
                                THEN "bench_queued" ELSE state[s]]
    BY DEF VoidTo, Requeue
  <2>2. ASSUME NEW s \in Sub, s \in cohort[o] PROVE reset[s] \notin Settled
    <3>1. entry[o][s] # "scored"
      BY <1>1 DEF Unsettled
    <3> QED
      BY <2>2, <3>1 DEF EntriesOf, Settled
  <2> HIDE DEF reset
  <2> QED
    BY <2>1, <2>2
<1>7. Sequential' /\ Apart'
  BY <1>1, <1>2 DEF Sequential, Apart
<1>8. Unsettled'
  BY <1>2, <1>5 DEF Unsettled
<1>9. GateState' /\ BanState'
  BY <1>4, <1>6 DEF GateState, BanState, Banned
<1>10. IncumbentFrozen'
  BY <1>2, <1>3 DEF IncumbentFrozen, Live
<1>11. NobodyStranded'
  BY <1>2, <1>3, <1>4, <1>6 DEF NobodyStranded, Live
<1>12. LeaderNotQueued'
  <2> SUFFICES ASSUME leader.sub # NoSub PROVE state'[leader.sub] = state[leader.sub]
    BY DEF LeaderNotQueued, crownVars
  <2>1. leader.sub \in Sub /\ state[leader.sub] \in {"scored", "disqualified"}
    BY DEF LeaderNotQueued, TypeInv, Domains, LeaderRow
  <2>2. leader.sub \notin cohort[o]
    BY <1>1 DEF Apart, IncumbentFrozen, Live
  <2> QED
    BY <1>6, <2>1, <2>2
<1>13. HistoryNamesCrown'
  BY DEF HistoryNamesCrown, crownVars
<1>14. LeaderBacked'
  BY <1>1, <1>2, <1>5 DEF LeaderBacked, crownVars, EntriesOf
<1> QED
  BY <1>7, <1>8, <1>9, <1>10, <1>11, <1>12, <1>13, <1>14

\* The reaper and the clock.
LEMMA TimeCore ==
  ASSUME IInv,
         ReapStaleRounds \/ \E o \in Ordinal : GoStale(o) \/ RetryElapsed(o),
         escaped' = escaped
  PROVE  Core'
<1>1. CASE ReapStaleRounds
  <2>1. PICK o \in stale : VoidTo(o)
    BY <1>1 DEF ReapStaleRounds
  <2>2. UNCHANGED <<job, action, incumbent, cohort, score, crownVars>> /\ UNCHANGED <<pc, claim>>
    BY <1>1 DEF ReapStaleRounds, workerVars
  <2>3. o \in Ordinal /\ rstatus' = [rstatus EXCEPT ![o] = "void"]
    BY <2>1 DEF IInv, TypeInv, Domains, VoidTo
  <2>4. Claims'
    BY <2>2, <2>3 DEF IInv, Core, Claims, SoleOwner, TypeInv, Domains
  <2> QED
    BY <2>1, <2>2, <2>3, <2>4, VoidToCore
<1>2. CASE \E o \in Ordinal : GoStale(o) \/ RetryElapsed(o)
  BY <1>2, IdleStepCore DEF GoStale, RetryElapsed, workerVars
<1> QED
  BY <1>1, <1>2

\* A claim takes a pending round, which no worker holds.
LEMMA ClaimCore ==
  ASSUME IInv, NEW w \in Worker, ClaimRound(w), escaped' = escaped
  PROVE  Core'
<1> USE DEF IInv, Core
<1>1. PICK o \in Ordinal : /\ rstatus[o] = "pending"
                           /\ rstatus' = [rstatus EXCEPT ![o] = "running"]
                           /\ claim' = [claim EXCEPT ![w] = o]
  BY DEF ClaimRound
<1>2. /\ pc[w] = "idle"
      /\ pc' = [pc EXCEPT ![w] = "claimed"]
      /\ UNCHANGED <<subVars, incumbent, cohort, entry, score, crownVars>>
  BY DEF ClaimRound
<1>3. rstatus'[o] = "running" /\ \A p \in Ordinal \ {o} : rstatus'[p] = rstatus[p]
  BY <1>1 DEF TypeInv, Domains
<1>4. \A p \in Ordinal : Live(p)' <=> Live(p)
  BY <1>1, <1>3 DEF Live
<1>5. Sequential' /\ Apart' /\ Unsettled'
  BY <1>1, <1>2, <1>3 DEF Sequential, Apart, Unsettled
<1>6. Claims'
  <2>1. /\ pc'[w] = "claimed" /\ claim'[w] = o
        /\ \A u \in Worker \ {w} : pc'[u] = pc[u] /\ claim'[u] = claim[u]
    BY <1>1, <1>2 DEF TypeInv, Domains
  <2>2. \A u \in Worker : claim[u] # o
    BY <1>1, OrdinalNat DEF Claims, SoleOwner, Ordinal
  <2> QED
    BY <1>3, <2>1, <2>2 DEF Claims, SoleOwner
<1>7. GateState' /\ BanState' /\ LeaderNotQueued' /\ HistoryNamesCrown'
  BY <1>2 DEF subVars, crownVars, GateState, BanState, Banned, LeaderNotQueued, HistoryNamesCrown
<1>8. IncumbentFrozen' /\ NobodyStranded'
  BY <1>2, <1>4 DEF subVars, crownVars, IncumbentFrozen, NobodyStranded
<1>9. LeaderBacked'
  BY <1>1, <1>2, <1>3 DEF crownVars, LeaderBacked, EntriesOf
<1> QED
  BY <1>5, <1>6, <1>7, <1>8, <1>9

\* A deferral gives the round back, and only its holder can give it back.
LEMMA DeferCore ==
  ASSUME IInv, NEW w \in Worker, DeferRound(w), escaped' = escaped
  PROVE  Core'
<1> USE DEF IInv, Core
<1> DEFINE o == claim[w]
<1>1. /\ pc[w] # "idle" /\ o \in Ordinal
      /\ pc' = [pc EXCEPT ![w] = "idle"]
      /\ claim' = [claim EXCEPT ![w] = 0]
      /\ UNCHANGED <<subVars, incumbent, cohort, entry, score, crownVars>>
  BY DEF DeferRound, TypeInv, Referenced
<1>2. CASE rstatus[o] # "running"
  <2>1. UNCHANGED rstatus
    BY <1>2 DEF DeferRound
  <2> QED
    BY <1>1, <2>1, DropCore
<1>3. CASE rstatus[o] = "running"
  <2>1. rstatus' = [rstatus EXCEPT ![o] = "pending"]
    BY <1>3 DEF DeferRound
  <2>2. rstatus'[o] = "pending" /\ \A p \in Ordinal \ {o} : rstatus'[p] = rstatus[p]
    BY <1>1, <2>1 DEF TypeInv, Domains
  <2>3. \A p \in Ordinal : Live(p)' <=> Live(p)
    BY <1>3, <2>2 DEF Live
  <2>4. Sequential' /\ Apart' /\ Unsettled'
    BY <1>1, <1>3, <2>2 DEF Sequential, Apart, Unsettled
  <2>5. Claims'
    <3>1. /\ pc'[w] = "idle" /\ claim'[w] = 0
          /\ \A u \in Worker \ {w} : pc'[u] = pc[u] /\ claim'[u] = claim[u]
      BY <1>1 DEF TypeInv, Domains
    <3>2. \A u \in Worker \ {w} : claim[u] # o
      BY <1>1, OrdinalNat DEF Claims, SoleOwner, Ordinal
    <3> QED
      BY <2>2, <3>1, <3>2 DEF Claims, SoleOwner
  <2>6. GateState' /\ BanState' /\ LeaderNotQueued' /\ HistoryNamesCrown'
    BY <1>1 DEF subVars, crownVars, GateState, BanState, Banned, LeaderNotQueued, HistoryNamesCrown
  <2>7. IncumbentFrozen' /\ NobodyStranded'
    BY <1>1, <2>3 DEF subVars, crownVars, IncumbentFrozen, NobodyStranded
  <2>8. LeaderBacked'
    BY <1>1, <1>3, <2>2 DEF crownVars, LeaderBacked, EntriesOf
  <2> QED
    BY <2>4, <2>5, <2>6, <2>7, <2>8
<1> QED
  BY <1>2, <1>3

\* A live beacon writes an entry of the running round, never "scored".
LEMMA LiveStatusCore ==
  ASSUME IInv, NEW w \in Worker, NEW s \in Sub, NEW st \in Beacon, LiveStatus(w, s, st),
         escaped' = escaped
  PROVE  Core'
<1> USE DEF IInv, Core
<1> DEFINE o == claim[w]
<1>1. /\ o \in Ordinal /\ rstatus[o] = "running"
      /\ entry' = [entry EXCEPT ![o] = [entry[o] EXCEPT ![s] = st]]
      /\ UNCHANGED <<subVars, rstatus, incumbent, cohort, score, crownVars>>
      /\ UNCHANGED <<pc, claim>>
  BY DEF LiveStatus, TypeInv, Referenced, workerVars
<1>2. \A p \in Ordinal \ {o} : entry'[p] = entry[p]
  BY <1>1 DEF TypeInv, Domains
<1>3. \A t \in Sub : entry'[o][t] = IF t = s THEN st ELSE entry[o][t]
  BY <1>1 DEF TypeInv, Domains
<1>4. Unsettled'
  BY <1>1, <1>2, <1>3 DEF Unsettled, Beacon
<1>5. LeaderBacked'
  BY <1>1, <1>2 DEF LeaderBacked, crownVars, EntriesOf
<1>6. /\ Sequential' /\ Apart' /\ Claims' /\ GateState' /\ BanState' /\ IncumbentFrozen'
      /\ NobodyStranded' /\ LeaderNotQueued' /\ HistoryNamesCrown'
  BY <1>1 DEF subVars, crownVars, Sequential, Apart, Claims, SoleOwner, GateState, BanState, Banned,
              IncumbentFrozen, Live, NobodyStranded, LeaderNotQueued, HistoryNamesCrown
<1> QED
  BY <1>4, <1>5, <1>6

\* The overtake rule keeps a newcomer above the baseline.
LEMMA ClearsAboveBaseline ==
  ASSUME NEW rep \in Report, NEW lead \in Sub \cup {NoSub}, NEW s \in Sub, Clears(rep, lead, s)
  PROVE  rep.score[s] > 0
<1>1. rep.score[s] \in Int /\ (lead \in Sub => rep.score[lead] \in Int)
  BY ScoreAssumption DEF Report
<1>2. CASE ~Holds(rep, lead)
  BY <1>2 DEF Clears
<1>3. CASE Holds(rep, lead)
  <2>1. lead \in Sub /\ rep.score[lead] > 0 /\ rep.score[lead] \in Int
    BY <1>1, <1>3 DEF Holds
  <2>2. rep.score[s] * EpsDen > rep.score[lead] * (EpsDen + EpsNum)
    BY <1>3 DEF Clears
  <2>3. \A x1, x2 \in Int, d \in Nat \ {0}, n \in Nat :
           x2 > 0 /\ x1 * d > x2 * (d + n) => x1 > 0
    OBVIOUS
  <2> QED
    BY <1>1, <2>1, <2>2, <2>3, EpsAssumption
<1> QED
  BY <1>2, <1>3

\* Settling a round writes a crown that its own record backs.
LEMMA CrownCore ==
  ASSUME IInv, NEW w \in Worker, NEW o \in Ordinal, Crown(w, o),
         rstatus[o] = "running",
         rstatus' = [rstatus EXCEPT ![o] = "complete"],
         UNCHANGED <<incumbent, cohort, escaped>>,
         \A s \in EntriesOf(o) :
           /\ entry'[o][s] = report[w].status[s]
           /\ score'[o][s] = report[w].score[s]
           /\ state'[s] = SettledState(s, o, report[w].status[s])
  PROVE  LeaderNotQueued' /\ HistoryNamesCrown' /\ LeaderBacked'
<1> USE DEF IInv, Core
<1> DEFINE rep == report[w]
           lead == incumbent[o]
           S == Contenders(rep, lead, cohort[o])
<1>1. /\ rep \in Report /\ lead \in Sub \cup {NoSub} /\ lead = leader.sub
      /\ cohort[o] \subseteq Sub
  BY DEF TypeInv, Domains, IncumbentFrozen, Live
<1>2. rstatus'[o] = "complete" /\ \A p \in Ordinal \ {o} : rstatus'[p] = rstatus[p]
  BY DEF TypeInv, Domains
<1>3. \A p \in Ordinal : rstatus[p] = "complete" => p <= o
  BY OrdinalNat DEF Sequential
<1>4. ASSUME NEW s \in Sub, s \in EntriesOf(o), rep.status[s] = "scored", rep.score[s] > 0,
             leader' = Seat(s, o, rep.score[s])
      PROVE  LeaderNotQueued' /\ LeaderBacked' /\ leader'.sub = s
  <2>1. /\ leader'.sub = s /\ leader'.scoredAt = o /\ leader'.score = rep.score[s]
        /\ leader'.wonAt = IF leader.sub = s THEN leader.wonAt ELSE o
    BY <1>4 DEF Seat
  <2>2. state'[s] = "scored" /\ entry'[o][s] = "scored" /\ score'[o][s] = rep.score[s]
    BY <1>4 DEF SettledState
  <2>3. leader'.wonAt \in Ordinal /\ leader'.wonAt <= o /\ rstatus'[leader'.wonAt] = "complete"
    <3>1. CASE leader.sub = s
      BY <1>2, <1>3, <2>1, <3>1, NoSubAssumption DEF LeaderBacked
    <3>2. CASE leader.sub # s
      BY <1>2, <2>1, <3>2, OrdinalNat
    <3> QED
      BY <3>1, <3>2
  <2>4. s \in EntriesOf(o)'
    BY <1>4 DEF EntriesOf
  <2> QED
    BY <1>2, <1>4, <2>1, <2>2, <2>3, <2>4, NoSubAssumption DEF LeaderNotQueued, LeaderBacked
<1>5. ASSUME NEW s \in S,
             leader' = Seat(s, o, rep.score[s]),
             history'.new = s
      PROVE  LeaderNotQueued' /\ HistoryNamesCrown' /\ LeaderBacked'
  <2>1. s \in Sub /\ s \in EntriesOf(o) /\ rep.status[s] = "scored" /\ Clears(rep, lead, s)
    BY <1>1 DEF Contenders, EntriesOf
  <2>2. rep.score[s] > 0
    BY <1>1, <2>1, ClearsAboveBaseline
  <2> QED
    BY <1>4, <1>5, <2>1, <2>2 DEF HistoryNamesCrown
<1>6. CASE /\ leader' = Vacant /\ history'.new = NoSub
  BY <1>6 DEF Vacant, LeaderNotQueued, HistoryNamesCrown, LeaderBacked
<1>7. CASE /\ Holds(rep, lead)
           /\ leader' = Seat(lead, o, rep.score[lead])
           /\ UNCHANGED history
  <2>1. lead \in Sub /\ lead \in EntriesOf(o) /\ rep.status[lead] = "scored" /\ rep.score[lead] > 0
    BY <1>1, <1>7 DEF Holds, EntriesOf
  <2> QED
    BY <1>1, <1>4, <1>7, <2>1 DEF HistoryNamesCrown
<1>8. CASE lead = NoSub /\ UNCHANGED <<leader, history>>
  BY <1>1, <1>8 DEF LeaderNotQueued, HistoryNamesCrown, LeaderBacked
<1> QED
  <2>1. \/ \E s \in S : /\ leader' = Seat(s, o, rep.score[s])
                        /\ history'.new = s
        \/ leader' = Vacant /\ history'.new = NoSub
        \/ /\ Holds(rep, lead)
           /\ leader' = Seat(lead, o, rep.score[lead])
           /\ UNCHANGED history
        \/ lead = NoSub /\ UNCHANGED <<leader, history>>
    BY DEF Crown, Row
  <2> QED
    BY <1>5, <1>6, <1>7, <1>8, <2>1

\* Settling the live round: its entries get their verdicts, the crown is decided.
LEMMA CompleteCore ==
  ASSUME IInv, NEW w \in Worker, CompleteRound(w), escaped' = escaped
  PROVE  Core'
<1> USE DEF IInv, Core
<1> DEFINE o == claim[w]
           rep == report[w]
           E == EntriesOf(o)
<1>1. /\ pc[w] # "idle" /\ o \in Ordinal /\ rep \in Report
      /\ cohort[o] \subseteq Sub /\ E \subseteq Sub
      /\ pc' = [pc EXCEPT ![w] = "idle"]
      /\ claim' = [claim EXCEPT ![w] = 0]
      /\ UNCHANGED <<job, action, incumbent, cohort>>
  BY DEF CompleteRound, TypeInv, Domains, Referenced, EntriesOf
<1>2. CASE rstatus[o] # "running"
  <2>1. UNCHANGED <<rstatus, entry, score, state, infra, crownVars>>
    BY <1>2 DEF CompleteRound
  <2> QED
    BY <1>1, <2>1, DropCore DEF subVars
<1>3. CASE rstatus[o] = "running"
  <2>1. /\ rstatus' = [rstatus EXCEPT ![o] = "complete"]
        /\ entry' = [entry EXCEPT ![o] =
                       [s \in Sub |-> IF s \in E THEN rep.status[s] ELSE entry[o][s]]]
        /\ score' = [score EXCEPT ![o] =
                       [s \in Sub |-> IF s \in E THEN rep.score[s] ELSE score[o][s]]]
        /\ state' = [s \in Sub |-> IF s \in E THEN SettledState(s, o, rep.status[s])
                                   ELSE state[s]]
        /\ Crown(w, o)
    BY <1>3 DEF CompleteRound
  <2>2. rstatus'[o] = "complete" /\ \A p \in Ordinal \ {o} : rstatus'[p] = rstatus[p]
    BY <1>1, <2>1 DEF TypeInv, Domains
  <2>3. /\ \A s \in E : /\ entry'[o][s] = rep.status[s]
                        /\ score'[o][s] = rep.score[s]
                        /\ state'[s] = SettledState(s, o, rep.status[s])
        /\ \A s \in Sub \ E : state'[s] = state[s]
        /\ \A p \in Ordinal \ {o} : entry'[p] = entry[p] /\ score'[p] = score[p]
    BY <1>1, <2>1 DEF TypeInv, Domains
  <2>4. \A p \in Ordinal : Live(p) <=> p = o
    BY <1>1, <1>3, LiveIsUnique DEF OneLiveRound, Live
  <2>5. \A s \in E : \/ state[s] \in {"round_assigned", "bench_queued", "scored"}
                     \/ state[s] = "disqualified" /\ s \in escaped
    <3>1. \A s \in cohort[o] : \/ state[s] \in {"round_assigned", "bench_queued"}
                               \/ state[s] = "disqualified" /\ s \in escaped
      BY <1>1, <2>4 DEF NobodyStranded
    <3>2. incumbent[o] = leader.sub
      BY <1>1, <2>4 DEF IncumbentFrozen
    <3> QED
      BY <3>1, <3>2 DEF EntriesOf, LeaderNotQueued
  <2>6. \A s \in E : SettledState(s, o, rep.status[s]) # "round_assigned"
    BY <1>1 DEF SettledState, Report, Verdict
  <2>7. Sequential' /\ Apart' /\ Unsettled'
    <3>1. Sequential'
      BY <1>3, <2>2 DEF Sequential
    <3>2. Apart'
      BY <1>1 DEF Apart
    <3>3. Unsettled'
      BY <2>2, <2>3 DEF Unsettled
    <3> QED
      BY <3>1, <3>2, <3>3
  <2>8. Claims'
    <3>1. /\ pc'[w] = "idle" /\ claim'[w] = 0
          /\ \A u \in Worker \ {w} : pc'[u] = pc[u] /\ claim'[u] = claim[u]
      BY <1>1 DEF TypeInv, Domains
    <3>2. \A u \in Worker \ {w} : claim[u] # o
      BY <1>1, OrdinalNat DEF Claims, SoleOwner, Ordinal
    <3> QED
      BY <2>2, <3>1, <3>2 DEF Claims, SoleOwner
  <2>9. GateState' /\ BanState'
    <3>1. \A s \in E : job[s] \notin {"pending", "running"}
      BY <1>1, <2>5 DEF GateState
    <3>2. GateState'
      BY <1>1, <2>3, <3>1 DEF GateState
    <3>3. \A s \in E : Banned(hotkeyOf[s]) => s \in escaped
      BY <1>1, <2>5 DEF BanState
    <3>4. BanState'
      BY <1>1, <2>3, <3>3 DEF BanState, Banned
    <3> QED
      BY <3>2, <3>4
  <2>10. IncumbentFrozen'
    BY <2>2, <2>4 DEF IncumbentFrozen, Live
  <2>11. NobodyStranded'
    <3>1. \A p \in Ordinal : ~Live(p)'
      BY <2>2, <2>4 DEF Live
    <3>2. \A s \in Sub \ E : state[s] # "round_assigned"
      BY <2>4 DEF NobodyStranded, EntriesOf
    <3> QED
      BY <2>3, <2>6, <3>1, <3>2 DEF NobodyStranded
  <2>12. LeaderNotQueued' /\ HistoryNamesCrown' /\ LeaderBacked'
    BY <1>1, <1>3, <2>1, <2>3, CrownCore
  <2> QED
    BY <2>7, <2>8, <2>9, <2>10, <2>11, <2>12
<1> QED
  BY <1>2, <1>3

\* Everything a round worker does.
LEMMA WorkCore ==
  ASSUME IInv, NEW w \in Worker, Work(w), escaped' = escaped
  PROVE  Core'
<1>1. CASE ClaimRound(w)
  BY <1>1, ClaimCore
<1>2. CASE StartBench(w) \/ RankReport(w)
  <2>1. /\ pc[w] # "idle" /\ pc'[w] # "idle"
        /\ \A u \in Worker \ {w} : pc'[u] = pc[u]
        /\ UNCHANGED <<subVars, rstatus, incumbent, cohort, entry, score, crownVars, claim>>
    BY <1>2 DEF StartBench, RankReport, IInv, TypeInv, Domains, roundVars
  <2>2. Claims'
    BY <2>1 DEF IInv, Core, Claims, SoleOwner
  <2>3. /\ Sequential' /\ Apart' /\ Unsettled' /\ GateState' /\ BanState' /\ IncumbentFrozen'
        /\ NobodyStranded' /\ LeaderNotQueued' /\ HistoryNamesCrown' /\ LeaderBacked'
    BY <2>1 DEF IInv, Core, subVars, crownVars, Sequential, Apart, Unsettled, GateState, BanState,
                Banned, IncumbentFrozen, Live, NobodyStranded, LeaderNotQueued,
                HistoryNamesCrown, LeaderBacked, EntriesOf
  <2> QED
    BY <2>2, <2>3 DEF Core
<1>3. CASE Heartbeat(w)
  BY <1>3, IdleStepCore DEF Heartbeat, workerVars
<1>4. ASSUME NEW s \in Sub, NEW st \in Beacon, LiveStatus(w, s, st) PROVE Core'
  BY <1>4, LiveStatusCore
<1>5. CASE DeferRound(w)
  BY <1>5, DeferCore
<1>6. CASE CompleteRound(w)
  BY <1>6, CompleteCore
<1>7. CASE VoidRound(w)
  <2> DEFINE o == claim[w]
  <2>1. /\ o \in Ordinal
        /\ pc' = [pc EXCEPT ![w] = "idle"]
        /\ claim' = [claim EXCEPT ![w] = 0]
        /\ UNCHANGED <<job, infra, action, incumbent, cohort, score, crownVars>>
    BY <1>7 DEF VoidRound, IInv, TypeInv, Referenced
  <2>2. CASE VoidTo(o)
    <3>1. rstatus' = [rstatus EXCEPT ![o] = "void"]
      BY <2>2 DEF VoidTo
    <3>2. Claims'
      BY <2>1, <3>1 DEF IInv, Core, Claims, SoleOwner, TypeInv, Domains
    <3> QED
      BY <2>1, <2>2, <3>2, VoidToCore
  <2>3. CASE UNCHANGED <<rstatus, stale, entry, state>>
    BY <2>1, <2>3, DropCore DEF subVars
  <2> QED
    BY <1>7, <2>2, <2>3 DEF VoidRound
<1>8. CASE WorkerCrash(w)
  BY <1>8, DropCore DEF WorkerCrash, roundVars
<1> QED
  BY <1>1, <1>2, <1>3, <1>4, <1>5, <1>6, <1>7, <1>8 DEF Work

\* An exclusion waits for an idle campaign and idle gates, then leaves nothing
\* of the hotkey behind and a crown the last scored round backs.
LEMMA DisqualifyCore == ASSUME IInv, NEW h \in Hotkey, Disqualify(h) PROVE Core'
<1> USE DEF IInv, Core
<1> DEFINE mine == {s \in Own(h) : state[s] # "absent"}
           created == ~Banned(h)
           R == RunnersUp(state', action')
<1>1. PICK missed \in SUBSET (later \cap (mine \cup {h})) :
      /\ Idle
      /\ \A s \in mine : job[s] # "running"
      /\ job' = [s \in Sub |-> IF s \in mine /\ job[s] = "pending" THEN "done" ELSE job[s]]
      /\ state' = [s \in Sub |-> IF created /\ s \in mine \ missed THEN "disqualified"
                                 ELSE state[s]]
      /\ action' = IF h \in missed THEN action ELSE [action EXCEPT ![h] = "disqualified"]
      /\ escaped' = IF created THEN (escaped \ mine) \cup (missed \cap mine) ELSE escaped
      /\ UNCHANGED <<rstatus, incumbent, cohort, entry, score, pc, claim>>
  BY DEF Disqualify, GatesBusy, RunnersUp, roundVars, workerVars
<1>2. \A p \in Ordinal : ~Live(p) /\ ~Live(p)'
  BY <1>1 DEF Idle, Live
<1>3. \A k \in Hotkey : action'[k] = "disqualified" => k = h \/ action[k] = "disqualified"
  BY <1>1 DEF TypeInv, Domains
<1>4. Sequential' /\ Apart' /\ Claims' /\ Unsettled' /\ IncumbentFrozen'
  BY <1>1, <1>2 DEF Sequential, Apart, Claims, SoleOwner, Unsettled, IncumbentFrozen
<1>5. GateState'
  BY <1>1 DEF GateState, TypeInv, Domains
<1>6. BanState'
  <2> SUFFICES ASSUME NEW s \in Sub, action'[hotkeyOf[s]] = "disqualified"
               PROVE  /\ job'[s] \notin {"pending", "running"}
                      /\ s \notin escaped' => state'[s] \in {"absent", "disqualified"}
    BY DEF BanState, Banned
  <2>1. CASE s \in mine
    <3>1. job'[s] \notin {"pending", "running"}
      BY <1>1, <2>1
    <3>2. CASE created
      BY <1>1, <2>1, <3>1, <3>2
    <3>3. CASE ~created
      BY <1>1, <2>1, <3>1, <3>3 DEF BanState, Own
    <3> QED
      BY <3>2, <3>3
  <2>2. CASE s \in Own(h) \ mine
    BY <1>1, <2>2 DEF GateState
  <2>3. CASE s \notin Own(h)
    <3>1. action[hotkeyOf[s]] = "disqualified" /\ s \notin mine
      BY <1>3, <2>3, HotkeyAssumption DEF Own
    <3>2. /\ job[s] \notin {"pending", "running"}
          /\ s \notin escaped => state[s] \in {"absent", "disqualified"}
      BY <3>1 DEF BanState, Banned
    <3> QED
      BY <1>1, <3>1, <3>2
  <2> QED
    BY <2>1, <2>2, <2>3
<1>7. NobodyStranded'
  BY <1>1, <1>2 DEF NobodyStranded
<1>8. CASE leader.sub \notin mine /\ UNCHANGED crownVars
  <2>1. HistoryNamesCrown' /\ LeaderBacked'
    BY <1>1, <1>8 DEF crownVars, HistoryNamesCrown, LeaderBacked, EntriesOf
  <2>2. LeaderNotQueued'
    <3> SUFFICES ASSUME leader.sub # NoSub
                 PROVE  /\ state'[leader.sub] = state[leader.sub]
                        /\ leader.sub \in escaped => leader.sub \in escaped'
      BY <1>8 DEF LeaderNotQueued, crownVars
    <3>1. leader.sub \in Sub
      BY DEF TypeInv, Domains, LeaderRow
    <3> QED
      BY <1>1, <1>8, <3>1
  <2> QED
    BY <1>4, <1>5, <1>6, <1>7, <2>1, <2>2
<1>9. CASE leader' = Vacant /\ history' = Row("vacated", NoSub, leader.sub, leader.score)
  <2>1. HistoryNamesCrown' /\ LeaderBacked' /\ LeaderNotQueued'
    BY <1>9 DEF Vacant, Row, HistoryNamesCrown, LeaderBacked, LeaderNotQueued
  <2> QED
    BY <1>4, <1>5, <1>6, <1>7, <2>1
<1>10. ASSUME leader.sub \in mine, NEW s \in R,
              leader' = [sub |-> s, wonAt |-> leader.scoredAt, scoredAt |-> leader.scoredAt,
                         score |-> score[leader.scoredAt][s]],
              history' = Row("seated", s, NoSub, 0)
       PROVE  Core'
  <2>1. leader.scoredAt \in Ordinal /\ rstatus[leader.scoredAt] = "complete"
    BY <1>10, NoSubAssumption DEF LeaderBacked, Own
  <2>2. /\ s \in EntriesOf(leader.scoredAt) /\ entry[leader.scoredAt][s] = "scored"
        /\ score[leader.scoredAt][s] > 0 /\ state'[s] = "scored"
    BY <1>10, Zenon DEF RunnersUp
  <2>3. s \in Sub
    BY <2>1, <2>2 DEF EntriesOf, TypeInv, Domains
  <2>4. /\ leader'.sub = s /\ leader'.wonAt = leader.scoredAt
        /\ leader'.scoredAt = leader.scoredAt
        /\ leader'.score = score[leader.scoredAt][s]
    BY <1>10
  <2>5. s \in cohort'[leader'.scoredAt] \cup ({incumbent'[leader'.scoredAt]} \ {NoSub})
    BY <1>1, <2>2, <2>4 DEF EntriesOf
  <2>6. LeaderBacked'
    <3>1. /\ rstatus'[leader'.wonAt] = "complete" /\ rstatus'[leader'.scoredAt] = "complete"
          /\ leader'.wonAt \in Ordinal /\ leader'.scoredAt \in Ordinal
      BY <1>1, <2>1, <2>4
    <3>3. leader'.wonAt <= leader'.scoredAt
      <4>1. leader.scoredAt \in Nat
        BY <2>1, OrdinalNat
      <4>2. leader.scoredAt <= leader.scoredAt
        BY <4>1
      <4> QED
        BY <2>4, <4>2
    <3>2. /\ entry'[leader'.scoredAt][leader'.sub] = "scored"
          /\ score'[leader'.scoredAt][leader'.sub] = leader'.score
          /\ leader'.score > 0 /\ leader'.sub \in Sub
      BY <1>1, <2>2, <2>3, <2>4
    <3> QED
      BY <2>4, <2>5, <3>1, <3>2, <3>3 DEF LeaderBacked, EntriesOf
  <2>7. HistoryNamesCrown' /\ LeaderNotQueued'
    BY <1>10, <2>2, <2>4 DEF Row, HistoryNamesCrown, LeaderNotQueued
  <2> QED
    BY <1>4, <1>5, <1>6, <1>7, <2>6, <2>7
<1> QED
  BY <1>8, <1>9, <1>10, DisqualifyCrown

\* Operators and the weights process.
LEMMA OperateCore ==
  ASSUME IInv, Operate \/ ListIdleLeaders \/ VacateLeader, escaped' = escaped
  PROVE  Core'
<1>1. ASSUME NEW c \in {"open", "closed"}, SetCampaign(c) PROVE Core'
  BY <1>1, IdleStepCore DEF SetCampaign, roundVars, workerVars
<1>3. ASSUME NEW h \in Hotkey, Waive(h) PROVE Core'
  <2> USE DEF IInv, Core
  <2>1. PICK s \in Sub : /\ hotkeyOf[s] = h /\ state[s] # "absent"
                         /\ state' = [state EXCEPT ![s] = "disqualified"]
    BY <1>3 DEF Waive
  <2>2. /\ Banned(h) /\ action' = [action EXCEPT ![h] = "waived"]
        /\ UNCHANGED <<job, roundVars, crownVars, workerVars>>
    BY <1>3 DEF Waive
  <2>3. \A t \in Sub : \/ state'[t] = state[t]
                       \/ t \in escaped /\ state'[t] = "disqualified"
    BY <2>1, <2>2 DEF BanState, TypeInv, Domains
  <2>4. \A t \in Sub : state'[t] = "round_assigned" => state[t] = "round_assigned"
    BY <2>3
  <2>5. BanState'
    BY <2>2, <2>3, HotkeyAssumption DEF BanState, Banned, TypeInv, Domains
  <2>6. GateState'
    <3>1. job[s] \notin {"pending", "running"}
      BY <2>1, <2>2 DEF BanState
    <3>2. \A t \in Sub \ {s} : state'[t] = state[t]
      BY <2>1 DEF TypeInv, Domains
    <3> QED
      BY <2>2, <3>1, <3>2 DEF GateState
  <2>7. LeaderNotQueued'
    <3>1. leader.sub # NoSub => leader.sub \in Sub
      BY DEF TypeInv, Domains, LeaderRow
    <3> QED
      BY <2>2, <2>3, <3>1 DEF LeaderNotQueued, crownVars
  <2>8. NobodyStranded'
    BY <2>2, <2>3, <2>4 DEF NobodyStranded, Live, roundVars
  <2> QED
    BY <2>2, <2>5, <2>6, <2>7, <2>8 DEF roundVars, crownVars, workerVars, Sequential, Apart,
       Claims, SoleOwner, Unsettled, IncumbentFrozen, Live, HistoryNamesCrown, LeaderBacked,
       EntriesOf
<1>4. CASE ListIdleLeaders
  BY <1>4, IdleStepCore DEF ListIdleLeaders, roundVars, workerVars
<1>5. CASE VacateLeader
  <2> USE DEF IInv, Core
  <2>1. UNCHANGED <<subVars, roundVars, workerVars>>
    BY <1>5 DEF VacateLeader
  <2>2. CASE UNCHANGED crownVars
    BY <2>1, <2>2, IdleStepCore DEF roundVars, workerVars
  <2>3. CASE /\ Idle /\ leader' = Vacant
             /\ history' = Row("vacated", NoSub, leader.sub, leader.score)
    <3>1. IncumbentFrozen' /\ LeaderNotQueued' /\ HistoryNamesCrown' /\ LeaderBacked'
      BY <2>1, <2>3 DEF roundVars, Idle, Live, IncumbentFrozen, LeaderNotQueued, Vacant, Row,
                        HistoryNamesCrown, LeaderBacked
    <3>2. /\ Sequential' /\ Apart' /\ Claims' /\ Unsettled' /\ GateState' /\ BanState' /\ NobodyStranded'
      BY <2>1 DEF roundVars, workerVars, subVars, Sequential, Apart, Claims, SoleOwner, Unsettled,
                  GateState, BanState, Banned, NobodyStranded, Live
    <3> QED
      BY <3>1, <3>2
  <2> QED
    BY <1>5, <2>2, <2>3, Zenon DEF VacateLeader
<1> QED
  BY <1>1, <1>3, <1>4, <1>5 DEF Operate

\* Every step of the round engine keeps the invariant.
LEMMA NextIInv == IInv /\ [Next]_vars => IInv'
<1> SUFFICES ASSUME IInv, [Next]_vars PROVE IInv'
  OBVIOUS
<1>1. TypeInv'
  BY NextTypeInv DEF IInv
<1>2. CASE UNCHANGED vars
  <2>1. Core'
    BY <1>2, IdleStepCore
    DEF vars, engineVars, dateVars, subVars, roundVars, crownVars, workerVars
  <2> QED
    BY <1>1, <2>1 DEF IInv
<1>3. CASE Engine /\ Dated
  <2>1. escaped' = escaped
    BY <1>3 DEF Dated
  <2>2. ASSUME NEW v \in Watcher, Watch(v) PROVE Core'
    BY <2>1, <2>2, CreateCore, IdleStepCore DEF Watch, ScanQueue, CreateLoses, roundVars, workerVars
  <2>3. Core'
    BY <1>3, <2>1, <2>2, GatesCore, TimeCore, WorkCore, OperateCore DEF Engine
  <2> QED
    BY <1>1, <2>3 DEF IInv
<1>4. ASSUME NEW h \in Hotkey, BeginExclusion(h) \/ Disqualify(h) \/ EndExclusion(h) PROVE IInv'
  <2>1. ASSUME BeginExclusion(h) \/ EndExclusion(h) PROVE Core'
    BY <2>1, IdleStepCore
    DEF BeginExclusion, EndExclusion, engineVars, subVars, roundVars, crownVars, workerVars
  <2>2. Core'
    BY <1>4, <2>1, DisqualifyCore
  <2> QED
    BY <1>1, <2>2 DEF IInv
<1> QED
  BY <1>2, <1>3, <1>4 DEF Next

\* The invariant holds in every reachable state.
THEOREM Invariance == Spec => []IInv
  BY InitIInv, NextIInv, PTL DEF Spec

\* However many watchers race, a campaign never has two live rounds
\* (create_round's re-check under the campaign lock).
THEOREM RoundsExclusive == Spec => []OneLiveRound
<1>1. IInv => OneLiveRound
  BY LiveIsUnique DEF IInv, Core
<1> QED
  BY <1>1, Invariance, PTL

\* The crown a round ranks against is the crown when it settles
\* (vacate_leader_if_idle and disqualify_campaign_hotkey refuse a live round).
THEOREM CrownFrozen == Spec => []IncumbentFrozen
<1>1. IInv => IncumbentFrozen
  BY DEF IInv, Core
<1> QED
  BY <1>1, Invariance, PTL

\* Voids, reaps, deferrals and crashes never strand a challenger
\* (_requeue_challengers, complete_round).
THEOREM NoneStranded == Spec => []NobodyStranded
<1>1. IInv => NobodyStranded
  BY DEF IInv, Core
<1> QED
  BY <1>1, Invariance, PTL

\* A round has one holder, and a late worker holds only a voided one
\* (claim_pending_round, defer_round_for_capacity, void_round).
THEOREM OneHolder == Spec => []SoleOwner
<1>1. IInv => SoleOwner
  BY DEF IInv, Core, Claims
<1> QED
  BY <1>1, Invariance, PTL

\* The published leader is always backed by a completed round's record
\* (complete_round, disqualify_campaign_hotkey).
THEOREM CrownBacked == Spec => []LeaderBacked
<1>1. IInv => LeaderBacked
  BY DEF IInv, Core
<1> QED
  BY <1>1, Invariance, PTL

\* The newest leader_history row names the current leader.
THEOREM HistoryExplains == Spec => []HistoryNamesCrown
<1>1. IInv => HistoryNamesCrown
  BY DEF IInv, Core
<1> QED
  BY <1>1, Invariance, PTL

\* The crown holder never re-enters the queue: it keeps its verdict, unless an
\* exclusion that missed it was waived on its name.
THEOREM LeaderKeepsVerdict == Spec => []LeaderNotQueued
<1>1. IInv => LeaderNotQueued
  BY DEF IInv, Core
<1> QED
  BY <1>1, Invariance, PTL

\* An exclusion holds until it is waived: the hotkey has no work at the gates,
\* and a submission of it that no event newer than the exclusion kept out of its
\* reach is not queued, in a live round or crowned (disqualify_campaign_hotkey).
THEOREM ExclusionHolds == Spec => []BanSticks
<1>1. IInv => BanSticks
  <2> SUFFICES ASSUME IInv, NEW s \in Sub, Banned(hotkeyOf[s])
               PROVE  /\ job[s] \notin {"pending", "running"}
                      /\ s \notin escaped => /\ state[s] \in {"absent", "disqualified"}
                                            /\ leader.sub # s
                                            /\ \A o \in Ordinal : Live(o) => s \notin EntriesOf(o)
    BY DEF BanSticks
  <2> USE DEF IInv, Core
  <2>1. /\ job[s] \notin {"pending", "running"}
        /\ s \notin escaped => state[s] \in {"absent", "disqualified"}
    BY DEF BanState
  <2>2. s \notin escaped => leader.sub # s
    BY <2>1, NoSubAssumption DEF LeaderNotQueued
  <2>3. s \notin escaped => \A o \in Ordinal : Live(o) => s \notin EntriesOf(o)
    BY <2>1, <2>2 DEF EntriesOf, NobodyStranded, IncumbentFrozen
  <2> QED
    BY <2>1, <2>2, <2>3
<1> QED
  BY <1>1, Invariance, PTL

\* All of CrownSafe, for any number of submissions, hotkeys, workers, watchers
\* and rounds.
THEOREM CrownIsSafe == Spec => []CrownSafe
<1>1. IInv => CrownSafe
  BY DEF IInv, Core, CrownSafe
<1> QED
  BY <1>1, Invariance, PTL

-----------------------------------------------------------------------------
(* Steps, and the refinement. *)

\* Voiding a round closes the contest and requeues only its own challengers.
LEMMA VoidStep ==
  ASSUME IInv, NEW o \in Ordinal, VoidTo(o), UNCHANGED cohort
  PROVE  /\ ~Idle /\ Idle'
         /\ \A p \in Ordinal : rstatus'[p] = "complete" => rstatus[p] = "complete"
         /\ \A s \in Sub \ escaped : \/ state'[s] = state[s]
                                    \/ state[s] \in {"round_assigned", "bench_queued"}
<1> USE DEF IInv, Core
<1>1. /\ rstatus[o] = "running"
      /\ rstatus' = [rstatus EXCEPT ![o] = "void"]
      /\ Requeue(o)
  BY DEF VoidTo
<1>2. rstatus'[o] = "void" /\ \A p \in Ordinal \ {o} : rstatus'[p] = rstatus[p]
  BY <1>1 DEF TypeInv, Domains
<1>3. \A p \in Ordinal : Live(p) <=> p = o
  BY <1>1, LiveIsUnique DEF OneLiveRound, Live
<1>4. ~Idle /\ Idle'
  BY <1>2, <1>3 DEF Idle, Live
<1>5. \A s \in Sub : s \notin cohort[o] => state'[s] = state[s]
  BY <1>1 DEF Requeue
<1>6. \A s \in (cohort[o] \cap Sub) \ escaped : state[s] \in {"round_assigned", "bench_queued"}
  BY <1>3 DEF NobodyStranded
<1> QED
  BY <1>2, <1>4, <1>5, <1>6

\* What complete_round finds and leaves when its write lands.
LEMMA CompleteStep ==
  ASSUME IInv, NEW w \in Worker, CompleteRound(w), rstatus[claim[w]] = "running"
  PROVE  /\ claim[w] \in Ordinal /\ report[w] \in Report
         /\ ~Idle /\ Idle'
         /\ rstatus' = [rstatus EXCEPT ![claim[w]] = "complete"]
         /\ incumbent[claim[w]] = leader.sub
         /\ cohort[claim[w]] \subseteq Sub
         /\ leader.sub \notin cohort[claim[w]]
         /\ \A s \in cohort[claim[w]] \ escaped :
              state[s] \in {"round_assigned", "bench_queued"}
         /\ \A s \in EntriesOf(claim[w]) :
              /\ entry'[claim[w]][s] = report[w].status[s]
              /\ score'[claim[w]][s] = report[w].score[s]
              /\ state'[s] = SettledState(s, claim[w], report[w].status[s])
         /\ \A s \in Sub \ EntriesOf(claim[w]) : state'[s] = state[s]
         /\ ~Voids(report[w], incumbent[claim[w]], cohort[claim[w]])
         /\ Crown(w, claim[w])
<1> USE DEF IInv, Core
<1> DEFINE o == claim[w]
           rep == report[w]
           E == EntriesOf(o)
<1>1. /\ o \in Ordinal /\ rep \in Report /\ cohort[o] \subseteq Sub /\ E \subseteq Sub
      /\ ~Voids(rep, incumbent[o], cohort[o])
  BY DEF CompleteRound, TypeInv, Domains, Referenced, EntriesOf
<1>2. /\ rstatus' = [rstatus EXCEPT ![o] = "complete"]
      /\ entry' = [entry EXCEPT ![o] =
                     [s \in Sub |-> IF s \in E THEN rep.status[s] ELSE entry[o][s]]]
      /\ score' = [score EXCEPT ![o] =
                     [s \in Sub |-> IF s \in E THEN rep.score[s] ELSE score[o][s]]]
      /\ state' = [s \in Sub |-> IF s \in E THEN SettledState(s, o, rep.status[s])
                                 ELSE state[s]]
      /\ Crown(w, o)
  BY DEF CompleteRound
<1>3. rstatus'[o] = "complete" /\ \A p \in Ordinal \ {o} : rstatus'[p] = rstatus[p]
  BY <1>1, <1>2 DEF TypeInv, Domains
<1>4. \A p \in Ordinal : Live(p) <=> p = o
  BY <1>1, LiveIsUnique DEF OneLiveRound, Live
<1>5. ~Idle /\ Idle'
  BY <1>1, <1>3, <1>4 DEF Idle, Live
<1>6. /\ incumbent[o] = leader.sub
      /\ leader.sub \notin cohort[o]
      /\ \A s \in cohort[o] \ escaped : state[s] \in {"round_assigned", "bench_queued"}
  BY <1>1, <1>4 DEF IncumbentFrozen, NobodyStranded, Apart
<1>7. /\ \A s \in E : /\ entry'[o][s] = rep.status[s]
                      /\ score'[o][s] = rep.score[s]
                      /\ state'[s] = SettledState(s, o, rep.status[s])
      /\ \A s \in Sub \ E : state'[s] = state[s]
  BY <1>1, <1>2 DEF TypeInv, Domains
<1> QED
  BY <1>1, <1>2, <1>5, <1>6, <1>7

\* A round that crowns somebody crowns one of its own challengers, who is not
\* the incumbent and cleared the moat.
LEMMA CrownStep ==
  ASSUME IInv, NEW w \in Worker, CompleteRound(w), rstatus[claim[w]] = "running",
         NEW s \in Contenders(report[w], incumbent[claim[w]], cohort[claim[w]])
  PROVE  /\ s \in Sub /\ s # leader.sub /\ s \in EntriesOf(claim[w])
         /\ report[w].score[s] > 0
         /\ Clears(report[w], leader.sub, s)
<1>1. /\ claim[w] \in Ordinal /\ report[w] \in Report
      /\ incumbent[claim[w]] = leader.sub
      /\ cohort[claim[w]] \subseteq Sub
      /\ leader.sub \notin cohort[claim[w]]
  BY CompleteStep
<1>2. s \in cohort[claim[w]] /\ Clears(report[w], leader.sub, s)
  BY <1>1 DEF Contenders
<1>3. leader.sub \in Sub \cup {NoSub}
  BY DEF IInv, TypeInv, Domains, LeaderRow
<1>4. s # leader.sub
  BY <1>1, <1>2
<1> QED
  BY <1>1, <1>2, <1>3, <1>4, ClearsAboveBaseline DEF EntriesOf

\* An exclusion's effect on the crown: none, vacant, or the runner-up.
LEMMA DisqualifyStep ==
  ASSUME IInv, NEW h \in Hotkey, Disqualify(h)
  PROVE  /\ Idle /\ Idle' /\ UNCHANGED rstatus
         /\ leader' # leader => hotkeyOf[leader.sub] = h /\ h \in excluding \ excluding'
         /\ \/ UNCHANGED <<leader, history>>
            \/ /\ leader.sub \in Sub
               /\ leader' = Vacant
               /\ history' = Row("vacated", NoSub, leader.sub, leader.score)
            \/ /\ leader.sub \in Sub
               /\ leader'.sub \in Sub \ {leader.sub}
               /\ leader'.score > 0
               /\ history' = Row("seated", leader'.sub, NoSub, 0)
<1> USE DEF IInv, Core
<1> DEFINE mine == {s \in Own(h) : state[s] # "absent"}
           R == RunnersUp(state', action')
<1>1. /\ Idle /\ UNCHANGED roundVars
      /\ h \in excluding \ excluding'
  BY DEF Disqualify
<1>2. Idle' /\ UNCHANGED <<rstatus, incumbent, cohort, entry, score>>
  BY <1>1 DEF Idle, Live, roundVars
<1>3. \A s \in mine : s \in Sub /\ hotkeyOf[s] = h
  BY DEF Own
<1>4. CASE UNCHANGED crownVars
  BY <1>1, <1>2, <1>4 DEF crownVars
<1>5. CASE /\ leader.sub \in mine
           /\ leader'  = Vacant
           /\ history' = Row("vacated", NoSub, leader.sub, leader.score)
  BY <1>1, <1>2, <1>3, <1>5
<1>6. ASSUME leader.sub \in mine, NEW s \in R,
             leader' = [sub |-> s, wonAt |-> leader.scoredAt, scoredAt |-> leader.scoredAt,
                        score |-> score[leader.scoredAt][s]],
             history' = Row("seated", s, NoSub, 0)
      PROVE  /\ leader.sub \in Sub /\ hotkeyOf[leader.sub] = h
             /\ leader'.sub \in Sub \ {leader.sub}
             /\ leader'.score > 0
             /\ history' = Row("seated", leader'.sub, NoSub, 0)
  <2>1. leader.scoredAt \in Ordinal
    BY <1>3, <1>6, NoSubAssumption DEF LeaderBacked
  <2>2. /\ s \in EntriesOf(leader.scoredAt) /\ s # leader.sub
        /\ score[leader.scoredAt][s] > 0
    BY <1>6, Zenon DEF RunnersUp
  <2>3. s \in Sub
    BY <2>1, <2>2 DEF EntriesOf, TypeInv, Domains
  <2>4. leader'.sub = s /\ leader'.score = score[leader.scoredAt][s]
    BY <1>6
  <2> QED
    BY <1>3, <1>6, <2>2, <2>3, <2>4
<1> QED
  <2>1. \/ UNCHANGED crownVars
        \/ /\ leader.sub \in mine
           /\ leader'  = Vacant
           /\ history' = Row("vacated", NoSub, leader.sub, leader.score)
        \/ /\ leader.sub \in mine
           /\ \E s \in R :
                /\ leader' = [sub |-> s, wonAt |-> leader.scoredAt,
                              scoredAt |-> leader.scoredAt,
                              score |-> score[leader.scoredAt][s]]
                /\ history' = Row("seated", s, NoSub, 0)
    BY DisqualifyCrown
  <2> QED
    BY <1>1, <1>2, <1>4, <1>5, <1>6, <2>1

\* Everything else: no crown is written, and a contest opens or stays as it is.
LEMMA QuietStep ==
  ASSUME IInv, [Next]_vars,
         ~\E w \in Worker : CompleteRound(w) /\ rstatus[claim[w]] = "running",
         ~\E h \in Hotkey : Disqualify(h),
         ~VacateLeader
  PROVE  /\ UNCHANGED <<leader, history>>
         /\ \A o \in Ordinal : rstatus'[o] = "complete" => rstatus[o] = "complete"
         /\ \A s \in Sub \ escaped : state[s] \in Terminal => state'[s] \in Terminal
<1> USE DEF IInv, Core
<1>1. CASE UNCHANGED vars
  BY <1>1 DEF vars, engineVars, subVars, roundVars, crownVars
<1>2. ASSUME NEW s \in Sub, Gates(s)
      PROVE  /\ UNCHANGED <<leader, history, rstatus>>
             /\ \A t \in Sub \ escaped : state[t] \in Terminal => state'[t] \in Terminal
  <2> USE DEF TypeInv, Domains, roundVars, crownVars, Terminal
  <2>1. CASE InsertSubmission(s)
    <3>1. /\ state[s] = "absent"
          /\ UNCHANGED <<roundVars, crownVars>>
          /\ \/ state' = [state EXCEPT ![s] = "committed"]
             \/ state' = [state EXCEPT ![s] = "rejected"]
      BY <2>1, Zenon DEF InsertSubmission
    <3> QED
      BY <3>1
  <2>2. CASE ClaimJob(s) \/ DeferJob(s) \/ FailJob(s)
    BY <2>2 DEF ClaimJob, DeferJob, FailJob
  <2>3. CASE RejectGates(s)
    BY <2>3 DEF RejectGates
  <2>4. CASE CompleteGates(s)
    <3>1. state[s] = "committed"
      BY <2>4 DEF CompleteGates, AtGates, GateState
    <3> QED
      BY <2>4, <3>1 DEF CompleteGates
  <2> QED
    BY <1>2, <2>1, <2>2, <2>3, <2>4 DEF Gates
<1>3. ASSUME NEW v \in Watcher, Watch(v)
      PROVE  /\ UNCHANGED <<leader, history>>
             /\ \A o \in Ordinal : rstatus'[o] = "complete" => rstatus[o] = "complete"
             /\ \A t \in Sub \ escaped : state[t] \in Terminal => state'[t] \in Terminal
  <2>1. CASE ScanQueue(v) \/ CreateLoses(v)
    BY <2>1 DEF ScanQueue, CreateLoses, subVars, roundVars, crownVars
  <2>2. CASE CreateRound(v)
    <3> DEFINE C == Oldest(Queued)
               K == Keepers(C)
    <3>1. K \subseteq C /\ \A s \in C : state[s] = "bench_queued"
      BY DEF Keepers, Oldest, Queued
    <3>2. /\ \A s \in Sub \ C : state'[s] = state[s]
          /\ UNCHANGED crownVars
          /\ \E o \in Ordinal : rstatus' = [rstatus EXCEPT ![o] = "pending"]
      BY <2>2, <3>1 DEF CreateRound
    <3> HIDE DEF C, K
    <3> QED
      BY <3>1, <3>2 DEF crownVars, Terminal, TypeInv, Domains
  <2> QED
    BY <1>3, <2>1, <2>2 DEF Watch
<1>4. ASSUME ReapStaleRounds
      PROVE  /\ UNCHANGED <<leader, history>>
             /\ \A o \in Ordinal : rstatus'[o] = "complete" => rstatus[o] = "complete"
             /\ \A t \in Sub \ escaped : state[t] \in Terminal => state'[t] \in Terminal
  <2>1. PICK o \in stale : VoidTo(o)
    BY <1>4 DEF ReapStaleRounds
  <2>2. o \in Ordinal /\ UNCHANGED <<cohort, crownVars>>
    BY <1>4 DEF ReapStaleRounds, TypeInv, Domains
  <2> QED
    BY <2>1, <2>2, VoidStep DEF crownVars, Terminal
<1>5. ASSUME NEW o \in Ordinal, GoStale(o) \/ RetryElapsed(o)
      PROVE  UNCHANGED <<leader, history, rstatus, state>>
  BY <1>5 DEF GoStale, RetryElapsed, subVars, crownVars
<1>6. ASSUME NEW w \in Worker, Work(w)
      PROVE  /\ UNCHANGED <<leader, history>>
             /\ \A o \in Ordinal : rstatus'[o] = "complete" => rstatus[o] = "complete"
             /\ \A t \in Sub \ escaped : state[t] \in Terminal => state'[t] \in Terminal
  <2>1. CASE StartBench(w) \/ Heartbeat(w) \/ RankReport(w) \/ WorkerCrash(w)
    BY <2>1 DEF StartBench, Heartbeat, RankReport, WorkerCrash, subVars, roundVars, crownVars
  <2>2. CASE ClaimRound(w)
    BY <2>2 DEF ClaimRound, subVars, crownVars, TypeInv, Domains
  <2>3. CASE \E s \in Sub, st \in Beacon : LiveStatus(w, s, st)
    BY <2>3 DEF LiveStatus, subVars, crownVars
  <2>4. CASE DeferRound(w)
    BY <2>4 DEF DeferRound, subVars, crownVars, TypeInv, Domains
  <2>5. CASE CompleteRound(w)
    <3>1. rstatus[claim[w]] # "running"
      BY <2>5
    <3> QED
      BY <2>5, <3>1 DEF CompleteRound, crownVars
  <2>6. CASE VoidRound(w)
    <3>1. claim[w] \in Ordinal /\ UNCHANGED <<cohort, crownVars>>
      BY <2>6 DEF VoidRound, TypeInv, Referenced
    <3>2. VoidTo(claim[w]) \/ UNCHANGED <<rstatus, state>>
      BY <2>6 DEF VoidRound
    <3> QED
      BY <3>1, <3>2, VoidStep DEF crownVars, Terminal
  <2> QED
    BY <1>6, <2>1, <2>2, <2>3, <2>4, <2>5, <2>6 DEF Work
<1>7. ASSUME NEW c \in {"open", "closed"}, SetCampaign(c)
      PROVE  UNCHANGED <<leader, history, rstatus, state>>
  BY <1>7 DEF SetCampaign, subVars, roundVars, crownVars
<1>8. ASSUME NEW h \in Hotkey, Waive(h)
      PROVE  /\ UNCHANGED <<leader, history, rstatus>>
             /\ \A t \in Sub \ escaped : state[t] \in Terminal => state'[t] \in Terminal
  BY <1>8 DEF Waive, roundVars, crownVars, Terminal, TypeInv, Domains
<1>9. CASE ListIdleLeaders
  BY <1>9 DEF ListIdleLeaders, subVars, roundVars, crownVars
<1>10. ASSUME NEW h \in Hotkey, BeginExclusion(h) \/ EndExclusion(h)
       PROVE  UNCHANGED <<leader, history, rstatus, state>>
  BY <1>10 DEF BeginExclusion, EndExclusion, engineVars, subVars, roundVars, crownVars
<1>11. CASE Engine
  BY <1>2, <1>3, <1>4, <1>5, <1>6, <1>7, <1>8, <1>9, <1>11 DEF Engine, Operate
<1> QED
  BY <1>1, <1>10, <1>11 DEF Next

\* complete_round writes verdicts over challengers and the incumbent only.
LEMMA CompleteVerdict ==
  ASSUME IInv, NEW w \in Worker, CompleteRound(w), rstatus[claim[w]] = "running"
  PROVE  /\ \A s \in Sub \ escaped : state[s] \in Terminal => state'[s] \in Terminal
         /\ \A o \in Ordinal : \A s \in infra \cap cohort[o] :
              rstatus[o] = "running" /\ rstatus'[o] = "complete" => state'[s] # "bench_queued"
<1> DEFINE o == claim[w]
<1>1. /\ o \in Ordinal /\ report[w] \in Report
      /\ rstatus' = [rstatus EXCEPT ![o] = "complete"]
      /\ incumbent[o] = leader.sub
      /\ \A s \in cohort[o] \ escaped : state[s] \in {"round_assigned", "bench_queued"}
      /\ \A s \in EntriesOf(o) : state'[s] = SettledState(s, o, report[w].status[s])
      /\ \A s \in Sub \ EntriesOf(o) : state'[s] = state[s]
  BY CompleteStep
<1>2. \A s \in EntriesOf(o) \ escaped : state[s] \in {"round_assigned", "bench_queued", "scored"}
  BY <1>1 DEF EntriesOf, IInv, Core, LeaderNotQueued
<1>3. \A s \in Sub \ escaped : state[s] \in Terminal => state'[s] \in Terminal
  BY <1>1, <1>2 DEF Terminal
<1>4. \A p \in Ordinal : rstatus[p] = "running" /\ rstatus'[p] = "complete" => p = o
  BY <1>1 DEF IInv, TypeInv, Domains
<1>5. \A s \in infra \cap cohort[o] : state'[s] # "bench_queued"
  BY <1>1 DEF EntriesOf, SettledState, Report, Verdict, IInv, TypeInv, Domains
<1> QED
  BY <1>3, <1>4, <1>5

\* No step takes back a verdict or grants a second infrastructure retry.
LEMMA VerdictStep ==
  ASSUME IInv, [Next]_vars
  PROVE  /\ \A s \in Sub \ escaped : state[s] \in Terminal => state'[s] \in Terminal
         /\ \A o \in Ordinal : \A s \in infra \cap cohort[o] :
              rstatus[o] = "running" /\ rstatus'[o] = "complete" => state'[s] # "bench_queued"
<1>1. ASSUME NEW w \in Worker, CompleteRound(w), rstatus[claim[w]] = "running"
      PROVE  /\ \A s \in Sub \ escaped : state[s] \in Terminal => state'[s] \in Terminal
             /\ \A o \in Ordinal : \A s \in infra \cap cohort[o] :
                  rstatus[o] = "running" /\ rstatus'[o] = "complete" =>
                    state'[s] # "bench_queued"
  BY <1>1, CompleteVerdict
<1>2. ASSUME NEW h \in Hotkey, Disqualify(h)
      PROVE  /\ \A s \in Sub \ escaped : state[s] \in Terminal => state'[s] \in Terminal
             /\ UNCHANGED rstatus
  BY <1>2 DEF Disqualify, roundVars, Terminal
<1>3. CASE VacateLeader
  BY <1>3 DEF VacateLeader, subVars, roundVars
<1> QED
  BY <1>1, <1>2, <1>3, QuietStep

\* A verdict is final for every number of rounds, workers, watchers and
\* operators' actions (complete_round, _requeue_challengers, the gates), but for
\* a submission that its hotkey's exclusion missed.
THEOREM VerdictsStand == Spec => VerdictFinal
<1>1. IInv /\ [Next]_vars =>
        [\A s \in Sub \ escaped : state[s] \in Terminal => state'[s] \in Terminal]_vars
  BY VerdictStep
<1> QED
  BY <1>1, Invariance, PTL DEF Spec, VerdictFinal

\* A challenger is queued again after one infrastructure failure and never
\* after a second, whoever measured it (the retry rule of complete_round).
THEOREM OneInfraRetry == Spec => InfraRetriedOnce
<1>1. IInv /\ [Next]_vars =>
        [\A o \in Ordinal : \A s \in infra \cap cohort[o] :
           rstatus[o] = "running" /\ rstatus'[o] = "complete" =>
             state'[s] # "bench_queued"]_vars
  BY VerdictStep
<1> QED
  BY <1>1, Invariance, PTL DEF Spec, InfraRetriedOnce

\* A round that replaces the incumbent measured it and found it beaten.
LEMMA CompleteFair ==
  ASSUME IInv, NEW w \in Worker, CompleteRound(w), rstatus[claim[w]] = "running",
         NEW s \in Sub, NEW t \in Sub, leader.sub = s, leader'.sub = t, s # t
  PROVE  LET o == leader'.scoredAt
         IN /\ entry'[o][s] \in Settled
            /\ entry'[o][s] = "scored" /\ score'[o][s] > 0 =>
                 score'[o][t] * EpsDen > score'[o][s] * (EpsDen + EpsNum)
<1> DEFINE o == claim[w]
           rep == report[w]
           S == Contenders(rep, s, cohort[o])
<1>1. /\ o \in Ordinal /\ rep \in Report /\ incumbent[o] = s
      /\ ~Voids(rep, s, cohort[o])
      /\ Crown(w, o)
      /\ \A u \in EntriesOf(o) : entry'[o][u] = rep.status[u] /\ score'[o][u] = rep.score[u]
  BY CompleteStep
<1>2. s # NoSub /\ t # NoSub
  BY NoSubAssumption
<1>3. \/ \E u \in S : leader' = Seat(u, o, rep.score[u])
      \/ leader' = Vacant
      \/ leader' = Seat(s, o, rep.score[s])
  BY <1>1, <1>2 DEF Crown
<1>4. t \in S /\ leader' = Seat(t, o, rep.score[t])
  BY <1>2, <1>3 DEF Seat, Vacant
<1>5. leader'.scoredAt = o
  BY <1>4 DEF Seat
<1>6. t \in EntriesOf(o) /\ s \in EntriesOf(o)
  BY <1>1, <1>2, <1>4 DEF Contenders, EntriesOf
<1>7. entry'[o][s] \in Settled
  BY <1>1, <1>2, <1>6 DEF Voids, Report, Verdict, Settled
<1>8. ASSUME entry'[o][s] = "scored", score'[o][s] > 0
      PROVE  score'[o][t] * EpsDen > score'[o][s] * (EpsDen + EpsNum)
  <2>1. Clears(rep, s, t)
    BY <1>4 DEF Contenders
  <2>2. Holds(rep, s)
    BY <1>1, <1>2, <1>6, <1>8 DEF Holds
  <2> QED
    BY <1>1, <1>6, <2>1, <2>2 DEF Clears
<1> QED
  BY <1>5, <1>7, <1>8

\* A crown changes hands only over the moat or by an exclusion, for every moat
\* and every set of scores (rank_round, complete_round, disqualify_campaign_hotkey).
THEOREM CrownChangesFairly == Spec => CrownFairlyTaken
<1>1. IInv /\ [Next]_vars =>
        [\A s, t \in Sub :
           leader.sub = s /\ leader'.sub = t /\ s # t =>
             \/ hotkeyOf[s] \in excluding \ excluding'
             \/ LET o == leader'.scoredAt
                IN /\ entry'[o][s] \in Settled
                   /\ entry'[o][s] = "scored" /\ score'[o][s] > 0 =>
                        score'[o][t] * EpsDen > score'[o][s] * (EpsDen + EpsNum)]_vars
  <2> SUFFICES ASSUME IInv, [Next]_vars, NEW s \in Sub, NEW t \in Sub,
                      leader.sub = s, leader'.sub = t, s # t
               PROVE  \/ hotkeyOf[s] \in excluding \ excluding'
                      \/ LET o == leader'.scoredAt
                         IN /\ entry'[o][s] \in Settled
                            /\ entry'[o][s] = "scored" /\ score'[o][s] > 0 =>
                                 score'[o][t] * EpsDen > score'[o][s] * (EpsDen + EpsNum)
    OBVIOUS
  <2>1. leader' # leader
    OBVIOUS
  <2>2. CASE \E w \in Worker : CompleteRound(w) /\ rstatus[claim[w]] = "running"
    BY <2>2, CompleteFair
  <2>3. CASE \E h \in Hotkey : Disqualify(h)
    BY <2>1, <2>3, DisqualifyStep
  <2>4. CASE VacateLeader
    <3>1. leader' = Vacant \/ leader' = leader
      BY <2>4, Zenon DEF VacateLeader, crownVars
    <3> QED
      BY <2>1, <3>1, NoSubAssumption DEF Vacant
  <2> QED
    BY <2>1, <2>2, <2>3, <2>4, QuietStep
<1> QED
  BY <1>1, Invariance, PTL DEF Spec, CrownFairlyTaken

-----------------------------------------------------------------------------
\* The refinement.

\* The competition starts as the register does.
LEMMA InitRefines == Init => Register!InitRegister
  BY DEF Init, Register!InitRegister, Register!Entry, Vacant, Row, Idle, Live

\* complete_round ends a contest: the crown is taken, lost, defended or left.
LEMMA CompleteRefines ==
  ASSUME IInv, NEW w \in Worker, CompleteRound(w), rstatus[claim[w]] = "running"
  PROVE  Register!NextRegister
<1> DEFINE o == claim[w]
           rep == report[w]
           lead == incumbent[o]
           S == Contenders(rep, lead, cohort[o])
<1>1. /\ rep \in Report /\ lead = leader.sub
      /\ ~Idle /\ Idle'
      /\ Crown(w, o)
  BY CompleteStep
<1>2. leader.sub \in Sub \cup {NoSub}
  BY DEF IInv, TypeInv, Domains, LeaderRow
<1>3. ASSUME NEW s \in S, leader' = Seat(s, o, rep.score[s]), history'.new = s, history'.prev = lead
      PROVE  Register!Take
  <2>1. s \in Sub /\ s # leader.sub /\ rep.score[s] > 0
    BY CrownStep
  <2>2. leader'.sub = s /\ leader'.score = rep.score[s]
    BY <1>3 DEF Seat
  <2> QED
    BY <1>1, <1>3, <2>1, <2>2 DEF Register!Take
<1>4. CASE lead # NoSub /\ leader' = Vacant /\ history'.new = NoSub /\ history'.prev = lead
  BY <1>1, <1>4 DEF Register!Lose, Register!NextRegister, Vacant
<1>5. CASE /\ Holds(rep, lead)
           /\ leader' = Seat(lead, o, rep.score[lead])
           /\ UNCHANGED history
  <2>1. lead # NoSub /\ rep.score[lead] > 0
    BY <1>5 DEF Holds
  <2>2. leader'.sub = lead /\ leader'.score = rep.score[lead]
    BY <1>5 DEF Seat
  <2> QED
    BY <1>1, <1>5, <2>1, <2>2 DEF Register!Defend, Register!NextRegister
<1>6. CASE UNCHANGED <<leader, history>>
  BY <1>1, <1>6 DEF Register!Abandon, Register!NextRegister
<1>7. \/ \E s \in S : /\ leader' = Seat(s, o, rep.score[s])
                      /\ history'.new = s /\ history'.prev = lead
      \/ lead # NoSub /\ leader' = Vacant /\ history'.new = NoSub /\ history'.prev = lead
      \/ /\ Holds(rep, lead)
         /\ leader' = Seat(lead, o, rep.score[lead])
         /\ UNCHANGED history
      \/ UNCHANGED <<leader, history>>
  BY <1>1 DEF Crown, Row
<1> QED
  BY <1>3, <1>4, <1>5, <1>6, <1>7 DEF Register!NextRegister

\* Every step of the competition is a step of the register or leaves it alone.
LEMMA StepRefines == IInv /\ [Next]_vars => [Register!NextRegister]_(Register!register)
<1> SUFFICES ASSUME IInv, [Next]_vars
             PROVE  [Register!NextRegister]_(Register!register)
  OBVIOUS
<1>1. ASSUME NEW w \in Worker, CompleteRound(w), rstatus[claim[w]] = "running"
      PROVE  Register!NextRegister
  BY <1>1, CompleteRefines
<1>2. CASE UNCHANGED <<leader, history>>
  <2>1. CASE ~Idle <=> ~Idle'
    BY <1>2, <2>1 DEF Register!register
  <2>2. CASE Idle /\ ~Idle'
    BY <1>2, <2>2 DEF Register!Open, Register!NextRegister
  <2>3. CASE ~Idle /\ Idle'
    BY <1>2, <2>3 DEF Register!Abandon, Register!NextRegister
  <2> QED
    BY <2>1, <2>2, <2>3
<1>3. ASSUME Idle, Idle', leader.sub # NoSub, leader' = Vacant,
             history' = Row("vacated", NoSub, leader.sub, leader.score)
      PROVE  Register!Vacate
  BY <1>3 DEF Register!Vacate, Register!Entry, Vacant, Row
<1>4. ASSUME NEW h \in Hotkey, Disqualify(h)
      PROVE  [Register!NextRegister]_(Register!register)
  <2>1. ASSUME leader.sub \in Sub, leader'.sub \in Sub \ {leader.sub}, leader'.score > 0,
               history' = Row("seated", leader'.sub, NoSub, 0), Idle, Idle'
        PROVE  Register!Succeed
    BY <2>1, NoSubAssumption DEF Register!Succeed, Register!Entry, Row
  <2>2. leader.sub \in Sub => leader.sub # NoSub
    BY NoSubAssumption
  <2> QED
    BY <1>2, <1>3, <1>4, <2>1, <2>2, DisqualifyStep DEF Register!NextRegister
<1>5. CASE VacateLeader
  <2>1. /\ UNCHANGED roundVars
        /\ \/ UNCHANGED crownVars
           \/ /\ Idle /\ leader.sub # NoSub
              /\ leader' = Vacant
              /\ history' = Row("vacated", NoSub, leader.sub, leader.score)
    BY <1>5, Zenon DEF VacateLeader
  <2>2. Idle => Idle'
    BY <2>1 DEF Idle, Live, roundVars
  <2> QED
    BY <1>2, <1>3, <2>1, <2>2 DEF crownVars, Register!NextRegister
<1> QED
  BY <1>1, <1>2, <1>4, <1>5, QuietStep

\* The competition, with its watchers, workers, reaper, operators and weights
\* process, implements the crown register: one contest at a time, its end and
\* the change of crown in one step, no other change while it is open.
THEOREM CompetitionImplementsRegister == Spec => CrownImplemented
  BY InitRefines, StepRefines, Invariance, PTL DEF Spec, CrownImplemented, Register!SpecRegister
=============================================================================

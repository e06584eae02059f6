------------------------------ MODULE Rounds ------------------------------
(***************************************************************************)
(* One campaign's competition: the submissions that passed the gates, the  *)
(* rounds the watcher builds from them, the round workers that run them,   *)
(* the reaper, the crown (leaders, leader_history), the operator's         *)
(* exclusions and the weights process's vacating of deregistered leaders.  *)
(*                                                                         *)
(* Every store function is one transaction that first takes the row lock   *)
(* its re-checks depend on, so it is one action.  What the callers carry   *)
(* from one transaction to the next (a queue read, a claimed round, a bench*)
(* report, a leader seen as deregistered) is their local state, and every  *)
(* other actor may step in between.                                        *)
(*                                                                         *)
(* An event is dated by the begin of its transaction, and the newest date  *)
(* counts.  The two transactions that wait for the campaign's lock while   *)
(* others write about the same submissions, disqualify_campaign_hotkey and *)
(* create_round, may therefore write events that are not the newest.       *)
(***************************************************************************)
EXTENDS Rank, FiniteSets

CONSTANTS
  Hotkey,
  Digest,
  hotkeyOf,    \* submissions.hotkey
  digestOf,    \* digest of submissions.engine_image_ref
  Worker,      \* round workers (worker/main.py --queue rounds)
  Watcher,     \* watchers (worker/watcher.py)
  RoundSize,   \* config.ROUND_SIZE
  MaxOrdinal,  \* bound: rounds a campaign may create
  Excludable,  \* bound: hotkeys an operator may exclude
  Waits        \* bound: hotkeys whose exclusion others may overtake

ASSUME HotkeyAssumption == hotkeyOf \in [Sub -> Hotkey]
ASSUME DigestAssumption == digestOf \in [Sub -> Digest]
ASSUME SizeAssumption   == RoundSize \in Nat \ {0} /\ MaxOrdinal \in Nat \ {0}

VARIABLES
  campaign,   \* campaigns.status
  state,      \* newest submission_events.state of each submission
  job,        \* submission_jobs.status of each submission
  infra,      \* submissions that have an infra_failed event
  action,     \* newest manual campaign action on each hotkey
  rstatus,    \* rounds.status, by ordinal
  incumbent,  \* rounds.incumbent_submission_id
  winner,     \* rounds.winner_submission_id
  cohort,     \* submissions with a challenger entry in the round
  entry,      \* round_entries.status of each non-baseline entry
  score,      \* round_entries.score
  stale,      \* running rounds whose heartbeat is older than ROUND_STALE_S
  waiting,    \* pending rounds whose retry_after is in the future
  leader,     \* the campaign's leaders row, or Vacant
  history,    \* newest leader_history row
  due,        \* watcher-local: a queue read found a round due
  pc,         \* worker-local: where process_round is
  claim,      \* worker-local: ordinal of the claimed round, 0 when idle
  report,     \* worker-local: the bound bench report
  seen,       \* worker-local: leaders.last_score as read before settling
  condemned,  \* weights-local: idle leaders' hotkeys found deregistered
  excluding,  \* hotkeys whose exclusion has begun and waits for its locks
  later,      \* their submissions and hotkeys with an event committed since
  escaped     \* history: submissions whose exclusion was older than another event

subVars    == <<state, job, infra, action>>
roundVars  == <<rstatus, incumbent, winner, cohort, entry, score, stale, waiting>>
crownVars  == <<leader, history>>
workerVars == <<pc, claim, report, seen>>
engineVars == <<campaign, subVars, roundVars, crownVars, due, workerVars, condemned>>
dateVars   == <<excluding, later, escaped>>
vars == <<engineVars, dateVars>>

Ordinal == 1..MaxOrdinal

State == {"absent", "committed", "bench_queued", "round_assigned", "scored",
          "disqualified", "infra_failed", "rejected"}
JobStatus == {"none", "pending", "running", "done", "failed"}
Phase == {"idle", "claimed", "benching", "ranked"}

\* States the code never takes a submission out of again, except that an
\* exclusion writes "disqualified" over any of them.
Terminal == {"disqualified", "infra_failed", "rejected"}

LeaderRow == [sub : Sub \cup {NoSub}, wonAt : Nat, scoredAt : Nat, score : Int]
Vacant    == [sub |-> NoSub, wonAt |-> 0, scoredAt |-> 0, score |-> 0]
HistoryRow == [event : {"none", "seated", "overtaken", "vacated"},
               new : Sub \cup {NoSub}, prev : Sub \cup {NoSub}, prevScore : Int]
Row(e, n, p, ps) == [event |-> e, new |-> n, prev |-> p, prevScore |-> ps]

NoReport == [sound  |-> FALSE,
             status |-> [s \in Sub |-> "infra_failed"],
             score  |-> [s \in Sub |-> 0]]

-----------------------------------------------------------------------------
\* Derived reads.

Live(o)  == rstatus[o] \in {"pending", "running"}
IdleSkipsRunning == \A o \in Ordinal : rstatus[o] # "pending"  \* mutant
Idle     == \A o \in Ordinal : ~Live(o)
Queued   == {s \in Sub : state[s] = "bench_queued"}
Banned(h) == action[h] = "disqualified"
Own(h)    == {s \in Sub : hotkeyOf[s] = h}
EntriesOf(o) == cohort[o] \cup ({incumbent[o]} \ {NoSub})

Init ==
  /\ campaign = "open"
  /\ state  = [s \in Sub |-> "absent"]
  /\ job    = [s \in Sub |-> "none"]
  /\ infra  = {}
  /\ action = [h \in Hotkey |-> "none"]
  /\ rstatus   = [o \in Ordinal |-> "none"]
  /\ incumbent = [o \in Ordinal |-> NoSub]
  /\ winner    = [o \in Ordinal |-> NoSub]
  /\ cohort    = [o \in Ordinal |-> {}]
  /\ entry = [o \in Ordinal |-> [s \in Sub |-> "pending"]]
  /\ score = [o \in Ordinal |-> [s \in Sub |-> 0]]
  /\ stale = {}
  /\ waiting = {}
  /\ leader  = Vacant
  /\ history = Row("none", NoSub, NoSub, 0)
  /\ due = [v \in Watcher |-> FALSE]
  /\ pc     = [w \in Worker |-> "idle"]
  /\ claim  = [w \in Worker |-> 0]
  /\ report = [w \in Worker |-> NoReport]
  /\ seen   = [w \in Worker |-> 0]
  /\ condemned = {}
  /\ excluding = {} /\ later = {} /\ escaped = {}

-----------------------------------------------------------------------------
\* Ingestion and gates, reduced to the transactions the rounds depend on.

\* insert_submission: under the campaign lock, an excluded hotkey is refused.
\* A fingerprint already committed is recorded as a rejected duplicate.
InsertSubmission(s) ==
  /\ state[s] = "absent"
  /\ ~Banned(hotkeyOf[s])
  /\ \/ /\ state' = [state EXCEPT ![s] = "committed"]
        /\ job'   = [job EXCEPT ![s] = "pending"]
     \/ /\ \E t \in Sub : state[t] # "absent"
        /\ state' = [state EXCEPT ![s] = "rejected"]
        /\ UNCHANGED job
  /\ UNCHANGED <<campaign, infra, action, roundVars, crownVars, due, workerVars, condemned>>

ClaimJob(s) ==
  /\ job[s] = "pending"
  /\ job' = [job EXCEPT ![s] = "running"]
  /\ UNCHANGED <<campaign, state, infra, action, roundVars, crownVars, due, workerVars, condemned>>

\* The gate worker is on the job and has not taken its _fail path.
AtGates(s) == job[s] = "running" /\ state[s] # "rejected"

\* A down review provider returns the job to the queue.
DeferJob(s) ==
  /\ AtGates(s)
  /\ job' = [job EXCEPT ![s] = "pending"]
  /\ UNCHANGED <<campaign, state, infra, action, roundVars, crownVars, due, workerVars, condemned>>

\* _fail, first transaction: the rejected event.
RejectGates(s) ==
  /\ AtGates(s)
  /\ state' = [state EXCEPT ![s] = "rejected"]
  /\ UNCHANGED <<campaign, job, infra, action, roundVars, crownVars, due, workerVars, condemned>>

\* _fail, second transaction: the job settles.
FailJob(s) ==
  /\ job[s] = "running" /\ state[s] = "rejected"
  /\ job' = [job EXCEPT ![s] = "failed"]
  /\ UNCHANGED <<campaign, state, infra, action, roundVars, crownVars, due, workerVars, condemned>>

\* complete_gates_job: job done and the bench_queued event, atomically.
CompleteGates(s) ==
  /\ AtGates(s)
  /\ job'   = [job EXCEPT ![s] = "done"]
  /\ state' = [state EXCEPT ![s] = "bench_queued"]
  /\ UNCHANGED <<campaign, infra, action, roundVars, crownVars, due, workerVars, condemned>>

-----------------------------------------------------------------------------
\* The watcher: round creation and the reaper.

ShouldCreateFullOnly(queued, waited) == queued >= RoundSize  \* mutant

\* should_create: a full cohort, or the oldest queued one has waited enough.
ShouldCreate(queued, waited) == queued >= 1 /\ (queued >= RoundSize \/ waited)

\* campaigns_with_queue and should_create, read before the trace is sampled.
ScanQueue(v) ==
  /\ ~due[v]
  /\ campaign = "open" /\ Idle
  /\ \E waited \in BOOLEAN : ShouldCreate(Cardinality(Queued), waited)
  /\ due' = [due EXCEPT ![v] = TRUE]
  /\ UNCHANGED <<campaign, subVars, roundVars, crownVars, workerVars, condemned>>

\* ORDER BY commit_block, id LIMIT cohort_limit
Oldest(Q) ==
  {s \in Q : Cardinality({t \in Q : commitPos[t] < commitPos[s]}) < RoundSize}

\* dedupe_by_digest: the earliest commit of an image keeps the slot.
Keepers(C) ==
  {s \in C : ~\E t \in C : commitPos[t] < commitPos[s] /\ digestOf[t] = digestOf[s]}

RecheckCampaignOnly == campaign = "open"  \* mutant: a live round is not looked for again

\* What create_round checks again under the campaign's lock.
Recheck == campaign = "open" /\ Idle

\* create_round when it inserts a round.  Submissions queued while it waited for
\* the campaign's lock have a newer event than the ones it writes.
CreateRound(v) ==
  LET C == Oldest(Queued)
      K == Keepers(C)
  IN /\ due[v]
     /\ Recheck
     /\ K # {}
     /\ leader.sub \notin K        \* else UniqueViolation on round_entries
     /\ \E o \in Ordinal :
          /\ rstatus[o] = "none"
          /\ \A p \in Ordinal : p < o => rstatus[p] # "none"
          /\ rstatus'   = [rstatus EXCEPT ![o] = "pending"]
          /\ incumbent' = [incumbent EXCEPT ![o] = leader.sub]
          /\ cohort'    = [cohort EXCEPT ![o] = K]
     /\ \E newer \in SUBSET C :
          state' = [s \in Sub |-> IF s \in K \ newer THEN "round_assigned"
                                  ELSE IF s \in C \ newer THEN "rejected" ELSE state[s]]
     /\ due' = [due EXCEPT ![v] = FALSE]
     /\ UNCHANGED <<campaign, job, infra, action, winner, entry, score, stale, waiting,
                    crownVars, workerVars, condemned>>

\* create_round when a re-check fails: it returns None and changes nothing.
CreateLoses(v) ==
  /\ due[v]
  /\ \/ ~Recheck
     \/ Keepers(Oldest(Queued)) = {}
     \/ leader.sub \in Keepers(Oldest(Queued))
  /\ due' = [due EXCEPT ![v] = FALSE]
  /\ UNCHANGED <<campaign, subVars, roundVars, crownVars, workerVars, condemned>>

\* _requeue_challengers on round o: live-streamed disqualifications are reset,
\* then every challenger entry that is not settled is queued again.
Requeue(o) ==
  LET reset == [s \in Sub |-> IF entry[o][s] = "disqualified" /\ s \in EntriesOf(o)
                              THEN "pending" ELSE entry[o][s]]
  IN /\ entry' = [entry EXCEPT ![o] = reset]
     /\ state' = [s \in Sub |-> IF s \in cohort[o] /\ reset[s] \notin Settled
                                THEN "bench_queued" ELSE state[s]]

VoidToPending(o) ==  \* mutant: the round itself is handed to the next worker
  /\ rstatus[o] = "running"
  /\ rstatus' = [rstatus EXCEPT ![o] = "pending"]
  /\ stale' = stale \ {o}
  /\ UNCHANGED <<entry, state>>

\* The shared body of void_round and reap_stale_rounds.
VoidTo(o) ==
  /\ rstatus[o] = "running"
  /\ rstatus' = [rstatus EXCEPT ![o] = "void"]
  /\ stale' = stale \ {o}
  /\ Requeue(o)

ReapOpenOnly ==  \* mutant: a closed campaign's rounds are not reaped
  /\ campaign = "open"
  /\ \E o \in stale : VoidTo(o)
  /\ UNCHANGED <<campaign, job, infra, action, incumbent, winner, cohort, score, waiting,
                 crownVars, due, workerVars, condemned>>

ReapStaleRounds ==
  /\ \E o \in stale : VoidTo(o)
  /\ UNCHANGED <<campaign, job, infra, action, incumbent, winner, cohort, score, waiting,
                 crownVars, due, workerVars, condemned>>

\* Time passes: a running round's last heartbeat becomes too old.
GoStale(o) ==
  /\ rstatus[o] = "running" /\ o \notin stale
  /\ stale' = stale \cup {o}
  /\ UNCHANGED <<campaign, subVars, rstatus, incumbent, winner, cohort, entry, score, waiting,
                 crownVars, due, workerVars, condemned>>

\* Time passes: a deferred round's retry_after is reached.
RetryElapsed(o) ==
  /\ o \in waiting
  /\ waiting' = waiting \ {o}
  /\ UNCHANGED <<campaign, subVars, rstatus, incumbent, winner, cohort, entry, score, stale,
                 crownVars, due, workerVars, condemned>>

-----------------------------------------------------------------------------
\* The round worker.

\* claim_pending_round
ClaimRound(w) ==
  /\ pc[w] = "idle"
  /\ campaign = "open"
  /\ \E o \in Ordinal \ waiting :
       /\ rstatus[o] = "pending"
       /\ rstatus' = [rstatus EXCEPT ![o] = "running"]
       /\ stale' = stale \ {o}
       /\ claim' = [claim EXCEPT ![w] = o]
  /\ pc' = [pc EXCEPT ![w] = "claimed"]
  /\ UNCHANGED <<campaign, subVars, incumbent, winner, cohort, entry, score, waiting,
                 crownVars, due, report, seen, condemned>>

\* Trace, leader image and budget checks passed; the reporter starts.
StartBench(w) ==
  /\ pc[w] = "claimed"
  /\ pc' = [pc EXCEPT ![w] = "benching"]
  /\ UNCHANGED <<campaign, subVars, roundVars, crownVars, due, claim, report, seen, condemned>>

\* set_round_phase / touch_round_heartbeat: lands only on a running round.
Heartbeat(w) ==
  /\ pc[w] = "benching"
  /\ rstatus[claim[w]] = "running" /\ claim[w] \in stale
  /\ stale' = stale \ {claim[w]}
  /\ UNCHANGED <<campaign, subVars, rstatus, incumbent, winner, cohort, entry, score, waiting,
                 crownVars, due, workerVars, condemned>>

BeaconUnfiltered == {"running", "scored", "disqualified", "infra_failed"}  \* mutant
BeaconAnyWord == {"running", "disqualified", "infra_failed", "timeout"}    \* mutant

\* The candidate statuses read_pod_entry_statuses lets through.
Beacon == {"running", "disqualified", "infra_failed"}

\* update_round_entry_live_status: forward-only, and only on a running round.
LiveStatus(w, s, st) ==
  /\ pc[w] = "benching"
  /\ st \in Beacon
  /\ rstatus[claim[w]] = "running"
  /\ s \in EntriesOf(claim[w])
  /\ entry[claim[w]][s] \in {"pending", "running"}
  /\ entry' = [entry EXCEPT ![claim[w]][s] = st]
  /\ UNCHANGED <<campaign, subVars, rstatus, incumbent, winner, cohort, score, stale, waiting,
                 crownVars, due, workerVars, condemned>>

\* NoCapacityError: defer_round_for_capacity.  The worker is done with the
\* round whether or not the write landed.
DeferRound(w) ==
  /\ pc[w] = "benching"
  /\ IF rstatus[claim[w]] = "running"
     THEN /\ rstatus' = [rstatus EXCEPT ![claim[w]] = "pending"]
          /\ waiting' = waiting \cup {claim[w]}
          /\ stale'   = stale \ {claim[w]}
     ELSE UNCHANGED <<rstatus, waiting, stale>>
  /\ pc' = [pc EXCEPT ![w] = "idle"]
  /\ claim' = [claim EXCEPT ![w] = 0]
  /\ UNCHANGED <<campaign, subVars, incumbent, winner, cohort, entry, score, crownVars, due,
                 report, seen, condemned>>

\* The bench ended with a bound report.  The stored leader score is read now,
\* outside the settling transaction.  Of a report that voids the round nothing
\* else is read: NoReport stands for all of them.
RankReport(w) ==
  /\ pc[w] = "benching"
  /\ \E rep \in Report :
       /\ \A s \in Sub : s \notin EntriesOf(claim[w]) => rep.status[s] = "infra_failed"
       /\ \A s \in Sub : rep.status[s] # "scored" => rep.score[s] = 0
       /\ Voids(rep, incumbent[claim[w]], cohort[claim[w]]) => rep = NoReport
       /\ report' = [report EXCEPT ![w] = rep]
  /\ seen' = [seen EXCEPT ![w] = IF incumbent[claim[w]] = NoSub THEN 0 ELSE leader.score]
  /\ pc' = [pc EXCEPT ![w] = "ranked"]
  /\ UNCHANGED <<campaign, subVars, roundVars, crownVars, due, claim, condemned>>

\* The event an entry's verdict writes for its submission (complete_round).
SettledState(s, o, verdict) ==
  IF verdict = "infra_failed" /\ s \in cohort[o] /\ s \notin infra
  THEN "bench_queued" ELSE verdict

SeatOnce(s, o, sc) ==  \* mutant: last_scored_round_id kept while the leader holds
  [sub |-> s, wonAt |-> IF leader.sub = s THEN leader.wonAt ELSE o,
   scoredAt |-> IF leader.sub = s THEN leader.scoredAt ELSE o, score |-> sc]

\* leaders upsert: the winning round is kept while the same submission holds.
Seat(s, o, sc) ==
  [sub |-> s, wonAt |-> IF leader.sub = s THEN leader.wonAt ELSE o,
   scoredAt |-> o, score |-> sc]

\* The crown part of complete_round, from the decision ranking made.
Crown(w, o) ==
  LET rep  == report[w]
      lead == incumbent[o]
      S    == Contenders(rep, lead, cohort[o])
      prev == PrevScore(rep, lead, seen[w])
  IN \/ \E s \in S :
          /\ FirstMax(rep.score, S, s)
          /\ leader'  = Seat(s, o, rep.score[s])
          /\ history' = Row(IF lead = NoSub THEN "seated" ELSE "overtaken", s, lead, prev)
          /\ winner'  = [winner EXCEPT ![o] = s]
     \/ /\ S = {} /\ lead # NoSub /\ ~Holds(rep, lead)
        /\ leader'  = Vacant
        /\ history' = Row("vacated", NoSub, lead, prev)
        /\ UNCHANGED winner
     \/ /\ S = {} /\ Holds(rep, lead)
        /\ leader' = Seat(lead, o, rep.score[lead])
        /\ winner' = [winner EXCEPT ![o] = lead]
        /\ UNCHANGED history
     \/ /\ S = {} /\ lead = NoSub
        /\ UNCHANGED <<leader, history, winner>>

\* complete_round
CompleteRound(w) ==
  LET o   == claim[w]
      rep == report[w]
      E   == EntriesOf(o)
  IN /\ pc[w] = "ranked"
     /\ ~Voids(rep, incumbent[o], cohort[o])
     /\ IF rstatus[o] = "running"
        THEN /\ rstatus' = [rstatus EXCEPT ![o] = "complete"]
             /\ entry' = [entry EXCEPT ![o] =
                            [s \in Sub |-> IF s \in E THEN rep.status[s] ELSE entry[o][s]]]
             /\ score' = [score EXCEPT ![o] =
                            [s \in Sub |-> IF s \in E THEN rep.score[s] ELSE score[o][s]]]
             /\ state' = [s \in Sub |-> IF s \in E THEN SettledState(s, o, rep.status[s])
                                        ELSE state[s]]
             /\ infra' = infra \cup {s \in E : rep.status[s] = "infra_failed"}
             /\ stale' = stale \ {o}
             /\ Crown(w, o)
        ELSE UNCHANGED <<rstatus, entry, score, state, infra, stale, winner, crownVars>>
     /\ pc' = [pc EXCEPT ![w] = "idle"]
     /\ claim' = [claim EXCEPT ![w] = 0]
     /\ report' = [report EXCEPT ![w] = NoReport]
     /\ seen' = [seen EXCEPT ![w] = 0]
     /\ UNCHANGED <<campaign, job, action, incumbent, cohort, waiting, due, condemned>>

\* RoundInfraError anywhere before settling, or a report that ranking voids:
\* void_round, which lands only on a running round.
VoidRound(w) ==
  LET o == claim[w]
  IN /\ \/ pc[w] \in {"claimed", "benching"}
        \/ pc[w] = "ranked" /\ Voids(report[w], incumbent[o], cohort[o])
     /\ \/ VoidTo(o)
        \/ rstatus[o] # "running" /\ UNCHANGED <<rstatus, stale, entry, state>>
     /\ pc' = [pc EXCEPT ![w] = "idle"]
     /\ claim' = [claim EXCEPT ![w] = 0]
     /\ report' = [report EXCEPT ![w] = NoReport]
     /\ seen' = [seen EXCEPT ![w] = 0]
     /\ UNCHANGED <<campaign, job, infra, action, incumbent, winner, cohort, score, waiting,
                    crownVars, due, condemned>>

\* The worker process dies, or an exception process_round does not catch
\* (a failed evidence upload) ends the cycle: the round stays running.
WorkerCrash(w) ==
  /\ pc[w] # "idle"
  /\ pc' = [pc EXCEPT ![w] = "idle"]
  /\ claim' = [claim EXCEPT ![w] = 0]
  /\ report' = [report EXCEPT ![w] = NoReport]
  /\ seen' = [seen EXCEPT ![w] = 0]
  /\ UNCHANGED <<campaign, subVars, roundVars, crownVars, due, condemned>>

-----------------------------------------------------------------------------
\* Operators and the weights process.

\* campaigns.status is changed by hand.
SetCampaign(c) ==
  /\ campaign # c
  /\ campaign' = c
  /\ UNCHANGED <<subVars, roundVars, crownVars, due, workerVars, condemned>>

RunnersUpUnfiltered(st, act) ==  \* mutant: only the round's record is looked at
  LET o == leader.scoredAt
  IN {s \in EntriesOf(o) \ {leader.sub} : entry[o][s] = "scored" /\ score[o][s] > 0}

\* The runner-up disqualify_campaign_hotkey may seat, given the states and
\* manual actions as they are after its own events.
RunnersUp(st, act) ==
  LET o == leader.scoredAt
  IN {s \in EntriesOf(o) \ {leader.sub} :
        /\ entry[o][s] = "scored" /\ score[o][s] > 0
        /\ st[s] = "scored"
        /\ act[hotkeyOf[s]] # "disqualified"}

GatesNeverBusy(mine) == FALSE  \* mutant

\* A gate job of the hotkey is running.
GatesBusy(mine) == \E s \in mine : job[s] = "running"

\* disqualify_campaign_hotkey begins: now() is fixed here.
BeginExclusion(h) ==
  /\ h \in Excludable \ excluding
  /\ excluding' = excluding \cup {h}
  /\ UNCHANGED <<engineVars, later, escaped>>

\* It is refused (a live round, a running gate job, no submission) or dies.
EndExclusion(h) ==
  /\ h \in excluding
  /\ excluding' = excluding \ {h}
  /\ later' = later \ (Own(h) \cup {h})
  /\ UNCHANGED <<engineVars, escaped>>

\* It has its locks and commits.  What it missed, a submission with a newer
\* event or a newer waiver of the hotkey, stays as it was.
Disqualify(h) ==
  LET mine    == {s \in Own(h) : state[s] # "absent"}
      created == ~Banned(h)
  IN \E missed \in SUBSET (later \cap (mine \cup {h})) :
     /\ h \in excluding
     /\ Idle
     /\ mine # {}
     /\ ~GatesBusy(mine)
     /\ job' = [s \in Sub |-> IF s \in mine /\ job[s] = "pending" THEN "done" ELSE job[s]]
     /\ state' = [s \in Sub |-> IF created /\ s \in mine \ missed THEN "disqualified"
                                ELSE state[s]]
     /\ action' = IF h \in missed THEN action ELSE [action EXCEPT ![h] = "disqualified"]
     /\ escaped' = IF created THEN (escaped \ mine) \cup (missed \cap mine) ELSE escaped
     /\ excluding' = excluding \ {h}
     /\ later' = later \ (Own(h) \cup {h})
     /\ \/ /\ leader.sub \notin mine
           /\ UNCHANGED crownVars
        \/ /\ leader.sub \in mine
           /\ RunnersUp(state', action') = {}
           /\ leader'  = Vacant
           /\ history' = Row("vacated", NoSub, leader.sub, leader.score)
        \/ /\ leader.sub \in mine
           /\ \E s \in RunnersUp(state', action') :
                /\ FirstMax(score[leader.scoredAt], RunnersUp(state', action'), s)
                /\ leader' = [sub |-> s, wonAt |-> leader.scoredAt,
                              scoredAt |-> leader.scoredAt,
                              score |-> score[leader.scoredAt][s]]
                /\ history' = Row("seated", s, NoSub, 0)
     /\ UNCHANGED <<campaign, infra, roundVars, due, workerVars, condemned>>

\* waive_campaign_hotkey: the waiver is a disqualified event, with a waived
\* action, on the hotkey's newest submission.  (One that began before the
\* exclusion it follows is older than it and changes nothing.)
Waive(h) ==
  /\ Banned(h)
  /\ \E s \in Sub :
       /\ hotkeyOf[s] = h /\ state[s] # "absent"
       /\ state' = [state EXCEPT ![s] = "disqualified"]
  /\ action' = [action EXCEPT ![h] = "waived"]
  /\ UNCHANGED <<campaign, job, infra, roundVars, crownVars, due, workerVars, condemned>>

\* reconcile_deregistrations, the read: an idle campaign's leader is missing
\* from the metagraph the cycle fetched.
ListIdleLeaders ==
  /\ condemned = {}
  /\ leader.sub # NoSub /\ Idle
  /\ condemned' = {hotkeyOf[leader.sub]}
  /\ UNCHANGED <<campaign, subVars, roundVars, crownVars, due, workerVars>>

VacateMidRound ==  \* mutant: the idle check is not repeated under the lock
  /\ condemned # {}
  /\ IF leader.sub # NoSub
     THEN /\ leader' = Vacant
          /\ history' = Row("vacated", NoSub, leader.sub, leader.score)
     ELSE UNCHANGED crownVars
  /\ condemned' = {}
  /\ UNCHANGED <<campaign, subVars, roundVars, due, workerVars>>

\* vacate_leader_if_idle: drops whoever holds the crown.
VacateLeader ==
  /\ condemned # {}
  /\ IF leader.sub # NoSub /\ Idle
     THEN /\ leader' = Vacant
          /\ history' = Row("vacated", NoSub, leader.sub, leader.score)
     ELSE UNCHANGED crownVars
  /\ condemned' = {}
  /\ UNCHANGED <<campaign, subVars, roundVars, due, workerVars>>

-----------------------------------------------------------------------------
Gates(s) ==
  \/ InsertSubmission(s) \/ ClaimJob(s) \/ DeferJob(s)
  \/ RejectGates(s) \/ FailJob(s) \/ CompleteGates(s)

Watch(v) == ScanQueue(v) \/ CreateRound(v) \/ CreateLoses(v)

Work(w) ==
  \/ ClaimRound(w) \/ StartBench(w) \/ Heartbeat(w)
  \/ \E s \in Sub, st \in Beacon : LiveStatus(w, s, st)
  \/ DeferRound(w) \/ RankReport(w) \/ CompleteRound(w) \/ VoidRound(w)
  \/ WorkerCrash(w)

Operate ==
  \/ \E c \in {"open", "closed"} : SetCampaign(c)
  \/ \E h \in Hotkey : Waive(h)

\* What an exclusion that waits finds newer than itself: every event committed
\* since about its hotkey.
Dated ==
  /\ excluding \subseteq Waits
  /\ later' = later \cup {s \in Sub : hotkeyOf[s] \in excluding /\ state'[s] # state[s]}
                   \cup {h \in excluding : action'[h] # action[h]}
  /\ UNCHANGED <<excluding, escaped>>

Engine ==
  \/ \E s \in Sub : Gates(s)
  \/ \E v \in Watcher : Watch(v)
  \/ ReapStaleRounds
  \/ \E o \in Ordinal : GoStale(o) \/ RetryElapsed(o)
  \/ \E w \in Worker : Work(w)
  \/ Operate
  \/ ListIdleLeaders \/ VacateLeader

Next ==
  \/ Engine /\ Dated
  \/ \E h \in Hotkey : BeginExclusion(h) \/ Disqualify(h) \/ EndExclusion(h)

Spec == Init /\ [][Next]_vars

\* Fairness.  The watcher and the weights timer run on a schedule; time passes;
\* an idle worker polls; a bench is cut off by bench_timeout_s, so a benching
\* worker leaves that phase.  Operators, miners, heartbeats and crashes are not
\* assumed to happen.
EndBench(w) == DeferRound(w) \/ RankReport(w) \/ CompleteRound(w) \/ VoidRound(w)

Fairness ==
  /\ \A v \in Watcher : WF_engineVars(Watch(v))
  /\ WF_engineVars(ReapStaleRounds)
  /\ \A o \in Ordinal : WF_engineVars(GoStale(o)) /\ WF_engineVars(RetryElapsed(o))
  /\ \A w \in Worker : /\ WF_engineVars(ClaimRound(w))
                       /\ WF_engineVars(StartBench(w))
                       /\ WF_engineVars(EndBench(w))

FairSpec == Spec /\ Fairness

-----------------------------------------------------------------------------
\* Properties.

\* Every variable of the engine stays in its domain.
Domains ==
  /\ campaign \in {"open", "closed"}
  /\ state  \in [Sub -> State]
  /\ job    \in [Sub -> JobStatus]
  /\ infra  \subseteq Sub
  /\ action \in [Hotkey -> {"none", "disqualified", "waived"}]
  /\ rstatus   \in [Ordinal -> {"none", "pending", "running", "complete", "void"}]
  /\ incumbent \in [Ordinal -> Sub \cup {NoSub}]
  /\ winner    \in [Ordinal -> Sub \cup {NoSub}]
  /\ cohort    \in [Ordinal -> SUBSET Sub]
  /\ entry \in [Ordinal -> [Sub -> EntryStatus]]
  /\ score \in [Ordinal -> [Sub -> Score]]
  /\ stale \subseteq Ordinal
  /\ waiting \subseteq Ordinal
  /\ leader  \in LeaderRow
  /\ history \in HistoryRow
  /\ due \in [Watcher -> BOOLEAN]
  /\ pc     \in [Worker -> Phase]
  /\ claim  \in [Worker -> Ordinal \cup {0}]
  /\ report \in [Worker -> Report]
  /\ seen   \in [Worker -> Int]
  /\ condemned \subseteq Hotkey

\* Every variable stays in its domain.
TypeOK ==
  /\ Domains
  /\ excluding \subseteq Hotkey
  /\ later \subseteq Sub \cup Hotkey
  /\ escaped \subseteq Sub

\* Two watchers that both read a due queue never leave the campaign with two
\* pending or running rounds (create_round's re-check under the campaign lock,
\* rounds_one_live_per_campaign).
OneLiveRound == \A o, p \in Ordinal : Live(o) /\ Live(p) => o = p

\* While a round is live, the crown is the one it was created against: neither
\* the weights process nor an operator replaces the incumbent a worker is about
\* to rank, so the decision it computed outside the transaction still fits.
IncumbentFrozen == \A o \in Ordinal : Live(o) => incumbent[o] = leader.sub

\* No submission is lost between rounds: it is marked round_assigned only while
\* it is a challenger of a live round, and a void, a reap, a deferral, a crash or
\* a settled round moves it back to the queue or on to a verdict.  A challenger
\* of a live round reads round_assigned, or still bench_queued when it was queued
\* after create_round began; nothing else, unless its exclusion missed it and was
\* waived meanwhile.
NobodyStranded ==
  \A s \in Sub :
    /\ state[s] = "round_assigned" => \E o \in Ordinal : Live(o) /\ s \in cohort[o]
    /\ \A o \in Ordinal : Live(o) /\ s \in cohort[o] =>
         \/ state[s] \in {"round_assigned", "bench_queued"}
         \/ state[s] = "disqualified" /\ s \in escaped

\* At most one worker holds a round, and what it holds is running or was
\* voided under it: a late worker can never settle or defer a round another
\* worker claimed, although rounds carry no attempt number.
SoleOwner ==
  /\ \A u, w \in Worker : claim[u] = claim[w] /\ claim[u] # 0 => u = w
  /\ \A w \in Worker : pc[w] # "idle" => /\ claim[w] \in Ordinal
                                         /\ rstatus[claim[w]] \in {"running", "void"}

\* The leaders row is backed by the record of a completed round: its submission
\* was scored there, above the baseline, with the score the row publishes.
LeaderBacked ==
  leader.sub # NoSub =>
    /\ leader.sub \in Sub
    /\ leader.wonAt \in Ordinal /\ leader.scoredAt \in Ordinal
    /\ leader.wonAt <= leader.scoredAt
    /\ rstatus[leader.wonAt] = "complete" /\ rstatus[leader.scoredAt] = "complete"
    /\ leader.sub \in EntriesOf(leader.scoredAt)
    /\ entry[leader.scoredAt][leader.sub] = "scored"
    /\ score[leader.scoredAt][leader.sub] = leader.score
    /\ leader.score > 0

\* Until an operator waives it, an excluded hotkey has no work at the gates, and
\* a submission of it is queued, in a live round or crowned only if an event
\* committed while the exclusion waited for its locks was newer than it
\* (disqualify_campaign_hotkey).
BanSticks ==
  \A s \in Sub :
    Banned(hotkeyOf[s]) =>
      /\ job[s] \notin {"pending", "running"}
      /\ s \notin escaped =>
           /\ state[s] \in {"absent", "disqualified"}
           /\ leader.sub # s
           /\ \A o \in Ordinal : Live(o) => s \notin EntriesOf(o)

\* leader_history explains the crown: its newest row names the current leader,
\* through rounds, exclusions, replacements and vacating alike.
HistoryNamesCrown == history.new = leader.sub

\* The crown holder is never waiting in the queue or in a round as challenger,
\* so create_round never collides with its own leader entry.
LeaderNotQueued ==
  leader.sub # NoSub =>
    \/ state[leader.sub] = "scored"
    \/ state[leader.sub] = "disqualified" /\ leader.sub \in escaped

\* A verdict is final: no interleaving of voids, reaps, retries and operators
\* brings a rejected, disqualified or twice-infra-failed submission back.  (One
\* that its exclusion missed goes on to the verdict of its round.)
VerdictFinal ==
  [][\A s \in Sub \ escaped : state[s] \in Terminal => state'[s] \in Terminal]_vars

\* A challenger's infrastructure failure buys one retry: after the second one a
\* settled round does not queue it again.
InfraRetriedOnce ==
  [][\A o \in Ordinal : \A s \in infra \cap cohort[o] :
       rstatus[o] = "running" /\ rstatus'[o] = "complete" =>
         state'[s] # "bench_queued"]_vars

\* A leader is replaced by another submission only by a round that measured
\* both and in which the newcomer cleared the moat, or by its own exclusion.
CrownFairlyTaken ==
  [][\A s, t \in Sub :
       leader.sub = s /\ leader'.sub = t /\ s # t =>
         \/ hotkeyOf[s] \in excluding \ excluding'
         \/ LET o == leader'.scoredAt
            IN /\ entry'[o][s] \in Settled
               /\ entry'[o][s] = "scored" /\ score'[o][s] > 0 =>
                    score'[o][t] * EpsDen > score'[o][s] * (EpsDen + EpsNum)]_vars

\* The crown invariants together: while a round is live the crown is the one it
\* was created against, the leaders row is the record of a completed round,
\* leader_history names the leader, and the leader is nobody's challenger.
CrownSafe == IncumbentFrozen /\ LeaderBacked /\ HistoryNamesCrown /\ LeaderNotQueued

\* The abstract crown register, read off the leaders row, the newest
\* leader_history row and the rounds' statuses.
Register == INSTANCE CrownRegister WITH
  holder  <- leader.sub,
  worth   <- leader.score,
  contest <- ~Idle,
  ledger  <- [new |-> history.new, prev |-> history.prev, prevScore |-> history.prevScore]

\* The competition implements the crown register: create_round opens a contest,
\* void, reap and complete_round close it in the one step that may move the
\* crown, and no exclusion, vacating or late worker changes leaders or
\* leader_history while it is open.
CrownImplemented == Register!SpecRegister

\* A round never stays running: its worker settles, defers or voids it, or the
\* reaper voids it after the worker died.
RunningEnds ==
  \A o \in Ordinal : rstatus[o] = "running" ~> rstatus[o] # "running"

\* A queued submission reaches a round, unless the campaign is closed, the GPU
\* market stays empty, or the bound on rounds is used up.
QueueDrains ==
  \A s \in Sub :
    state[s] = "bench_queued" ~>
      \/ state[s] # "bench_queued"
      \/ campaign = "closed"
      \/ waiting # {}
      \/ rstatus[MaxOrdinal] # "none"

\* The weights process vacates only a leader whose hotkey it found missing from
\* the metagraph.
VacatesTheDeregistered ==
  [][condemned # {} /\ condemned' = {} /\ leader.sub # NoSub /\ leader' = Vacant =>
       hotkeyOf[leader.sub] \in condemned]_vars
=============================================================================

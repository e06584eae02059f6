----------------------------- MODULE EventOrder -----------------------------
(***************************************************************************)
(* The order of submission events.  A submission's state is its newest     *)
(* event, and every reader orders events by created_at, whose default      *)
(* now() is the time the writing TRANSACTION began.  Rounds treats a store *)
(* function as one step; here the three that race over one campaign are    *)
(* split where they wait:                                                  *)
(*   - the operator's disqualify_campaign_hotkey: begin, then the campaign *)
(*     and submission locks, then the gate-job locks and the writes;       *)
(*   - the gate worker's complete_gates_job, which never takes the campaign*)
(*     lock: begin with the job row, then the event and the commit;        *)
(*   - the watcher's create_round: begin, then the campaign lock and the   *)
(*     writes.                                                             *)
(* One hotkey owns every submission of Mine; the operator excludes it.     *)
(***************************************************************************)
EXTENDS Integers, FiniteSets

CONSTANTS
  Sub,       \* submissions of one campaign, all past ingestion
  Mine,      \* the ones of the hotkey the operator excludes
  MaxClock   \* bound: transactions that may begin

ASSUME MineAssumption  == Mine \subseteq Sub /\ Mine # {}
ASSUME ClockAssumption == MaxClock \in Nat

VARIABLES
  clock,     \* begin time of the newest transaction
  eventLog,  \* submission_events: [sub, state, at]
  gateJob,   \* submission_jobs.status
  gate,      \* open complete_gates_job transactions: begin time, 0 when none
  op,        \* the operator's transaction: where it is, and its begin time
  creator,   \* begin time of an open create_round, 0 when none
  cohort,    \* challengers of the live round, {} when there is none
  excluded   \* the exclusion has committed

orderVars == <<clock, eventLog, gateJob, gate, op, creator, cohort, excluded>>

Event == [sub : Sub, state : {"committed", "bench_queued", "round_assigned", "scored",
                              "disqualified"}, at : 0..MaxClock]
At(s, st, t) == [sub |-> s, state |-> st, at |-> t]

\* ORDER BY created_at DESC, id DESC LIMIT 1.  Begin times are distinct.
Newest(s) ==
  {e.state : e \in {f \in eventLog : f.sub = s /\ \A g \in eventLog : g.sub = s => g.at <= f.at}}

Closed == [at |-> 0, pc |-> "idle"]

InitOrder ==
  /\ clock = 0
  /\ eventLog = {At(s, "committed", 0) : s \in Sub}
  /\ gateJob = [s \in Sub |-> "pending"]
  /\ gate = [s \in Sub |-> 0]
  /\ op = Closed
  /\ creator = 0
  /\ cohort = {}
  /\ excluded = FALSE

\* A transaction's first statement fixes now() for all of its events.
Begin == clock < MaxClock /\ clock' = clock + 1

-----------------------------------------------------------------------------
\* Row locks.

CampaignFree   == op.pc # "locked"
SubmissionFree(s) == ~(op.pc = "locked" /\ s \in Mine)
JobFree(s)     == gate[s] = 0

-----------------------------------------------------------------------------
\* The gate worker.

\* claim_next_job: SKIP LOCKED passes over a job the operator has locked.
ClaimForGates(s) ==
  /\ gateJob[s] = "pending"
  /\ gateJob' = [gateJob EXCEPT ![s] = "running"]
  /\ UNCHANGED <<clock, eventLog, gate, op, creator, cohort, excluded>>

\* complete_gates_job: the UPDATE that locks the job row.
BeginGates(s) ==
  /\ gateJob[s] = "running" /\ gate[s] = 0
  /\ Begin
  /\ gate' = [gate EXCEPT ![s] = clock']
  /\ UNCHANGED <<eventLog, gateJob, op, creator, cohort, excluded>>

\* The event's foreign key needs the submission row, then everything commits.
CommitGates(s) ==
  /\ gate[s] # 0 /\ SubmissionFree(s)
  /\ eventLog' = eventLog \cup {At(s, "bench_queued", gate[s])}
  /\ gateJob' = [gateJob EXCEPT ![s] = "done"]
  /\ gate' = [gate EXCEPT ![s] = 0]
  /\ UNCHANGED <<clock, op, creator, cohort, excluded>>

-----------------------------------------------------------------------------
\* The operator.

\* disqualify_campaign_hotkey begins; it may wait for the campaign row.
BeginExclusion ==
  /\ op.pc = "idle" /\ ~excluded
  /\ Begin
  /\ op' = [at |-> clock', pc |-> "waiting"]
  /\ UNCHANGED <<eventLog, gateJob, gate, creator, cohort, excluded>>

\* The campaign and submission rows are locked, or a live round refuses it.
LockCampaign ==
  /\ op.pc = "waiting"
  /\ op' = IF cohort = {} THEN [op EXCEPT !.pc = "locked"] ELSE Closed
  /\ UNCHANGED <<clock, eventLog, gateJob, gate, creator, cohort, excluded>>

RefusesNothing == FALSE  \* mutant: a running gate job is not refused
Refuses == \E s \in Mine : gateJob[s] = "running"

StoppedAs == "done"

\* The job rows are locked once no gate transaction holds one.  A running job
\* refuses the exclusion; otherwise pending jobs settle and the events commit.
CommitExclusion ==
  /\ op.pc = "locked"
  /\ \A s \in Mine : JobFree(s)
  /\ op' = Closed
  /\ \/ Refuses /\ UNCHANGED <<eventLog, gateJob, excluded>>
     \/ /\ ~Refuses
        /\ gateJob' = [s \in Sub |-> IF s \in Mine /\ gateJob[s] = "pending" THEN StoppedAs ELSE gateJob[s]]
        /\ eventLog' = eventLog \cup {At(s, "disqualified", op.at) : s \in Mine}
        /\ excluded' = TRUE
  /\ UNCHANGED <<clock, gate, creator, cohort>>

\* The operator holds the submission and waits for the job; the gate worker
\* holds the job and waits for the submission.
Deadlocked == op.pc = "locked" /\ \E s \in Mine : gate[s] # 0

\* The database rolls one of the two back.  A rolled-back gate transaction
\* leaves its job running.
BreakDeadlock ==
  /\ Deadlocked
  /\ \/ op' = Closed /\ UNCHANGED gate
     \/ \E s \in Mine : gate[s] # 0 /\ gate' = [gate EXCEPT ![s] = 0] /\ UNCHANGED op
  /\ UNCHANGED <<clock, eventLog, gateJob, creator, cohort, excluded>>

-----------------------------------------------------------------------------
\* The watcher and the round worker.

BeginCreate ==
  /\ creator = 0
  /\ Begin
  /\ creator' = clock'
  /\ UNCHANGED <<eventLog, gateJob, gate, op, cohort, excluded>>

\* create_round: under the campaign lock it re-reads the live round and the queue.
CommitCreate ==
  LET queue == {s \in Sub : "bench_queued" \in Newest(s)}
  IN /\ creator # 0 /\ CampaignFree
     /\ creator' = 0
     /\ IF cohort = {} /\ queue # {}
        THEN /\ cohort' = queue
             /\ eventLog' = eventLog \cup {At(s, "round_assigned", creator) : s \in queue}
        ELSE UNCHANGED <<cohort, eventLog>>
     /\ UNCHANGED <<clock, gateJob, gate, op, excluded>>

\* complete_round or void_round, whose round row nobody else waits for.
EndRound ==
  /\ cohort # {}
  /\ Begin
  /\ \E st \in {"scored", "bench_queued"} :
       eventLog' = eventLog \cup {At(s, st, clock') : s \in cohort}
  /\ cohort' = {}
  /\ UNCHANGED <<gateJob, gate, op, creator, excluded>>

-----------------------------------------------------------------------------
NextOrder ==
  \/ \E s \in Sub : ClaimForGates(s) \/ BeginGates(s) \/ CommitGates(s)
  \/ BeginExclusion \/ LockCampaign \/ CommitExclusion \/ BreakDeadlock
  \/ BeginCreate \/ CommitCreate \/ EndRound

SpecOrder == InitOrder /\ [][NextOrder]_orderVars

-----------------------------------------------------------------------------
\* Every variable stays in its domain.
TypeOKOrder ==
  /\ clock \in 0..MaxClock
  /\ eventLog \subseteq Event
  /\ gateJob \in [Sub -> {"pending", "running", "done"}]
  /\ gate \in [Sub -> 0..MaxClock]
  /\ op \in [at : 0..MaxClock, pc : {"idle", "waiting", "locked"}]
  /\ creator \in 0..MaxClock
  /\ cohort \subseteq Sub
  /\ excluded \in BOOLEAN

\* Once an exclusion commits, no gate job of the hotkey is queued, running or
\* half committed: the locks make the gate worker and the operator take turns.
GatesQuiet ==
  excluded => \A s \in Mine : gateJob[s] = "done" /\ gate[s] = 0

\* A settled gate job is never left in no queue: its submission shows the event
\* complete_gates_job wrote with it, or a later one (a crash between two
\* transactions would lose it).
DoneIsQueued ==
  \A s \in Sub : gateJob[s] = "done" => \E e \in eventLog : e.sub = s /\ e.state # "committed"

\* The gate worker and the operator's exclusion never half-undo one another.
ExclusionSafe == TypeOKOrder /\ GatesQuiet /\ DoneIsQueued

\* After an exclusion has committed, every submission of the hotkey reads as
\* disqualified, so none is eligible for a round.
ExclusionIsNewest ==
  excluded => \A s \in Mine : Newest(s) = {"disqualified"}
=============================================================================

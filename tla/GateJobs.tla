------------------------------ MODULE GateJobs ------------------------------
(***************************************************************************)
(* The gate queue (submission_jobs) under the claim gate.  Workers claim a *)
(* job, run the gates and settle it in several transactions, any of which  *)
(* may be the last one before the worker dies.  Nothing reclaims a running *)
(* job: an operator inspects it and later recovers it with                 *)
(* ops/recover_submission.py, which must not meet a live worker.  The      *)
(* release tick drains the workers before it changes the environment.      *)
(*                                                                         *)
(* The activity lock is held shared by a worker for a whole cycle and      *)
(* exclusively by the tick or the recovery; the claim gate is the phase of *)
(* the release state file.  They are two things, read at different times.  *)
(***************************************************************************)
EXTENDS Integers

CONSTANTS
  NJobs,        \* jobs are numbered by created_at
  Bench,        \* jobs of campaigns that have a bench
  Worker,       \* gate workers (worker/main.py --queue submissions)
  MaxAttempts,  \* config.LLM_REVIEW_MAX_ATTEMPTS
  MaxClaims     \* bound: attempts up to which an operator requeues a job

Job == 1..NJobs

ASSUME JobsAssumption     == NJobs \in Nat /\ Bench \subseteq Job
ASSUME AttemptsAssumption == MaxAttempts \in Nat \ {0} /\ MaxClaims \in Nat

VARIABLES
  status,    \* submission_jobs.status
  attempts,  \* submission_jobs.attempts
  cooling,   \* deferred jobs whose retry time has not come
  events,    \* submission_events: the states recovery reads
  phase,     \* release state: open, draining, applying, starting
  pc,        \* worker-local: where the cycle is
  job,       \* worker-local: the claimed job, 0 when none
  attempt,   \* worker-local: attempts as returned by the claim
  noted      \* operator-local: attempts of each job as last inspected

workerVars == <<pc, job, attempt>>
vars == <<status, attempts, cooling, events, phase, workerVars, noted>>

Evidence == {"built", "bench_queued", "rejected", "disqualified"}

\* A cycle: lock taken, gate read, task claimed, then the task's transactions.
Cycle   == {"idle", "locked", "entered", "gates", "failing", "building", "built"}
Tasking == {"gates", "failing", "building", "built"}

Init ==
  /\ status   = [j \in Job |-> "pending"]
  /\ attempts = [j \in Job |-> 0]
  /\ cooling  = {}
  /\ events   = [j \in Job |-> {}]
  /\ phase    = "open"
  /\ pc       = [w \in Worker |-> "idle"]
  /\ job      = [w \in Worker |-> 0]
  /\ attempt  = [w \in Worker |-> 0]
  /\ noted    = [j \in Job |-> 0]

-----------------------------------------------------------------------------
\* The activity lock.  The tick holds it from quiescing until the residents of
\* the new release are up; a recovery holds it within one action.

SharedHeld   == \E w \in Worker : pc[w] # "idle"
TickHoldsIt  == phase = "applying"

\* The cycle ends: the lock is released and the task forgotten.
Leave(w) ==
  /\ pc'      = [pc EXCEPT ![w] = "idle"]
  /\ job'     = [job EXCEPT ![w] = 0]
  /\ attempt' = [attempt EXCEPT ![w] = 0]

\* _acquire_open_gate: LOCK_SH | LOCK_NB.
LockShared(w) ==
  /\ pc[w] = "idle" /\ ~TickHoldsIt
  /\ pc' = [pc EXCEPT ![w] = "locked"]
  /\ UNCHANGED <<status, attempts, cooling, events, phase, job, attempt, noted>>

\* gate_open, read under the lock.  A closed gate gives the lock back.
ReadGate(w) ==
  /\ pc[w] = "locked"
  /\ pc' = [pc EXCEPT ![w] = IF phase = "open" THEN "entered" ELSE "idle"]
  /\ UNCHANGED <<status, attempts, cooling, events, phase, job, attempt, noted>>

-----------------------------------------------------------------------------
\* The gate worker.

ClaimableRetried ==  \* mutant: a NULL last_error hides a job that never ran
  {j \in Job : status[j] = "pending" /\ j \notin cooling /\ attempts[j] > 0}

Claimable == {j \in Job : status[j] = "pending" /\ j \notin cooling}

\* claim_next_job: the oldest pending job outside its deferral window.
ClaimNextJob(w) ==
  /\ pc[w] = "entered"
  /\ \/ /\ Claimable = {}
        /\ Leave(w)
        /\ UNCHANGED <<status, attempts, cooling>>
     \/ \E j \in Claimable :
          /\ \A i \in Claimable : j <= i
          /\ status'   = [status EXCEPT ![j] = "running"]
          /\ attempts' = [attempts EXCEPT ![j] = @ + 1]
          /\ cooling'  = cooling \ {j}
          /\ pc'       = [pc EXCEPT ![w] = "gates"]
          /\ job'      = [job EXCEPT ![w] = j]
          /\ attempt'  = [attempt EXCEPT ![w] = attempts[j] + 1]
  /\ UNCHANGED <<events, phase, noted>>

\* Gates a to d2 pass and the build starts.
PassGates(w) ==
  /\ pc[w] = "gates"
  /\ pc' = [pc EXCEPT ![w] = "building"]
  /\ UNCHANGED <<status, attempts, cooling, events, phase, job, attempt, noted>>

\* _fail, first transaction.  A failed build takes the same path.
RejectSubmission(w) ==
  /\ pc[w] \in {"gates", "building"}
  /\ events' = [events EXCEPT ![job[w]] = @ \cup {"rejected"}]
  /\ pc' = [pc EXCEPT ![w] = "failing"]
  /\ UNCHANGED <<status, attempts, cooling, phase, job, attempt, noted>>

\* _fail, second transaction: set_job_status, which matches the job alone.
FailJob(w) ==
  /\ pc[w] = "failing"
  /\ status' = [status EXCEPT ![job[w]] = "failed"]
  /\ Leave(w)
  /\ UNCHANGED <<attempts, cooling, events, phase, noted>>

\* _defer_llm_review: the review provider is down and attempts are left.
\* defer_job matches the attempt, so a superseded attempt changes nothing.
DeferJob(w) ==
  LET lands == status[job[w]] = "running" /\ attempts[job[w]] = attempt[w]
  IN /\ pc[w] = "gates" /\ attempt[w] < MaxAttempts
     /\ status'  = IF lands THEN [status EXCEPT ![job[w]] = "pending"] ELSE status
     /\ cooling' = IF lands THEN cooling \cup {job[w]} ELSE cooling
     /\ Leave(w)
     /\ UNCHANGED <<attempts, events, phase, noted>>

\* LLM_REVIEW_RETRY_AFTER_S passes.
RetryElapsed(j) ==
  /\ j \in cooling
  /\ cooling' = cooling \ {j}
  /\ UNCHANGED <<status, attempts, events, phase, workerVars, noted>>

\* The image is recorded and the built event appended.
BuildSucceeds(w) ==
  /\ pc[w] = "building"
  /\ events' = [events EXCEPT ![job[w]] = @ \cup {"built"}]
  /\ pc' = [pc EXCEPT ![w] = "built"]
  /\ UNCHANGED <<status, attempts, cooling, phase, job, attempt, noted>>

\* complete_gates_job: one transaction, matching the job alone.
CompleteGatesJob(w) ==
  /\ pc[w] = "built"
  /\ status' = [status EXCEPT ![job[w]] = "done"]
  /\ events' = [events EXCEPT ![job[w]] =
                  IF job[w] \in Bench THEN @ \cup {"bench_queued"} ELSE @]
  /\ Leave(w)
  /\ UNCHANGED <<attempts, cooling, phase, noted>>

\* The process dies: the kernel drops its lock, the job stays running.
Crash(w) ==
  /\ pc[w] # "idle"
  /\ Leave(w)
  /\ UNCHANGED <<status, attempts, cooling, events, phase, noted>>

-----------------------------------------------------------------------------
\* Operators.

\* disqualify_campaign_hotkey, for the one submission: refused while running.
Exclude(j) ==
  /\ status[j] # "running" /\ "disqualified" \notin events[j]
  /\ status' = [status EXCEPT ![j] = IF @ = "pending" THEN "done" ELSE @]
  /\ events' = [events EXCEPT ![j] = @ \cup {"disqualified"}]
  /\ cooling' = cooling \ {j}
  /\ UNCHANGED <<attempts, phase, workerVars, noted>>

\* cmd_inspect
Inspect(j) ==
  /\ noted[j] # attempts[j]
  /\ noted' = [noted EXCEPT ![j] = attempts[j]]
  /\ UNCHANGED <<status, attempts, cooling, events, phase, workerVars>>

EvidenceClass(ev) ==
  CASE ev \cap {"rejected", "disqualified"} # {} /\ "bench_queued" \in ev -> "contradictory"
    [] ev \cap {"rejected", "disqualified"} # {} /\ "bench_queued" \notin ev -> "terminal-reject"
    [] ev \cap {"rejected", "disqualified"} = {} /\ "bench_queued" \in ev -> "progressed"
    [] OTHER -> "none"

\* _decide: the status a recovery writes, or "none" when it refuses.
Decide(outcome, ev, bench) ==
  LET klass == EvidenceClass(ev)
  IN CASE outcome = "requeue" /\ klass = "none" -> "pending"
       [] outcome = "settle" /\ klass = "terminal-reject" -> "failed"
       [] outcome = "settle" /\ klass = "progressed" -> "done"
       [] outcome = "settle" /\ klass = "none" /\ ~bench /\ "built" \in ev -> "done"
       [] OTHER -> "none"

CoordinatedByPhase == phase = "draining"  \* mutant: the activity lock is not taken

\* coordination(): the deploy mutex is free, the gate is closed before any
\* write, and the activity lock can be taken exclusively.
Coordinated == phase = "draining" /\ ~SharedHeld

\* cmd_recover
Recover(j, outcome) ==
  LET target == Decide(outcome, events[j], j \in Bench)
  IN /\ Coordinated
     /\ status[j] = "running" /\ attempts[j] = noted[j]
     /\ target # "none"
     /\ outcome = "requeue" => attempts[j] < MaxClaims
     /\ status' = [status EXCEPT ![j] = target]
     /\ UNCHANGED <<attempts, cooling, events, phase, workerVars, noted>>

-----------------------------------------------------------------------------
\* The release tick.

\* tick_idle: a new release closes the gate, whatever the workers are doing.
CloseGate ==
  /\ phase = "open" /\ phase' = "draining"
  /\ UNCHANGED <<status, attempts, cooling, events, workerVars, noted>>

\* tick_draining: exclusive lock, then no running record left.
Quiesce ==
  /\ phase = "draining" /\ ~SharedHeld
  /\ \A j \in Job : status[j] # "running"
  /\ phase' = "applying"
  /\ UNCHANGED <<status, attempts, cooling, events, workerVars, noted>>

\* request cancel, or the tick died and was cancelled before any write.
CancelRelease ==
  /\ phase = "draining" /\ phase' = "open"
  /\ UNCHANGED <<status, attempts, cooling, events, workerVars, noted>>

\* verify_flow: the activity lock is released before the workers start.
StartWorkers ==
  /\ phase = "applying" /\ phase' = "starting"
  /\ UNCHANGED <<status, attempts, cooling, events, workerVars, noted>>

\* startup_complete: every unit is healthy and the gate opens.
OpenGate ==
  /\ phase = "starting" /\ phase' = "open"
  /\ UNCHANGED <<status, attempts, cooling, events, workerVars, noted>>

-----------------------------------------------------------------------------
Work(w) ==
  \/ LockShared(w) \/ ReadGate(w) \/ ClaimNextJob(w)
  \/ PassGates(w) \/ RejectSubmission(w) \/ FailJob(w) \/ DeferJob(w)
  \/ BuildSucceeds(w) \/ CompleteGatesJob(w)

Operate(j) ==
  \/ Exclude(j) \/ Inspect(j)
  \/ \E o \in {"requeue", "settle"} : Recover(j, o)

Release == CloseGate \/ Quiesce \/ CancelRelease \/ StartWorkers \/ OpenGate

Next ==
  \/ \E w \in Worker : Work(w) \/ Crash(w)
  \/ \E j \in Job : RetryElapsed(j) \/ Operate(j)
  \/ Release

Spec == Init /\ [][Next]_vars

\* A live worker goes on with its cycle, systemd restarts a dead one and some
\* cycle gets as far as a claim, deferral windows pass, and a release
\* that has begun to write opens the gate again.  Nobody has to recover a job,
\* begin or cancel a release.
Fairness ==
  /\ \A w \in Worker :
       WF_vars(Work(w)) /\ SF_vars(ReadGate(w)) /\ SF_vars(ClaimNextJob(w))
  /\ \A j \in Job : WF_vars(RetryElapsed(j))
  /\ WF_vars(StartWorkers) /\ WF_vars(OpenGate)

FairSpec == Spec /\ Fairness

-----------------------------------------------------------------------------
\* Properties.

Working(w) == pc[w] \in Tasking
Stranded(j) == status[j] = "running" /\ ~\E w \in Worker : Working(w) /\ job[w] = j

\* Every variable stays in its domain.
TypeOK ==
  /\ status   \in [Job -> {"pending", "running", "done", "failed"}]
  /\ attempts \in [Job -> Nat]
  /\ cooling  \subseteq Job
  /\ events   \in [Job -> SUBSET Evidence]
  /\ phase    \in {"open", "draining", "applying", "starting"}
  /\ pc       \in [Worker -> Cycle]
  /\ job      \in [Worker -> Job \cup {0}]
  /\ attempt  \in [Worker -> Nat]
  /\ noted    \in [Job -> Nat]

\* A worker in a task owns the job's current attempt and owns it alone.  This
\* is what makes it safe that set_job_status and complete_gates_job match the
\* job and not the attempt: no recovery and no second claim meets a live one.
AttemptOwned ==
  /\ \A w \in Worker :
       Working(w) => /\ job[w] \in Job
                     /\ status[job[w]] = "running"
                     /\ attempts[job[w]] = attempt[w]
  /\ \A u, w \in Worker : Working(u) /\ Working(w) /\ job[u] = job[w] => u = w

\* No submission is both turned away by the gates and sent to a round,
\* whatever step a worker died in and however the job was recovered.
OneVerdict == \A j \in Job : ~({"rejected", "bench_queued"} \subseteq events[j])

\* A settled job left its submission somewhere: a failed one was rejected, a
\* done one was queued for a round, needed none, or was excluded.
SettledIsExplained ==
  \A j \in Job :
    /\ status[j] = "failed" => "rejected" \in events[j]
    /\ status[j] = "done" =>
         \/ "bench_queued" \in events[j]
         \/ "built" \in events[j] /\ j \notin Bench
         \/ "disqualified" \in events[j]

\* A job whose worker died is never beyond recovery: one of the two outcomes
\* is accepted for the evidence the dead worker left behind.
StrandedRecoverable ==
  \A j \in Job :
    Stranded(j) =>
      \E o \in {"requeue", "settle"} : Decide(o, events[j], j \in Bench) # "none"

\* No task runs while the environment is being replaced or before every unit
\* of the new release is up.
NoTaskUnderRelease ==
  phase \in {"applying", "starting"} => \A w \in Worker : ~Working(w)

\* The gate queue's promises together: live attempts are owned, verdicts agree,
\* nothing settled is unexplained, nothing stranded is beyond recovery, and no
\* task runs under a release.
QueueSafe ==
  /\ TypeOK /\ AttemptOwned /\ OneVerdict
  /\ SettledIsExplained /\ StrandedRecoverable /\ NoTaskUnderRelease

=============================================================================

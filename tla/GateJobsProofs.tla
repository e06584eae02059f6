--------------------------- MODULE GateJobsProofs ---------------------------
(***************************************************************************)
(* Safety of the gate queue for any number of jobs, workers and attempts.  *)
(* The properties are not inductive: the induction also needs how far the  *)
(* two-transaction rejection got (Traces), which statuses a piece of       *)
(* evidence can coexist with (Verdicts) and what the activity lock excludes*)
(* in each phase of a release (Locks).                                     *)
(***************************************************************************)
EXTENDS GateJobs, TLAPS

\* What a worker's position says about the events it has already written.
Traces ==
  \A w \in Worker :
    /\ pc[w] = "failing" => "rejected" \in events[job[w]]
    /\ pc[w] = "built"   => "built" \in events[job[w]]

\* A queued submission's job is done.  A rejected one's job failed, or is about
\* to, or was stranded on the way.  An excluded one's job is not in play.
Verdicts ==
  \A j \in Job :
    /\ "bench_queued" \in events[j] => status[j] = "done"
    /\ "rejected" \in events[j] =>
         /\ status[j] \in {"failed", "running"}
         /\ \A w \in Worker : Working(w) /\ job[w] = j => pc[w] = "failing"
    /\ "disqualified" \in events[j] => status[j] \in {"done", "failed"}

\* The exclusive lock empties the workers, and the closed gate keeps those that
\* start with the new release out of a task.
Locks ==
  \A w \in Worker :
    /\ phase = "applying" => pc[w] = "idle"
    /\ phase = "starting" => pc[w] \in {"idle", "locked"}

IInv == TypeOK /\ AttemptOwned /\ Traces /\ Verdicts /\ Locks /\ SettledIsExplained

\* Init
LEMMA InitIInv == Init => IInv
  BY JobsAssumption DEF Init, IInv, TypeOK, AttemptOwned, Traces, Verdicts, Locks,
       SettledIsExplained, Working, Tasking, Cycle, Evidence

\* Steps of a cycle outside a task.
LEMMA EnterIInv ==
  ASSUME IInv, NEW w \in Worker, LockShared(w) \/ ReadGate(w)
  PROVE  IInv'
  <1>1. TypeOK'
    BY DEF IInv, TypeOK, LockShared, ReadGate, Cycle
  <1>2. \A u \in Worker : /\ Working(u)' <=> Working(u)
                          /\ Working(u) => pc'[u] = pc[u]
    BY DEF IInv, TypeOK, LockShared, ReadGate, Working, Tasking
  <1>3. UNCHANGED <<status, attempts, cooling, events, phase, job, attempt, noted>>
    BY DEF LockShared, ReadGate
  <1>4. AttemptOwned' /\ Verdicts' /\ SettledIsExplained'
    BY <1>2, <1>3 DEF IInv, AttemptOwned, Verdicts, SettledIsExplained
  <1>5. Traces'
    BY <1>3 DEF IInv, TypeOK, Traces, LockShared, ReadGate
  <1>6. Locks'
    BY DEF IInv, TypeOK, Locks, LockShared, ReadGate, TickHoldsIt
  <1> QED  BY <1>1, <1>4, <1>5, <1>6 DEF IInv

\* claim_next_job
LEMMA ClaimIInv ==
  ASSUME IInv, NEW w \in Worker, ClaimNextJob(w)
  PROVE  IInv'
  <1>1. CASE Claimable = {} /\ Leave(w) /\ UNCHANGED <<status, attempts, cooling>>
    <2> USE <1>1
    <2>1. pc[w] = "entered" /\ UNCHANGED <<events, phase, noted>>
      BY DEF ClaimNextJob
    <2>2. TypeOK'
      BY <2>1 DEF IInv, TypeOK, Leave, Cycle
    <2>3. AttemptOwned' /\ Verdicts' /\ SettledIsExplained'
      BY <2>1 DEF IInv, TypeOK, AttemptOwned, Verdicts, SettledIsExplained, Working,
            Tasking, Leave
    <2>4. Traces' /\ Locks'
      BY <2>1 DEF IInv, TypeOK, Traces, Locks, Leave
    <2> QED  BY <2>2, <2>3, <2>4 DEF IInv
  <1>2. ASSUME NEW j \in Claimable,
               status'   = [status EXCEPT ![j] = "running"],
               attempts' = [attempts EXCEPT ![j] = @ + 1],
               cooling'  = cooling \ {j},
               pc'       = [pc EXCEPT ![w] = "gates"],
               job'      = [job EXCEPT ![w] = j],
               attempt'  = [attempt EXCEPT ![w] = attempts[j] + 1]
        PROVE  IInv'
    <2> USE <1>2
    <2>1. /\ pc[w] = "entered" /\ UNCHANGED <<events, phase, noted>>
          /\ j \in Job /\ status[j] = "pending"
      BY DEF ClaimNextJob, Claimable
    <2>2. TypeOK'
      BY <2>1 DEF IInv, TypeOK, Cycle
    <2>3. \A u \in Worker : Working(u) => job[u] # j
      BY <2>1 DEF IInv, AttemptOwned
    <2>4. \A u \in Worker : u # w =>
            /\ Working(u)' <=> Working(u)
            /\ job'[u] = job[u] /\ attempt'[u] = attempt[u] /\ pc'[u] = pc[u]
      BY <2>1 DEF IInv, TypeOK, Working
    <2>5. Working(w)' /\ job'[w] = j /\ attempt'[w] = attempts'[j] /\ pc'[w] = "gates"
      BY <2>1 DEF IInv, TypeOK, Working, Tasking
    <2>6. \A u \in Worker : u # w /\ Working(u) =>
            /\ status'[job[u]] = "running"
            /\ attempts'[job[u]] = attempt[u]
            /\ job[u] # j /\ job[u] \in Job
      BY <2>1, <2>3 DEF IInv, TypeOK, AttemptOwned
    <2>7. AttemptOwned'
      <3>1. status'[j] = "running"
        BY <2>1 DEF IInv, TypeOK
      <3>2. \A u \in Worker : Working(u)' =>
              /\ job'[u] \in Job /\ status'[job'[u]] = "running"
              /\ attempts'[job'[u]] = attempt'[u]
        BY <2>1, <2>4, <2>5, <2>6, <3>1
      <3>3. \A u, v \in Worker : Working(u)' /\ Working(v)' /\ job'[u] = job'[v] => u = v
        BY <2>4, <2>5, <2>6 DEF IInv, AttemptOwned
      <3> QED  BY <3>2, <3>3 DEF AttemptOwned
    <2>8. Traces'
      BY <2>1, <2>4, <2>5 DEF IInv, Traces
    <2>9. Verdicts'
      <3>1. events[j] \cap {"bench_queued", "rejected", "disqualified"} = {}
        BY <2>1 DEF IInv, Verdicts
      <3>2. \A i \in Job : i # j => status'[i] = status[i]
        BY DEF IInv, TypeOK
      <3> QED  BY <2>1, <2>4, <2>5, <3>1, <3>2 DEF IInv, Verdicts
    <2>10. Locks'
      BY <2>1, <2>4 DEF IInv, Locks
    <2>11. SettledIsExplained'
      BY <2>1 DEF IInv, TypeOK, SettledIsExplained
    <2> QED  BY <2>2, <2>7, <2>8, <2>9, <2>10, <2>11 DEF IInv
  <1> QED  BY <1>1, <1>2 DEF ClaimNextJob

\* A task that is left unchanged except for its own position and evidence.
LEMMA TaskIInv ==
  ASSUME IInv, NEW w \in Worker, PassGates(w) \/ RejectSubmission(w) \/ BuildSucceeds(w)
  PROVE  IInv'
  <1>1. /\ UNCHANGED <<status, attempts, cooling, phase, job, attempt, noted>>
        /\ Working(w) /\ job[w] \in Job /\ status[job[w]] = "running"
    BY DEF IInv, AttemptOwned, PassGates, RejectSubmission, BuildSucceeds, Working, Tasking
  <1>2. TypeOK'
    BY <1>1 DEF IInv, TypeOK, PassGates, RejectSubmission, BuildSucceeds, Cycle, Evidence
  <1>3. \A u \in Worker : /\ Working(u)' <=> Working(u)
                          /\ u # w => pc'[u] = pc[u]
    BY <1>1 DEF IInv, TypeOK, PassGates, RejectSubmission, BuildSucceeds, Working, Tasking
  <1>4. AttemptOwned'
    BY <1>1, <1>3 DEF IInv, AttemptOwned
  <1>5. \A j \in Job : /\ events[j] \subseteq events'[j]
                       /\ j # job[w] => events'[j] = events[j]
    BY <1>1 DEF IInv, TypeOK, PassGates, RejectSubmission, BuildSucceeds
  <1>6. Traces'
    <2>1. /\ pc'[w] = "failing" => "rejected" \in events'[job[w]]
          /\ pc'[w] = "built" => "built" \in events'[job[w]]
      BY <1>1 DEF IInv, TypeOK, PassGates, RejectSubmission, BuildSucceeds
    <2>2. \A u \in Worker : u # w /\ pc[u] \in {"failing", "built"} =>
            job[u] \in Job /\ job[u] # job[w]
      BY <1>1 DEF IInv, AttemptOwned, Working, Tasking
    <2> QED  BY <1>1, <1>3, <1>5, <2>1, <2>2 DEF IInv, Traces
  <1>7. Verdicts'
    <2>1. /\ "bench_queued" \in events'[job[w]] => "bench_queued" \in events[job[w]]
          /\ "disqualified" \in events'[job[w]] => "disqualified" \in events[job[w]]
          /\ "rejected" \in events'[job[w]] => pc'[w] = "failing"
      BY <1>1 DEF IInv, TypeOK, Verdicts, PassGates, RejectSubmission, BuildSucceeds
    <2>2. \A u \in Worker : Working(u) /\ job[u] = job[w] => u = w
      BY <1>1 DEF IInv, AttemptOwned
    <2>3. \A u \in Worker : Working(u)' /\ job'[u] = job[w] => u = w
      BY <1>1, <1>3, <2>2
    <2>4. ASSUME NEW j \in Job, j # job[w]
          PROVE  /\ events'[j] = events[j] /\ status'[j] = status[j]
                 /\ \A u \in Worker : Working(u)' /\ job'[u] = j =>
                      Working(u) /\ job[u] = j /\ pc'[u] = pc[u]
      BY <1>1, <1>3, <1>5, <2>4
    <2> QED  BY <1>1, <2>1, <2>3, <2>4 DEF IInv, Verdicts
  <1>8. Locks'
    BY <1>1, <1>3 DEF IInv, Locks, Working, Tasking
  <1>9. SettledIsExplained'
    BY <1>1, <1>5 DEF IInv, SettledIsExplained
  <1> QED  BY <1>2, <1>4, <1>6, <1>7, <1>8, <1>9 DEF IInv

\* The cycle ends, by the task settling its job, by a deferral or by a crash.
LEMMA LeaveIInv ==
  ASSUME IInv, NEW w \in Worker,
         FailJob(w) \/ DeferJob(w) \/ CompleteGatesJob(w) \/ Crash(w)
  PROVE  IInv'
  <1>1. /\ Leave(w) /\ UNCHANGED <<attempts, phase, noted>>
        /\ ~Crash(w) => Working(w) /\ job[w] \in Job /\ status[job[w]] = "running"
                        /\ attempts[job[w]] = attempt[w]
    BY DEF IInv, AttemptOwned, FailJob, DeferJob, CompleteGatesJob, Crash, Working, Tasking
  <1>2. /\ \A u \in Worker : u # w => /\ Working(u)' <=> Working(u)
                                      /\ pc'[u] = pc[u] /\ job'[u] = job[u]
                                      /\ attempt'[u] = attempt[u]
        /\ ~Working(w)' /\ pc'[w] = "idle"
    BY <1>1 DEF IInv, TypeOK, Leave, Working, Tasking
  <1>3. TypeOK'
    BY <1>1 DEF IInv, TypeOK, FailJob, DeferJob, CompleteGatesJob, Crash, Leave, Cycle,
          Evidence
  <1>4. \A j \in Job : (Crash(w) \/ j # job[w]) =>
          status'[j] = status[j] /\ events'[j] = events[j]
    BY <1>1 DEF IInv, TypeOK, FailJob, DeferJob, CompleteGatesJob, Crash
  <1>5. \A u \in Worker : u # w /\ Working(u) =>
          /\ job[u] \in Job /\ (Crash(w) \/ job[u] # job[w])
          /\ status[job[u]] = "running" /\ attempts[job[u]] = attempt[u]
    BY <1>1 DEF IInv, AttemptOwned
  <1>6. AttemptOwned'
    <2>1. \A u \in Worker : Working(u)' =>
            /\ job'[u] \in Job /\ status'[job'[u]] = "running"
            /\ attempts'[job'[u]] = attempt'[u]
      BY <1>1, <1>2, <1>4, <1>5
    <2>2. \A u, v \in Worker : Working(u)' /\ Working(v)' /\ job'[u] = job'[v] => u = v
      BY <1>2 DEF IInv, AttemptOwned
    <2> QED  BY <2>1, <2>2 DEF AttemptOwned
  <1>7. Traces'
    <2>1. ASSUME NEW u \in Worker, u # w, pc[u] \in {"failing", "built"}
          PROVE  events'[job'[u]] = events[job[u]] /\ pc'[u] = pc[u]
      BY <2>1, <1>2, <1>4, <1>5 DEF Working, Tasking
    <2> QED  BY <1>2, <2>1 DEF IInv, Traces
  <1>8. Locks'
    BY <1>1, <1>2 DEF IInv, Locks
  <1>9. Verdicts' /\ SettledIsExplained'
    <2>1. ASSUME NEW j \in Job, Crash(w) \/ j # job[w]
          PROVE  \A u \in Worker : Working(u)' /\ job'[u] = j => Working(u) /\ job[u] = j
                                                               /\ pc'[u] = pc[u]
      BY <1>2
    <2>2. ASSUME ~Crash(w)
          PROVE  \A u \in Worker : ~(Working(u)' /\ job'[u] = job[w])
      BY <1>2, <1>5, <2>2
    <2>3. CASE Crash(w)
      BY <1>4, <2>1, <2>3 DEF IInv, Verdicts, SettledIsExplained
    <2>4. CASE ~Crash(w)
      <3> DEFINE i == job[w]
      <3>1. /\ i \in Job /\ Working(w) /\ status[i] = "running"
            /\ "bench_queued" \notin events[i] /\ "disqualified" \notin events[i]
            /\ "rejected" \in events[i] => pc[w] = "failing"
        BY <1>1, <2>4 DEF IInv, Verdicts
      <3>2. /\ "bench_queued" \in events'[i] => status'[i] = "done"
            /\ "rejected" \in events'[i] => status'[i] \in {"failed", "running"}
            /\ "disqualified" \notin events'[i]
        BY <1>1, <2>4, <3>1 DEF IInv, TypeOK, FailJob, DeferJob, CompleteGatesJob
      <3>3. /\ status'[i] = "failed" => "rejected" \in events'[i]
            /\ status'[i] = "done" => \/ "bench_queued" \in events'[i]
                                      \/ "built" \in events'[i] /\ i \notin Bench
        BY <1>1, <2>4, <3>1 DEF IInv, TypeOK, Traces, FailJob, DeferJob, CompleteGatesJob
      <3>4. Verdicts'
        BY <1>4, <2>1, <2>2, <2>4, <3>1, <3>2 DEF IInv, Verdicts
      <3>5. SettledIsExplained'
        BY <1>4, <2>4, <3>1, <3>3 DEF IInv, SettledIsExplained
      <3> QED  BY <3>4, <3>5
    <2> QED  BY <2>3, <2>4
  <1> QED  BY <1>3, <1>6, <1>7, <1>8, <1>9 DEF IInv

\* The operators, the clock and the release tick.
LEMMA OutsideIInv ==
  ASSUME IInv, Release \/ \E j \in Job : RetryElapsed(j) \/ Operate(j)
  PROVE  IInv'
  <1>1. CASE Release
    <2>1. /\ UNCHANGED <<status, attempts, cooling, events, workerVars, noted>>
          /\ phase' \in {"open", "draining", "applying", "starting"}
          /\ phase' = "applying" => \A w \in Worker : pc[w] = "idle"
          /\ phase' = "starting" => phase = "applying"
      BY <1>1 DEF Release, CloseGate, Quiesce, CancelRelease, StartWorkers, OpenGate, SharedHeld
    <2>2. \A w \in Worker : Working(w)' <=> Working(w)
      BY <2>1 DEF workerVars, Working
    <2>3. TypeOK' /\ Locks'
      BY <2>1 DEF IInv, TypeOK, Locks, workerVars
    <2> QED  BY <2>1, <2>2, <2>3 DEF IInv, AttemptOwned, Traces, Verdicts, SettledIsExplained, workerVars
  <1>2. ASSUME NEW j \in Job, RetryElapsed(j) \/ Inspect(j)
        PROVE  IInv'
    <2>1. UNCHANGED <<status, attempts, events, phase, workerVars>>
      BY <1>2 DEF RetryElapsed, Inspect
    <2>2. TypeOK'
      BY <1>2 DEF IInv, TypeOK, RetryElapsed, Inspect, workerVars
    <2>3. \A w \in Worker : Working(w)' <=> Working(w)
      BY <2>1 DEF workerVars, Working
    <2> QED  BY <2>1, <2>2, <2>3 DEF IInv, AttemptOwned, Traces, Verdicts, Locks,
               SettledIsExplained, workerVars
  <1>3. ASSUME NEW j \in Job, Exclude(j)
        PROVE  IInv'
    <2> USE <1>3
    <2>1. /\ UNCHANGED <<attempts, phase, workerVars, noted>> /\ status[j] # "running"
          /\ \A w \in Worker : Working(w) => job[w] # j
      BY DEF Exclude, IInv, AttemptOwned
    <2>2. TypeOK'
      BY <2>1 DEF IInv, TypeOK, Exclude, workerVars, Evidence
    <2>3. \A w \in Worker : Working(w)' <=> Working(w)
      BY <2>1 DEF workerVars, Working
    <2>4. \A i \in Job : i # j => status'[i] = status[i] /\ events'[i] = events[i]
      BY DEF Exclude, IInv, TypeOK
    <2>5. /\ status'[j] = IF status[j] = "pending" THEN "done" ELSE status[j]
          /\ events'[j] = events[j] \cup {"disqualified"}
      BY DEF Exclude, IInv, TypeOK
    <2>6. AttemptOwned' /\ Locks'
      BY <2>1, <2>3, <2>4 DEF IInv, AttemptOwned, Locks, workerVars
    <2>7. Traces'
      <3>1. \A w \in Worker : pc[w] \in {"failing", "built"} => job[w] \in Job /\ job[w] # j
        BY <2>1 DEF IInv, AttemptOwned, Working, Tasking
      <3> QED  BY <2>1, <2>4, <3>1 DEF IInv, Traces, workerVars
    <2>8. status[j] \in {"pending", "done", "failed"}
      BY <2>1 DEF IInv, TypeOK
    <2>9. Verdicts' /\ SettledIsExplained'
      BY <2>1, <2>3, <2>4, <2>5, <2>8 DEF IInv, Verdicts, SettledIsExplained, workerVars
    <2> QED  BY <2>2, <2>6, <2>7, <2>9 DEF IInv
  <1>4. ASSUME NEW j \in Job, NEW o \in {"requeue", "settle"}, Recover(j, o)
        PROVE  IInv'
    <2> USE <1>4
    <2>1. /\ UNCHANGED <<attempts, cooling, events, phase, workerVars, noted>>
          /\ \A w \in Worker : pc[w] = "idle"
          /\ status[j] = "running"
      BY DEF Recover, Coordinated, SharedHeld
    <2>2. /\ "bench_queued" \notin events[j] /\ "disqualified" \notin events[j]
      BY <2>1 DEF IInv, Verdicts
    <2>3. /\ status'[j] \in {"pending", "failed", "done"}
          /\ status'[j] = "failed" => "rejected" \in events[j]
          /\ status'[j] = "pending" => "rejected" \notin events[j]
          /\ status'[j] = "done" => "rejected" \notin events[j] /\ "built" \in events[j]
                                    /\ j \notin Bench
      BY <2>2 DEF Recover, Decide, EvidenceClass, IInv, TypeOK, Evidence
    <2>4. \A i \in Job : i # j => status'[i] = status[i]
      BY DEF Recover, IInv, TypeOK
    <2>5. TypeOK'
      BY <2>1, <2>3 DEF Recover, IInv, TypeOK, workerVars
    <2>6. \A w \in Worker : ~Working(w) /\ ~Working(w)' /\ pc'[w] = "idle"
      BY <2>1 DEF workerVars, Working, Tasking
    <2>7. AttemptOwned' /\ Traces' /\ Locks'
      BY <2>6 DEF AttemptOwned, Traces, Locks
    <2>8. Verdicts' /\ SettledIsExplained'
      BY <2>1, <2>2, <2>3, <2>4, <2>6 DEF IInv, Verdicts, SettledIsExplained
    <2> QED  BY <2>5, <2>7, <2>8 DEF IInv
  <1> QED  BY <1>1, <1>2, <1>3, <1>4 DEF Operate

\* Every step preserves the invariant.
LEMMA NextIInv == IInv /\ [Next]_vars => IInv'
  <1> SUFFICES ASSUME IInv, [Next]_vars PROVE IInv'
    OBVIOUS
  <1>1. CASE UNCHANGED vars
    <2>1. \A w \in Worker : Working(w)' <=> Working(w)
      BY <1>1 DEF vars, workerVars, Working
    <2> QED  BY <1>1, <2>1 DEF vars, workerVars, IInv, TypeOK, AttemptOwned, Traces, Verdicts,
               Locks, SettledIsExplained
  <1>2. ASSUME NEW w \in Worker, Work(w) \/ Crash(w) PROVE IInv'
    BY <1>2, EnterIInv, ClaimIInv, TaskIInv, LeaveIInv DEF Work
  <1>3. CASE Release \/ \E j \in Job : RetryElapsed(j) \/ Operate(j)
    BY <1>3, OutsideIInv
  <1> QED  BY <1>1, <1>2, <1>3 DEF Next

\* The strengthened invariant holds in every reachable state.
THEOREM Invariance == Spec => []IInv
  BY InitIInv, NextIInv, PTL DEF Spec

\* A task owns its job's current attempt, for any number of workers, releases
\* and recoveries: the unconditional updates of set_job_status and
\* complete_gates_job never overwrite another attempt's outcome.
THEOREM OwnsAttempt == Spec => []AttemptOwned
  <1>1. IInv => AttemptOwned
    BY DEF IInv
  <1> QED  BY Invariance, <1>1, PTL

\* The gates never both reject a submission and queue it for a round.
THEOREM VerdictsAgree == Spec => []OneVerdict
  <1>1. IInv => OneVerdict
    BY DEF IInv, Verdicts, OneVerdict
  <1> QED  BY Invariance, <1>1, PTL

\* A settled job's submission was rejected, queued, needed no bench or was
\* excluded: none is dropped.
THEOREM SettledExplained == Spec => []SettledIsExplained
  <1>1. IInv => SettledIsExplained
    BY DEF IInv
  <1> QED  BY Invariance, <1>1, PTL

\* A job stranded by a dead worker has an outcome recover_submission accepts.
THEOREM AlwaysRecoverable == Spec => []StrandedRecoverable
  <1>1. ASSUME IInv, NEW j \in Job, status[j] = "running"
        PROVE  \E o \in {"requeue", "settle"} : Decide(o, events[j], j \in Bench) # "none"
    <2>1. "bench_queued" \notin events[j] /\ "disqualified" \notin events[j]
      BY <1>1 DEF IInv, Verdicts
    <2>2. CASE "rejected" \in events[j]
      <3>1. EvidenceClass(events[j]) = "terminal-reject"
        BY <2>1, <2>2 DEF EvidenceClass
      <3>2. Decide("settle", events[j], j \in Bench) = "failed"
        BY <3>1 DEF Decide
      <3> QED  BY <3>2
    <2>3. CASE "rejected" \notin events[j]
      <3>1. EvidenceClass(events[j]) = "none"
        BY <2>1, <2>3 DEF EvidenceClass
      <3>2. Decide("requeue", events[j], j \in Bench) = "pending"
        BY <3>1 DEF Decide
      <3> QED  BY <3>2
    <2> QED  BY <2>2, <2>3
  <1>2. IInv => StrandedRecoverable
    BY <1>1 DEF StrandedRecoverable, Stranded
  <1> QED  BY Invariance, <1>2, PTL

\* No gate task runs while a release replaces the environment or starts it.
THEOREM ReleaseIsQuiet == Spec => []NoTaskUnderRelease
  <1>1. IInv => NoTaskUnderRelease
    BY DEF IInv, Locks, NoTaskUnderRelease, Working, Tasking
  <1> QED  BY Invariance, <1>1, PTL

\* The gate queue keeps all of QueueSafe for any number of jobs and workers.
THEOREM QueueIsSafe == Spec => []QueueSafe
  <1>1. IInv => TypeOK
    BY DEF IInv
  <1>2. TypeOK /\ AttemptOwned /\ OneVerdict /\ SettledIsExplained /\ StrandedRecoverable
        /\ NoTaskUnderRelease => QueueSafe
    BY DEF QueueSafe
  <1> QED
    BY <1>1, <1>2, Invariance, OwnsAttempt, VerdictsAgree, SettledExplained,
       AlwaysRecoverable, ReleaseIsQuiet, PTL
=============================================================================

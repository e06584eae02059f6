------------------------------ MODULE Release ------------------------------
(***************************************************************************)
(* ops/release.py: the deploy state machine of one host.  A tick takes the *)
(* deploy mutex, reads the state file and the registered request, and goes *)
(* as far as it can: drain the workers, stop the units, save or restore    *)
(* the virtualenv, move the checkout, install, re-exec itself, start the   *)
(* units and check the logs.  It may die at any step, and the next tick    *)
(* starts from the two files.  The operator's hold is the one writer of    *)
(* the state file that does not wait for the mutex.                        *)
(*                                                                         *)
(* A commit stands for its code, its requirements (depsOf) and its managed *)
(* configuration.  TomlOnly relates commits that differ in nothing but     *)
(* ops/vector/vector.toml, the one change released without draining.       *)
(***************************************************************************)
EXTENDS Integers

CONSTANTS
  Commit,
  Deps,
  depsOf,      \* the dependencies a commit's requirements resolve to
  TomlOnly,    \* pairs of commits whose diff is ops/vector/vector.toml
  Mixed,       \* an interrupted install, neither the old nor the new
  NoCopy,      \* recovery_copy is None
  NoCommit,    \* a request without a commit argument
  First,       \* the commit the host was bootstrapped with
  Worker,      \* units that claim work under the activity lock
  Kinds,       \* the requests operators register
  CrashPoints  \* the steps a tick may die in

ASSUME CommitAssumption == First \in Commit /\ NoCommit \notin Commit /\ Mixed \notin Commit
ASSUME DepsAssumption ==
  depsOf \in [Commit -> Deps] /\ Mixed \notin Deps /\ NoCopy \notin Deps \cup {Mixed}
ASSUME TomlAssumption ==
  /\ TomlOnly \subseteq Commit \X Commit
  /\ \A c, d \in Commit : <<c, d>> \in TomlOnly => depsOf[c] = depsOf[d] /\ <<d, c>> \in TomlOnly
  /\ \A c, d, e \in Commit :
       <<c, d>> \in TomlOnly /\ <<d, e>> \in TomlOnly /\ c # e => <<c, e>> \in TomlOnly

VARIABLES
  st,        \* release-state.json
  request,   \* request.json while it is pending or running
  main,      \* origin/main
  head,      \* HEAD of the checkout
  venv,      \* what the virtualenv holds
  cfg,       \* the commit whose managed configuration is installed
  pc,        \* the tick that holds the deploy mutex: its next step, or off
  flow,      \* which path that tick is on
  excl,      \* the tick holds the activity lock exclusively
  wanted,    \* systemd's worker units are started
  worker,    \* each worker: down, idle, locked (shared lock), task
  orphan     \* a dead worker left a running record in the database

tickVars == <<pc, flow, excl>>
envVars  == <<head, venv, cfg>>
hostVars == <<wanted, worker, orphan>>
vars == <<st, request, main, envVars, tickVars, hostVars>>

NoRequest == [kind |-> "none", status |-> "none", arg |-> NoCommit]

\* The full release runs copy .. check; the vector-only paths run switch,
\* vinstall and check; closing is the bookkeeping after the last state write.
Steps == {"stop", "wait", "copy", "checkout", "deps", "install", "exec", "start",
          "workers", "switch", "vinstall", "check", "closing"}
Flows == {"full", "vector", "resumed", "repair"}

Init ==
  /\ st = [phase |-> "idle", scope |-> "full", direction |-> "forward",
           from |-> First, target |-> First, verified |-> First,
           copy |-> NoCopy, rcommit |-> First,
           startup |-> TRUE, hold |-> FALSE, failure |-> "none"]
  /\ request = NoRequest
  /\ main = First /\ head = First /\ venv = depsOf[First] /\ cfg = First
  /\ pc = "off" /\ flow = "full" /\ excl = FALSE
  /\ wanted = TRUE /\ worker = [w \in Worker |-> "idle"] /\ orphan = FALSE

-----------------------------------------------------------------------------
\* The gate matrix.

GateOpenVerifying ==  \* mutant: startup_complete is not read
  st.scope = "vector-only" \/ st.phase \in {"idle", "verifying"}

GateOpen ==
  \/ st.scope = "vector-only"
  \/ st.phase = "idle"
  \/ st.phase = "verifying" /\ st.startup

ExecAllow == st.scope = "vector-only" \/ st.phase \in {"idle", "draining", "verifying"}

SharedHeld == \E w \in Worker : worker[w] \in {"locked", "task"}

SameButToml(c, d) == c = d \/ <<c, d>> \in TomlOnly

-----------------------------------------------------------------------------
\* Workers (worker/coordination.py, worker/main.py).

\* The guard keeps every other variable.
WorkerStep == UNCHANGED <<st, request, main, envVars, tickVars>>

\* claim_guard: the shared lock first.
LockShared(w) ==
  /\ worker[w] = "idle" /\ ~excl
  /\ worker' = [worker EXCEPT ![w] = "locked"]
  /\ UNCHANGED <<wanted, orphan>> /\ WorkerStep

\* Then the gate, and the drain flag again; otherwise the lock is given back.
ReadGate(w) ==
  /\ worker[w] = "locked"
  /\ worker' = [worker EXCEPT ![w] = IF GateOpen /\ wanted THEN "task" ELSE "idle"]
  /\ UNCHANGED <<wanted, orphan>> /\ WorkerStep

EndTask(w) ==
  /\ worker[w] = "task"
  /\ worker' = [worker EXCEPT ![w] = "idle"]
  /\ UNCHANGED <<wanted, orphan>> /\ WorkerStep

\* A killed worker drops its lock and leaves its record running.
Die(w) ==
  /\ worker[w] \in {"idle", "locked", "task"}
  /\ worker' = [worker EXCEPT ![w] = "down"]
  /\ orphan' = (orphan \/ worker[w] = "task")
  /\ UNCHANGED wanted /\ WorkerStep

\* SIGTERM: the worker leaves between cycles.
Exit(w) ==
  /\ ~wanted /\ worker[w] = "idle"
  /\ worker' = [worker EXCEPT ![w] = "down"]
  /\ UNCHANGED <<wanted, orphan>> /\ WorkerStep

\* systemd starts a wanted unit if its ExecCondition (cmd_gate) allows.
UnitStart(w) ==
  /\ wanted /\ worker[w] = "down" /\ ExecAllow
  /\ worker' = [worker EXCEPT ![w] = "idle"]
  /\ UNCHANGED <<wanted, orphan>> /\ WorkerStep

-----------------------------------------------------------------------------
\* Operators.

\* request hold: immediate, under the short state lock only.
Hold ==
  /\ ~st.hold
  /\ st' = [st EXCEPT !.hold = TRUE]
  /\ UNCHANGED <<request, main, envVars, tickVars, hostVars>>

\* cmd_request: under the deploy mutex, one request at a time.
Register(k) ==
  /\ pc = "off" /\ request = NoRequest
  /\ \E c \in Commit \cup {NoCommit} :
       /\ k \in {"reset", "vector-repair"} => c \in Commit
       /\ k = "unpause" => c = main
       /\ k \notin {"reset", "vector-repair", "unpause"} => c = NoCommit
       /\ request' = [kind |-> k, status |-> "pending", arg |-> c]
  /\ UNCHANGED <<st, main, envVars, tickVars, hostVars>>

\* recover_submission, under mutex, closed gate and exclusive activity lock.
RecoverRecord ==
  /\ orphan
  /\ pc = "off" /\ st.phase \in {"draining", "quiescing"} /\ ~SharedHeld
  /\ orphan' = FALSE
  /\ UNCHANGED <<st, request, main, envVars, tickVars, wanted, worker>>

\* A commit is merged.
Merge(c) ==
  /\ main # c /\ main' = c
  /\ UNCHANGED <<st, request, envVars, tickVars, hostVars>>

-----------------------------------------------------------------------------
\* How a tick ends.  The process exit releases both locks.

Off == pc' = "off" /\ flow' = "full" /\ excl' = FALSE

\* _finish_request and exit.
Finish == request' = NoRequest /\ Off

\* The tick ends by writing the state.  Timers, debts, pruning and notification
\* follow, any of which may time out, and only then the request is closed.  A
\* recovery copy that pruning takes (all but the newest two go) makes a later
\* restore fail, which WriteFails allows of any copy.
Closing == pc' = "closing" /\ flow' = "full" /\ excl' = FALSE /\ UNCHANGED request

Close ==
  /\ pc = "closing"
  /\ Finish
  /\ UNCHANGED <<st, main, envVars, hostVars>>

\* What a dying tick leaves of the virtualenv: pip, or the two renames of a
\* restore, may be half done.
VenvAfterCrash ==
  IF \/ pc = "deps" /\ st.direction = "forward" /\ depsOf[st.from] # depsOf[st.target]
     \/ pc = "copy" /\ st.direction # "forward" /\ st.copy # NoCopy
  THEN {venv, Mixed} ELSE {venv}

\* The process is killed, or a command it runs times out in the re-executed
\* tick, which has no net for that.
Crash ==
  /\ pc \in CrashPoints
  /\ venv' \in VenvAfterCrash
  /\ cfg' \in (IF pc = "install" THEN {cfg, Mixed} ELSE {cfg})
  /\ Off
  /\ UNCHANGED <<st, request, main, head, hostVars>>

-----------------------------------------------------------------------------
\* Requests.  A pending one is executed; a running cancel is re-entered, and a
\* running verify while idle.

Executes(k) ==
  /\ pc = "off" /\ request.kind = k
  /\ \/ request.status = "pending"
     \/ k = "cancel"
     \/ k = "verify" /\ st.phase = "idle"

Running == [request EXCEPT !.status = "running"]

Refuse == Finish /\ UNCHANGED <<st, main, envVars, hostVars>>

\* _start_recovery_operation.  A tick that dies before it marks the request
\* leaves it pending.
StartRecovery(s, d, t) ==
  /\ st' = [s EXCEPT !.phase = "draining", !.scope = "full", !.direction = d, !.target = t,
                     !.startup = FALSE, !.failure = "none"]
  /\ request' \in {request, Running}
  /\ UNCHANGED <<main, envVars, tickVars, hostVars>>

RollbackTargetVerified == st.verified  \* mutant: the last accepted commit

\* rollback_target: the commit the recovery copy captures.
RollbackTarget == st.rcommit

\* _request_rollback: sets the hold itself.
Rollback ==
  /\ Executes("rollback")
  /\ \/ st.copy = NoCopy /\ Refuse
     \/ /\ st.copy # NoCopy
        /\ StartRecovery([st EXCEPT !.hold = TRUE], "rollback", RollbackTarget)

\* _request_resume
Resume ==
  /\ Executes("resume")
  /\ \/ st.phase \notin {"applying", "verifying"} /\ Refuse
     \/ /\ st.phase \in {"applying", "verifying"}
        /\ st.scope = "full" /\ st.failure # "repair-install"
        /\ StartRecovery(st, st.direction, st.target)
     \/ /\ st.phase \in {"applying", "verifying"}
        /\ st.scope = "vector-only" \/ st.failure = "repair-install"
        /\ st' = [st EXCEPT !.phase = "applying", !.scope = "vector-only", !.startup = TRUE,
                            !.failure = "none"]
        /\ request' = Running
        /\ pc' = "switch" /\ flow' = "resumed"
        /\ UNCHANGED <<main, envVars, excl, hostVars>>

CancellableBeforeApply == st.phase \in {"draining", "quiescing"}  \* mutant

\* A fresh forward release has written nothing yet.
Cancellable ==
  /\ st.phase \in {"draining", "quiescing"}
  /\ st.direction = "forward" /\ st.copy = NoCopy

\* _request_cancel: hold, wait for units whose stop is in flight, back to idle.
Cancel ==
  /\ Executes("cancel")
  /\ \/ ~Cancellable /\ Refuse
     \/ /\ Cancellable
        /\ st.phase = "quiescing" /\ ~wanted /\ \E w \in Worker : worker[w] # "down"
        /\ ~st.hold \/ request.status = "pending"
        /\ st' = [st EXCEPT !.hold = TRUE]
        /\ request' = Running
        /\ UNCHANGED <<main, envVars, tickVars, hostVars>>
     \/ /\ Cancellable
        /\ st.phase = "draining" \/ wanted \/ \A w \in Worker : worker[w] = "down"
        /\ st' = [st EXCEPT !.hold = TRUE, !.phase = "idle", !.scope = "full",
                            !.failure = "none", !.copy = NoCopy,
                            !.target = st.verified, !.from = st.verified]
        /\ wanted' = TRUE
        /\ Finish
        /\ UNCHANGED <<main, envVars, worker, orphan>>

\* _current_environment_healthy failed: _mark_health_check_failed.
Unhealthy(s) ==
  /\ st' = [s EXCEPT !.phase = "verifying", !.failure = "unaccepted"]
  /\ Closing

\* _request_verify: from idle it enters verifying first.
Verify ==
  LET s == [st EXCEPT !.phase = "verifying",
                      !.startup = IF st.phase = "idle" THEN TRUE ELSE st.startup]
  IN /\ Executes("verify")
     /\ \/ /\ \/ st.failure = "repair-install"
              \/ st.phase \notin {"verifying", "idle"}
              \/ st.phase = "verifying" /\ ~st.startup
           /\ Refuse
        \/ /\ st.failure # "repair-install"
           /\ st.phase = "idle" \/ (st.phase = "verifying" /\ st.startup)
           /\ \/ /\ st' = s
                 /\ request' = Running
                 /\ pc' = "check" /\ UNCHANGED <<flow, excl>>
              \/ /\ st' = [s EXCEPT !.failure = "unaccepted"]
                 /\ pc' = "closing" /\ UNCHANGED <<flow, excl>>
                 /\ request' = Running
           /\ UNCHANGED <<main, envVars, hostVars>>

\* _request_unpause: only when idle, and only for the commit that was checked.
Unpause ==
  /\ Executes("unpause")
  /\ \/ (st.phase # "idle" \/ main # request.arg) /\ Refuse
     \/ /\ st.phase = "idle" /\ main = request.arg
        /\ st' = [st EXCEPT !.hold = FALSE]
        /\ Finish
        /\ UNCHANGED <<main, envVars, hostVars>>

\* _request_vector_repair: replaces a running, unaccepted target B by C.  It
\* also refuses over a dirty worktree or when the check of the installed files
\* reports more than the TOML; a check that itself fails stops nothing.
VectorRepair ==
  LET ok == /\ st.phase = "verifying" /\ st.startup
            /\ head = st.target
            /\ <<st.target, request.arg>> \in TomlOnly
  IN /\ Executes("vector-repair")
     /\ \/ Refuse
        \/ /\ ok
           /\ st' = [st EXCEPT !.phase = "applying", !.scope = "vector-only",
                               !.target = request.arg, !.failure = "none"]
           /\ request' = Running
           /\ pc' = "switch" /\ flow' = "repair"
           /\ UNCHANGED <<main, envVars, excl, hostVars>>

\* execute_reset: the operator names the commit to rebuild and either a copy of
\* its virtualenv or, as evidence, that the present one is right.
Reset ==
  /\ Executes("reset")
  /\ \E cp \in {NoCopy, depsOf[request.arg]} :
       /\ cp = NoCopy => venv = depsOf[request.arg]
       /\ st' = [phase |-> "draining", scope |-> "full", direction |-> "reset",
                 from |-> request.arg, target |-> request.arg, verified |-> request.arg,
                 copy |-> cp, rcommit |-> request.arg,
                 startup |-> FALSE, hold |-> TRUE, failure |-> "none"]
  /\ request' = Running
  /\ UNCHANGED <<main, envVars, tickVars, hostVars>>

-----------------------------------------------------------------------------
\* Phase dispatch of a tick that has no request to execute.

\* tick_locked: a hold stops the dispatch, unless a request is running.
Dispatches ==
  /\ pc = "off"
  /\ request.status # "pending"
  /\ request.kind # "cancel" /\ (request.kind = "verify" => st.phase # "idle")
  /\ st.hold => request.status = "running"

Drift     == cfg # head
TomlDrift == SameButToml(cfg, head)

\* tick_idle: the change set touches vector.toml and nothing else.
OnlyVector == SameButToml(st.verified, main) /\ TomlDrift

\* tick_idle, full release.
BeginForward ==
  /\ Dispatches /\ st.phase = "idle"
  /\ main # st.verified \/ Drift
  /\ ~OnlyVector
  /\ st' = [st EXCEPT !.phase = "draining", !.scope = "full", !.direction = "forward",
                      !.from = st.verified, !.target = main, !.startup = FALSE,
                      !.copy = NoCopy, !.failure = "none"]
  /\ UNCHANGED <<request, main, envVars, tickVars, hostVars>>

\* tick_idle, vector_fast_path.
BeginVector ==
  /\ Dispatches /\ st.phase = "idle"
  /\ main # st.verified \/ Drift
  /\ OnlyVector
  /\ st' = [st EXCEPT !.phase = "applying", !.scope = "vector-only", !.direction = "forward",
                      !.from = st.verified, !.target = main, !.startup = TRUE,
                      !.failure = "none"]
  /\ pc' = "switch" /\ flow' = "vector"
  /\ UNCHANGED <<request, main, envVars, excl, hostVars>>

\* tick_draining: the exclusive lock was free and no record is running.
Drained == ~SharedHeld /\ ~orphan

Drain ==
  /\ Dispatches /\ st.phase = "draining"
  /\ Drained
  /\ st' = [st EXCEPT !.phase = "quiescing"]
  /\ pc' = "stop" /\ excl' = TRUE
  /\ UNCHANGED <<request, main, envVars, flow, hostVars>>

\* A later tick finds quiescing and takes the lock again.
Quiesce ==
  /\ Dispatches /\ st.phase = "quiescing"
  /\ ~SharedHeld
  /\ pc' = "stop" /\ excl' = TRUE
  /\ UNCHANGED <<st, request, main, envVars, flow, hostVars>>

InterruptedKeepsRequest == FALSE  \* mutant: the dead tick's request stays

\* A tick finds applying: the tick that wrote it died.  The slot is freed.
Interrupted ==
  /\ Dispatches /\ st.phase = "applying" /\ request # NoRequest
  /\ Refuse

\* tick_verifying_resume: startup was never completed.
PartialStartup ==
  /\ Dispatches /\ st.phase = "verifying" /\ ~st.startup
  /\ st.failure # "partial" \/ request # NoRequest
  /\ st' = [st EXCEPT !.failure = "partial"]
  /\ Finish
  /\ UNCHANGED <<main, envVars, hostVars>>

\* tick_verifying_resume: a verification died mid-flight and is run again.  One
\* that ended unaccepted waits for the operator.
Reverify ==
  /\ Dispatches /\ st.phase = "verifying" /\ st.startup
  /\ st.failure \notin {"unaccepted", "repair-install"}
  /\ \/ pc' = "check" /\ UNCHANGED <<st, request, flow, excl>>
     \/ Unhealthy(st)
  /\ UNCHANGED <<main, envVars, hostVars>>

-----------------------------------------------------------------------------
\* The full path.

IssueStop ==
  /\ pc = "stop"
  /\ wanted' = FALSE /\ pc' = "wait"
  /\ UNCHANGED <<st, request, main, envVars, flow, excl, worker, orphan>>

\* Every unit is inactive: the writes begin.
StopDone ==
  /\ pc = "wait" /\ \A w \in Worker : worker[w] = "down"
  /\ st' = [st EXCEPT !.phase = "applying"]
  /\ pc' = "copy"
  /\ UNCHANGED <<request, main, envVars, flow, excl, hostVars>>

\* A unit takes longer than the tick waits; the next tick goes on.
StopTimesOut ==
  /\ pc = "wait" /\ \E w \in Worker : worker[w] # "down"
  /\ Off
  /\ UNCHANGED <<st, request, main, envVars, hostVars>>

\* The forward path saves the old virtualenv once per operation.
Saves == st.direction = "forward" /\ st.copy = NoCopy

\* tick_applying: restore or save the virtualenv before anything else.
Copy ==
  /\ pc = "copy"
  /\ \/ /\ st.direction # "forward" /\ st.copy # NoCopy
        /\ venv' = st.copy /\ UNCHANGED st
     \/ /\ Saves
        /\ st' = [st EXCEPT !.copy = venv, !.rcommit = st.from]
        /\ UNCHANGED venv
     \/ /\ ~Saves /\ (st.direction = "forward" \/ st.copy = NoCopy)
        /\ UNCHANGED <<st, venv>>
  /\ pc' = "checkout"
  /\ UNCHANGED <<request, main, head, cfg, flow, excl, hostVars>>

\* git reset --hard target
Checkout ==
  /\ pc = "checkout"
  /\ head' = st.target
  /\ pc' = "deps"
  /\ UNCHANGED <<st, request, main, venv, cfg, flow, excl, hostVars>>

NeedsDeps == st.direction = "forward" /\ depsOf[st.from] # depsOf[st.target]

\* pip install, on the forward path and when the requirements changed.
InstallDeps ==
  /\ pc = "deps"
  /\ venv' = IF NeedsDeps THEN depsOf[st.target] ELSE venv
  /\ pc' = "install"
  /\ UNCHANGED <<st, request, main, head, cfg, flow, excl, hostVars>>

Install ==
  /\ pc = "install"
  /\ cfg' = st.target
  /\ pc' = "exec"
  /\ UNCHANGED <<st, request, main, head, venv, flow, excl, hostVars>>

\* A write step fails, be it that the copy to restore is unusable or gone: the
\* request ends as failed, the phase stays applying.
WriteFails ==
  /\ pc \in {"copy", "checkout", "deps", "install"}
  /\ venv' \in (IF pc = "deps" /\ NeedsDeps THEN {Mixed} ELSE {venv})
  /\ cfg' \in (IF pc = "install" THEN {cfg, Mixed} ELSE {cfg})
  /\ Finish
  /\ UNCHANGED <<st, main, head, hostVars>>

\* tick_continue: the new entrypoint adopts both locks.
Reexec ==
  /\ pc = "exec"
  /\ st' = [st EXCEPT !.phase = "verifying", !.startup = FALSE]
  /\ pc' = "start"
  /\ UNCHANGED <<request, main, envVars, flow, excl, hostVars>>

\* verify_flow: residents are healthy, the activity lock goes, workers start.
ResidentsUp ==
  /\ pc = "start"
  /\ excl' = FALSE /\ wanted' = TRUE
  /\ pc' = "workers"
  /\ UNCHANGED <<st, request, main, envVars, flow, worker, orphan>>

WorkersUp ==
  /\ pc = "workers" /\ \A w \in Worker : worker[w] # "down"
  /\ st' = [st EXCEPT !.startup = TRUE]
  /\ pc' = "check"
  /\ UNCHANGED <<request, main, envVars, flow, excl, hostVars>>

\* _mark_start_failed
StartFails ==
  /\ pc \in {"start", "workers"}
  /\ st' = [st EXCEPT !.failure = "start-failed"]
  /\ Closing
  /\ UNCHANGED <<main, envVars, hostVars>>

\* finish_verification, and the end of vector_fast_path: the logs are complete.
Accept ==
  /\ pc = "check"
  /\ st' = [st EXCEPT !.phase = "idle", !.scope = "full", !.verified = st.target,
                      !.failure = "none"]
  /\ Closing
  /\ UNCHANGED <<main, envVars, hostVars>>

\* Logs missing, query failed, or the GPU reaper did not stop in time.
Reject ==
  /\ pc = "check"
  /\ st' = [st EXCEPT !.phase = "verifying", !.startup = TRUE, !.failure = "unaccepted"]
  /\ Closing
  /\ UNCHANGED <<main, envVars, hostVars>>

-----------------------------------------------------------------------------
\* The vector-only paths.

Switch ==
  /\ pc = "switch"
  /\ head' = st.target
  /\ pc' = "vinstall"
  /\ UNCHANGED <<st, request, main, venv, cfg, flow, excl, hostVars>>

\* Dirty worktree or a failed reset.  A fresh fast path returns to idle; a
\* resumed one stays applying; a repair raises and leaves its state write.
SwitchFails ==
  /\ pc = "switch"
  /\ \/ flow = "repair" /\ Finish /\ UNCHANGED st
     \/ /\ flow # "repair"
        /\ st' = [st EXCEPT !.phase = IF flow = "vector" THEN "idle" ELSE "applying",
                            !.scope = IF flow = "vector" THEN "full" ELSE "vector-only",
                            !.startup = FALSE, !.failure = "vector"]
        /\ Closing
  /\ UNCHANGED <<main, envVars, hostVars>>

VectorInstall ==
  /\ pc = "vinstall"
  /\ cfg' = st.target
  /\ \/ /\ st' = IF flow = "repair" THEN [st EXCEPT !.phase = "verifying"] ELSE st
        /\ pc' = "check" /\ UNCHANGED <<request, flow, excl>>
     \/ Unhealthy(st)
  /\ UNCHANGED <<main, head, venv, hostVars>>

VectorInstallFails ==
  /\ pc = "vinstall"
  /\ cfg' \in {cfg, st.target}
  /\ st' = IF flow = "repair"
           THEN [st EXCEPT !.phase = "verifying", !.startup = TRUE, !.failure = "repair-install"]
           ELSE [st EXCEPT !.phase = "applying", !.startup = FALSE, !.failure = "vector"]
  /\ Closing
  /\ UNCHANGED <<main, head, venv, hostVars>>

-----------------------------------------------------------------------------
WorkerNext(w) ==
  LockShared(w) \/ ReadGate(w) \/ EndTask(w) \/ Die(w) \/ Exit(w) \/ UnitStart(w)

OperatorNext ==
  \/ Hold \/ RecoverRecord
  \/ \E k \in Kinds : Register(k)
  \/ \E c \in Commit : Merge(c)

RequestNext ==
  Rollback \/ Resume \/ Cancel \/ Verify \/ Unpause \/ VectorRepair \/ Reset

PhaseNext ==
  BeginForward \/ BeginVector \/ Drain \/ Quiesce \/ Interrupted \/ PartialStartup \/ Reverify

StepNext ==
  \/ IssueStop \/ StopDone \/ StopTimesOut
  \/ Copy \/ Checkout \/ InstallDeps \/ Install \/ WriteFails \/ Reexec
  \/ ResidentsUp \/ WorkersUp \/ StartFails \/ Accept \/ Reject
  \/ Switch \/ SwitchFails \/ VectorInstall \/ VectorInstallFails
  \/ Close

Next ==
  \/ \E w \in Worker : WorkerNext(w)
  \/ OperatorNext \/ RequestNext \/ PhaseNext \/ StepNext \/ Crash

Spec == Init /\ [][Next]_vars

\* The timer, or the operator who registered a request, runs one tick after
\* another.  A worker ends its task, heeds SIGTERM between cycles and is started
\* by systemd.  The exclusive lock is tried and the stop awaited on every tick,
\* so one that is possible again and again succeeds.
Fairness ==
  /\ WF_vars(RequestNext) /\ WF_vars(PhaseNext) /\ WF_vars(StepNext)
  /\ SF_vars(Drain) /\ SF_vars(Quiesce) /\ SF_vars(IssueStop) /\ SF_vars(StopDone)
  /\ \A w \in Worker :
       WF_vars(ReadGate(w)) /\ WF_vars(EndTask(w)) /\ SF_vars(Exit(w)) /\ WF_vars(UnitStart(w))

FairSpec == Spec /\ Fairness

-----------------------------------------------------------------------------
\* Properties.

Phases == {"idle", "draining", "quiescing", "applying", "verifying"}
Failures == {"none", "unaccepted", "partial", "start-failed", "vector", "repair-install"}

\* Every variable stays in its domain.
TypeOK ==
  /\ st \in [phase : Phases, scope : {"full", "vector-only"},
             direction : {"forward", "rollback", "reset"},
             from : Commit, target : Commit, verified : Commit,
             copy : Deps \cup {Mixed, NoCopy}, rcommit : Commit,
             startup : BOOLEAN, hold : BOOLEAN, failure : Failures]
  /\ request \in [kind : Kinds \cup {"none"}, status : {"none", "pending", "running"},
                  arg : Commit \cup {NoCommit}]
  /\ main \in Commit /\ head \in Commit
  /\ venv \in Deps \cup {Mixed} /\ cfg \in Commit \cup {Mixed}
  /\ pc \in Steps \cup {"off"} /\ flow \in Flows /\ excl \in BOOLEAN
  /\ wanted \in BOOLEAN /\ worker \in [Worker -> {"down", "idle", "locked", "task"}]
  /\ orphan \in BOOLEAN

\* No task runs while a full release writes the environment, after it died
\* doing so, or before all of the new release's units are up.
NoTaskUnderWrites ==
  st.scope = "full" /\ (st.phase = "applying" \/ (st.phase = "verifying" /\ ~st.startup)) =>
    \A w \in Worker : worker[w] # "task"

\* Whenever workers may claim, the virtualenv holds the dependencies of the
\* code that is checked out: no sequence of crashes, resumes, rollbacks and
\* resets pairs new code with an old environment.
EnvironmentPaired == GateOpen => venv = depsOf[head]

\* What is recorded as recovery copy was saved from, or vouched to be, an intact
\* environment of the commit a rollback returns to.
CopyFitsCommit == st.copy # NoCopy => st.copy = depsOf[st.rcommit]

\* The environment that is installed and the one kept aside both belong to the
\* commit recorded for them, whatever sequence of crashes, resumes, rollbacks
\* and resets led here.
EnvironmentSafe == TypeOK /\ EnvironmentPaired /\ CopyFitsCommit

\* An idle host runs the code it reports as verified, a cancelled release
\* included (up to the log shipper's configuration).
IdleRunsVerified == st.phase = "idle" => SameButToml(head, st.verified)

\* While held, a tick starts no release: only verify leaves idle forward.
HeldStaysPut ==
  [][st.hold /\ st.phase = "idle" /\ st'.phase \in {"draining", "applying"}
       => st'.direction # "forward"]_vars

\* A commit becomes verified only when it is checked out and installed.
CertifiesInstalled ==
  [][pc = "check" /\ st'.verified # st.verified => head = st'.verified /\ cfg = st'.verified]_vars

\* Every registered request ends and frees the slot for the next, unless the
\* drain waits for the operator to settle a dead worker's record.
RequestEnds == request # NoRequest ~> request = NoRequest \/ orphan
=============================================================================

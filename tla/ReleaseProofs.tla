--------------------------- MODULE ReleaseProofs ---------------------------
(***************************************************************************)
(* The release coordinator, for every set of commits and workers.          *)
(*                                                                         *)
(* The inductive invariant says what each direction may rely on while the  *)
(* environment is being rebuilt: a forward release that has no recovery    *)
(* copy has touched nothing (FreshForward); one whose requirements did not *)
(* change still has the environment of its source (SourceKept); a step of  *)
(* the full path has the steps before it behind it (PathDone); and an open *)
(* gate is over a whole environment (OpenWhole). StepPhase ties the tick's *)
(* position to the state file it would find after a crash, which is what   *)
(* makes a resumed tick safe.                                              *)
(***************************************************************************)
EXTENDS Release, TLAPS

\* The release state file.
StateFile ==
  [phase : Phases, scope : {"full", "vector-only"}, direction : {"forward", "rollback", "reset"},
   from : Commit, target : Commit, verified : Commit, copy : Deps \cup {Mixed, NoCopy}, rcommit : Commit,
   startup : BOOLEAN, hold : BOOLEAN, failure : Failures]

\* A request to reset names a commit.
ResetNames == request.kind = "reset" => request.arg \in Commit

\* Where the tick is, and what the state file then says.
StepPhase ==
  /\ st.phase \in {"draining", "quiescing"} => st.scope = "full"
  /\ st.failure = "repair-install" => st.scope = "vector-only"
  /\ pc \in {"stop", "wait"} => st.phase = "quiescing"
  /\ pc \in {"copy", "checkout", "deps", "install", "exec"} => st.phase = "applying" /\ st.scope = "full"
  /\ pc \in {"start", "workers"} => st.phase = "verifying" /\ st.scope = "full"
  /\ pc \in {"switch", "vinstall"} => st.scope = "vector-only" /\ st.startup
  /\ pc = "check" => GateOpen

\* An open gate is over a whole environment, of the target up to vector.toml.
OpenWhole ==
  /\ GateOpen => venv = depsOf[head] /\ SameButToml(head, st.target)
  /\ st.phase = "idle" \/ (pc = "switch" /\ flow = "vector") => SameButToml(head, st.verified)

\* What each direction may rely on until it has built the environment of its target.
FreshForward ==
  st.direction = "forward" /\ st.copy = NoCopy =>
    venv = depsOf[st.from] /\ SameButToml(st.from, st.verified) /\ SameButToml(head, st.verified)
\* Which environment is installed, or kept, where none has to be rebuilt.
SourceKept ==
  /\ st.direction = "forward" /\ depsOf[st.from] = depsOf[st.target] => venv = depsOf[st.from]
  /\ st.direction # "forward" => depsOf[st.rcommit] = depsOf[st.target]
  /\ st.direction = "rollback" => st.copy # NoCopy
  /\ st.direction = "reset" /\ st.copy = NoCopy => venv = depsOf[st.target]

\* What the steps of the full path have done so far.
PathDone ==
  /\ pc \in {"checkout", "deps", "install", "exec"} /\ st.direction = "forward" => st.copy # NoCopy
  /\ pc \in {"checkout", "deps"} /\ st.direction # "forward" => venv = depsOf[st.target]
  /\ pc \in {"deps", "install", "exec", "start", "workers"} => head = st.target
  /\ pc \in {"install", "exec", "start", "workers"} => venv = depsOf[st.target]
  /\ pc = "vinstall" => head = st.target

\* The inductive invariant of a release.
ReleaseIInv ==
  /\ TypeOK /\ ResetNames /\ StepPhase /\ OpenWhole /\ FreshForward /\ SourceKept /\ PathDone
  /\ CopyFitsCommit /\ NoTaskUnderWrites

\* To differ in vector.toml at most is an equivalence, and keeps the requirements.
LEMMA SameCommits ==
  \A c, d, e \in Commit :
    /\ SameButToml(c, c) /\ (SameButToml(c, d) => SameButToml(d, c)) /\ (SameButToml(c, d) /\ SameButToml(d, e) => SameButToml(c, e))
    /\ SameButToml(c, d) => depsOf[c] = depsOf[d]
  BY TomlAssumption DEF SameButToml

\* A tick that ends without a write, and a request that is registered or closed.
LEMMA TickEnds ==
  ASSUME ReleaseIInv, UNCHANGED <<st, envVars, hostVars>>, main' \in Commit,
         pc' \in {"off", "closing"} \/ (pc' = pc /\ flow' = flow), flow' \in Flows, excl' \in BOOLEAN, ResetNames',
         request' \in [kind : Kinds \cup {"none"}, status : {"none", "pending", "running"},
                       arg : Commit \cup {NoCommit}]
  PROVE  ReleaseIInv'
  <1> USE DEF envVars, hostVars
  <1>1. st' \in StateFile
    BY CommitAssumption, DepsAssumption, TomlAssumption
       DEF ReleaseIInv, TypeOK, StateFile, ResetNames, Phases, Failures
  <1>2. TypeOK'
    BY <1>1, CommitAssumption, DepsAssumption
       DEF ReleaseIInv, TypeOK, StateFile, ResetNames, Phases, Failures, Steps, Flows
  <1>3. ResetNames' /\ StepPhase'
    BY DEF ReleaseIInv, TypeOK, ResetNames, StepPhase, OpenWhole, GateOpen
  <1>4. OpenWhole' /\ FreshForward'
    BY SameCommits, DepsAssumption
       DEF ReleaseIInv, TypeOK, StepPhase, OpenWhole, FreshForward, SourceKept, PathDone,
          CopyFitsCommit, GateOpen
  <1>5. SourceKept' /\ PathDone' /\ CopyFitsCommit'
    BY SameCommits, DepsAssumption
       DEF ReleaseIInv, TypeOK, StepPhase, OpenWhole, FreshForward, SourceKept, PathDone,
          CopyFitsCommit, GateOpen
  <1>6. NoTaskUnderWrites'
    BY DEF ReleaseIInv, TypeOK, StepPhase, NoTaskUnderWrites, GateOpen
  <1> QED BY <1>2, <1>3, <1>4, <1>5, <1>6 DEF ReleaseIInv

\* Refuse closes the request and leaves everything else.
LEMMA RefuseOK == ASSUME ReleaseIInv, Refuse PROVE ReleaseIInv'
  <1>1. request' = NoRequest /\ pc' = "off" /\ flow' = "full" /\ excl' = FALSE /\ main' = main
    BY DEF Refuse, Finish, Off
  <1>2. ResetNames' /\ main \in Commit /\ flow' \in Flows
        /\ request' \in [kind : Kinds \cup {"none"}, status : {"none", "pending", "running"},
                         arg : Commit \cup {NoCommit}]
    BY <1>1 DEF ReleaseIInv, TypeOK, ResetNames, NoRequest, Flows
  <1> QED BY <1>1, <1>2, TickEnds DEF Refuse, envVars, hostVars

\* A rollback keeps the copy that it returns to.
LEMMA RollbackOK == ASSUME ReleaseIInv, Rollback PROVE ReleaseIInv'
  <1> USE DEF vars, envVars, tickVars, hostVars
  <1>1. CASE Refuse
    BY <1>1, RefuseOK
  <1>2. ASSUME Executes("rollback"), st.copy # NoCopy,
               StartRecovery([st EXCEPT !.hold = TRUE], "rollback", RollbackTarget)
        PROVE  ReleaseIInv'
    <2>1. st' \in StateFile
      BY <1>2, CommitAssumption, DepsAssumption, TomlAssumption
         DEF ReleaseIInv, TypeOK, StateFile, ResetNames, Phases, Failures, StartRecovery,
            RollbackTarget, Running, Executes
    <2>2. TypeOK'
      BY <1>2, <2>1, CommitAssumption, DepsAssumption
         DEF ReleaseIInv, TypeOK, StateFile, ResetNames, Phases, Failures, Steps, Flows,
            StartRecovery, RollbackTarget, Running, Executes
    <2>3. ResetNames' /\ StepPhase'
      BY <1>2 DEF ReleaseIInv, TypeOK, ResetNames, StepPhase, OpenWhole, GateOpen, StartRecovery,
         RollbackTarget, Running, Executes
    <2>4. OpenWhole' /\ FreshForward'
      BY <1>2, SameCommits, DepsAssumption
         DEF ReleaseIInv, TypeOK, StepPhase, OpenWhole, FreshForward, SourceKept, PathDone,
            CopyFitsCommit, GateOpen, StartRecovery, RollbackTarget, Running, Executes
    <2>5. SourceKept' /\ PathDone' /\ CopyFitsCommit'
      BY <1>2, SameCommits, DepsAssumption
         DEF ReleaseIInv, TypeOK, StepPhase, OpenWhole, FreshForward, SourceKept, PathDone,
            CopyFitsCommit, GateOpen, StartRecovery, RollbackTarget, Running, Executes
    <2>6. NoTaskUnderWrites'
      BY <1>2 DEF ReleaseIInv, TypeOK, StepPhase, NoTaskUnderWrites, GateOpen, StartRecovery,
         RollbackTarget, Running, Executes
    <2> QED BY <2>2, <2>3, <2>4, <2>5, <2>6 DEF ReleaseIInv
  <1> QED BY <1>1, <1>2 DEF Rollback

\* A resumed release goes on in its direction, with what it has kept.
LEMMA ResumeOK == ASSUME ReleaseIInv, Resume PROVE ReleaseIInv'
  <1> USE DEF vars, envVars, tickVars, hostVars
  <1>1. CASE Refuse
    BY <1>1, RefuseOK
  <1>2. ASSUME Executes("resume"), st.phase \in {"applying", "verifying"}, st.scope = "full",
               StartRecovery(st, st.direction, st.target)
        PROVE  ReleaseIInv'
    <2>1. st' \in StateFile
      BY <1>2, CommitAssumption, DepsAssumption, TomlAssumption
         DEF ReleaseIInv, TypeOK, StateFile, ResetNames, Phases, Failures, StartRecovery,
            Running, Executes
    <2>2. TypeOK'
      BY <1>2, <2>1, CommitAssumption, DepsAssumption
         DEF ReleaseIInv, TypeOK, StateFile, ResetNames, Phases, Failures, Steps, Flows,
            StartRecovery, Running, Executes
    <2>3. ResetNames' /\ StepPhase'
      BY <1>2 DEF ReleaseIInv, TypeOK, ResetNames, StepPhase, OpenWhole, GateOpen, StartRecovery,
         Running, Executes
    <2>4. OpenWhole' /\ FreshForward'
      BY <1>2, SameCommits, DepsAssumption
         DEF ReleaseIInv, TypeOK, StepPhase, OpenWhole, FreshForward, SourceKept, PathDone,
            CopyFitsCommit, GateOpen, StartRecovery, Running, Executes
    <2>5. SourceKept' /\ PathDone' /\ CopyFitsCommit'
      BY <1>2, SameCommits, DepsAssumption
         DEF ReleaseIInv, TypeOK, StepPhase, OpenWhole, FreshForward, SourceKept, PathDone,
            CopyFitsCommit, GateOpen, StartRecovery, Running, Executes
    <2>6. NoTaskUnderWrites'
      BY <1>2 DEF ReleaseIInv, TypeOK, StepPhase, NoTaskUnderWrites, GateOpen, StartRecovery,
         Running, Executes
    <2> QED BY <2>2, <2>3, <2>4, <2>5, <2>6 DEF ReleaseIInv
  <1>3. ASSUME Executes("resume"), st.scope = "vector-only" \/ st.failure = "repair-install",
               st' = [st EXCEPT !.phase = "applying", !.scope = "vector-only", !.startup = TRUE, !.failure = "none"],
               request' = Running, pc' = "switch", flow' = "resumed",
               UNCHANGED <<main, envVars, excl, hostVars>>
        PROVE  ReleaseIInv'
    <2>1. st' \in StateFile
      BY <1>3, CommitAssumption, DepsAssumption, TomlAssumption
         DEF ReleaseIInv, TypeOK, StateFile, ResetNames, Phases, Failures, Running, Executes
    <2>2. TypeOK'
      BY <1>3, <2>1, CommitAssumption, DepsAssumption
         DEF ReleaseIInv, TypeOK, StateFile, ResetNames, Phases, Failures, Steps, Flows, Running,
            Executes
    <2>3. ResetNames' /\ StepPhase'
      BY <1>3 DEF ReleaseIInv, TypeOK, ResetNames, StepPhase, OpenWhole, GateOpen, Running,
         Executes
    <2>4. OpenWhole' /\ FreshForward'
      BY <1>3, SameCommits, DepsAssumption
         DEF ReleaseIInv, TypeOK, StepPhase, OpenWhole, FreshForward, SourceKept, PathDone,
            CopyFitsCommit, GateOpen, Running, Executes
    <2>5. SourceKept' /\ PathDone' /\ CopyFitsCommit'
      BY <1>3, SameCommits, DepsAssumption
         DEF ReleaseIInv, TypeOK, StepPhase, OpenWhole, FreshForward, SourceKept, PathDone,
            CopyFitsCommit, GateOpen, Running, Executes
    <2>6. NoTaskUnderWrites'
      BY <1>3 DEF ReleaseIInv, TypeOK, StepPhase, NoTaskUnderWrites, GateOpen, Running, Executes
    <2> QED BY <2>2, <2>3, <2>4, <2>5, <2>6 DEF ReleaseIInv
  <1> QED BY <1>1, <1>2, <1>3 DEF Resume

\* A cancelled release has written nothing.
LEMMA CancelOK == ASSUME ReleaseIInv, Cancel PROVE ReleaseIInv'
  <1> USE DEF vars, envVars, tickVars, hostVars
  <1>1. CASE Refuse
    BY <1>1, RefuseOK
  <1>2. ASSUME Cancellable, request' = Running, st' = [st EXCEPT !.hold = TRUE],
               UNCHANGED <<main, envVars, tickVars, hostVars>>
        PROVE  ReleaseIInv'
    <2>1. st' \in StateFile
      BY <1>2, CommitAssumption, DepsAssumption, TomlAssumption
         DEF ReleaseIInv, TypeOK, StateFile, ResetNames, Phases, Failures, Cancellable, Running
    <2>2. TypeOK'
      BY <1>2, <2>1, CommitAssumption, DepsAssumption
         DEF ReleaseIInv, TypeOK, StateFile, ResetNames, Phases, Failures, Steps, Flows,
            Cancellable, Running
    <2>3. ResetNames' /\ StepPhase'
      BY <1>2 DEF ReleaseIInv, TypeOK, ResetNames, StepPhase, OpenWhole, GateOpen, Cancellable,
         Running
    <2>4. OpenWhole' /\ FreshForward'
      BY <1>2, SameCommits, DepsAssumption
         DEF ReleaseIInv, TypeOK, StepPhase, OpenWhole, FreshForward, SourceKept, PathDone,
            CopyFitsCommit, GateOpen, Cancellable, Running
    <2>5. SourceKept' /\ PathDone' /\ CopyFitsCommit'
      BY <1>2, SameCommits, DepsAssumption
         DEF ReleaseIInv, TypeOK, StepPhase, OpenWhole, FreshForward, SourceKept, PathDone,
            CopyFitsCommit, GateOpen, Cancellable, Running
    <2>6. NoTaskUnderWrites'
      BY <1>2 DEF ReleaseIInv, TypeOK, StepPhase, NoTaskUnderWrites, GateOpen, Cancellable,
         Running
    <2> QED BY <2>2, <2>3, <2>4, <2>5, <2>6 DEF ReleaseIInv
  <1>3. ASSUME Cancellable, Finish,
               st' = [st EXCEPT !.hold = TRUE, !.phase = "idle", !.scope = "full",
                                !.failure = "none", !.copy = NoCopy,
                                !.target = st.verified, !.from = st.verified],
               wanted' = TRUE, UNCHANGED <<main, envVars, worker, orphan>>
        PROVE  ReleaseIInv'
    <2>1. st' \in StateFile
      BY <1>3, CommitAssumption, DepsAssumption, TomlAssumption
         DEF ReleaseIInv, TypeOK, StateFile, ResetNames, Phases, Failures, Cancellable, Finish,
            Off, NoRequest
    <2>2. TypeOK'
      BY <1>3, <2>1, CommitAssumption, DepsAssumption
         DEF ReleaseIInv, TypeOK, StateFile, ResetNames, Phases, Failures, Steps, Flows,
            Cancellable, Finish, Off, NoRequest
    <2>3. ResetNames' /\ StepPhase'
      BY <1>3 DEF ReleaseIInv, TypeOK, ResetNames, StepPhase, OpenWhole, GateOpen, Cancellable,
         Finish, Off, NoRequest
    <2>4. OpenWhole' /\ FreshForward'
      BY <1>3, SameCommits, DepsAssumption
         DEF ReleaseIInv, TypeOK, StepPhase, OpenWhole, FreshForward, SourceKept, PathDone,
            CopyFitsCommit, GateOpen, Cancellable, Finish, Off, NoRequest
    <2>5. SourceKept' /\ PathDone' /\ CopyFitsCommit'
      BY <1>3, SameCommits, DepsAssumption
         DEF ReleaseIInv, TypeOK, StepPhase, OpenWhole, FreshForward, SourceKept, PathDone,
            CopyFitsCommit, GateOpen, Cancellable, Finish, Off, NoRequest
    <2>6. NoTaskUnderWrites'
      BY <1>3 DEF ReleaseIInv, TypeOK, StepPhase, NoTaskUnderWrites, GateOpen, Cancellable,
         Finish, Off, NoRequest
    <2> QED BY <2>2, <2>3, <2>4, <2>5, <2>6 DEF ReleaseIInv
  <1> QED BY <1>1, <1>2, <1>3 DEF Cancel

\* The virtualenv is restored or saved before anything else is written.
LEMMA CopyOK == ASSUME ReleaseIInv, Copy PROVE ReleaseIInv'
  <1> USE DEF vars, envVars, tickVars, hostVars
  <1>1. ASSUME pc = "copy", st.direction # "forward", st.copy # NoCopy, venv' = st.copy, pc' = "checkout",
               UNCHANGED <<st, request, main, head, cfg, flow, excl, hostVars>>
        PROVE  ReleaseIInv'
    <2>1. st' \in StateFile
      BY <1>1, CommitAssumption, DepsAssumption, TomlAssumption
         DEF ReleaseIInv, TypeOK, StateFile, ResetNames, Phases, Failures
    <2>2. TypeOK'
      BY <1>1, <2>1, CommitAssumption, DepsAssumption
         DEF ReleaseIInv, TypeOK, StateFile, ResetNames, Phases, Failures, Steps, Flows
    <2>3. ResetNames' /\ StepPhase'
      BY <1>1 DEF ReleaseIInv, TypeOK, ResetNames, StepPhase, OpenWhole, GateOpen
    <2>4. OpenWhole' /\ FreshForward'
      BY <1>1, SameCommits, DepsAssumption
         DEF ReleaseIInv, TypeOK, StepPhase, OpenWhole, FreshForward, SourceKept, PathDone,
            CopyFitsCommit, GateOpen
    <2>5. SourceKept' /\ PathDone' /\ CopyFitsCommit'
      BY <1>1, SameCommits, DepsAssumption
         DEF ReleaseIInv, TypeOK, StepPhase, OpenWhole, FreshForward, SourceKept, PathDone,
            CopyFitsCommit, GateOpen
    <2>6. NoTaskUnderWrites'
      BY <1>1 DEF ReleaseIInv, TypeOK, StepPhase, NoTaskUnderWrites, GateOpen
    <2> QED BY <2>2, <2>3, <2>4, <2>5, <2>6 DEF ReleaseIInv
  <1>2. ASSUME pc = "copy", Saves, st' = [st EXCEPT !.copy = venv, !.rcommit = st.from], pc' = "checkout",
               UNCHANGED <<venv, request, main, head, cfg, flow, excl, hostVars>>
        PROVE  ReleaseIInv'
    <2>1. st' \in StateFile
      BY <1>2, CommitAssumption, DepsAssumption, TomlAssumption
         DEF ReleaseIInv, TypeOK, StateFile, ResetNames, Phases, Failures, Saves
    <2>2. TypeOK'
      BY <1>2, <2>1, CommitAssumption, DepsAssumption
         DEF ReleaseIInv, TypeOK, StateFile, ResetNames, Phases, Failures, Steps, Flows, Saves
    <2>3. ResetNames' /\ StepPhase'
      BY <1>2 DEF ReleaseIInv, TypeOK, ResetNames, StepPhase, OpenWhole, GateOpen, Saves
    <2>4. OpenWhole' /\ FreshForward'
      BY <1>2, SameCommits, DepsAssumption
         DEF ReleaseIInv, TypeOK, StepPhase, OpenWhole, FreshForward, SourceKept, PathDone,
            CopyFitsCommit, GateOpen, Saves
    <2>5. SourceKept' /\ PathDone' /\ CopyFitsCommit'
      BY <1>2, SameCommits, DepsAssumption
         DEF ReleaseIInv, TypeOK, StepPhase, OpenWhole, FreshForward, SourceKept, PathDone,
            CopyFitsCommit, GateOpen, Saves
    <2>6. NoTaskUnderWrites'
      BY <1>2 DEF ReleaseIInv, TypeOK, StepPhase, NoTaskUnderWrites, GateOpen, Saves
    <2> QED BY <2>2, <2>3, <2>4, <2>5, <2>6 DEF ReleaseIInv
  <1>3. ASSUME pc = "copy", ~Saves, st.direction = "forward" \/ st.copy = NoCopy, pc' = "checkout",
               UNCHANGED <<st, venv, request, main, head, cfg, flow, excl, hostVars>>
        PROVE  ReleaseIInv'
    <2>1. st' \in StateFile
      BY <1>3, CommitAssumption, DepsAssumption, TomlAssumption
         DEF ReleaseIInv, TypeOK, StateFile, ResetNames, Phases, Failures, Saves
    <2>2. TypeOK'
      BY <1>3, <2>1, CommitAssumption, DepsAssumption
         DEF ReleaseIInv, TypeOK, StateFile, ResetNames, Phases, Failures, Steps, Flows, Saves
    <2>3. ResetNames' /\ StepPhase'
      BY <1>3 DEF ReleaseIInv, TypeOK, ResetNames, StepPhase, OpenWhole, GateOpen, Saves
    <2>4. OpenWhole' /\ FreshForward'
      BY <1>3, SameCommits, DepsAssumption
         DEF ReleaseIInv, TypeOK, StepPhase, OpenWhole, FreshForward, SourceKept, PathDone,
            CopyFitsCommit, GateOpen, Saves
    <2>5. SourceKept' /\ PathDone' /\ CopyFitsCommit'
      BY <1>3, SameCommits, DepsAssumption
         DEF ReleaseIInv, TypeOK, StepPhase, OpenWhole, FreshForward, SourceKept, PathDone,
            CopyFitsCommit, GateOpen, Saves
    <2>6. NoTaskUnderWrites'
      BY <1>3 DEF ReleaseIInv, TypeOK, StepPhase, NoTaskUnderWrites, GateOpen, Saves
    <2> QED BY <2>2, <2>3, <2>4, <2>5, <2>6 DEF ReleaseIInv
  <1> QED BY <1>1, <1>2, <1>3 DEF Copy

\* A verification checks what runs, under a gate that stays open.
LEMMA VerifyOK == ASSUME ReleaseIInv, Verify PROVE ReleaseIInv'
  <1> USE DEF vars, envVars, tickVars, hostVars
  <1>1. CASE Refuse
    BY <1>1, RefuseOK
  <1>2. ASSUME Executes("verify"), st.failure # "repair-install",
               st.phase = "idle" \/ (st.phase = "verifying" /\ st.startup),
               st' = [st EXCEPT !.phase = "verifying", !.startup = TRUE], request' = Running,
               pc' = "check", UNCHANGED <<flow, excl, main, envVars, hostVars>>
        PROVE  ReleaseIInv'
    <2>1. st' \in StateFile
      BY <1>2, CommitAssumption, DepsAssumption, TomlAssumption
         DEF ReleaseIInv, TypeOK, StateFile, ResetNames, Phases, Failures, Running, Executes
    <2>2. TypeOK'
      BY <1>2, <2>1, CommitAssumption, DepsAssumption
         DEF ReleaseIInv, TypeOK, StateFile, ResetNames, Phases, Failures, Steps, Flows, Running,
            Executes
    <2>3. ResetNames' /\ StepPhase'
      BY <1>2 DEF ReleaseIInv, TypeOK, ResetNames, StepPhase, OpenWhole, GateOpen, Running,
         Executes
    <2>4. OpenWhole' /\ FreshForward'
      BY <1>2, SameCommits, DepsAssumption
         DEF ReleaseIInv, TypeOK, StepPhase, OpenWhole, FreshForward, SourceKept, PathDone,
            CopyFitsCommit, GateOpen, Running, Executes
    <2>5. SourceKept' /\ PathDone' /\ CopyFitsCommit'
      BY <1>2, SameCommits, DepsAssumption
         DEF ReleaseIInv, TypeOK, StepPhase, OpenWhole, FreshForward, SourceKept, PathDone,
            CopyFitsCommit, GateOpen, Running, Executes
    <2>6. NoTaskUnderWrites'
      BY <1>2 DEF ReleaseIInv, TypeOK, StepPhase, NoTaskUnderWrites, GateOpen, Running, Executes
    <2> QED BY <2>2, <2>3, <2>4, <2>5, <2>6 DEF ReleaseIInv
  <1>3. ASSUME Executes("verify"), st.failure # "repair-install",
               st.phase = "idle" \/ (st.phase = "verifying" /\ st.startup),
               st' = [st EXCEPT !.phase = "verifying", !.startup = TRUE, !.failure = "unaccepted"],
               request' = Running,
               pc' = "closing", UNCHANGED <<flow, excl, main, envVars, hostVars>>
        PROVE  ReleaseIInv'
    <2>1. st' \in StateFile
      BY <1>3, CommitAssumption, DepsAssumption, TomlAssumption
         DEF ReleaseIInv, TypeOK, StateFile, ResetNames, Phases, Failures, Running, Executes
    <2>2. TypeOK'
      BY <1>3, <2>1, CommitAssumption, DepsAssumption
         DEF ReleaseIInv, TypeOK, StateFile, ResetNames, Phases, Failures, Steps, Flows, Running,
            Executes
    <2>3. ResetNames' /\ StepPhase'
      BY <1>3 DEF ReleaseIInv, TypeOK, ResetNames, StepPhase, OpenWhole, GateOpen, Running,
         Executes
    <2>4. OpenWhole' /\ FreshForward'
      BY <1>3, SameCommits, DepsAssumption
         DEF ReleaseIInv, TypeOK, StepPhase, OpenWhole, FreshForward, SourceKept, PathDone,
            CopyFitsCommit, GateOpen, Running, Executes
    <2>5. SourceKept' /\ PathDone' /\ CopyFitsCommit'
      BY <1>3, SameCommits, DepsAssumption
         DEF ReleaseIInv, TypeOK, StepPhase, OpenWhole, FreshForward, SourceKept, PathDone,
            CopyFitsCommit, GateOpen, Running, Executes
    <2>6. NoTaskUnderWrites'
      BY <1>3 DEF ReleaseIInv, TypeOK, StepPhase, NoTaskUnderWrites, GateOpen, Running, Executes
    <2> QED BY <2>2, <2>3, <2>4, <2>5, <2>6 DEF ReleaseIInv
  <1> QED BY <1>1, <1>2, <1>3 DEF Verify

\* Unpausing clears the hold and nothing else.
LEMMA UnpauseOK == ASSUME ReleaseIInv, Unpause PROVE ReleaseIInv'
  <1> USE DEF vars, envVars, tickVars, hostVars
  <1>1. CASE Refuse
    BY <1>1, RefuseOK
  <1>2. ASSUME Executes("unpause"), st' = [st EXCEPT !.hold = FALSE], Finish,
               UNCHANGED <<main, envVars, hostVars>>
        PROVE  ReleaseIInv'
    <2>1. st' \in StateFile
      BY <1>2, CommitAssumption, DepsAssumption, TomlAssumption
         DEF ReleaseIInv, TypeOK, StateFile, ResetNames, Phases, Failures, Finish, Off,
            NoRequest, Executes
    <2>2. TypeOK'
      BY <1>2, <2>1, CommitAssumption, DepsAssumption
         DEF ReleaseIInv, TypeOK, StateFile, ResetNames, Phases, Failures, Steps, Flows, Finish,
            Off, NoRequest, Executes
    <2>3. ResetNames' /\ StepPhase'
      BY <1>2 DEF ReleaseIInv, TypeOK, ResetNames, StepPhase, OpenWhole, GateOpen, Finish, Off,
         NoRequest, Executes
    <2>4. OpenWhole' /\ FreshForward'
      BY <1>2, SameCommits, DepsAssumption
         DEF ReleaseIInv, TypeOK, StepPhase, OpenWhole, FreshForward, SourceKept, PathDone,
            CopyFitsCommit, GateOpen, Finish, Off, NoRequest, Executes
    <2>5. SourceKept' /\ PathDone' /\ CopyFitsCommit'
      BY <1>2, SameCommits, DepsAssumption
         DEF ReleaseIInv, TypeOK, StepPhase, OpenWhole, FreshForward, SourceKept, PathDone,
            CopyFitsCommit, GateOpen, Finish, Off, NoRequest, Executes
    <2>6. NoTaskUnderWrites'
      BY <1>2 DEF ReleaseIInv, TypeOK, StepPhase, NoTaskUnderWrites, GateOpen, Finish, Off,
         NoRequest, Executes
    <2> QED BY <2>2, <2>3, <2>4, <2>5, <2>6 DEF ReleaseIInv
  <1> QED BY <1>1, <1>2 DEF Unpause

\* A repair changes the target to one that differs in vector.toml.
LEMMA VectorRepairOK == ASSUME ReleaseIInv, VectorRepair PROVE ReleaseIInv'
  <1> USE DEF vars, envVars, tickVars, hostVars
  <1>0. <<st.target, request.arg>> \in TomlOnly =>
          request.arg \in Commit /\ depsOf[request.arg] = depsOf[st.target] /\ SameButToml(st.target, request.arg)
    BY TomlAssumption DEF SameButToml
  <1>1. CASE Refuse
    BY <1>1, RefuseOK
  <1>2. ASSUME Executes("vector-repair"), st.phase = "verifying", st.startup, head = st.target,
               <<st.target, request.arg>> \in TomlOnly,
               st' = [st EXCEPT !.phase = "applying", !.scope = "vector-only",
                                !.target = request.arg, !.failure = "none"],
               request' = Running, pc' = "switch", flow' = "repair",
               UNCHANGED <<main, envVars, excl, hostVars>>
        PROVE  ReleaseIInv'
    <2>1. st' \in StateFile
      BY <1>2, <1>0, CommitAssumption, DepsAssumption, TomlAssumption
         DEF ReleaseIInv, TypeOK, StateFile, ResetNames, Phases, Failures, Running, Executes
    <2>2. TypeOK'
      BY <1>2, <1>0, <2>1, CommitAssumption, DepsAssumption
         DEF ReleaseIInv, TypeOK, StateFile, ResetNames, Phases, Failures, Steps, Flows, Running,
            Executes
    <2>3. ResetNames' /\ StepPhase'
      BY <1>2, <1>0 DEF ReleaseIInv, TypeOK, ResetNames, StepPhase, OpenWhole, GateOpen, Running,
         Executes
    <2>4. OpenWhole' /\ FreshForward'
      BY <1>2, <1>0, SameCommits, DepsAssumption
         DEF ReleaseIInv, TypeOK, StepPhase, OpenWhole, FreshForward, SourceKept, PathDone,
            CopyFitsCommit, GateOpen, Running, Executes
    <2>5. SourceKept' /\ PathDone' /\ CopyFitsCommit'
      BY <1>2, <1>0, SameCommits, DepsAssumption
         DEF ReleaseIInv, TypeOK, StepPhase, OpenWhole, FreshForward, SourceKept, PathDone,
            CopyFitsCommit, GateOpen, Running, Executes
    <2>6. NoTaskUnderWrites'
      BY <1>2, <1>0 DEF ReleaseIInv, TypeOK, StepPhase, NoTaskUnderWrites, GateOpen, Running,
         Executes
    <2> QED BY <2>2, <2>3, <2>4, <2>5, <2>6 DEF ReleaseIInv
  <1> QED BY <1>1, <1>2 DEF VectorRepair

\* A reset names its commit, with a copy of that commit's virtualenv or evidence of it.
LEMMA ResetOK == ASSUME ReleaseIInv, Reset PROVE ReleaseIInv'
  <1> USE DEF vars, envVars, tickVars, hostVars
  <1>1. ASSUME Executes("reset"), NEW cp \in {NoCopy, depsOf[request.arg]},
               cp = NoCopy => venv = depsOf[request.arg],
               st' = [phase |-> "draining", scope |-> "full", direction |-> "reset",
                      from |-> request.arg, target |-> request.arg, verified |-> request.arg,
                      copy |-> cp, rcommit |-> request.arg,
                      startup |-> FALSE, hold |-> TRUE, failure |-> "none"],
               request' = Running, UNCHANGED <<main, envVars, tickVars, hostVars>>
        PROVE  ReleaseIInv'
    <2>1. st' \in StateFile
      BY <1>1, CommitAssumption, DepsAssumption, TomlAssumption
         DEF ReleaseIInv, TypeOK, StateFile, ResetNames, Phases, Failures, Running, Executes
    <2>2. TypeOK'
      BY <1>1, <2>1, CommitAssumption, DepsAssumption
         DEF ReleaseIInv, TypeOK, StateFile, ResetNames, Phases, Failures, Steps, Flows, Running,
            Executes
    <2>3. ResetNames' /\ StepPhase'
      BY <1>1 DEF ReleaseIInv, TypeOK, ResetNames, StepPhase, OpenWhole, GateOpen, Running,
         Executes
    <2>4. OpenWhole' /\ FreshForward'
      BY <1>1, SameCommits, DepsAssumption
         DEF ReleaseIInv, TypeOK, StepPhase, OpenWhole, FreshForward, SourceKept, PathDone,
            CopyFitsCommit, GateOpen, Running, Executes
    <2>5. SourceKept' /\ PathDone' /\ CopyFitsCommit'
      BY <1>1, SameCommits, DepsAssumption
         DEF ReleaseIInv, TypeOK, StepPhase, OpenWhole, FreshForward, SourceKept, PathDone,
            CopyFitsCommit, GateOpen, Running, Executes
    <2>6. NoTaskUnderWrites'
      BY <1>1 DEF ReleaseIInv, TypeOK, StepPhase, NoTaskUnderWrites, GateOpen, Running, Executes
    <2> QED BY <2>2, <2>3, <2>4, <2>5, <2>6 DEF ReleaseIInv
  <1> QED BY <1>1 DEF Reset

\* A release begins from a whole environment of the verified commit, without a copy.
LEMMA BeginForwardOK == ASSUME ReleaseIInv, BeginForward PROVE ReleaseIInv'
  <1> USE DEF vars, envVars, tickVars, hostVars
  <1>1. st' \in StateFile
    BY CommitAssumption, DepsAssumption, TomlAssumption
       DEF ReleaseIInv, TypeOK, StateFile, ResetNames, Phases, Failures, BeginForward, Dispatches
  <1>2. TypeOK'
    BY <1>1, CommitAssumption, DepsAssumption
       DEF ReleaseIInv, TypeOK, StateFile, ResetNames, Phases, Failures, Steps, Flows,
          BeginForward, Dispatches
  <1>3. ResetNames' /\ StepPhase'
    BY DEF ReleaseIInv, TypeOK, ResetNames, StepPhase, OpenWhole, GateOpen, BeginForward,
       Dispatches
  <1>4. OpenWhole' /\ FreshForward'
    BY SameCommits, DepsAssumption
       DEF ReleaseIInv, TypeOK, StepPhase, OpenWhole, FreshForward, SourceKept, PathDone,
          CopyFitsCommit, GateOpen, BeginForward, Dispatches
  <1>5. SourceKept' /\ PathDone' /\ CopyFitsCommit'
    BY SameCommits, DepsAssumption
       DEF ReleaseIInv, TypeOK, StepPhase, OpenWhole, FreshForward, SourceKept, PathDone,
          CopyFitsCommit, GateOpen, BeginForward, Dispatches
  <1>6. NoTaskUnderWrites'
    BY DEF ReleaseIInv, TypeOK, StepPhase, NoTaskUnderWrites, GateOpen, BeginForward, Dispatches
  <1> QED BY <1>2, <1>3, <1>4, <1>5, <1>6 DEF ReleaseIInv

\* The fast path begins for a target that differs in vector.toml.
LEMMA BeginVectorOK == ASSUME ReleaseIInv, BeginVector PROVE ReleaseIInv'
  <1> USE DEF vars, envVars, tickVars, hostVars
  <1>1. st' \in StateFile
    BY CommitAssumption, DepsAssumption, TomlAssumption
       DEF ReleaseIInv, TypeOK, StateFile, ResetNames, Phases, Failures, BeginVector, Dispatches,
          OnlyVector
  <1>2. TypeOK'
    BY <1>1, CommitAssumption, DepsAssumption
       DEF ReleaseIInv, TypeOK, StateFile, ResetNames, Phases, Failures, Steps, Flows,
          BeginVector, Dispatches, OnlyVector
  <1>3. ResetNames' /\ StepPhase'
    BY DEF ReleaseIInv, TypeOK, ResetNames, StepPhase, OpenWhole, GateOpen, BeginVector,
       Dispatches, OnlyVector
  <1>4. OpenWhole' /\ FreshForward'
    BY SameCommits, DepsAssumption
       DEF ReleaseIInv, TypeOK, StepPhase, OpenWhole, FreshForward, SourceKept, PathDone,
          CopyFitsCommit, GateOpen, BeginVector, Dispatches, OnlyVector
  <1>5. SourceKept' /\ PathDone' /\ CopyFitsCommit'
    BY SameCommits, DepsAssumption
       DEF ReleaseIInv, TypeOK, StepPhase, OpenWhole, FreshForward, SourceKept, PathDone,
          CopyFitsCommit, GateOpen, BeginVector, Dispatches, OnlyVector
  <1>6. NoTaskUnderWrites'
    BY DEF ReleaseIInv, TypeOK, StepPhase, NoTaskUnderWrites, GateOpen, BeginVector, Dispatches,
       OnlyVector
  <1> QED BY <1>2, <1>3, <1>4, <1>5, <1>6 DEF ReleaseIInv

\* Draining ends under the exclusive lock.
LEMMA DrainOK == ASSUME ReleaseIInv, Drain PROVE ReleaseIInv'
  <1> USE DEF vars, envVars, tickVars, hostVars
  <1>1. st' \in StateFile
    BY CommitAssumption, DepsAssumption, TomlAssumption
       DEF ReleaseIInv, TypeOK, StateFile, ResetNames, Phases, Failures, Drain, Dispatches
  <1>2. TypeOK'
    BY <1>1, CommitAssumption, DepsAssumption
       DEF ReleaseIInv, TypeOK, StateFile, ResetNames, Phases, Failures, Steps, Flows, Drain,
          Dispatches
  <1>3. ResetNames' /\ StepPhase'
    BY DEF ReleaseIInv, TypeOK, ResetNames, StepPhase, OpenWhole, GateOpen, Drain, Dispatches
  <1>4. OpenWhole' /\ FreshForward'
    BY SameCommits, DepsAssumption
       DEF ReleaseIInv, TypeOK, StepPhase, OpenWhole, FreshForward, SourceKept, PathDone,
          CopyFitsCommit, GateOpen, Drain, Dispatches
  <1>5. SourceKept' /\ PathDone' /\ CopyFitsCommit'
    BY SameCommits, DepsAssumption
       DEF ReleaseIInv, TypeOK, StepPhase, OpenWhole, FreshForward, SourceKept, PathDone,
          CopyFitsCommit, GateOpen, Drain, Dispatches
  <1>6. NoTaskUnderWrites'
    BY DEF ReleaseIInv, TypeOK, StepPhase, NoTaskUnderWrites, GateOpen, Drain, Dispatches
  <1> QED BY <1>2, <1>3, <1>4, <1>5, <1>6 DEF ReleaseIInv

\* Quiescing goes on under the exclusive lock.
LEMMA QuiesceOK == ASSUME ReleaseIInv, Quiesce PROVE ReleaseIInv'
  <1> USE DEF vars, envVars, tickVars, hostVars
  <1>1. st' \in StateFile
    BY CommitAssumption, DepsAssumption, TomlAssumption
       DEF ReleaseIInv, TypeOK, StateFile, ResetNames, Phases, Failures, Quiesce, Dispatches
  <1>2. TypeOK'
    BY <1>1, CommitAssumption, DepsAssumption
       DEF ReleaseIInv, TypeOK, StateFile, ResetNames, Phases, Failures, Steps, Flows, Quiesce,
          Dispatches
  <1>3. ResetNames' /\ StepPhase'
    BY DEF ReleaseIInv, TypeOK, ResetNames, StepPhase, OpenWhole, GateOpen, Quiesce, Dispatches
  <1>4. OpenWhole' /\ FreshForward'
    BY SameCommits, DepsAssumption
       DEF ReleaseIInv, TypeOK, StepPhase, OpenWhole, FreshForward, SourceKept, PathDone,
          CopyFitsCommit, GateOpen, Quiesce, Dispatches
  <1>5. SourceKept' /\ PathDone' /\ CopyFitsCommit'
    BY SameCommits, DepsAssumption
       DEF ReleaseIInv, TypeOK, StepPhase, OpenWhole, FreshForward, SourceKept, PathDone,
          CopyFitsCommit, GateOpen, Quiesce, Dispatches
  <1>6. NoTaskUnderWrites'
    BY DEF ReleaseIInv, TypeOK, StepPhase, NoTaskUnderWrites, GateOpen, Quiesce, Dispatches
  <1> QED BY <1>2, <1>3, <1>4, <1>5, <1>6 DEF ReleaseIInv

\* A startup that was not completed keeps the gate closed.
LEMMA PartialStartupOK == ASSUME ReleaseIInv, PartialStartup PROVE ReleaseIInv'
  <1> USE DEF vars, envVars, tickVars, hostVars
  <1>1. st' \in StateFile
    BY CommitAssumption, DepsAssumption, TomlAssumption
       DEF ReleaseIInv, TypeOK, StateFile, ResetNames, Phases, Failures, PartialStartup,
          Dispatches, Finish, Off, NoRequest
  <1>2. TypeOK'
    BY <1>1, CommitAssumption, DepsAssumption
       DEF ReleaseIInv, TypeOK, StateFile, ResetNames, Phases, Failures, Steps, Flows,
          PartialStartup, Dispatches, Finish, Off, NoRequest
  <1>3. ResetNames' /\ StepPhase'
    BY DEF ReleaseIInv, TypeOK, ResetNames, StepPhase, OpenWhole, GateOpen, PartialStartup,
       Dispatches, Finish, Off, NoRequest
  <1>4. OpenWhole' /\ FreshForward'
    BY SameCommits, DepsAssumption
       DEF ReleaseIInv, TypeOK, StepPhase, OpenWhole, FreshForward, SourceKept, PathDone,
          CopyFitsCommit, GateOpen, PartialStartup, Dispatches, Finish, Off, NoRequest
  <1>5. SourceKept' /\ PathDone' /\ CopyFitsCommit'
    BY SameCommits, DepsAssumption
       DEF ReleaseIInv, TypeOK, StepPhase, OpenWhole, FreshForward, SourceKept, PathDone,
          CopyFitsCommit, GateOpen, PartialStartup, Dispatches, Finish, Off, NoRequest
  <1>6. NoTaskUnderWrites'
    BY DEF ReleaseIInv, TypeOK, StepPhase, NoTaskUnderWrites, GateOpen, PartialStartup,
       Dispatches, Finish, Off, NoRequest
  <1> QED BY <1>2, <1>3, <1>4, <1>5, <1>6 DEF ReleaseIInv

\* A verification that died is run again.
LEMMA ReverifyOK == ASSUME ReleaseIInv, Reverify PROVE ReleaseIInv'
  <1> USE DEF vars, envVars, tickVars, hostVars
  <1>1. ASSUME Dispatches, st.phase = "verifying", st.startup, pc' = "check",
               UNCHANGED <<st, request, flow, excl, main, envVars, hostVars>>
        PROVE  ReleaseIInv'
    <2>1. st' \in StateFile
      BY <1>1, CommitAssumption, DepsAssumption, TomlAssumption
         DEF ReleaseIInv, TypeOK, StateFile, ResetNames, Phases, Failures, Dispatches
    <2>2. TypeOK'
      BY <1>1, <2>1, CommitAssumption, DepsAssumption
         DEF ReleaseIInv, TypeOK, StateFile, ResetNames, Phases, Failures, Steps, Flows,
            Dispatches
    <2>3. ResetNames' /\ StepPhase'
      BY <1>1 DEF ReleaseIInv, TypeOK, ResetNames, StepPhase, OpenWhole, GateOpen, Dispatches
    <2>4. OpenWhole' /\ FreshForward'
      BY <1>1, SameCommits, DepsAssumption
         DEF ReleaseIInv, TypeOK, StepPhase, OpenWhole, FreshForward, SourceKept, PathDone,
            CopyFitsCommit, GateOpen, Dispatches
    <2>5. SourceKept' /\ PathDone' /\ CopyFitsCommit'
      BY <1>1, SameCommits, DepsAssumption
         DEF ReleaseIInv, TypeOK, StepPhase, OpenWhole, FreshForward, SourceKept, PathDone,
            CopyFitsCommit, GateOpen, Dispatches
    <2>6. NoTaskUnderWrites'
      BY <1>1 DEF ReleaseIInv, TypeOK, StepPhase, NoTaskUnderWrites, GateOpen, Dispatches
    <2> QED BY <2>2, <2>3, <2>4, <2>5, <2>6 DEF ReleaseIInv
  <1>2. ASSUME Dispatches, st.phase = "verifying", st.startup, Unhealthy(st), UNCHANGED <<main, envVars, hostVars>>
        PROVE  ReleaseIInv'
    <2>1. st' \in StateFile
      BY <1>2, CommitAssumption, DepsAssumption, TomlAssumption
         DEF ReleaseIInv, TypeOK, StateFile, ResetNames, Phases, Failures, Dispatches, Unhealthy,
            Closing
    <2>2. TypeOK'
      BY <1>2, <2>1, CommitAssumption, DepsAssumption
         DEF ReleaseIInv, TypeOK, StateFile, ResetNames, Phases, Failures, Steps, Flows,
            Dispatches, Unhealthy, Closing
    <2>3. ResetNames' /\ StepPhase'
      BY <1>2 DEF ReleaseIInv, TypeOK, ResetNames, StepPhase, OpenWhole, GateOpen, Dispatches,
         Unhealthy, Closing
    <2>4. OpenWhole' /\ FreshForward'
      BY <1>2, SameCommits, DepsAssumption
         DEF ReleaseIInv, TypeOK, StepPhase, OpenWhole, FreshForward, SourceKept, PathDone,
            CopyFitsCommit, GateOpen, Dispatches, Unhealthy, Closing
    <2>5. SourceKept' /\ PathDone' /\ CopyFitsCommit'
      BY <1>2, SameCommits, DepsAssumption
         DEF ReleaseIInv, TypeOK, StepPhase, OpenWhole, FreshForward, SourceKept, PathDone,
            CopyFitsCommit, GateOpen, Dispatches, Unhealthy, Closing
    <2>6. NoTaskUnderWrites'
      BY <1>2 DEF ReleaseIInv, TypeOK, StepPhase, NoTaskUnderWrites, GateOpen, Dispatches,
         Unhealthy, Closing
    <2> QED BY <2>2, <2>3, <2>4, <2>5, <2>6 DEF ReleaseIInv
  <1> QED BY <1>1, <1>2 DEF Reverify

\* The stop is issued while quiescing.
LEMMA IssueStopOK == ASSUME ReleaseIInv, IssueStop PROVE ReleaseIInv'
  <1> USE DEF vars, envVars, tickVars, hostVars
  <1>1. st' \in StateFile
    BY CommitAssumption, DepsAssumption, TomlAssumption
       DEF ReleaseIInv, TypeOK, StateFile, ResetNames, Phases, Failures, IssueStop
  <1>2. TypeOK'
    BY <1>1, CommitAssumption, DepsAssumption, ZenonT(60)
       DEF ReleaseIInv, TypeOK, StateFile, ResetNames, Phases, Failures, Steps, Flows, IssueStop
  <1>3. ResetNames' /\ StepPhase'
    BY DEF ReleaseIInv, TypeOK, ResetNames, StepPhase, OpenWhole, GateOpen, IssueStop
  <1>4. OpenWhole' /\ FreshForward'
    BY SameCommits, DepsAssumption
       DEF ReleaseIInv, TypeOK, StepPhase, OpenWhole, FreshForward, SourceKept, PathDone,
          CopyFitsCommit, GateOpen, IssueStop
  <1>5. SourceKept' /\ PathDone' /\ CopyFitsCommit'
    BY SameCommits, DepsAssumption
       DEF ReleaseIInv, TypeOK, StepPhase, OpenWhole, FreshForward, SourceKept, PathDone,
          CopyFitsCommit, GateOpen, IssueStop
  <1>6. NoTaskUnderWrites'
    BY DEF ReleaseIInv, TypeOK, StepPhase, NoTaskUnderWrites, GateOpen, IssueStop
  <1> QED BY <1>2, <1>3, <1>4, <1>5, <1>6 DEF ReleaseIInv

\* Writes begin when every unit is down.
LEMMA StopDoneOK == ASSUME ReleaseIInv, StopDone PROVE ReleaseIInv'
  <1> USE DEF vars, envVars, tickVars, hostVars
  <1>1. st' \in StateFile
    BY CommitAssumption, DepsAssumption, TomlAssumption
       DEF ReleaseIInv, TypeOK, StateFile, ResetNames, Phases, Failures, StopDone
  <1>2. TypeOK'
    BY <1>1, CommitAssumption, DepsAssumption
       DEF ReleaseIInv, TypeOK, StateFile, ResetNames, Phases, Failures, Steps, Flows, StopDone
  <1>3. ResetNames' /\ StepPhase'
    BY DEF ReleaseIInv, TypeOK, ResetNames, StepPhase, OpenWhole, GateOpen, StopDone
  <1>4. OpenWhole' /\ FreshForward'
    BY SameCommits, DepsAssumption
       DEF ReleaseIInv, TypeOK, StepPhase, OpenWhole, FreshForward, SourceKept, PathDone,
          CopyFitsCommit, GateOpen, StopDone
  <1>5. SourceKept' /\ PathDone' /\ CopyFitsCommit'
    BY SameCommits, DepsAssumption
       DEF ReleaseIInv, TypeOK, StepPhase, OpenWhole, FreshForward, SourceKept, PathDone,
          CopyFitsCommit, GateOpen, StopDone
  <1>6. NoTaskUnderWrites'
    BY DEF ReleaseIInv, TypeOK, StepPhase, NoTaskUnderWrites, GateOpen, StopDone
  <1> QED BY <1>2, <1>3, <1>4, <1>5, <1>6 DEF ReleaseIInv

\* The checkout moves after the copy was saved or restored.
LEMMA CheckoutOK == ASSUME ReleaseIInv, Checkout PROVE ReleaseIInv'
  <1> USE DEF vars, envVars, tickVars, hostVars
  <1>1. st' \in StateFile
    BY CommitAssumption, DepsAssumption, TomlAssumption
       DEF ReleaseIInv, TypeOK, StateFile, ResetNames, Phases, Failures, Checkout
  <1>2. TypeOK'
    BY <1>1, CommitAssumption, DepsAssumption
       DEF ReleaseIInv, TypeOK, StateFile, ResetNames, Phases, Failures, Steps, Flows, Checkout
  <1>3. ResetNames' /\ StepPhase'
    BY DEF ReleaseIInv, TypeOK, ResetNames, StepPhase, OpenWhole, GateOpen, Checkout
  <1>4. OpenWhole' /\ FreshForward'
    BY SameCommits, DepsAssumption
       DEF ReleaseIInv, TypeOK, StepPhase, OpenWhole, FreshForward, SourceKept, PathDone,
          CopyFitsCommit, GateOpen, Checkout
  <1>5. SourceKept' /\ PathDone' /\ CopyFitsCommit'
    BY SameCommits, DepsAssumption
       DEF ReleaseIInv, TypeOK, StepPhase, OpenWhole, FreshForward, SourceKept, PathDone,
          CopyFitsCommit, GateOpen, Checkout
  <1>6. NoTaskUnderWrites'
    BY DEF ReleaseIInv, TypeOK, StepPhase, NoTaskUnderWrites, GateOpen, Checkout
  <1> QED BY <1>2, <1>3, <1>4, <1>5, <1>6 DEF ReleaseIInv

\* After the dependencies the virtualenv is the target's.
LEMMA InstallDepsOK == ASSUME ReleaseIInv, InstallDeps PROVE ReleaseIInv'
  <1> USE DEF vars, envVars, tickVars, hostVars
  <1>1. st' \in StateFile
    BY CommitAssumption, DepsAssumption, TomlAssumption
       DEF ReleaseIInv, TypeOK, StateFile, ResetNames, Phases, Failures, InstallDeps, NeedsDeps
  <1>2. TypeOK'
    BY <1>1, CommitAssumption, DepsAssumption
       DEF ReleaseIInv, TypeOK, StateFile, ResetNames, Phases, Failures, Steps, Flows,
          InstallDeps, NeedsDeps
  <1>3. ResetNames' /\ StepPhase'
    BY DEF ReleaseIInv, TypeOK, ResetNames, StepPhase, OpenWhole, GateOpen, InstallDeps, NeedsDeps
  <1>4. OpenWhole' /\ FreshForward'
    BY SameCommits, DepsAssumption
       DEF ReleaseIInv, TypeOK, StepPhase, OpenWhole, FreshForward, SourceKept, PathDone,
          CopyFitsCommit, GateOpen, InstallDeps, NeedsDeps
  <1>5. SourceKept' /\ PathDone' /\ CopyFitsCommit'
    BY SameCommits, DepsAssumption
       DEF ReleaseIInv, TypeOK, StepPhase, OpenWhole, FreshForward, SourceKept, PathDone,
          CopyFitsCommit, GateOpen, InstallDeps, NeedsDeps
  <1>6. NoTaskUnderWrites'
    BY DEF ReleaseIInv, TypeOK, StepPhase, NoTaskUnderWrites, GateOpen, InstallDeps, NeedsDeps
  <1> QED BY <1>2, <1>3, <1>4, <1>5, <1>6 DEF ReleaseIInv

\* The managed configuration of the target is installed.
LEMMA InstallOK == ASSUME ReleaseIInv, Install PROVE ReleaseIInv'
  <1> USE DEF vars, envVars, tickVars, hostVars
  <1>1. st' \in StateFile
    BY CommitAssumption, DepsAssumption, TomlAssumption
       DEF ReleaseIInv, TypeOK, StateFile, ResetNames, Phases, Failures, Install
  <1>2. TypeOK'
    BY <1>1, CommitAssumption, DepsAssumption
       DEF ReleaseIInv, TypeOK, StateFile, ResetNames, Phases, Failures, Steps, Flows, Install
  <1>3. ResetNames' /\ StepPhase'
    BY DEF ReleaseIInv, TypeOK, ResetNames, StepPhase, OpenWhole, GateOpen, Install
  <1>4. OpenWhole' /\ FreshForward'
    BY SameCommits, DepsAssumption
       DEF ReleaseIInv, TypeOK, StepPhase, OpenWhole, FreshForward, SourceKept, PathDone,
          CopyFitsCommit, GateOpen, Install
  <1>5. SourceKept' /\ PathDone' /\ CopyFitsCommit'
    BY SameCommits, DepsAssumption
       DEF ReleaseIInv, TypeOK, StepPhase, OpenWhole, FreshForward, SourceKept, PathDone,
          CopyFitsCommit, GateOpen, Install
  <1>6. NoTaskUnderWrites'
    BY DEF ReleaseIInv, TypeOK, StepPhase, NoTaskUnderWrites, GateOpen, Install
  <1> QED BY <1>2, <1>3, <1>4, <1>5, <1>6 DEF ReleaseIInv

\* A failed write leaves the gate closed and the sources of a retry intact.
LEMMA WriteFailsOK == ASSUME ReleaseIInv, WriteFails PROVE ReleaseIInv'
  <1> USE DEF vars, envVars, tickVars, hostVars
  <1>0. venv' \in {venv, Mixed} /\ cfg' \in {cfg, Mixed}
    BY DEF WriteFails
  <1>1. st' \in StateFile
    BY <1>0, CommitAssumption, DepsAssumption, TomlAssumption
       DEF ReleaseIInv, TypeOK, StateFile, ResetNames, Phases, Failures, WriteFails, NeedsDeps,
          Finish, Off, NoRequest
  <1>2. TypeOK'
    <2>1. request' = NoRequest /\ pc' = "off" /\ flow' = "full" /\ UNCHANGED <<main, head, wanted, worker, orphan>>
      BY DEF WriteFails, Finish, Off
    <2>2. excl' \in BOOLEAN
      BY DEF WriteFails, Finish, Off
    <2> QED BY <1>0, <1>1, <2>1, <2>2 DEF ReleaseIInv, TypeOK, StateFile, NoRequest, Steps, Flows
  <1>3. ResetNames' /\ StepPhase'
    BY <1>0 DEF ReleaseIInv, TypeOK, ResetNames, StepPhase, OpenWhole, GateOpen, WriteFails,
       NeedsDeps, Finish, Off, NoRequest
  <1>4. OpenWhole' /\ FreshForward'
    BY <1>0, SameCommits, DepsAssumption
       DEF ReleaseIInv, TypeOK, StepPhase, OpenWhole, FreshForward, SourceKept, PathDone,
          CopyFitsCommit, GateOpen, WriteFails, NeedsDeps, Finish, Off, NoRequest
  <1>5. SourceKept' /\ PathDone' /\ CopyFitsCommit'
    BY <1>0, SameCommits, DepsAssumption
       DEF ReleaseIInv, TypeOK, StepPhase, OpenWhole, FreshForward, SourceKept, PathDone,
          CopyFitsCommit, GateOpen, WriteFails, NeedsDeps, Finish, Off, NoRequest
  <1>6. NoTaskUnderWrites'
    BY <1>0 DEF ReleaseIInv, TypeOK, StepPhase, NoTaskUnderWrites, GateOpen, WriteFails,
       NeedsDeps, Finish, Off, NoRequest
  <1> QED BY <1>2, <1>3, <1>4, <1>5, <1>6 DEF ReleaseIInv

\* The new entrypoint starts with the environment of its target.
LEMMA ReexecOK == ASSUME ReleaseIInv, Reexec PROVE ReleaseIInv'
  <1> USE DEF vars, envVars, tickVars, hostVars
  <1>1. st' \in StateFile
    BY CommitAssumption, DepsAssumption, TomlAssumption
       DEF ReleaseIInv, TypeOK, StateFile, ResetNames, Phases, Failures, Reexec
  <1>2. TypeOK'
    BY <1>1, CommitAssumption, DepsAssumption
       DEF ReleaseIInv, TypeOK, StateFile, ResetNames, Phases, Failures, Steps, Flows, Reexec
  <1>3. ResetNames' /\ StepPhase'
    BY DEF ReleaseIInv, TypeOK, ResetNames, StepPhase, OpenWhole, GateOpen, Reexec
  <1>4. OpenWhole' /\ FreshForward'
    BY SameCommits, DepsAssumption
       DEF ReleaseIInv, TypeOK, StepPhase, OpenWhole, FreshForward, SourceKept, PathDone,
          CopyFitsCommit, GateOpen, Reexec
  <1>5. SourceKept' /\ PathDone' /\ CopyFitsCommit'
    BY SameCommits, DepsAssumption
       DEF ReleaseIInv, TypeOK, StepPhase, OpenWhole, FreshForward, SourceKept, PathDone,
          CopyFitsCommit, GateOpen, Reexec
  <1>6. NoTaskUnderWrites'
    BY DEF ReleaseIInv, TypeOK, StepPhase, NoTaskUnderWrites, GateOpen, Reexec
  <1> QED BY <1>2, <1>3, <1>4, <1>5, <1>6 DEF ReleaseIInv

\* Workers are wanted again, behind a closed gate.
LEMMA ResidentsUpOK == ASSUME ReleaseIInv, ResidentsUp PROVE ReleaseIInv'
  <1> USE DEF vars, envVars, tickVars, hostVars
  <1>1. st' \in StateFile
    BY CommitAssumption, DepsAssumption, TomlAssumption
       DEF ReleaseIInv, TypeOK, StateFile, ResetNames, Phases, Failures, ResidentsUp
  <1>2. TypeOK'
    BY <1>1, CommitAssumption, DepsAssumption
       DEF ReleaseIInv, TypeOK, StateFile, ResetNames, Phases, Failures, Steps, Flows, ResidentsUp
  <1>3. ResetNames' /\ StepPhase'
    BY DEF ReleaseIInv, TypeOK, ResetNames, StepPhase, OpenWhole, GateOpen, ResidentsUp
  <1>4. OpenWhole' /\ FreshForward'
    BY SameCommits, DepsAssumption
       DEF ReleaseIInv, TypeOK, StepPhase, OpenWhole, FreshForward, SourceKept, PathDone,
          CopyFitsCommit, GateOpen, ResidentsUp
  <1>5. SourceKept' /\ PathDone' /\ CopyFitsCommit'
    BY SameCommits, DepsAssumption
       DEF ReleaseIInv, TypeOK, StepPhase, OpenWhole, FreshForward, SourceKept, PathDone,
          CopyFitsCommit, GateOpen, ResidentsUp
  <1>6. NoTaskUnderWrites'
    BY DEF ReleaseIInv, TypeOK, StepPhase, NoTaskUnderWrites, GateOpen, ResidentsUp
  <1> QED BY <1>2, <1>3, <1>4, <1>5, <1>6 DEF ReleaseIInv

\* The gate opens over a whole environment.
LEMMA WorkersUpOK == ASSUME ReleaseIInv, WorkersUp PROVE ReleaseIInv'
  <1> USE DEF vars, envVars, tickVars, hostVars
  <1>1. st' \in StateFile
    BY CommitAssumption, DepsAssumption, TomlAssumption
       DEF ReleaseIInv, TypeOK, StateFile, ResetNames, Phases, Failures, WorkersUp
  <1>2. TypeOK'
    BY <1>1, CommitAssumption, DepsAssumption
       DEF ReleaseIInv, TypeOK, StateFile, ResetNames, Phases, Failures, Steps, Flows, WorkersUp
  <1>3. ResetNames' /\ StepPhase'
    BY DEF ReleaseIInv, TypeOK, ResetNames, StepPhase, OpenWhole, GateOpen, WorkersUp
  <1>4. OpenWhole' /\ FreshForward'
    BY SameCommits, DepsAssumption
       DEF ReleaseIInv, TypeOK, StepPhase, OpenWhole, FreshForward, SourceKept, PathDone,
          CopyFitsCommit, GateOpen, WorkersUp
  <1>5. SourceKept' /\ PathDone' /\ CopyFitsCommit'
    BY SameCommits, DepsAssumption
       DEF ReleaseIInv, TypeOK, StepPhase, OpenWhole, FreshForward, SourceKept, PathDone,
          CopyFitsCommit, GateOpen, WorkersUp
  <1>6. NoTaskUnderWrites'
    BY DEF ReleaseIInv, TypeOK, StepPhase, NoTaskUnderWrites, GateOpen, WorkersUp
  <1> QED BY <1>2, <1>3, <1>4, <1>5, <1>6 DEF ReleaseIInv

\* A failed start keeps the gate closed.
LEMMA StartFailsOK == ASSUME ReleaseIInv, StartFails PROVE ReleaseIInv'
  <1> USE DEF vars, envVars, tickVars, hostVars
  <1>1. st' \in StateFile
    BY CommitAssumption, DepsAssumption, TomlAssumption
       DEF ReleaseIInv, TypeOK, StateFile, ResetNames, Phases, Failures, StartFails, Closing
  <1>2. TypeOK'
    BY <1>1, CommitAssumption, DepsAssumption
       DEF ReleaseIInv, TypeOK, StateFile, ResetNames, Phases, Failures, Steps, Flows,
          StartFails, Closing
  <1>3. ResetNames' /\ StepPhase'
    BY DEF ReleaseIInv, TypeOK, ResetNames, StepPhase, OpenWhole, GateOpen, StartFails, Closing
  <1>4. OpenWhole' /\ FreshForward'
    BY SameCommits, DepsAssumption
       DEF ReleaseIInv, TypeOK, StepPhase, OpenWhole, FreshForward, SourceKept, PathDone,
          CopyFitsCommit, GateOpen, StartFails, Closing
  <1>5. SourceKept' /\ PathDone' /\ CopyFitsCommit'
    BY SameCommits, DepsAssumption
       DEF ReleaseIInv, TypeOK, StepPhase, OpenWhole, FreshForward, SourceKept, PathDone,
          CopyFitsCommit, GateOpen, StartFails, Closing
  <1>6. NoTaskUnderWrites'
    BY DEF ReleaseIInv, TypeOK, StepPhase, NoTaskUnderWrites, GateOpen, StartFails, Closing
  <1> QED BY <1>2, <1>3, <1>4, <1>5, <1>6 DEF ReleaseIInv

\* The target is verified, and the release is over.
LEMMA AcceptOK == ASSUME ReleaseIInv, Accept PROVE ReleaseIInv'
  <1> USE DEF vars, envVars, tickVars, hostVars
  <1>1. st' \in StateFile
    BY CommitAssumption, DepsAssumption, TomlAssumption
       DEF ReleaseIInv, TypeOK, StateFile, ResetNames, Phases, Failures, Accept, Closing
  <1>2. TypeOK'
    BY <1>1, CommitAssumption, DepsAssumption
       DEF ReleaseIInv, TypeOK, StateFile, ResetNames, Phases, Failures, Steps, Flows, Accept,
          Closing
  <1>3. ResetNames' /\ StepPhase'
    BY DEF ReleaseIInv, TypeOK, ResetNames, StepPhase, OpenWhole, GateOpen, Accept, Closing
  <1>4. OpenWhole' /\ FreshForward'
    BY SameCommits, DepsAssumption
       DEF ReleaseIInv, TypeOK, StepPhase, OpenWhole, FreshForward, SourceKept, PathDone,
          CopyFitsCommit, GateOpen, Accept, Closing
  <1>5. SourceKept' /\ PathDone' /\ CopyFitsCommit'
    BY SameCommits, DepsAssumption
       DEF ReleaseIInv, TypeOK, StepPhase, OpenWhole, FreshForward, SourceKept, PathDone,
          CopyFitsCommit, GateOpen, Accept, Closing
  <1>6. NoTaskUnderWrites'
    BY DEF ReleaseIInv, TypeOK, StepPhase, NoTaskUnderWrites, GateOpen, Accept, Closing
  <1> QED BY <1>2, <1>3, <1>4, <1>5, <1>6 DEF ReleaseIInv

\* The target stays unaccepted.
LEMMA RejectOK == ASSUME ReleaseIInv, Reject PROVE ReleaseIInv'
  <1> USE DEF vars, envVars, tickVars, hostVars
  <1>1. st' \in StateFile
    BY CommitAssumption, DepsAssumption, TomlAssumption
       DEF ReleaseIInv, TypeOK, StateFile, ResetNames, Phases, Failures, Reject, Closing
  <1>2. TypeOK'
    BY <1>1, CommitAssumption, DepsAssumption
       DEF ReleaseIInv, TypeOK, StateFile, ResetNames, Phases, Failures, Steps, Flows, Reject,
          Closing
  <1>3. ResetNames' /\ StepPhase'
    BY DEF ReleaseIInv, TypeOK, ResetNames, StepPhase, OpenWhole, GateOpen, Reject, Closing
  <1>4. OpenWhole' /\ FreshForward'
    BY SameCommits, DepsAssumption
       DEF ReleaseIInv, TypeOK, StepPhase, OpenWhole, FreshForward, SourceKept, PathDone,
          CopyFitsCommit, GateOpen, Reject, Closing
  <1>5. SourceKept' /\ PathDone' /\ CopyFitsCommit'
    BY SameCommits, DepsAssumption
       DEF ReleaseIInv, TypeOK, StepPhase, OpenWhole, FreshForward, SourceKept, PathDone,
          CopyFitsCommit, GateOpen, Reject, Closing
  <1>6. NoTaskUnderWrites'
    BY DEF ReleaseIInv, TypeOK, StepPhase, NoTaskUnderWrites, GateOpen, Reject, Closing
  <1> QED BY <1>2, <1>3, <1>4, <1>5, <1>6 DEF ReleaseIInv

\* The checkout moves to a commit with the same requirements.
LEMMA SwitchOK == ASSUME ReleaseIInv, Switch PROVE ReleaseIInv'
  <1> USE DEF vars, envVars, tickVars, hostVars
  <1>1. st' \in StateFile
    BY CommitAssumption, DepsAssumption, TomlAssumption
       DEF ReleaseIInv, TypeOK, StateFile, ResetNames, Phases, Failures, Switch
  <1>2. TypeOK'
    BY <1>1, CommitAssumption, DepsAssumption
       DEF ReleaseIInv, TypeOK, StateFile, ResetNames, Phases, Failures, Steps, Flows, Switch
  <1>3. ResetNames' /\ StepPhase'
    BY DEF ReleaseIInv, TypeOK, ResetNames, StepPhase, OpenWhole, GateOpen, Switch
  <1>4. OpenWhole' /\ FreshForward'
    BY SameCommits, DepsAssumption
       DEF ReleaseIInv, TypeOK, StepPhase, OpenWhole, FreshForward, SourceKept, PathDone,
          CopyFitsCommit, GateOpen, Switch
  <1>5. SourceKept' /\ PathDone' /\ CopyFitsCommit'
    BY SameCommits, DepsAssumption
       DEF ReleaseIInv, TypeOK, StepPhase, OpenWhole, FreshForward, SourceKept, PathDone,
          CopyFitsCommit, GateOpen, Switch
  <1>6. NoTaskUnderWrites'
    BY DEF ReleaseIInv, TypeOK, StepPhase, NoTaskUnderWrites, GateOpen, Switch
  <1> QED BY <1>2, <1>3, <1>4, <1>5, <1>6 DEF ReleaseIInv

\* A failed switch leaves the checkout where it was.
LEMMA SwitchFailsOK == ASSUME ReleaseIInv, SwitchFails PROVE ReleaseIInv'
  <1> USE DEF vars, envVars, tickVars, hostVars
  <1> DEFINE s == [st EXCEPT !.phase = IF flow = "vector" THEN "idle" ELSE "applying",
                            !.scope = IF flow = "vector" THEN "full" ELSE "vector-only",
                            !.startup = FALSE, !.failure = "vector"]
  <1>1. CASE flow = "repair"
    <2>1. Refuse
      BY <1>1 DEF SwitchFails, Refuse
    <2> QED BY <2>1, RefuseOK
  <1>2. CASE flow # "repair"
    <2>a. /\ st' = s /\ pc = "switch" /\ pc' = "closing" /\ flow' = "full" /\ excl' = FALSE
          /\ UNCHANGED <<request, main, envVars, hostVars>>
      BY <1>2 DEF SwitchFails, Closing
    <2>1. st' \in StateFile
      BY <2>a, CommitAssumption, DepsAssumption, TomlAssumption
         DEF ReleaseIInv, TypeOK, StateFile, ResetNames, Phases, Failures
    <2>2. TypeOK'
      BY <2>1, <2>a, CommitAssumption, DepsAssumption
         DEF ReleaseIInv, TypeOK, StateFile, ResetNames, Phases, Failures, Steps, Flows
    <2>3. ResetNames' /\ StepPhase'
      BY <1>2, <2>a DEF ReleaseIInv, TypeOK, ResetNames, StepPhase, OpenWhole, GateOpen
    <2>4. OpenWhole' /\ FreshForward'
      BY <1>2, <2>a, SameCommits, DepsAssumption
         DEF ReleaseIInv, TypeOK, StepPhase, OpenWhole, FreshForward, SourceKept, PathDone,
            CopyFitsCommit, GateOpen
    <2>5. SourceKept' /\ PathDone' /\ CopyFitsCommit'
      BY <1>2, <2>a, SameCommits, DepsAssumption
         DEF ReleaseIInv, TypeOK, StepPhase, OpenWhole, FreshForward, SourceKept, PathDone,
            CopyFitsCommit, GateOpen
    <2>6. NoTaskUnderWrites'
      BY <1>2, <2>a DEF ReleaseIInv, TypeOK, StepPhase, NoTaskUnderWrites, GateOpen
    <2> QED BY <2>2, <2>3, <2>4, <2>5, <2>6 DEF ReleaseIInv
  <1> QED BY <1>1, <1>2

\* The vector configuration is installed under an open gate.
LEMMA VectorInstallOK == ASSUME ReleaseIInv, VectorInstall PROVE ReleaseIInv'
  <1> USE DEF vars, envVars, tickVars, hostVars
  <1>1. ASSUME pc = "vinstall", cfg' = st.target,
               st' = IF flow = "repair" THEN [st EXCEPT !.phase = "verifying"] ELSE st,
               pc' = "check", UNCHANGED <<request, flow, excl, main, head, venv, hostVars>>
        PROVE  ReleaseIInv'
    <2>1. st' \in StateFile
      BY <1>1, CommitAssumption, DepsAssumption, TomlAssumption
         DEF ReleaseIInv, TypeOK, StateFile, ResetNames, Phases, Failures
    <2>2. TypeOK'
      BY <1>1, <2>1, CommitAssumption, DepsAssumption
         DEF ReleaseIInv, TypeOK, StateFile, ResetNames, Phases, Failures, Steps, Flows
    <2>3. ResetNames' /\ StepPhase'
      BY <1>1 DEF ReleaseIInv, TypeOK, ResetNames, StepPhase, OpenWhole, GateOpen
    <2>4. OpenWhole' /\ FreshForward'
      BY <1>1, SameCommits, DepsAssumption
         DEF ReleaseIInv, TypeOK, StepPhase, OpenWhole, FreshForward, SourceKept, PathDone,
            CopyFitsCommit, GateOpen
    <2>5. SourceKept' /\ PathDone' /\ CopyFitsCommit'
      BY <1>1, SameCommits, DepsAssumption
         DEF ReleaseIInv, TypeOK, StepPhase, OpenWhole, FreshForward, SourceKept, PathDone,
            CopyFitsCommit, GateOpen
    <2>6. NoTaskUnderWrites'
      BY <1>1 DEF ReleaseIInv, TypeOK, StepPhase, NoTaskUnderWrites, GateOpen
    <2> QED BY <2>2, <2>3, <2>4, <2>5, <2>6 DEF ReleaseIInv
  <1>2. ASSUME pc = "vinstall", cfg' = st.target, Unhealthy(st), UNCHANGED <<main, head, venv, hostVars>>
        PROVE  ReleaseIInv'
    <2>1. st' \in StateFile
      BY <1>2, CommitAssumption, DepsAssumption, TomlAssumption
         DEF ReleaseIInv, TypeOK, StateFile, ResetNames, Phases, Failures, Unhealthy, Closing
    <2>2. TypeOK'
      BY <1>2, <2>1, CommitAssumption, DepsAssumption
         DEF ReleaseIInv, TypeOK, StateFile, ResetNames, Phases, Failures, Steps, Flows,
            Unhealthy, Closing
    <2>3. ResetNames' /\ StepPhase'
      BY <1>2 DEF ReleaseIInv, TypeOK, ResetNames, StepPhase, OpenWhole, GateOpen, Unhealthy,
         Closing
    <2>4. OpenWhole' /\ FreshForward'
      BY <1>2, SameCommits, DepsAssumption
         DEF ReleaseIInv, TypeOK, StepPhase, OpenWhole, FreshForward, SourceKept, PathDone,
            CopyFitsCommit, GateOpen, Unhealthy, Closing
    <2>5. SourceKept' /\ PathDone' /\ CopyFitsCommit'
      BY <1>2, SameCommits, DepsAssumption
         DEF ReleaseIInv, TypeOK, StepPhase, OpenWhole, FreshForward, SourceKept, PathDone,
            CopyFitsCommit, GateOpen, Unhealthy, Closing
    <2>6. NoTaskUnderWrites'
      BY <1>2 DEF ReleaseIInv, TypeOK, StepPhase, NoTaskUnderWrites, GateOpen, Unhealthy, Closing
    <2> QED BY <2>2, <2>3, <2>4, <2>5, <2>6 DEF ReleaseIInv
  <1> QED BY <1>1, <1>2 DEF VectorInstall

\* A failed vector installation keeps its scope, and so an open gate.
LEMMA VectorInstallFailsOK == ASSUME ReleaseIInv, VectorInstallFails PROVE ReleaseIInv'
  <1> USE DEF vars, envVars, tickVars, hostVars
  <1>1. ASSUME pc = "vinstall", cfg' \in {cfg, st.target}, flow = "repair",
               st' = [st EXCEPT !.phase = "verifying", !.startup = TRUE, !.failure = "repair-install"],
               Closing, UNCHANGED <<main, head, venv, hostVars>>
        PROVE  ReleaseIInv'
    <2>1. st' \in StateFile
      BY <1>1, CommitAssumption, DepsAssumption, TomlAssumption
         DEF ReleaseIInv, TypeOK, StateFile, ResetNames, Phases, Failures, Closing
    <2>2. TypeOK'
      BY <1>1, <2>1, CommitAssumption, DepsAssumption, ZenonT(60)
         DEF ReleaseIInv, TypeOK, StateFile, ResetNames, Phases, Failures, Steps, Flows, Closing
    <2>3. ResetNames' /\ StepPhase'
      BY <1>1 DEF ReleaseIInv, TypeOK, ResetNames, StepPhase, OpenWhole, GateOpen, Closing
    <2>4. OpenWhole' /\ FreshForward'
      BY <1>1, SameCommits, DepsAssumption
         DEF ReleaseIInv, TypeOK, StepPhase, OpenWhole, FreshForward, SourceKept, PathDone,
            CopyFitsCommit, GateOpen, Closing
    <2>5. SourceKept' /\ PathDone' /\ CopyFitsCommit'
      BY <1>1, SameCommits, DepsAssumption
         DEF ReleaseIInv, TypeOK, StepPhase, OpenWhole, FreshForward, SourceKept, PathDone,
            CopyFitsCommit, GateOpen, Closing
    <2>6. NoTaskUnderWrites'
      BY <1>1 DEF ReleaseIInv, TypeOK, StepPhase, NoTaskUnderWrites, GateOpen, Closing
    <2> QED BY <2>2, <2>3, <2>4, <2>5, <2>6 DEF ReleaseIInv
  <1>2. ASSUME pc = "vinstall", cfg' \in {cfg, st.target}, flow # "repair",
               st' = [st EXCEPT !.phase = "applying", !.startup = FALSE, !.failure = "vector"],
               Closing, UNCHANGED <<main, head, venv, hostVars>>
        PROVE  ReleaseIInv'
    <2>1. st' \in StateFile
      BY <1>2, CommitAssumption, DepsAssumption, TomlAssumption
         DEF ReleaseIInv, TypeOK, StateFile, ResetNames, Phases, Failures, Closing
    <2>2. TypeOK'
      BY <1>2, <2>1, CommitAssumption, DepsAssumption, ZenonT(60)
         DEF ReleaseIInv, TypeOK, StateFile, ResetNames, Phases, Failures, Steps, Flows, Closing
    <2>3. ResetNames' /\ StepPhase'
      BY <1>2 DEF ReleaseIInv, TypeOK, ResetNames, StepPhase, OpenWhole, GateOpen, Closing
    <2>4. OpenWhole' /\ FreshForward'
      BY <1>2, SameCommits, DepsAssumption
         DEF ReleaseIInv, TypeOK, StepPhase, OpenWhole, FreshForward, SourceKept, PathDone,
            CopyFitsCommit, GateOpen, Closing
    <2>5. SourceKept' /\ PathDone' /\ CopyFitsCommit'
      BY <1>2, SameCommits, DepsAssumption
         DEF ReleaseIInv, TypeOK, StepPhase, OpenWhole, FreshForward, SourceKept, PathDone,
            CopyFitsCommit, GateOpen, Closing
    <2>6. NoTaskUnderWrites'
      BY <1>2 DEF ReleaseIInv, TypeOK, StepPhase, NoTaskUnderWrites, GateOpen, Closing
    <2> QED BY <2>2, <2>3, <2>4, <2>5, <2>6 DEF ReleaseIInv
  <1> QED BY <1>1, <1>2 DEF VectorInstallFails

\* A dying tick leaves the sources of a retry intact.
LEMMA CrashOK == ASSUME ReleaseIInv, Crash PROVE ReleaseIInv'
  <1> USE DEF vars, envVars, tickVars, hostVars
  <1>1. st' \in StateFile
    BY CommitAssumption, DepsAssumption, TomlAssumption
       DEF ReleaseIInv, TypeOK, StateFile, ResetNames, Phases, Failures, Crash, VenvAfterCrash,
          Off
  <1>2. TypeOK'
    BY <1>1, CommitAssumption, DepsAssumption, ZenonT(60)
       DEF ReleaseIInv, TypeOK, StateFile, ResetNames, Phases, Failures, Steps, Flows, Crash,
          VenvAfterCrash, Off
  <1>3. ResetNames' /\ StepPhase'
    BY DEF ReleaseIInv, TypeOK, ResetNames, StepPhase, OpenWhole, GateOpen, Crash,
       VenvAfterCrash, Off
  <1>4. OpenWhole' /\ FreshForward'
    BY SameCommits, DepsAssumption
       DEF ReleaseIInv, TypeOK, StepPhase, OpenWhole, FreshForward, SourceKept, PathDone,
          CopyFitsCommit, GateOpen, Crash, VenvAfterCrash, Off
  <1>5. SourceKept' /\ PathDone' /\ CopyFitsCommit'
    BY SameCommits, DepsAssumption
       DEF ReleaseIInv, TypeOK, StepPhase, OpenWhole, FreshForward, SourceKept, PathDone,
          CopyFitsCommit, GateOpen, Crash, VenvAfterCrash, Off
  <1>6. NoTaskUnderWrites'
    BY DEF ReleaseIInv, TypeOK, StepPhase, NoTaskUnderWrites, GateOpen, Crash, VenvAfterCrash, Off
  <1> QED BY <1>2, <1>3, <1>4, <1>5, <1>6 DEF ReleaseIInv

\* The hold is the one write without the mutex.
LEMMA HoldOK == ASSUME ReleaseIInv, Hold PROVE ReleaseIInv'
  <1> USE DEF vars, envVars, tickVars, hostVars
  <1>1. st' \in StateFile
    BY CommitAssumption, DepsAssumption, TomlAssumption
       DEF ReleaseIInv, TypeOK, StateFile, ResetNames, Phases, Failures, Hold
  <1>2. TypeOK'
    BY <1>1, CommitAssumption, DepsAssumption
       DEF ReleaseIInv, TypeOK, StateFile, ResetNames, Phases, Failures, Steps, Flows, Hold
  <1>3. ResetNames' /\ StepPhase'
    BY DEF ReleaseIInv, TypeOK, ResetNames, StepPhase, OpenWhole, GateOpen, Hold
  <1>4. OpenWhole' /\ FreshForward'
    BY SameCommits, DepsAssumption
       DEF ReleaseIInv, TypeOK, StepPhase, OpenWhole, FreshForward, SourceKept, PathDone,
          CopyFitsCommit, GateOpen, Hold
  <1>5. SourceKept' /\ PathDone' /\ CopyFitsCommit'
    BY SameCommits, DepsAssumption
       DEF ReleaseIInv, TypeOK, StepPhase, OpenWhole, FreshForward, SourceKept, PathDone,
          CopyFitsCommit, GateOpen, Hold
  <1>6. NoTaskUnderWrites'
    BY DEF ReleaseIInv, TypeOK, StepPhase, NoTaskUnderWrites, GateOpen, Hold
  <1> QED BY <1>2, <1>3, <1>4, <1>5, <1>6 DEF ReleaseIInv

\* The operator's steps beside the hold, and the tick's ends.
LEMMA OperatorOK ==
  ASSUME ReleaseIInv, Close \/ StopTimesOut \/ Interrupted \/ (\E k \in Kinds : Register(k)) \/ (\E c \in Commit : Merge(c))
  PROVE  ReleaseIInv'
  <1> USE DEF envVars, tickVars, hostVars
  <1> DEFINE Requests == [kind : Kinds \cup {"none"}, status : {"none", "pending", "running"},
                          arg : Commit \cup {NoCommit}]
  <1>0. /\ main \in Commit /\ pc \in Steps \cup {"off"} /\ flow \in Flows /\ excl \in BOOLEAN
        /\ request \in Requests /\ ResetNames
    BY DEF ReleaseIInv, TypeOK
  <1>1. CASE Close
    BY <1>1, RefuseOK DEF Close, Refuse
  <1>2. CASE StopTimesOut
    <2>1. pc' = "off" /\ flow' \in Flows /\ excl' \in BOOLEAN /\ UNCHANGED <<st, request, main, envVars, hostVars>>
      BY <1>2 DEF StopTimesOut, Off, Flows
    <2>2. ResetNames' /\ request' \in Requests
      BY <1>0, <2>1 DEF ResetNames
    <2> QED BY <1>0, <2>1, <2>2, TickEnds
  <1>3. CASE Interrupted
    BY <1>3, RefuseOK DEF Interrupted
  <1>4. ASSUME NEW k \in Kinds, Register(k) PROVE ReleaseIInv'
    <2>1. PICK c \in Commit \cup {NoCommit} : /\ k \in {"reset", "vector-repair"} => c \in Commit
                                              /\ request' = [kind |-> k, status |-> "pending", arg |-> c]
      BY <1>4 DEF Register
    <2>2. ResetNames' /\ request' \in Requests
      BY <2>1 DEF ResetNames
    <2>3. UNCHANGED <<st, main, envVars, tickVars, hostVars>>
      BY <1>4 DEF Register
    <2> QED BY <1>0, <2>2, <2>3, TickEnds
  <1>5. ASSUME NEW c \in Commit, Merge(c) PROVE ReleaseIInv'
    <2>1. main' = c /\ UNCHANGED <<st, request, envVars, tickVars, hostVars>>
      BY <1>5 DEF Merge
    <2>2. ResetNames' /\ request' \in Requests
      BY <1>0, <2>1 DEF ResetNames
    <2> QED BY <1>0, <2>1, <2>2, TickEnds
  <1> QED BY <1>1, <1>2, <1>3, <1>4, <1>5

\* A worker takes a task only through an open gate, and touches nothing else.
LEMMA WorkersOK ==
  ASSUME ReleaseIInv, RecoverRecord \/ \E w \in Worker : WorkerNext(w)
  PROVE  ReleaseIInv'
  <1> USE DEF envVars, tickVars, hostVars
  <1>1. UNCHANGED <<st, request, main, head, venv, cfg, pc, flow, excl, wanted>>
    BY DEF RecoverRecord, WorkerNext, LockShared, ReadGate, EndTask, Die, Exit, UnitStart,
       WorkerStep
  <1>2. orphan' \in BOOLEAN
    BY DEF ReleaseIInv, TypeOK, RecoverRecord, WorkerNext, LockShared, ReadGate, EndTask, Die,
       Exit, UnitStart
  <1>3. CASE RecoverRecord
    <2>1. worker' = worker
      BY <1>3 DEF RecoverRecord
    <2>2. TypeOK'
      BY <1>1, <1>2, <2>1 DEF ReleaseIInv, TypeOK
    <2> QED BY <1>1, <2>1, <2>2 DEF ReleaseIInv, ResetNames, StepPhase, GateOpen, OpenWhole,
       FreshForward, SourceKept,
              PathDone, CopyFitsCommit, NoTaskUnderWrites
  <1>4. ASSUME NEW w \in Worker, WorkerNext(w) PROVE ReleaseIInv'
    <2>1. PICK v \in {"down", "idle", "locked", "task"} :
            worker' = [worker EXCEPT ![w] = v] /\ (v = "task" => GateOpen)
      BY <1>4 DEF WorkerNext, LockShared, ReadGate, EndTask, Die, Exit, UnitStart
    <2>2. /\ worker' \in [Worker -> {"down", "idle", "locked", "task"}]
          /\ \A x \in Worker : worker'[x] = IF x = w THEN v ELSE worker[x]
      BY <2>1 DEF ReleaseIInv, TypeOK
    <2>3. TypeOK'
      BY <1>1, <1>2, <2>2 DEF ReleaseIInv, TypeOK
    <2>4. NoTaskUnderWrites'
      BY <1>1, <2>1, <2>2 DEF ReleaseIInv, NoTaskUnderWrites, GateOpen
    <2> QED BY <1>1, <2>3, <2>4 DEF ReleaseIInv, ResetNames, StepPhase, GateOpen, OpenWhole,
       FreshForward, SourceKept,
              PathDone, CopyFitsCommit
  <1> QED BY <1>3, <1>4

\* A host on which the first commit is installed and verified.
LEMMA ReleaseInit == Init => ReleaseIInv
  <1> SUFFICES ASSUME Init PROVE ReleaseIInv
    OBVIOUS
  <1>1. st \in StateFile
    BY CommitAssumption DEF Init, StateFile, Phases, Failures
  <1>2. orphan \in BOOLEAN /\ wanted \in BOOLEAN /\ excl \in BOOLEAN
    BY DEF Init
  <1>3. TypeOK
    BY <1>1, <1>2, CommitAssumption, DepsAssumption DEF Init, TypeOK, StateFile, NoRequest,
       Steps, Flows
  <1>4. ResetNames /\ StepPhase /\ NoTaskUnderWrites
    BY DEF Init, ResetNames, StepPhase, NoTaskUnderWrites, NoRequest
  <1>5. OpenWhole /\ FreshForward /\ SourceKept /\ PathDone /\ CopyFitsCommit
    BY CommitAssumption, SameCommits DEF Init, OpenWhole, FreshForward, SourceKept, PathDone,
       CopyFitsCommit
  <1> QED BY <1>3, <1>4, <1>5 DEF ReleaseIInv

\* Every step of a tick, of an operator, of a worker and of a crash keeps the
\* invariant.
LEMMA ReleaseNext == ReleaseIInv /\ [Next]_vars => ReleaseIInv'
  <1> SUFFICES ASSUME ReleaseIInv, [Next]_vars PROVE ReleaseIInv'
    OBVIOUS
  <1>1. CASE UNCHANGED vars
    BY <1>1 DEF vars, envVars, tickVars, hostVars, ReleaseIInv, TypeOK, ResetNames, StepPhase,
       GateOpen, OpenWhole,
                FreshForward, SourceKept, PathDone, CopyFitsCommit, NoTaskUnderWrites
  <1>2. CASE RequestNext
    BY <1>2, RollbackOK, ResumeOK, CancelOK, VerifyOK, UnpauseOK, VectorRepairOK,
       ResetOK DEF RequestNext
  <1>3. CASE PhaseNext
    BY <1>3, BeginForwardOK, BeginVectorOK, DrainOK, QuiesceOK, OperatorOK, PartialStartupOK,
       ReverifyOK DEF PhaseNext
  <1>4. CASE StepNext
    BY <1>4, IssueStopOK, StopDoneOK, OperatorOK, CopyOK, CheckoutOK, InstallDepsOK, InstallOK,
       WriteFailsOK,
       ReexecOK, ResidentsUpOK, WorkersUpOK, StartFailsOK, AcceptOK, RejectOK, SwitchOK, SwitchFailsOK,
       VectorInstallOK, VectorInstallFailsOK DEF StepNext
  <1>5. CASE OperatorNext
    BY <1>5, HoldOK, OperatorOK, WorkersOK DEF OperatorNext
  <1> QED BY <1>1, <1>2, <1>3, <1>4, <1>5, CrashOK, WorkersOK DEF Next

\* It says what the three properties ask.
LEMMA ReleaseImplies == ReleaseIInv => EnvironmentSafe /\ NoTaskUnderWrites /\ IdleRunsVerified
  BY DEF ReleaseIInv, EnvironmentSafe, EnvironmentPaired, IdleRunsVerified, OpenWhole

\* Releases (src/ops/release.py): whenever workers may claim, the virtualenv is that
\* of the code checked out, and the recovery copy is an intact environment of the
\* commit a rollback returns to, whatever sequence of crashes, resumes, rollbacks and
\* resets led there.
THEOREM EnvironmentStaysPaired == Spec => []EnvironmentSafe
  BY ReleaseInit, ReleaseNext, ReleaseImplies, PTL DEF Spec

\* No task runs while a full release writes the environment, after it died doing so,
\* or before all of the new release's units are up.
THEOREM WritesUndisturbed == Spec => []NoTaskUnderWrites
  BY ReleaseInit, ReleaseNext, ReleaseImplies, PTL DEF Spec

\* An idle host runs the code it reports as verified, up to the log shipper's
\* configuration, after a cancelled or rolled back release too.
THEOREM IdleIsVerified == Spec => []IdleRunsVerified
  BY ReleaseInit, ReleaseNext, ReleaseImplies, PTL DEF Spec
=============================================================================

---------------------------- MODULE SyncConfig ----------------------------
(***************************************************************************)
(* ops/sync-config.py: the managed system files are compared with those of *)
(* a commit and installed, systemd is told, and what still has to be       *)
(* restarted is written down in sync-pending.json.  A command that fails   *)
(* rolls the installation back as far as that works; an exception that is  *)
(* not a Fail, a command that overruns its limit or a kill ends the        *)
(* process where it stands, with neither rollback nor debt.                *)
(***************************************************************************)
EXTENDS Naturals, FiniteSets

CONSTANTS
    App,            \* unit files of APP_UNITS
    WorkerUnit,     \* unit files of WORKER_PENDING
    Timer,          \* timer units
    VectorUnit,     \* vector.service, which is both a unit and vector's
    VectorToml,     \* vector.toml
    MaxCommits,     \* bound: versions of the managed files, and new commits
    MaxTouched,     \* bound: files one commit changes
    MaxSyncFaults   \* bound: failing commands, rejected candidates, foreign files, interruptions

ASSUME SyncConfigAssumption ==
    /\ MaxCommits \in Nat \ {0} /\ MaxTouched \in Nat /\ MaxSyncFaults \in Nat
    /\ App \cap WorkerUnit = {} /\ (App \cup WorkerUnit) \cap VectorUnit = {}
    /\ (App \cup WorkerUnit \cup Timer \cup VectorUnit) \cap VectorToml = {}

UnitFile == App \cup WorkerUnit \cup Timer \cup VectorUnit
VectorFile == VectorUnit \cup VectorToml
File == UnitFile \cup VectorFile
Service == App \cup WorkerUnit
NoFile == 0
Version == 0..MaxCommits

VARIABLES
    commit,     \* file -> its version in the repository
    disk,       \* file -> the installed version, or NoFile
    loaded,     \* unit file -> the version systemd has loaded
    started,    \* service or vector file -> the version its process was started from
    owed,       \* sync-pending.json: units, daemon_reload, vector_restart
    flags,      \* .deploy-pending and .deploy-rounds-pending
    foreign,    \* what forbids writing: "unexpected" files, a missing "notifier"
    spc,        \* where the invocation is
    plan,       \* files it still has to install
    saved,      \* files it installed -> the version that was there before
    before,     \* disk when the invocation began, or as the last one left it
    outcome,    \* how the last one ended
    stray,      \* history: files whose debt nobody recorded, or somebody struck out unpaid
    moves,      \* new commits so far (bound)
    syncFaults  \* faults so far (bound)

syncVars == <<commit, disk, loaded, started, owed, flags, foreign, spc, plan, saved,
              before, outcome, stray, moves, syncFaults>>

SyncFault == syncFaults < MaxSyncFaults /\ syncFaults' = syncFaults + 1
Installed == DOMAIN saved

\* source_bytes of the files list_repo_ops_files finds in a commit.
Source(f) == commit[f]

\* run_check: the files that differ from the commit's, or are missing.
Drift == {f \in File : disk[f] # Source(f)}

\* guard_release_coordination: whoever writes holds the deploy lock.
Coordinated == spc = "idle"

\* vector.service, when systemd does not have the installed version loaded.
OldUnit == {u \in VectorUnit : loaded[u] # disk[u]}

\* Files of which systemd or a process was not told.
NotInForce == {u \in UnitFile : loaded[u] # disk[u]}
              \cup {f \in Service \cup VectorFile : started[f] \notin {NoFile, disk[f]}}

\* What runs once vector is started: its unit as loaded, its settings from the disk.
VectorOn(units, files) ==
    [f \in Service \cup VectorFile |->
        IF f \in VectorUnit THEN units[f] ELSE IF f \in VectorToml THEN files[f] ELSE started[f]]

-----------------------------------------------------------------------------
(* Around it. *)

\* main moves: some files change, to something new or back to what they were.
NewCommit ==
    /\ spc = "idle" /\ moves < MaxCommits
    /\ moves' = moves + 1
    /\ \E fs \in SUBSET File, v \in 1..MaxCommits :
        /\ Cardinality(fs) \in 1..MaxTouched
        /\ commit' = [f \in File |-> IF f \in fs THEN v ELSE commit[f]]
    /\ UNCHANGED <<stray, disk, loaded, started, owed, flags, foreign, spc, plan, saved, before,
                   outcome, syncFaults>>

\* Something that blocks an installation appears, or is put right.
Toggle(k) ==
    /\ spc = "idle"
    /\ IF k \in foreign THEN UNCHANGED syncFaults ELSE SyncFault
    /\ foreign' = IF k \in foreign THEN foreign \ {k} ELSE foreign \cup {k}
    /\ UNCHANGED <<moves, stray, commit, disk, loaded, started, owed, flags, spc, plan, saved, before, outcome>>

\* scan_unexpected: files no commit names, masked units, overrides.
Unexpected == Toggle("unexpected")

\* check_notify_prereq: the program that reports a failed deploy, and its settings.
Notifier == Toggle("notifier")

\* The release coordinator or an operator restarts a service between two invocations.
\* It starts from what systemd has loaded, even while a reload is owed.
ServiceRestarts(u) ==
    /\ spc = "idle" /\ loaded[u] # NoFile
    /\ started' = [started EXCEPT ![u] = loaded[u]]
    /\ stray' = IF loaded[u] = disk[u] THEN stray ELSE stray \cup {u}
    /\ UNCHANGED <<moves, commit, disk, loaded, owed, flags, foreign, spc, plan, saved, before,
                   outcome, syncFaults>>

-----------------------------------------------------------------------------
(* One invocation. *)

\* check, apply and deploy-hook begin with the comparison; unmanaged state blocks
\* any write.
Blocked ==
    /\ Coordinated /\ foreign # {}
    /\ outcome' = "blocked"
    /\ UNCHANGED <<moves, stray, commit, disk, loaded, started, owed, flags, foreign, spc, plan, saved,
                   before, syncFaults>>

BeginApply ==
    /\ Coordinated /\ foreign = {} /\ Drift # {}
    /\ spc' = "validate" /\ plan' = Drift /\ saved' = <<>> /\ before' = disk
    /\ outcome' = "none"
    /\ UNCHANGED <<moves, stray, commit, disk, loaded, started, owed, flags, foreign, syncFaults>>

\* validate_candidates: nothing was written yet.
Rejected ==
    /\ spc = "validate" /\ SyncFault
    /\ spc' = "idle" /\ outcome' = "failed" /\ plan' = {}
    /\ UNCHANGED <<moves, stray, commit, disk, loaded, started, owed, flags, foreign, saved, before>>

Validated ==
    /\ spc = "validate" /\ spc' = "install"
    /\ UNCHANGED <<moves, stray, commit, disk, loaded, started, owed, flags, foreign, plan, saved, before,
                   outcome, syncFaults>>

\* install_entry: a backup of what is there, then the new file by a rename. Where
\* either raises the file stays as it was, and the process ends (Interrupted).
InstallEntry(f) ==
    /\ spc = "install" /\ f \in plan
    /\ plan' = plan \ {f}
    /\ saved' = [g \in Installed \cup {f} |-> IF g = f THEN disk[f] ELSE saved[g]]
    /\ disk' = [disk EXCEPT ![f] = Source(f)]
    /\ spc' = IF plan' = {} THEN "reload" ELSE "install"
    /\ UNCHANGED <<moves, stray, commit, loaded, started, owed, flags, foreign, before, outcome, syncFaults>>

\* units_changed and vector_changed; vector.service counts for both.
ReloadNeeded == Installed \cap UnitFile # {}
VectorNeeded == Installed \cap VectorFile # {}

\* daemon-reload, when a unit changed.
DaemonReload ==
    /\ spc = "reload" /\ spc' = "timers"
    /\ loaded' = IF ReloadNeeded THEN [u \in UnitFile |-> disk[u]] ELSE loaded
    /\ UNCHANGED <<moves, stray, commit, disk, started, owed, flags, foreign, plan, saved, before, outcome, syncFaults>>

\* restart_changed_timers: none of them keeps a process; with --install-only they
\* are the coordinator's.
RestartTimers ==
    /\ spc = "timers" /\ spc' = "vector"
    /\ UNCHANGED <<moves, stray, commit, disk, loaded, started, owed, flags, foreign, plan, saved, before,
                   outcome, syncFaults>>

\* A restart for vector.toml alone, while an earlier reload is owed, starts the unit
\* that is still loaded, and strikes the debt all the same.
RestartVector ==
    /\ spc = "vector" /\ spc' = "record"
    /\ IF VectorNeeded
       THEN /\ started' = VectorOn(loaded, disk)
            /\ owed' = [owed EXCEPT !.vector = FALSE]
            /\ stray' = stray \cup OldUnit
       ELSE UNCHANGED <<started, owed, stray>>
    /\ UNCHANGED <<moves, commit, disk, loaded, flags, foreign, plan, saved, before, outcome, syncFaults>>

\* rollback puts a replaced file back from its backup and removes a created one; where
\* that raises (kept) it goes on with the next.
Restored(f, kept) == IF f \in kept THEN disk[f] ELSE saved[f]

\* Mutant: the debt is recorded once the reload was done, not when it is tried.
DebtAfter(tried) == owed

\* What was tried is owed again.
Debt(tried) ==
    [owed EXCEPT !.reload = owed.reload \/ (ReloadNeeded /\ tried # "install"),
                 !.vector = owed.vector \/ (VectorNeeded /\ tried = "vector")]

\* A command answers with an error: the files of this run are restored, systemd is
\* told once more, vector is started on what is there, and the debts are saved. The
\* recovery's own commands are not checked.
StepFails(kept) ==
    /\ spc \in {"reload", "timers", "vector"} /\ SyncFault
    /\ spc = "reload" => ReloadNeeded
    /\ spc = "timers" => Installed \cap Timer # {}
    /\ spc = "vector" => VectorNeeded
    /\ disk' = [f \in File |-> IF f \in Installed THEN Restored(f, kept) ELSE disk[f]]
    /\ \E ok \in BOOLEAN :
        loaded' = IF ok /\ ReloadNeeded THEN [u \in UnitFile |-> disk'[u]] ELSE loaded
    /\ started' = IF spc = "vector" THEN VectorOn(loaded', disk') ELSE started
    /\ owed' = Debt(spc) /\ stray' = stray \cup kept
    /\ spc' = "idle" /\ outcome' = "failed" /\ plan' = {} /\ saved' = <<>>
    /\ UNCHANGED <<moves, commit, flags, foreign, before>>

\* What is not a Fail passes by the rollback, to main's handler or out of the process.
\* The command it was waiting for may have been carried out, the rollback of a command
\* that failed may have begun, and worker flags may be set without their debt.
Interrupted(back) ==
    /\ spc # "idle" /\ SyncFault
    /\ back = {} \/ spc \in {"reload", "timers", "vector"}
    /\ disk' = [f \in File |-> IF f \in back THEN saved[f] ELSE disk[f]]
    /\ loaded' \in {loaded} \cup IF spc = "reload" THEN {[u \in UnitFile |-> disk[u]]} ELSE {}
    /\ started' \in {started} \cup IF spc = "vector" THEN {VectorOn(loaded, disk)} ELSE {}
    /\ flags' \in {flags} \cup IF spc = "record" THEN {flags \cup (Installed \cap WorkerUnit)} ELSE {}
    /\ stray' = stray \cup Installed \cup IF spc = "vector" THEN OldUnit ELSE {}
    /\ outcome' = "raised"
    /\ spc' = "idle" /\ plan' = {} /\ saved' = <<>>
    /\ UNCHANGED <<moves, commit, owed, foreign, before>>

\* The files that were replaced: a freshly created unit was never running.
Replaced == {f \in Installed : saved[f] # NoFile}

\* The restarts still owed are saved; the check after that may find drift (a wrong
\* mode or owner), which is an exit code and no rollback.
RecordDebts ==
    /\ spc = "record" /\ spc' = "idle"
    /\ owed' = [owed EXCEPT !.units = @ \cup (Replaced \cap App)]
    /\ flags' = flags \cup (Replaced \cap WorkerUnit)
    /\ saved' = <<>> /\ before' = disk
    /\ \/ outcome' = "done" /\ UNCHANGED syncFaults
       \/ outcome' = "unclean" /\ SyncFault
    /\ UNCHANGED <<moves, stray, commit, disk, loaded, started, foreign, plan>>

\* retry_owed: deploy-hook on a clean tree, and the first half of effectuate-restarts
\* on any; what is owed is done, reload first, and forgotten when both worked.
RetryOwed ==
    /\ Coordinated /\ (owed.reload \/ owed.vector)
    /\ loaded' = IF owed.reload THEN [u \in UnitFile |-> disk[u]] ELSE loaded
    /\ \/ /\ IF owed.vector
             THEN /\ started' = VectorOn(loaded', disk)
                  /\ stray' = stray \cup {u \in VectorUnit : loaded'[u] # disk[u]}
             ELSE UNCHANGED <<started, stray>>
          /\ owed' = [owed EXCEPT !.reload = FALSE, !.vector = FALSE]
          /\ UNCHANGED syncFaults
       \/ owed.vector /\ SyncFault /\ UNCHANGED <<started, owed, stray>>
    /\ outcome' = "done"
    /\ UNCHANGED <<moves, commit, disk, flags, foreign, spc, plan, saved, before>>

\* effectuate-restarts, after the retries: one active unit after the other, and the
\* first that fails is kept with the ones behind it.
Effectuate ==
    /\ Coordinated /\ owed.units # {} /\ ~owed.reload /\ ~owed.vector
    /\ \E done \in SUBSET owed.units :
        /\ started' = [f \in Service \cup VectorFile |->
                IF f \in done /\ started[f] # NoFile THEN loaded[f] ELSE started[f]]
        /\ owed' = [owed EXCEPT !.units = @ \ done]
        /\ stray' = stray \cup {u \in done : loaded[u] # disk[u]}
        /\ IF done = owed.units THEN UNCHANGED syncFaults ELSE SyncFault
    /\ outcome' = "done"
    /\ UNCHANGED <<moves, commit, disk, loaded, flags, foreign, spc, plan, saved, before>>

\* settle-debts, called by a release that was verified: every debt of the file is
\* struck out, whatever was restarted; the workers' flags stay.
SettleDebts ==
    /\ spc = "idle"
    /\ owed' = [units |-> {}, reload |-> FALSE, vector |-> FALSE]
    /\ stray' = stray \cup NotInForce
    /\ outcome' = "done"
    /\ UNCHANGED <<moves, commit, disk, loaded, started, flags, foreign, spc, plan, saved, before, syncFaults>>

\* clear-restarts: an operator strikes one unit's restart.
ClearRestarts(u) ==
    /\ spc = "idle" /\ u \in owed.units
    /\ owed' = [owed EXCEPT !.units = @ \ {u}]
    /\ stray' = stray \cup (NotInForce \cap {u})
    /\ outcome' = "done"
    /\ UNCHANGED <<moves, commit, disk, loaded, started, flags, foreign, spc, plan, saved, before, syncFaults>>

\* An installed host, on which one file may be new to the next commit.
InitSync ==
    /\ \E new \in {{}} \cup {{f} : f \in File} :
        /\ disk = [f \in File |-> IF f \in new THEN NoFile ELSE 1]
        /\ loaded = [u \in UnitFile |-> disk[u]]
        /\ started = [f \in Service \cup VectorFile |-> disk[f]]
    /\ commit = [f \in File |-> 1]
    /\ owed = [units |-> {}, reload |-> FALSE, vector |-> FALSE]
    /\ flags = {} /\ foreign = {} /\ stray = {}
    /\ spc = "idle" /\ plan = {} /\ saved = <<>> /\ before = disk
    /\ outcome = "none" /\ moves = 0 /\ syncFaults = 0

NextSync ==
    \/ NewCommit \/ Unexpected \/ Notifier \/ Blocked \/ BeginApply \/ Rejected \/ Validated
    \/ \E f \in File : InstallEntry(f)
    \/ DaemonReload \/ RestartTimers \/ RestartVector
    \/ \E fs \in SUBSET Installed : StepFails(fs) \/ Interrupted(fs)
    \/ RecordDebts \/ RetryOwed \/ Effectuate \/ SettleDebts
    \/ \E u \in App : ClearRestarts(u)
    \/ \E u \in Service : ServiceRestarts(u)

SpecSync == InitSync /\ [][NextSync]_syncVars

-----------------------------------------------------------------------------
\* Types; what is owed are units that run.
TypeOKSync ==
    /\ \A f \in File : commit[f] \in Version \ {NoFile} /\ disk[f] \in Version
    /\ spc \in {"idle", "validate", "install", "reload", "timers", "vector", "record"}
    /\ plan \subseteq File /\ Installed \subseteq File
    /\ owed.units \subseteq App /\ flags \subseteq WorkerUnit
    /\ stray \subseteq File /\ moves \in 0..MaxCommits
    /\ syncFaults \in 0..MaxSyncFaults

\* "A failed daemon-reload or vector restart must still trigger the matching rollback
\* recovery and leave the debt recorded": between two invocations, systemd has loaded
\* every unit file that is installed and vector runs on the installed files, or the
\* debt is on record. It says nothing of a file whose installation was interrupted,
\* whose restoration failed, or whose debt somebody struck out unpaid.
EffectiveOrOwed ==
    spc = "idle" =>
        /\ owed.reload \/ \A u \in UnitFile \ stray : loaded[u] = disk[u]
        /\ owed.vector \/ \A f \in VectorFile \ stray : started[f] \in {disk[f], NoFile}

\* A service that runs on another unit file than the installed one has its restart on
\* record, in sync-pending.json or as a worker's flag, across failed installations,
\* reverted commits and partly failed restarts; with the same files left out, and those
\* of services restarted while a reload was owed.
StaleProcessOwed ==
    spc = "idle" =>
        \A u \in Service \ stray : started[u] \in {disk[u], NoFile} \/ u \in owed.units \cup flags

\* An installation that fails leaves every file as it found it, except those that the
\* rollback could not put back.
FailureRestores == outcome = "failed" => \A f \in File \ stray : disk[f] = before[f]
=============================================================================

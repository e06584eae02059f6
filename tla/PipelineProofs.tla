--------------------------- MODULE PipelineProofs ---------------------------
(***************************************************************************)
(* The parts of the pipeline, for every value of their constants: staging, *)
(* configuration sync, patch storage, the build host, grading, admission,  *)
(* the benchmark, and, with what MeasureProofs shows, replay, repetition   *)
(* and score.                                                              *)
(* A step of the pipeline is a step of one part and a stutter of the       *)
(* others (PipelineStep), so each part has an inductive invariant of its   *)
(* own:                                                                    *)
(*                                                                         *)
(* Staging    a signature was drawn before anything carries it, so a tree  *)
(*            with the signature on record is the tree that was hashed;    *)
(* SyncConfig the files saved so far are the ones to restore, and what     *)
(*            runs was started from the disk or its restart is owed, but   *)
(*            for the files whose debt nobody recorded (stray);            *)
(* Publication  a request knows terms that were in force, and public ones  *)
(*            that revealed the patch, from the moment it checks them;     *)
(* Builder    whoever is between its build and its push holds the lock,    *)
(*            so the local tag is still that of its own image;             *)
(* Grading    the loop's flags are a function of the outputs read;         *)
(* Ingest     a fee that is set later does not reach back (Past), so a     *)
(*            payment that met the terms when it was checked still does    *)
(*            when its row is inserted, and an exempt hotkey stays exempt; *)
(* Bench      a terminal status in the progress file stands, and says of   *)
(*            a candidate what its run and its verdict say (BeaconMeans),  *)
(*            and so does the report (ReportMeans): whatever poll relays   *)
(*            it, and however late, settlement agrees.                     *)
(***************************************************************************)
EXTENDS MCPipeline, MeasureProofs

-----------------------------------------------------------------------------
(* Staged weights (Staging). *)

\* A stat signature was drawn before something carries it.
StatsDrawn ==
  /\ final # None => final.stats <= fresh
  /\ partial # None => partial.stats <= fresh
  /\ record # None => record.stats <= fresh
  /\ statsRead <= fresh

\* What the position in stage_weights says of the record, the tree and the hash.
StageSteps ==
  /\ sstep \in {"clear", "rename"} => record = None
  /\ sstep \in {"stat", "hash", "save"} => final # None /\ (final.whole \/ hurt)
  /\ sstep \in {"hash", "save"} => statsRead # 0
  /\ sstep = "save" => hashed # 0 /\ (final.stats = statsRead => hashed = final.holds)

\* The inductive invariant of a staging.
StagingIInv == TypeOKStaging /\ RecordTrustworthy /\ StatsDrawn /\ StageSteps

\* A tree and a record are something.
LEMMA TreesAreSome == /\ \A t \in Tree : t # None
                      /\ \A r \in [stats : 1..MaxStats, hash : Contents] : r # None
  BY DEF Tree, None

\* Nothing is staged at the start.
LEMMA StagingInit == InitStaging => StagingIInv
  <1> SUFFICES ASSUME InitStaging PROVE StagingIInv
    OBVIOUS
  <1>a. attempt \in 0..(Attempts - 1) /\ statsRead \in 0..MaxStats /\ fresh \in 1..MaxStats
        /\ damages \in 0..MaxDamages /\ stagings \in 0..MaxStagings
    BY StagingAssumption DEF InitStaging
  <1>b. hurt \in BOOLEAN
    BY DEF InitStaging
  <1>1. TypeOKStaging
    BY <1>a, <1>b DEF InitStaging, TypeOKStaging
  <1>2. RecordTrustworthy
    BY DEF InitStaging, RecordTrustworthy
  <1>3. StatsDrawn
    BY DEF InitStaging, StatsDrawn
  <1>4. StageSteps
    BY DEF InitStaging, StageSteps
  <1> QED BY <1>1, <1>2, <1>3, <1>4 DEF StagingIInv

\* Every step of a staging, a crash and damage on the disk included, keeps it.
LEMMA StagingNext == StagingIInv /\ [NextStaging]_stageVars => StagingIInv'
  <1> SUFFICES ASSUME StagingIInv, [NextStaging]_stageVars PROVE StagingIInv'
    OBVIOUS
  <1> USE StagingAssumption, TreesAreSome
      DEF StagingIInv, TypeOKStaging, RecordTrustworthy, StatsDrawn, StageSteps, Becomes, Settle
  <1>u. CASE UNCHANGED stageVars
    BY <1>u DEF stageVars
  <1>1. CASE Stage
    BY <1>1 DEF Stage
  <1>2. CASE Check
    BY <1>2 DEF Check, Valid
  <1>3. CASE DropRecord
    BY <1>3 DEF DropRecord
  <1>4. CASE Download
    BY <1>4 DEF Download, Filled, Tree
  <1>5. CASE DownloadDrops
    BY <1>5 DEF DownloadDrops, Filled, Tree
  <1>6. CASE DownloadFails
    BY <1>6 DEF DownloadFails
  <1>7. CASE Verify
    BY <1>7 DEF Verify, Valid
  <1>8. CASE UnlinkRecord
    BY <1>8 DEF UnlinkRecord
  <1>9. CASE ClearFinal
    BY <1>9 DEF ClearFinal
  <1>10. CASE Rename
    BY <1>10 DEF Rename, Valid
  <1>11. CASE Stat
    BY <1>11 DEF Stat, Recorded, Tree
  <1>12. CASE Hash
    BY <1>12 DEF Hash, Tree
  <1>13. CASE SaveRecord
    BY <1>13 DEF SaveRecord
  <1>14. CASE Damage
    BY <1>14 DEF Damage, Tree
  <1>15. CASE Die
    BY <1>15 DEF Die
  <1> QED BY <1>u, <1>1, <1>2, <1>3, <1>4, <1>5, <1>6, <1>7, <1>8, <1>9, <1>10, <1>11, <1>12,
             <1>13, <1>14, <1>15 DEF NextStaging, StagingStep

\* Only a tree that was whole when it was published is served.
LEMMA WholeServed ==
  StagingIInv /\ [NextStaging]_stageVars =>
    [(sstep # "served" /\ sstep' = "served") => final # None /\ (final.whole \/ hurt)]_stageVars
  <1> SUFFICES ASSUME StagingIInv, NextStaging, sstep # "served", sstep' = "served"
               PROVE  final # None /\ (final.whole \/ hurt)
    BY DEF stageVars
  <1>1. sstep \in {"stat", "save"}
    BY DEF NextStaging, StagingStep, Stage, Check, DropRecord, Download, DownloadDrops,
       DownloadFails,
           Verify, UnlinkRecord, ClearFinal, Rename, Stat, Hash, SaveRecord, Damage, Die,
           Becomes, Settle
  <1> QED BY <1>1 DEF StagingIInv, StageSteps

-----------------------------------------------------------------------------
(* Configuration sync (SyncConfig). *)

\* Whatever can run with an old configuration.
Process == Service \cup VectorFile

\* The kinds of files, and which are which.
LEMMA FileKinds ==
  /\ UnitFile \subseteq File /\ VectorFile \subseteq File /\ Service \subseteq UnitFile
  /\ VectorUnit \subseteq UnitFile /\ VectorUnit \subseteq VectorFile
  /\ Timer \subseteq UnitFile /\ App \subseteq Service
  /\ VectorToml \cap UnitFile = {} /\ File = UnitFile \cup VectorFile
  /\ Service \cap VectorFile = {} /\ VectorFile = VectorUnit \cup VectorToml
  /\ Process = Service \cup VectorFile /\ Process \subseteq File
  BY SyncConfigAssumption DEF UnitFile, VectorFile, File, Service, Process

\* What the variables of the sync hold.
SyncTypes ==
  /\ commit \in [File -> 1..MaxCommits]
  /\ disk \in [File -> Version] /\ before \in [File -> Version]
  /\ loaded \in [UnitFile -> Version] /\ started \in [Process -> Version]
  /\ owed \in [units : SUBSET App, reload : BOOLEAN, vector : BOOLEAN]
  /\ flags \subseteq WorkerUnit
  /\ spc \in {"idle", "validate", "install", "reload", "timers", "vector", "record"}
  /\ plan \subseteq File /\ Installed \subseteq File
  /\ stray \subseteq File /\ moves \in 0..MaxCommits
  /\ syncFaults \in 0..MaxSyncFaults

\* The files of this invocation are saved as they were before it, and the others
\* are as they were.
SavedBefore ==
  /\ \A f \in Installed : saved[f] = before[f]
  /\ \A f \in File \ Installed : spc # "idle" \/ f \notin stray => disk[f] = before[f]
  /\ spc \in {"idle", "validate"} => Installed = {}
  /\ plan \cap Installed = {}
  /\ spc # "idle" => outcome = "none"

\* Which files systemd and vector run on at each step of an invocation: those of
\* before until they are told, those of the disk after.
InForce ==
  /\ \A u \in UnitFile \ stray :
       owed.reload = TRUE
       \/ loaded[u] = IF spc \in {"timers", "vector", "record"} THEN disk[u] ELSE before[u]
  /\ \A f \in VectorFile \ stray :
       owed.vector = TRUE
       \/ started[f] \in {NoFile, IF spc = "record" THEN disk[f] ELSE before[f]}

\* A service was started from what is installed between invocations, or owed.
StartedFrom ==
  \A u \in Service \ stray :
    started[u] \in {NoFile, before[u]} \/ u \in owed.units \cup flags

\* The inductive invariant of the sync.
SyncIInv == SyncTypes /\ SavedBefore /\ InForce /\ StartedFrom

\* Between invocations the disk is what it was, but for strays.
LEMMA DiskBefore ==
  ASSUME SyncIInv
  PROVE  /\ spc = "idle" => Installed = {} /\ \A f \in File \ stray : disk[f] = before[f]
         /\ spc # "idle" => \A f \in File \ Installed : disk[f] = before[f]
  BY DEF SyncIInv, SavedBefore

\* It says that what is installed is in force or owed, and that a failed sync
\* restored what was there.
LEMMA SyncImplies == SyncIInv => TypeOKSync /\ EffectiveOrOwed /\ StaleProcessOwed /\ FailureRestores
  <1> SUFFICES ASSUME SyncIInv PROVE TypeOKSync /\ EffectiveOrOwed /\ StaleProcessOwed /\ FailureRestores
    OBVIOUS
  <1>1. TypeOKSync
    BY SyncConfigAssumption DEF SyncIInv, SyncTypes, TypeOKSync, Version, NoFile
  <1>2. spc = "idle" => \A f \in File \ stray : disk[f] = before[f]
    BY DiskBefore
  <1>3. EffectiveOrOwed
    BY <1>2, FileKinds DEF EffectiveOrOwed, SyncIInv, SyncTypes, InForce
  <1>4. StaleProcessOwed
    BY <1>2, FileKinds DEF StaleProcessOwed, SyncIInv, StartedFrom
  <1>5. FailureRestores
    BY <1>2 DEF FailureRestores, SyncIInv, SavedBefore
  <1> QED BY <1>1, <1>3, <1>4, <1>5

\* A host starts with what is on its disk in force.
LEMMA SyncInit == InitSync => SyncIInv
  <1> SUFFICES ASSUME InitSync PROVE SyncIInv
    OBVIOUS
  <1> PICK new \in {{}} \cup {{f} : f \in File} :
        /\ disk = [f \in File |-> IF f \in new THEN NoFile ELSE 1]
        /\ loaded = [u \in UnitFile |-> disk[u]]
        /\ started = [f \in Service \cup VectorFile |-> disk[f]]
    BY DEF InitSync
  <1>0. 1 \in Version /\ NoFile \in Version /\ 1 \in 1..MaxCommits
    BY SyncConfigAssumption DEF Version, NoFile
  <1>1. disk \in [File -> Version]
    BY <1>0
  <1>2. loaded \in [UnitFile -> Version] /\ started \in [Process -> Version]
    BY <1>1, FileKinds DEF Process
  <1>3. Installed = {}
    BY DEF InitSync, Installed
  <1>4. SyncTypes
    BY <1>0, <1>1, <1>2, <1>3, SyncConfigAssumption DEF InitSync, SyncTypes
  <1>5. SavedBefore
    BY <1>3 DEF SavedBefore, InitSync
  <1>6. InForce
    BY FileKinds DEF InForce, InitSync
  <1>7. StartedFrom
    BY FileKinds DEF StartedFrom, InitSync
  <1> QED BY <1>4, <1>5, <1>6, <1>7 DEF SyncIInv

\* The count of faults keeps its bound.
LEMMA SyncFaultBound == SyncTypes /\ (SyncFault \/ UNCHANGED syncFaults) => syncFaults' \in 0..MaxSyncFaults
  BY SyncConfigAssumption DEF SyncTypes, SyncFault

\* vector is started on what systemd has loaded and what the disk holds.
LEMMA VectorStarted ==
  ASSUME SyncTypes, NEW units \in [UnitFile -> Version], NEW files \in [File -> Version],
         started' = VectorOn(units, files)
  PROVE  /\ started' \in [Process -> Version]
         /\ \A u \in Service : started'[u] = started[u]
         /\ \A f \in VectorFile : started'[f] = IF f \in VectorUnit THEN units[f] ELSE files[f]
  <1>1. \A f \in Process : (IF f \in VectorUnit THEN units[f]
                            ELSE IF f \in VectorToml THEN files[f] ELSE started[f]) \in Version
    BY FileKinds DEF SyncTypes
  <1>2. started' \in [Process -> Version]
    BY <1>1, FileKinds DEF VectorOn
  <1>3. \A f \in Process : started'[f] = IF f \in VectorUnit THEN units[f]
                            ELSE IF f \in VectorToml THEN files[f] ELSE started[f]
    BY FileKinds DEF VectorOn
  <1> QED BY <1>2, <1>3, FileKinds

\* Steps that install nothing and start nothing.
LEMMA SyncQuiet ==
  ASSUME SyncIInv,
         NewCommit \/ Unexpected \/ Notifier \/ Blocked \/ BeginApply \/ Rejected \/ Validated
         \/ RestartTimers \/ UNCHANGED syncVars
  PROVE  SyncIInv'
  <1>b. spc = "idle" => Installed = {} /\ \A f \in File \ stray : disk[f] = before[f]
    BY DiskBefore
  <1>q. /\ UNCHANGED <<disk, loaded, started, owed, flags, stray>>
        /\ before' = before \/ (spc = "idle" /\ spc' = "validate" /\ before' = disk)
        /\ saved' = saved \/ (saved' = <<>> /\ Installed = {})
        /\ plan' \subseteq File
        /\ plan' \subseteq plan \/ spc = "idle"
        /\ commit' \in [File -> 1..MaxCommits] /\ moves' \in 0..MaxCommits
        /\ syncFaults' = syncFaults \/ SyncFault
        /\ spc' # "idle" => outcome' = "none"
        /\ \/ spc' = spc
           \/ spc = "idle" /\ spc' = "validate" /\ before' = disk
           \/ spc = "validate" /\ spc' \in {"idle", "install"}
           \/ spc = "timers" /\ spc' = "vector"
    <2> USE DEF SyncIInv, SyncTypes, SavedBefore
    <2>1. CASE NewCommit
      BY <2>1, SyncConfigAssumption DEF NewCommit
    <2>2. CASE Unexpected \/ Notifier
      <3>1. PICK k \in {"unexpected", "notifier"} : Toggle(k)
        BY <2>2 DEF Unexpected, Notifier
      <3>2. syncFaults' = syncFaults \/ SyncFault
        BY <3>1 DEF Toggle
      <3>3. spc = "idle" /\ UNCHANGED <<moves, stray, commit, disk, loaded, started, owed, flags, spc, plan, saved, before, outcome>>
        BY <3>1 DEF Toggle
      <3> QED BY <3>2, <3>3
    <2>3. CASE Blocked
      BY <2>3 DEF Blocked, Coordinated
    <2>4. CASE BeginApply
      BY <1>b, <2>4 DEF BeginApply, Coordinated, Drift
    <2>5. CASE Rejected
      BY <2>5 DEF Rejected
    <2>6. CASE Validated
      BY <2>6 DEF Validated
    <2>7. CASE RestartTimers
      BY <2>7 DEF RestartTimers
    <2>8. CASE UNCHANGED syncVars
      BY <2>8 DEF syncVars
    <2> QED BY <2>1, <2>2, <2>3, <2>4, <2>5, <2>6, <2>7, <2>8
  <1>a. Installed' = Installed
    BY <1>q DEF Installed
  <1>c. before' \in [File -> Version] /\ \A f \in File \ stray : before'[f] = before[f]
    BY <1>q, <1>b DEF SyncIInv, SyncTypes
  <1>3. syncFaults' \in 0..MaxSyncFaults
    BY <1>q, SyncFaultBound DEF SyncIInv
  <1>4. SyncTypes'
    BY <1>a, <1>c, <1>q, <1>3 DEF SyncIInv, SyncTypes
  <1>6. SavedBefore'
    <2>1. \A f \in File \ Installed' : spc' # "idle" \/ f \notin stray' => disk'[f] = before'[f]
      BY <1>a, <1>c, <1>q DEF SyncIInv, SavedBefore
    <2>2. \A f \in Installed' : saved'[f] = before'[f]
      BY <1>a, <1>b, <1>q DEF SyncIInv, SavedBefore
    <2>3. spc' \in {"idle", "validate"} => Installed' = {}
      BY <1>a, <1>q DEF SyncIInv, SavedBefore
    <2>4. plan' \cap Installed' = {}
      BY <1>a, <1>b, <1>q DEF SyncIInv, SavedBefore
    <2> QED BY <1>q, <2>1, <2>2, <2>3, <2>4 DEF SavedBefore
  <1>7. InForce'
    BY <1>c, <1>q, FileKinds DEF SyncIInv, InForce
  <1>8. StartedFrom'
    BY <1>c, <1>q, FileKinds DEF SyncIInv, StartedFrom
  <1> QED BY <1>4, <1>6, <1>7, <1>8 DEF SyncIInv

\* One file is saved and replaced.
LEMMA SyncInstall == ASSUME SyncIInv, NEW f \in File, InstallEntry(f) PROVE SyncIInv'
  <1>a. /\ spc = "install" /\ spc' \in {"install", "reload"} /\ f \in plan /\ plan' = plan \ {f}
        /\ saved' = [g \in Installed \cup {f} |-> IF g = f THEN disk[f] ELSE saved[g]]
        /\ disk' = [disk EXCEPT ![f] = commit[f]]
        /\ UNCHANGED <<stray, commit, loaded, started, owed, flags, before, outcome, moves, syncFaults>>
    BY DEF InstallEntry, Source
  <1>b. Installed' = Installed \cup {f}
    BY <1>a DEF Installed
  <1>1. SyncTypes'
    <2>1. commit[f] \in Version
      BY SyncConfigAssumption DEF SyncIInv, SyncTypes, Version
    <2>2. disk' \in [File -> Version]
      BY <1>a, <2>1 DEF SyncIInv, SyncTypes
    <2> QED BY <1>a, <1>b, <2>2 DEF SyncIInv, SyncTypes
  <1>2. SavedBefore'
    <2>1. \A g \in Installed' : saved'[g] = before'[g]
      <3> SUFFICES ASSUME NEW g \in Installed' PROVE saved'[g] = before[g]
        BY <1>a
      \* A file is installed once: it left the plan.
      <3>1. f \notin Installed
        BY <1>a DEF SyncIInv, SavedBefore
      <3> QED BY <1>a, <1>b, <3>1 DEF SyncIInv, SavedBefore
    <2>2. \A g \in File \ Installed' : disk'[g] = before'[g]
      BY <1>a, <1>b DEF SyncIInv, SyncTypes, SavedBefore
    <2> QED BY <1>a, <1>b, <2>1, <2>2 DEF SyncIInv, SavedBefore
  <1>3. InForce'
    BY <1>a DEF SyncIInv, InForce
  <1>4. StartedFrom'
    BY <1>a DEF SyncIInv, StartedFrom
  <1> QED BY <1>1, <1>2, <1>3, <1>4 DEF SyncIInv

\* systemd is told of the installed unit files.
LEMMA SyncReload == ASSUME SyncIInv, DaemonReload PROVE SyncIInv'
  <1>a. /\ spc = "reload" /\ spc' = "timers"
        /\ loaded' = IF ReloadNeeded THEN [u \in UnitFile |-> disk[u]] ELSE loaded
        /\ UNCHANGED <<moves, stray, commit, disk, started, owed, flags, plan, saved, before, outcome, syncFaults>>
    BY DEF DaemonReload
  <1>b. Installed' = Installed
    BY <1>a DEF Installed
  <1>1. SyncTypes'
    BY <1>a, <1>b, FileKinds DEF SyncIInv, SyncTypes
  <1>2. SavedBefore'
    BY <1>a, <1>b DEF SyncIInv, SavedBefore
  <1>3. InForce'
    <2>1. CASE ReloadNeeded
      BY <1>a, <2>1 DEF SyncIInv, InForce
    \* No unit file was installed, so the disk holds what it held before.
    <2>2. CASE ~ReloadNeeded
      <3>1. \A u \in UnitFile : disk[u] = before[u]
        BY <1>a, <2>2, FileKinds DEF ReloadNeeded, SyncIInv, SavedBefore
      <3> QED BY <1>a, <2>2, <3>1 DEF SyncIInv, InForce
    <2> QED BY <2>1, <2>2
  <1>4. StartedFrom'
    BY <1>a DEF SyncIInv, StartedFrom
  <1> QED BY <1>1, <1>2, <1>3, <1>4 DEF SyncIInv

\* vector is restarted on the installed files.
LEMMA SyncVector == ASSUME SyncIInv, RestartVector PROVE SyncIInv'
  <1>a. /\ spc = "vector" /\ spc' = "record"
        /\ UNCHANGED <<moves, commit, disk, loaded, flags, plan, saved, before, outcome, syncFaults>>
    BY DEF RestartVector
  <1>b. Installed' = Installed
    BY <1>a DEF Installed
  <1>2. SavedBefore'
    BY <1>a, <1>b DEF SyncIInv, SavedBefore, RestartVector
  <1>3. CASE VectorNeeded
    <2>a. /\ started' = VectorOn(loaded, disk)
          /\ owed' = [owed EXCEPT !.vector = FALSE]
          /\ stray' = stray \cup OldUnit
      BY <1>3 DEF RestartVector
    <2>c. /\ started' \in [Process -> Version]
          /\ \A f \in VectorFile : started'[f] = IF f \in VectorUnit THEN loaded[f] ELSE disk[f]
          /\ \A u \in Service : started'[u] = started[u]
      BY <2>a, VectorStarted DEF SyncIInv, SyncTypes
    <2>d. /\ owed' \in [units : SUBSET App, reload : BOOLEAN, vector : BOOLEAN]
          /\ owed'.units = owed.units /\ owed'.reload = owed.reload
      BY <2>a DEF SyncIInv, SyncTypes
    <2>e. stray' \subseteq File /\ \A f \in VectorFile \ stray' : started'[f] = disk[f]
      BY <2>a, <2>c, FileKinds DEF OldUnit, SyncIInv, SyncTypes
    <2>1. SyncTypes'
      BY <1>a, <1>b, <2>c, <2>d, <2>e DEF SyncIInv, SyncTypes
    <2>3. InForce'
      BY <1>a, <2>a, <2>d, <2>e DEF SyncIInv, InForce
    <2>4. StartedFrom'
      BY <1>a, <2>a, <2>c, <2>d DEF SyncIInv, StartedFrom
    <2> QED BY <1>2, <2>1, <2>3, <2>4 DEF SyncIInv
  <1>4. CASE ~VectorNeeded
    <2>a. UNCHANGED <<started, owed, stray>>
      BY <1>4 DEF RestartVector
    <2>1. \A f \in VectorFile : disk[f] = before[f]
      BY <1>4, <1>a, FileKinds DEF VectorNeeded, SyncIInv, SavedBefore
    <2>2. SyncTypes'
      BY <1>a, <1>b, <2>a DEF SyncIInv, SyncTypes
    <2>3. InForce'
      BY <1>a, <2>a, <2>1 DEF SyncIInv, InForce
    <2>4. StartedFrom'
      BY <1>a, <2>a DEF SyncIInv, StartedFrom
    <2> QED BY <1>2, <2>2, <2>3, <2>4 DEF SyncIInv
  <1> QED BY <1>3, <1>4

\* A step fails: the disk is as it was before but for what could not be restored, and
\* what was tried is owed.
LEMMA SyncFails == ASSUME SyncIInv, NEW kept \in SUBSET Installed, StepFails(kept) PROVE SyncIInv'
  <1>a. /\ spc \in {"reload", "timers", "vector"} /\ SyncFault
        /\ spc = "vector" => VectorNeeded
        /\ disk' = [f \in File |-> IF f \in Installed THEN Restored(f, kept) ELSE disk[f]]
        /\ spc' = "idle" /\ outcome' = "failed" /\ plan' = {} /\ saved' = <<>>
        /\ stray' = stray \cup kept
        /\ UNCHANGED <<moves, commit, flags, before>>
    BY DEF StepFails
  <1>b. Installed' = {} /\ stray' \subseteq File /\ stray \subseteq stray'
    BY <1>a DEF Installed, SyncIInv, SyncTypes
  <1>c. disk' \in [File -> Version] /\ \A f \in File \ stray' : disk'[f] = before[f]
    <2>1. \A f \in File : IF f \in kept THEN disk'[f] = disk[f] ELSE disk'[f] = before[f]
      BY <1>a DEF Restored, SyncIInv, SavedBefore
    <2>2. \A f \in File : disk'[f] \in Version
      BY <2>1 DEF SyncIInv, SyncTypes
    <2> QED BY <1>a, <2>1, <2>2
  <1>d. loaded' = loaded \/ (ReloadNeeded /\ loaded' = [u \in UnitFile |-> disk'[u]])
    <2>1. PICK ok \in BOOLEAN : loaded' = IF ok /\ ReloadNeeded THEN [u \in UnitFile |-> disk'[u]] ELSE loaded
      BY Zenon DEF StepFails
    <2> QED BY <2>1
  <1>e. loaded' \in [UnitFile -> Version]
    BY <1>c, <1>d, FileKinds DEF SyncIInv, SyncTypes
  <1>f. /\ started' \in [Process -> Version]
        /\ spc # "vector" => started' = started
        /\ \A u \in Service : started'[u] = started[u]
    <2>1. CASE spc = "vector"
      <3>1. started' = VectorOn(loaded', disk')
        BY <2>1 DEF StepFails
      <3> QED BY <1>c, <1>e, <2>1, <3>1, VectorStarted DEF SyncIInv
    <2>2. CASE spc # "vector"
      BY <2>2 DEF StepFails, SyncIInv, SyncTypes
    <2> QED BY <2>1, <2>2
  <1>g. owed' = [owed EXCEPT !.reload = owed.reload \/ (ReloadNeeded /\ spc # "install"),
                             !.vector = owed.vector \/ (VectorNeeded /\ spc = "vector")]
    BY DEF StepFails, Debt
  <1>h. /\ owed' \in [units : SUBSET App, reload : BOOLEAN, vector : BOOLEAN]
        /\ owed'.units = owed.units
        /\ owed'.reload = (owed.reload \/ (ReloadNeeded /\ spc # "install"))
        /\ owed'.vector = (owed.vector \/ (VectorNeeded /\ spc = "vector"))
    BY <1>g DEF SyncIInv, SyncTypes
  <1>1. SyncTypes'
    <2>2. syncFaults' \in 0..MaxSyncFaults
      BY <1>a, SyncFaultBound DEF SyncIInv
    <2> QED BY <1>a, <1>b, <1>c, <1>e, <1>f, <1>h, <2>2 DEF SyncIInv, SyncTypes
  <1>2. SavedBefore'
    BY <1>a, <1>b, <1>c DEF SavedBefore
  <1>3. InForce'
    <2>1. ASSUME NEW u \in UnitFile \ stray' PROVE owed'.reload = TRUE \/ loaded'[u] = before[u]
      <3>1. CASE ReloadNeeded
        BY <1>a, <1>h, <3>1
      <3>2. CASE ~ReloadNeeded
        <4>1. disk[u] = before[u]
          BY <1>a, <3>2, FileKinds DEF ReloadNeeded, SyncIInv, SavedBefore
        <4>2. owed.reload = TRUE \/ loaded[u] = before[u]
          BY <1>b, <4>1 DEF SyncIInv, InForce
        <4> QED BY <1>d, <1>h, <3>2, <4>2 DEF SyncIInv, SyncTypes
      <3> QED BY <3>1, <3>2
    <2>2. ASSUME NEW f \in VectorFile \ stray'
          PROVE  owed'.vector = TRUE \/ started'[f] \in {NoFile, before[f]}
      BY <1>a, <1>b, <1>f, <1>h DEF SyncIInv, SyncTypes, InForce
    <2> QED BY <1>a, <2>1, <2>2 DEF InForce
  <1>4. StartedFrom'
    BY <1>a, <1>b, <1>f, <1>h DEF SyncIInv, StartedFrom
  <1> QED BY <1>1, <1>2, <1>3, <1>4 DEF SyncIInv

\* An invocation stops without its rollback: what it installed goes astray, and the
\* other files are as they were.
LEMMA SyncStops == ASSUME SyncIInv, NEW back \in SUBSET Installed, Interrupted(back) PROVE SyncIInv'
  <1>a. /\ spc # "idle" /\ SyncFault
        /\ disk' = [f \in File |-> IF f \in back THEN saved[f] ELSE disk[f]]
        /\ stray' = stray \cup Installed \cup IF spc = "vector" THEN OldUnit ELSE {}
        /\ spc' = "idle" /\ plan' = {} /\ saved' = <<>>
        /\ UNCHANGED <<moves, commit, owed, before>>
    BY DEF Interrupted
  <1>b. Installed' = {} /\ stray' \subseteq File /\ stray \subseteq stray' /\ Installed \subseteq stray'
    BY <1>a, FileKinds DEF Installed, OldUnit, SyncIInv, SyncTypes
  <1>c. /\ disk' \in [File -> Version]
        /\ \A f \in File \ stray' : disk'[f] = before[f] /\ disk[f] = before[f]
    <2>1. \A f \in File : IF f \in back THEN disk'[f] = before[f] ELSE disk'[f] = disk[f]
      BY <1>a DEF SyncIInv, SavedBefore
    <2>2. \A f \in File : disk'[f] \in Version
      BY <2>1 DEF SyncIInv, SyncTypes
    <2>3. \A f \in File \ stray' : disk[f] = before[f]
      BY <1>a, <1>b DEF SyncIInv, SavedBefore
    <2> QED BY <1>a, <1>b, <2>1, <2>2, <2>3
  <1>d. loaded' = loaded \/ (spc = "reload" /\ loaded' = [u \in UnitFile |-> disk[u]])
    BY DEF Interrupted
  <1>e. loaded' \in [UnitFile -> Version]
    BY <1>d, FileKinds DEF SyncIInv, SyncTypes
  <1>f. started' = started \/ (spc = "vector" /\ started' = VectorOn(loaded, disk))
    BY DEF Interrupted
  <1>g. /\ started' \in [Process -> Version]
        /\ \A u \in Service : started'[u] = started[u]
        /\ \/ started' = started
           \/ /\ spc = "vector"
              /\ \A f \in VectorFile : started'[f] = IF f \in VectorUnit THEN loaded[f] ELSE disk[f]
    <2>1. CASE started' = started
      BY <2>1 DEF SyncIInv, SyncTypes
    <2>2. CASE spc = "vector" /\ started' = VectorOn(loaded, disk)
      BY <2>2, VectorStarted DEF SyncIInv, SyncTypes
    <2> QED BY <1>f, <2>1, <2>2
  <1>h. flags \subseteq flags' /\ flags' \subseteq WorkerUnit
    BY DEF Interrupted, SyncIInv, SyncTypes
  <1>1. SyncTypes'
    <2>2. syncFaults' \in 0..MaxSyncFaults
      BY <1>a, SyncFaultBound DEF SyncIInv
    <2> QED BY <1>a, <1>b, <1>c, <1>e, <1>g, <1>h, <2>2 DEF SyncIInv, SyncTypes
  <1>2. SavedBefore'
    BY <1>a, <1>b, <1>c DEF SavedBefore
  <1>3. InForce'
    <2>1. ASSUME NEW u \in UnitFile \ stray' PROVE owed.reload = TRUE \/ loaded'[u] = before[u]
      <3>1. disk[u] = before[u]
        BY <1>c, FileKinds
      <3>2. owed.reload = TRUE \/ loaded[u] = before[u]
        BY <1>b, <3>1 DEF SyncIInv, InForce
      <3> QED BY <1>d, <3>1, <3>2
    <2>2. ASSUME NEW f \in VectorFile \ stray'
          PROVE  owed.vector = TRUE \/ started'[f] \in {NoFile, before[f]}
      <3>1. disk[f] = before[f]
        BY <1>c, FileKinds
      <3>2. owed.vector = TRUE \/ started[f] \in {NoFile, before[f]}
        BY <1>b, <3>1 DEF SyncIInv, InForce
      <3>3. spc = "vector" /\ f \in VectorUnit => loaded[f] = disk[f]
        BY <1>a DEF OldUnit
      <3> QED BY <1>g, <3>1, <3>2, <3>3
    <2> QED BY <1>a, <2>1, <2>2 DEF InForce
  <1>4. StartedFrom'
    BY <1>a, <1>b, <1>g, <1>h DEF SyncIInv, StartedFrom
  <1> QED BY <1>1, <1>2, <1>3, <1>4 DEF SyncIInv

\* The installation is done: what it replaced is owed a restart.
LEMMA SyncRecord == ASSUME SyncIInv, RecordDebts PROVE SyncIInv'
  <1>a. /\ spc = "record" /\ spc' = "idle"
        /\ owed' = [owed EXCEPT !.units = @ \cup (Replaced \cap App)]
        /\ flags' = flags \cup (Replaced \cap WorkerUnit)
        /\ saved' = <<>> /\ before' = disk
        /\ SyncFault \/ UNCHANGED syncFaults
        /\ UNCHANGED <<moves, stray, commit, disk, loaded, started, plan>>
    BY DEF RecordDebts
  <1>b. Installed' = {}
    BY <1>a DEF Installed
  <1>c. /\ owed' \in [units : SUBSET App, reload : BOOLEAN, vector : BOOLEAN]
        /\ owed'.units = owed.units \cup (Replaced \cap App)
        /\ owed'.reload = owed.reload /\ owed'.vector = owed.vector
    BY <1>a DEF SyncIInv, SyncTypes
  <1>1. SyncTypes'
    BY <1>a, <1>b, <1>c, SyncFaultBound DEF SyncIInv, SyncTypes
  <1>2. SavedBefore'
    BY <1>a, <1>b DEF SavedBefore
  <1>3. InForce'
    BY <1>a, <1>c DEF SyncIInv, InForce
  <1>4. StartedFrom'
    <2> SUFFICES ASSUME NEW u \in Service \ stray
                 PROVE  started[u] \in {NoFile, disk[u]} \/ u \in owed'.units \cup flags'
      BY <1>a DEF StartedFrom
    <2>1. started[u] \in {NoFile, before[u]} \/ u \in owed.units \cup flags
      BY DEF SyncIInv, StartedFrom
    <2>2. CASE u \notin Installed
      <3>1. disk[u] = before[u]
        BY <1>a, <2>2, FileKinds DEF SyncIInv, SavedBefore
      <3> QED BY <1>a, <1>c, <2>1, <3>1
    \* A file that was there before is replaced; one that was not has no process.
    <2>3. CASE u \in Installed
      <3>1. saved[u] = before[u]
        BY <2>3 DEF SyncIInv, SavedBefore
      <3>2. before[u] = NoFile \/ u \in Replaced
        BY <2>3, <3>1 DEF Replaced
      <3> QED BY <1>a, <1>c, <2>1, <3>2 DEF Service
    <2> QED BY <2>2, <2>3
  <1> QED BY <1>1, <1>2, <1>3, <1>4 DEF SyncIInv

\* A debt is paid: systemd and vector are on the installed files.
LEMMA SyncRetry == ASSUME SyncIInv, RetryOwed PROVE SyncIInv'
  <1>a. /\ spc = "idle"
        /\ loaded' = IF owed.reload THEN [u \in UnitFile |-> disk[u]] ELSE loaded
        /\ UNCHANGED <<moves, commit, disk, flags, spc, plan, saved, before>>
        /\ outcome' = "done"
    BY DEF RetryOwed, Coordinated
  <1>b. Installed' = Installed
    BY <1>a DEF Installed
  <1>c. \A f \in File \ stray : disk[f] = before[f]
    BY <1>a, DiskBefore
  <1>d. loaded' \in [UnitFile -> Version]
    BY <1>a, FileKinds DEF SyncIInv, SyncTypes
  <1>e. \A u \in UnitFile \ stray : loaded'[u] = before[u]
    BY <1>a, <1>c, FileKinds DEF SyncIInv, InForce
  <1>1. CASE /\ owed.vector
             /\ started' = VectorOn(loaded', disk)
             /\ stray' = stray \cup {u \in VectorUnit : loaded'[u] # disk[u]}
             /\ owed' = [owed EXCEPT !.reload = FALSE, !.vector = FALSE]
             /\ UNCHANGED syncFaults
    <2>0. SyncTypes /\ disk \in [File -> Version]
      BY DEF SyncIInv, SyncTypes
    <2>1. /\ started' \in [Process -> Version]
          /\ \A f \in VectorFile : started'[f] = IF f \in VectorUnit THEN loaded'[f] ELSE disk[f]
          /\ \A u \in Service : started'[u] = started[u]
      BY <1>1, <1>d, <2>0, VectorStarted
    <2>2. owed' \in [units : SUBSET App, reload : BOOLEAN, vector : BOOLEAN] /\ owed'.units = owed.units
      BY <1>1 DEF SyncIInv, SyncTypes
    <2>3. stray \subseteq stray' /\ stray' \subseteq File
      BY <1>1, FileKinds DEF SyncIInv, SyncTypes
    <2>4. \A f \in VectorFile \ stray' : started'[f] = before[f]
      BY <1>1, <1>c, <2>1, <2>3, FileKinds
    <2>5. SyncTypes'
      BY <1>1, <1>a, <1>b, <1>d, <2>1, <2>2, <2>3 DEF SyncIInv, SyncTypes
    <2>6. SavedBefore'
      BY <1>a, <1>b, <2>3 DEF SyncIInv, SavedBefore
    <2>7. InForce'
      BY <1>a, <1>e, <2>3, <2>4 DEF InForce
    <2>8. StartedFrom'
      BY <1>a, <2>1, <2>2, <2>3 DEF SyncIInv, StartedFrom
    <2> QED BY <2>5, <2>6, <2>7, <2>8 DEF SyncIInv
  <1>2. CASE /\ ~owed.vector /\ UNCHANGED <<started, stray, syncFaults>>
             /\ owed' = [owed EXCEPT !.reload = FALSE, !.vector = FALSE]
    <2>2. owed' \in [units : SUBSET App, reload : BOOLEAN, vector : BOOLEAN] /\ owed'.units = owed.units
      BY <1>2 DEF SyncIInv, SyncTypes
    <2>5. SyncTypes'
      BY <1>2, <1>a, <1>b, <1>d, <2>2 DEF SyncIInv, SyncTypes
    <2>6. SavedBefore'
      BY <1>2, <1>a, <1>b DEF SyncIInv, SavedBefore
    <2>7. InForce'
      BY <1>2, <1>a, <1>e DEF SyncIInv, SyncTypes, InForce
    <2>8. StartedFrom'
      BY <1>2, <1>a, <2>2 DEF SyncIInv, StartedFrom
    <2> QED BY <2>5, <2>6, <2>7, <2>8 DEF SyncIInv
  <1>3. CASE owed.vector /\ SyncFault /\ UNCHANGED <<started, owed, stray>>
    <2>1. SyncTypes'
      BY <1>3, <1>a, <1>b, <1>d, SyncFaultBound DEF SyncIInv, SyncTypes
    <2>2. SavedBefore'
      BY <1>3, <1>a, <1>b DEF SyncIInv, SavedBefore
    <2>3. InForce'
      BY <1>3, <1>a, <1>e DEF SyncIInv, InForce
    <2>4. StartedFrom'
      BY <1>3, <1>a DEF SyncIInv, StartedFrom
    <2> QED BY <2>1, <2>2, <2>3, <2>4 DEF SyncIInv
  <1> QED BY <1>1, <1>2, <1>3 DEF RetryOwed

\* Steps between invocations that leave the files and systemd alone: whoever gives up a
\* debt or starts from an old unit goes astray.
LEMMA SyncBetween ==
  ASSUME SyncIInv, spc = "idle",
         UNCHANGED <<commit, disk, loaded, flags, spc, plan, saved, before, moves>>,
         SyncFault \/ UNCHANGED syncFaults,
         started' \in [Process -> Version], \A f \in VectorFile : started'[f] = started[f],
         owed' \in [units : SUBSET App, reload : BOOLEAN, vector : BOOLEAN],
         stray \subseteq stray', stray' \subseteq File,
         \A u \in UnitFile \ stray' : owed'.reload = owed.reload \/ loaded[u] = disk[u],
         \A f \in VectorFile \ stray' : owed'.vector = owed.vector \/ started[f] \in {NoFile, disk[f]},
         \A u \in Service \ stray' :
             started'[u] \in {NoFile, disk[u]} \/ (started'[u] = started[u] /\ (u \in owed.units => u \in owed'.units))
  PROVE  SyncIInv'
  <1>1. Installed' = Installed
    BY DEF Installed
  <1>2. \A f \in File \ stray : disk[f] = before[f]
    BY DiskBefore
  <1>3. SyncTypes'
    BY <1>1, SyncFaultBound DEF SyncIInv, SyncTypes
  <1>4. SavedBefore'
    BY <1>1 DEF SyncIInv, SavedBefore
  <1>5. InForce'
    BY <1>2, FileKinds DEF SyncIInv, InForce
  <1>6. StartedFrom'
    BY <1>2, FileKinds DEF SyncIInv, StartedFrom
  <1> QED BY <1>3, <1>4, <1>5, <1>6 DEF SyncIInv

\* Restarts and debts struck out.
LEMMA SyncRestart ==
  ASSUME SyncIInv,
         \/ Effectuate \/ SettleDebts \/ (\E u \in App : ClearRestarts(u))
         \/ \E u \in Service : ServiceRestarts(u)
  PROVE  SyncIInv'
  <1>t. SyncTypes
    BY DEF SyncIInv
  <1>1. CASE Effectuate
    <2>1. PICK done \in SUBSET owed.units :
            /\ started' = [f \in Service \cup VectorFile |->
                    IF f \in done /\ started[f] # NoFile THEN loaded[f] ELSE started[f]]
            /\ owed' = [owed EXCEPT !.units = @ \ done]
            /\ stray' = stray \cup {u \in done : loaded[u] # disk[u]}
            /\ IF done = owed.units THEN UNCHANGED syncFaults ELSE SyncFault
      BY <1>1 DEF Effectuate
    <2>2. spc = "idle" /\ UNCHANGED <<moves, commit, disk, loaded, flags, spc, plan, saved, before>>
      BY <1>1 DEF Effectuate, Coordinated
    <2>d. done \subseteq App /\ done \subseteq Service /\ done \subseteq UnitFile /\ done \cap VectorFile = {}
      BY <1>t, FileKinds DEF SyncTypes
    <2>4. /\ started' \in [Process -> Version]
          /\ \A f \in VectorFile : started'[f] = started[f]
          /\ \A u \in Service : started'[u] = IF u \in done /\ started[u] # NoFile THEN loaded[u] ELSE started[u]
      BY <1>t, <2>1, <2>d, FileKinds DEF SyncTypes
    <2>5. /\ owed' \in [units : SUBSET App, reload : BOOLEAN, vector : BOOLEAN]
          /\ owed'.units = owed.units \ done /\ owed'.reload = owed.reload /\ owed'.vector = owed.vector
      BY <1>t, <2>1 DEF SyncTypes
    <2>6. stray \subseteq stray' /\ stray' \subseteq File
      BY <1>t, <2>1, <2>d, FileKinds DEF SyncTypes
    <2>7. \A u \in Service \ stray' :
             started'[u] \in {NoFile, disk[u]} \/ (started'[u] = started[u] /\ (u \in owed.units => u \in owed'.units))
      BY <2>1, <2>4, <2>5
    <2>8. SyncFault \/ UNCHANGED syncFaults
      BY <2>1
    <2> QED BY <2>2, <2>4, <2>5, <2>6, <2>7, <2>8, SyncBetween
  <1>2. CASE SettleDebts
    <2>1. /\ spc = "idle"
          /\ owed' = [units |-> {}, reload |-> FALSE, vector |-> FALSE]
          /\ stray' = stray \cup NotInForce
          /\ UNCHANGED <<moves, commit, disk, loaded, started, flags, spc, plan, saved, before, syncFaults>>
      BY <1>2 DEF SettleDebts
    <2>5. owed' \in [units : SUBSET App, reload : BOOLEAN, vector : BOOLEAN]
      <3>1. FALSE \in BOOLEAN /\ {} \in SUBSET App
        OBVIOUS
      <3> QED BY <2>1, <3>1
    <2>6. stray \subseteq stray' /\ stray' \subseteq File
      BY <1>t, <2>1, FileKinds DEF SyncTypes, NotInForce
    <2>7. /\ \A u \in UnitFile \ stray' : loaded[u] = disk[u]
          /\ \A f \in VectorFile \ stray' : started[f] \in {NoFile, disk[f]}
          /\ \A u \in Service \ stray' : started[u] \in {NoFile, disk[u]}
      BY <2>1, FileKinds DEF NotInForce
    <2>8. started' \in [Process -> Version]
      BY <1>t, <2>1 DEF SyncTypes
    <2> QED BY <2>1, <2>5, <2>6, <2>7, <2>8, SyncBetween
  <1>3. ASSUME NEW w \in App, ClearRestarts(w) PROVE SyncIInv'
    <2>1. /\ spc = "idle"
          /\ owed' = [owed EXCEPT !.units = @ \ {w}]
          /\ stray' = stray \cup (NotInForce \cap {w})
          /\ UNCHANGED <<moves, commit, disk, loaded, started, flags, spc, plan, saved, before, syncFaults>>
      BY <1>3 DEF ClearRestarts
    <2>5. /\ owed' \in [units : SUBSET App, reload : BOOLEAN, vector : BOOLEAN]
          /\ owed'.units = owed.units \ {w} /\ owed'.reload = owed.reload /\ owed'.vector = owed.vector
      BY <1>t, <2>1 DEF SyncTypes
    <2>6. stray \subseteq stray' /\ stray' \subseteq File
      BY <1>t, <2>1, FileKinds DEF SyncTypes
    <2>7. \A u \in Service \ stray' :
             started'[u] \in {NoFile, disk[u]} \/ (started'[u] = started[u] /\ (u \in owed.units => u \in owed'.units))
      BY <2>1, <2>5 DEF NotInForce
    <2>8. started' \in [Process -> Version]
      BY <1>t, <2>1 DEF SyncTypes
    <2> QED BY <2>1, <2>5, <2>6, <2>7, <2>8, SyncBetween
  <1>4. ASSUME NEW w \in Service, ServiceRestarts(w) PROVE SyncIInv'
    <2>1. /\ spc = "idle"
          /\ started' = [started EXCEPT ![w] = loaded[w]]
          /\ stray' = IF loaded[w] = disk[w] THEN stray ELSE stray \cup {w}
          /\ UNCHANGED <<moves, commit, disk, loaded, owed, flags, spc, plan, saved, before, syncFaults>>
      BY <1>4 DEF ServiceRestarts
    <2>4. /\ started' \in [Process -> Version]
          /\ \A f \in VectorFile : started'[f] = started[f]
          /\ \A u \in Service : started'[u] = IF u = w THEN loaded[u] ELSE started[u]
      BY <1>t, <2>1, FileKinds DEF SyncTypes
    <2>5. owed' \in [units : SUBSET App, reload : BOOLEAN, vector : BOOLEAN]
      BY <1>t, <2>1 DEF SyncTypes
    <2>6. stray \subseteq stray' /\ stray' \subseteq File
      BY <1>t, <2>1, FileKinds DEF SyncTypes
    <2>7. \A u \in Service \ stray' : started'[u] \in {NoFile, disk[u]} \/ started'[u] = started[u]
      BY <2>1, <2>4
    <2> QED BY <2>1, <2>4, <2>5, <2>6, <2>7, SyncBetween
  <1> QED BY <1>1, <1>2, <1>3, <1>4

\* Every step of the tool keeps the invariant.
LEMMA SyncNext == SyncIInv /\ [NextSync]_syncVars => SyncIInv'
  BY SyncQuiet, SyncInstall, SyncReload, SyncVector, SyncFails, SyncStops, SyncRecord, SyncRetry, SyncRestart
     DEF NextSync

-----------------------------------------------------------------------------
(* Publication of patches (Publication). *)

\* The less of two numbers is one of them and bounds both.
LEMMA LeastOfTwo ==
  ASSUME NEW a \in Nat, NEW b \in Nat
  PROVE  Min({a, b}) \in {a, b} /\ Min({a, b}) <= a /\ Min({a, b}) <= b
  <1>1. {a, b} \subseteq Nat /\ {a, b} # {}
    OBVIOUS
  <1> QED BY <1>1, LeastOfSet

\* What a request has established at each step: terms that were in force, public
\* ones that revealed the patch, and the checksum.
RequestKnows ==
  \A h \in Handler :
    /\ hstate[h].terms \subseteq inForce
    /\ hstate[h].at = "times" => hstate[h].to = "public"
    /\ hstate[h].at \in {"target", "source", "copy"} /\ hstate[h].to = "public" => Revealed(hstate[h].terms)
    /\ hstate[h].at = "copy" => hstate[h].etag = Committed

\* A signature ends before the authorization it was made for.
SignedInTime == \A url \in signed : url.until <= url.auth

\* An authorization that is being answered names a patch.
AuthNames == auth.at # "idle" => auth.patch \in SignedPatch

\* Evaluations lie in the past.
EvaluatedBefore == \A e \in evaluations : e <= now

\* The inductive invariant of the storage.
PubIInv ==
  /\ TypeOKPublication /\ RequestKnows /\ SignedInTime /\ EvaluatedBefore
  /\ policy \subseteq inForce /\ AuthNames
  /\ PublicOnlyRevealed /\ CopiesMatchCommitment

\* Nothing is stored at the start.
LEMMA PubInit == InitPublication => PubIInv
  <1> SUFFICES ASSUME InitPublication PROVE PubIInv
    OBVIOUS
  <1>1. TypeOKPublication
    <2>1. now \in 0..MaxNow /\ policies \in 0..MaxPolicies /\ removals \in 0..MaxRemovals
      BY PublicationAssumption DEF InitPublication
    <2>2. auth \in [at : {"idle", "head", "sign"}, patch : SignedPatch \cup {Absent},
                 until : 0..(MaxNow + AuthTtl), expires : 0..SignFor]
      BY PublicationAssumption DEF InitPublication, NoAuth
    <2>3. hstate \in [Handler -> [at : {"idle", "times", "target", "source", "copy"},
                               to : {"public", "carried"}, terms : SUBSET Delays,
                               etag : SignedPatch \cup {Absent}]]
      BY DEF InitPublication, Quiet
    <2>4. object \in [Key -> SignedPatch \cup {Absent}] /\ policy \in Terms
      BY DEF InitPublication, Terms
    <2>5. signed = {} /\ evaluations = {} /\ inForce = {}
      BY DEF InitPublication
    <2>6. /\ evaluations \subseteq 0..MaxNow /\ inForce \subseteq Delays
          /\ signed \subseteq [patch : SignedPatch, until : 1..(MaxNow + AuthTtl),
                               auth : 1..(MaxNow + AuthTtl)]
          /\ \A url \in signed : now < url.until
      BY <2>5
    <2> QED BY <2>1, <2>2, <2>3, <2>4, <2>6, Zenon DEF TypeOKPublication
  <1>2. RequestKnows
    BY DEF InitPublication, RequestKnows, Quiet
  <1> QED BY <1>1, <1>2 DEF InitPublication, PubIInv, SignedInTime, EvaluatedBefore,
     PublicOnlyRevealed,
        CopiesMatchCommitment, Key, AuthNames, NoAuth

\* What was revealed stays revealed: time goes on, a later round does not move the
\* first evaluation, and terms only join those that were in force.
LEMMA RevealedStays ==
  ASSUME TypeOKPublication, EvaluatedBefore, NEW t, t \subseteq Delays, NEW u, t \subseteq u, Revealed(t),
         now' \in Nat, now' >= now, evaluations' \in {evaluations, evaluations \cup {now}}
  PROVE  evaluations' # {} /\ \E d \in u : now' >= Min(evaluations') + d
  <1>0. now \in Nat /\ evaluations \subseteq Nat
    BY PublicationAssumption DEF TypeOKPublication
  <1>1. PICK d \in t : now >= Min(evaluations) + d
    BY DEF Revealed, EvaluatedAt
  <1>2. evaluations # {} /\ evaluations' # {} /\ evaluations' \subseteq Nat
    BY <1>0 DEF Revealed
  <1>3. Min(evaluations) \in evaluations /\ \A y \in evaluations : Min(evaluations) <= y
    BY <1>0, <1>2, LeastOfSet
  <1>4. Min(evaluations') \in evaluations' /\ \A y \in evaluations' : Min(evaluations') <= y
    BY <1>2, LeastOfSet
  <1>5. Min(evaluations') <= Min(evaluations)
    BY <1>3, <1>4
  <1>6. d \in Nat /\ Min(evaluations) \in Nat /\ Min(evaluations') \in Nat
    BY <1>0, <1>2, <1>3, <1>4, PublicationAssumption
  <1>7. now' >= Min(evaluations') + d
    BY <1>0, <1>1, <1>5, <1>6
  <1> QED BY <1>1, <1>2, <1>7

\* The states of one request.
HandlerState == [at : {"idle", "times", "target", "source", "copy"}, to : {"public", "carried"},
                 terms : SUBSET Delays, etag : SignedPatch \cup {Absent}]

\* What one request knows in a state v of its own.
Knows(v) ==
  /\ v.terms \subseteq inForce
  /\ v.at = "times" => v.to = "public"
  /\ v.at \in {"target", "source", "copy"} /\ v.to = "public" => Revealed(v.terms)
  /\ v.at = "copy" => v.etag = Committed

\* A step of one request that leaves the time, the rounds and the terms alone.
LEMMA PubHandler ==
  ASSUME PubIInv, NEW h \in Handler, NEW v \in HandlerState, Knows(v), hstate' = [hstate EXCEPT ![h] = v],
         UNCHANGED <<now, evaluations, inForce>>
  PROVE  hstate' \in [Handler -> HandlerState] /\ RequestKnows'
  <1>1. hstate \in [Handler -> HandlerState]
    BY DEF PubIInv, TypeOKPublication, HandlerState
  <1>2. hstate' \in [Handler -> HandlerState] /\ \A g \in Handler : hstate'[g] = IF g = h THEN v ELSE hstate[g]
    BY <1>1
  <1>3. ASSUME NEW t PROVE (evaluations' # {} /\ \E d \in t : now' >= Min(evaluations') + d) <=> Revealed(t)
    BY DEF Revealed, EvaluatedAt
  <1>4. \A g \in Handler : Knows(hstate[g])
    BY DEF PubIInv, RequestKnows, Knows
  <1>5. \A g \in Handler : Knows(hstate'[g])
    BY <1>2, <1>4
  <1>6. RequestKnows'
    BY <1>3, <1>5 DEF RequestKnows, Knows, Revealed, EvaluatedAt
  <1> QED BY <1>2, <1>6

\* A request that has ended knows nothing.
LEMMA QuietKnows == Quiet \in HandlerState /\ Knows(Quiet)
  BY DEF Quiet, HandlerState, Knows

\* Nothing a request reads changes: what it knows and what is public stand.
LEMMA PubStands ==
  ASSUME PubIInv, now' \in Nat, now' >= now, evaluations' \in {evaluations, evaluations \cup {now}},
         inForce \subseteq inForce', hstate' = hstate, object'["public"] = object["public"]
  PROVE  RequestKnows' /\ PublicOnlyRevealed'
  <1>1. RequestKnows'
    <2> SUFFICES ASSUME NEW h \in Handler
                 PROVE  /\ hstate[h].terms \subseteq inForce'
                        /\ hstate[h].at = "times" => hstate[h].to = "public"
                        /\ hstate[h].at \in {"target", "source", "copy"} /\ hstate[h].to = "public" =>
                              evaluations' # {} /\ \E d \in hstate[h].terms : now' >= Min(evaluations') + d
                        /\ hstate[h].at = "copy" => hstate[h].etag = Committed
      BY DEF RequestKnows, Revealed, EvaluatedAt
    <2>1. hstate[h].terms \subseteq Delays
      BY DEF PubIInv, TypeOKPublication
    <2>2. Revealed(hstate[h].terms) =>
             evaluations' # {} /\ \E d \in hstate[h].terms : now' >= Min(evaluations') + d
      BY <2>1, RevealedStays DEF PubIInv
    <2> QED BY <2>2 DEF PubIInv, RequestKnows
  <1>2. PublicOnlyRevealed'
    <2> SUFFICES ASSUME object["public"] # Absent
                 PROVE  evaluations' # {} /\ \E d \in inForce' : now' >= Min(evaluations') + d
      BY DEF PublicOnlyRevealed, Revealed, EvaluatedAt
    <2>1. inForce \subseteq Delays /\ Revealed(inForce)
      BY DEF PubIInv, TypeOKPublication, PublicOnlyRevealed
    <2> QED BY <2>1, RevealedStays DEF PubIInv
  <1> QED BY <1>1, <1>2

\* Time passes, a round evaluates the patch, or the campaign's terms change.
LEMMA PubClock == ASSUME PubIInv, Pass \/ Evaluate \/ SetPatchVisibility PROVE PubIInv'
  <1>0. now \in Nat /\ MaxNow \in Nat /\ now <= MaxNow
    BY PublicationAssumption DEF PubIInv, TypeOKPublication
  <1>1. CASE Pass
    <2>1. now' = now + 1 /\ now' \in 0..MaxNow /\ now' \in Nat /\ now' >= now
      BY <1>0, <1>1 DEF Pass
    <2>2. /\ signed' = {url \in signed : now' < url.until}
          /\ UNCHANGED <<object, evaluations, policy, inForce, auth, hstate, policies, removals>>
      BY <1>1 DEF Pass
    <2>3. signed' \subseteq signed /\ \A url \in signed' : now' < url.until
      BY <2>2
    <2>4. TypeOKPublication'
      BY <2>1, <2>2, <2>3 DEF PubIInv, TypeOKPublication
    <2>5. RequestKnows' /\ PublicOnlyRevealed'
      BY <2>1, <2>2, PubStands
    <2>6. EvaluatedBefore'
      BY <1>0, <2>1, <2>2 DEF PubIInv, TypeOKPublication, EvaluatedBefore
    <2>7. SignedInTime' /\ CopiesMatchCommitment' /\ policy' \subseteq inForce' /\ AuthNames'
      BY <2>2, <2>3 DEF PubIInv, SignedInTime, CopiesMatchCommitment, AuthNames
    <2> QED BY <2>4, <2>5, <2>6, <2>7 DEF PubIInv
  <1>2. CASE Evaluate
    <2>1. /\ evaluations' = evaluations \cup {now}
          /\ UNCHANGED <<now, object, policy, inForce, auth, signed, hstate, policies, removals>>
      BY <1>2 DEF Evaluate
    <2>2. TypeOKPublication'
      BY <1>0, <2>1 DEF PubIInv, TypeOKPublication
    <2>3. RequestKnows' /\ PublicOnlyRevealed'
      BY <1>0, <2>1, PubStands
    <2>4. EvaluatedBefore'
      BY <1>0, <2>1 DEF PubIInv, EvaluatedBefore
    <2>5. SignedInTime' /\ CopiesMatchCommitment' /\ policy' \subseteq inForce' /\ AuthNames'
      BY <2>1 DEF PubIInv, SignedInTime, CopiesMatchCommitment, AuthNames
    <2> QED BY <2>2, <2>3, <2>4, <2>5 DEF PubIInv
  <1>3. CASE SetPatchVisibility
    <2>1. PICK p \in Terms : policy' = p /\ inForce' = inForce \cup p
      BY <1>3 DEF SetPatchVisibility
    <2>2. /\ policies < MaxPolicies /\ policies' = policies + 1
          /\ UNCHANGED <<now, object, evaluations, auth, signed, hstate, removals>>
      BY <1>3 DEF SetPatchVisibility
    <2>3. p \subseteq Delays
      BY DEF Terms
    <2>4. policies' \in 0..MaxPolicies
      BY <2>2, PublicationAssumption DEF PubIInv, TypeOKPublication
    <2>5. TypeOKPublication'
      BY <2>1, <2>2, <2>3, <2>4 DEF PubIInv, TypeOKPublication
    <2>6. RequestKnows' /\ PublicOnlyRevealed'
      BY <1>0, <2>1, <2>2, PubStands
    <2>7. EvaluatedBefore' /\ SignedInTime' /\ CopiesMatchCommitment' /\ policy' \subseteq inForce' /\ AuthNames'
      BY <2>1, <2>2 DEF PubIInv, EvaluatedBefore, SignedInTime, CopiesMatchCommitment, AuthNames
    <2> QED BY <2>5, <2>6, <2>7 DEF PubIInv
  <1> QED BY <1>1, <1>2, <1>3

\* The signed upload: authorized, used in time or late, once or again.
LEMMA PubUpload ==
  ASSUME PubIInv,
         \/ \E p \in SignedPatch, until \in 1..(MaxNow + AuthTtl) : VerifyUpload(p, until)
         \/ HeadUpload \/ SignUpload \/ RemovePrivate \/ \E url \in signed : Put(url)
  PROVE  PubIInv'
  <1>0. now \in Nat /\ MaxNow \in Nat /\ now <= MaxNow /\ AuthTtl \in Nat /\ SignFor \in Nat
    BY PublicationAssumption DEF PubIInv, TypeOKPublication
  <1>1. ASSUME NEW p \in SignedPatch, NEW until \in 1..(MaxNow + AuthTtl), VerifyUpload(p, until)
        PROVE  PubIInv'
    <2>1. /\ 0 < until - now
          /\ auth' = [at |-> "head", patch |-> p, until |-> until, expires |-> Min({until - now, SignFor})]
          /\ UNCHANGED <<now, object, evaluations, policy, inForce, signed, hstate, policies, removals>>
      BY <1>1 DEF VerifyUpload, Authorized
    <2>2. until - now \in Nat
      BY <1>0, <2>1
    <2>3. Min({until - now, SignFor}) \in 0..SignFor
      BY <1>0, <2>2, LeastOfTwo
    <2>4. until \in 0..(MaxNow + AuthTtl)
      OBVIOUS
    <2>5. TypeOKPublication'
      BY <2>1, <2>3, <2>4 DEF PubIInv, TypeOKPublication
    <2>6. RequestKnows' /\ PublicOnlyRevealed'
      BY <1>0, <2>1, PubStands
    <2>7. EvaluatedBefore' /\ SignedInTime' /\ CopiesMatchCommitment' /\ policy' \subseteq inForce' /\ AuthNames'
      BY <2>1 DEF PubIInv, EvaluatedBefore, SignedInTime, CopiesMatchCommitment, AuthNames, NoAuth
    <2> QED BY <2>5, <2>6, <2>7 DEF PubIInv
  <1>2. CASE HeadUpload
    <2>1. /\ auth.at = "head"
          /\ auth' = [auth EXCEPT !.at = "sign"] \/ auth' = NoAuth
          /\ UNCHANGED <<now, object, evaluations, policy, inForce, signed, hstate, policies, removals>>
      BY <1>2 DEF HeadUpload
    <2>2. auth' \in [at : {"idle", "head", "sign"}, patch : SignedPatch \cup {Absent},
                 until : 0..(MaxNow + AuthTtl), expires : 0..SignFor]
      BY <1>0, <2>1 DEF PubIInv, TypeOKPublication, NoAuth
    <2>3. AuthNames'
      <3>1. CASE auth' = NoAuth
        BY <3>1 DEF AuthNames, NoAuth
      <3>2. CASE auth' = [auth EXCEPT !.at = "sign"]
        <4>1. auth'.patch = auth.patch /\ auth.patch \in SignedPatch
          BY <2>1, <3>2 DEF PubIInv, TypeOKPublication, AuthNames
        <4> QED BY <4>1 DEF AuthNames
      <3> QED BY <2>1, <3>1, <3>2
    <2>5. TypeOKPublication'
      BY <2>1, <2>2 DEF PubIInv, TypeOKPublication
    <2>6. RequestKnows' /\ PublicOnlyRevealed'
      BY <1>0, <2>1, PubStands
    <2>7. EvaluatedBefore' /\ SignedInTime' /\ CopiesMatchCommitment' /\ policy' \subseteq inForce'
      BY <2>1 DEF PubIInv, EvaluatedBefore, SignedInTime, CopiesMatchCommitment
    <2> QED BY <2>3, <2>5, <2>6, <2>7 DEF PubIInv
  <1>3. CASE SignUpload
    <2>1. /\ auth.at = "sign"
          /\ signed' = IF SignedLife > 0
                       THEN signed \cup {[patch |-> auth.patch, until |-> now + SignedLife,
                                          auth |-> auth.until]}
                       ELSE signed
          /\ auth' = NoAuth
          /\ UNCHANGED <<now, object, evaluations, policy, inForce, hstate, policies, removals>>
      BY <1>3 DEF SignUpload
    <2>2. auth.until \in 0..(MaxNow + AuthTtl) /\ auth.expires \in 0..SignFor /\ auth.patch \in SignedPatch
      BY <2>1 DEF PubIInv, TypeOKPublication, AuthNames
    <2>3. SignedLife > 0 => /\ SignedLife \in Nat /\ SignedLife <= auth.until - now
                            /\ auth.until > now
      <3>1. CASE auth.until > now
        <4>1. auth.until - now \in Nat /\ auth.expires \in Nat
          BY <1>0, <2>2, <3>1
        <4>2. Min({auth.expires, auth.until - now}) \in {auth.expires, auth.until - now}
              /\ Min({auth.expires, auth.until - now}) <= auth.until - now
          BY <4>1, LeastOfTwo
        <4> QED BY <3>1, <4>1, <4>2 DEF SignedLife
      <3>2. CASE ~(auth.until > now)
        BY <3>2 DEF SignedLife
      <3> QED BY <3>1, <3>2
    <2> DEFINE new == [patch |-> auth.patch, until |-> now + SignedLife, auth |-> auth.until]
    <2>4. SignedLife > 0 =>
            /\ new \in [patch : SignedPatch, until : 1..(MaxNow + AuthTtl), auth : 1..(MaxNow + AuthTtl)]
            /\ now < new.until /\ new.until <= new.auth
      BY <1>0, <2>2, <2>3
    <2>5. signed' = signed \/ (SignedLife > 0 /\ signed' = signed \cup {new})
      BY <2>1
    <2> HIDE DEF new
    <2>6. auth' \in [at : {"idle", "head", "sign"}, patch : SignedPatch \cup {Absent},
                 until : 0..(MaxNow + AuthTtl), expires : 0..SignFor]
      BY <1>0, <2>1 DEF NoAuth
    <2>7. /\ signed' \subseteq [patch : SignedPatch, until : 1..(MaxNow + AuthTtl), auth : 1..(MaxNow + AuthTtl)]
          /\ \A url \in signed' : now < url.until /\ url.until <= url.auth
      BY <2>4, <2>5 DEF PubIInv, TypeOKPublication, SignedInTime
    <2>8. TypeOKPublication'
      BY <2>1, <2>6, <2>7 DEF PubIInv, TypeOKPublication
    <2>9. RequestKnows' /\ PublicOnlyRevealed'
      BY <1>0, <2>1, PubStands
    <2>10. EvaluatedBefore' /\ SignedInTime' /\ CopiesMatchCommitment' /\ policy' \subseteq inForce' /\ AuthNames'
      BY <2>1, <2>7 DEF PubIInv, EvaluatedBefore, SignedInTime, CopiesMatchCommitment, AuthNames,
         NoAuth
    <2> QED BY <2>1, <2>8, <2>9, <2>10 DEF PubIInv, NoAuth, AuthNames
  <1>4. CASE RemovePrivate \/ \E url \in signed : Put(url)
    <2>1. PICK x \in SignedPatch \cup {Absent} : object' = [object EXCEPT !["private"] = x]
      BY <1>4 DEF RemovePrivate, Put, PubIInv, TypeOKPublication
    <2>2. /\ removals' \in 0..MaxRemovals
          /\ UNCHANGED <<now, evaluations, policy, inForce, auth, signed, hstate, policies>>
      BY <1>4, PublicationAssumption DEF RemovePrivate, Put, PubIInv, TypeOKPublication
    <2>3. /\ object' \in [Key -> SignedPatch \cup {Absent}]
          /\ object'["public"] = object["public"] /\ object'["carried"] = object["carried"]
      BY <2>1 DEF PubIInv, TypeOKPublication, Key
    <2>5. TypeOKPublication'
      BY <2>2, <2>3 DEF PubIInv, TypeOKPublication
    <2>6. RequestKnows' /\ PublicOnlyRevealed'
      BY <1>0, <2>2, <2>3, PubStands
    <2>7. EvaluatedBefore' /\ SignedInTime' /\ CopiesMatchCommitment' /\ policy' \subseteq inForce' /\ AuthNames'
      BY <2>2, <2>3 DEF PubIInv, EvaluatedBefore, SignedInTime, CopiesMatchCommitment, AuthNames,
         NoAuth
    <2> QED BY <2>5, <2>6, <2>7 DEF PubIInv
  <1> QED BY <1>1, <1>2, <1>3, <1>4

\* A request that looks at the storage, or copies.
LEMMA PubRequest ==
  ASSUME PubIInv, NEW h \in Handler,
         \/ AskPatch(h) \/ ReadTimes(h) \/ Carry(h) \/ HeadTarget(h)
         \/ HeadSource(h) \/ CopyObject(h) \/ StorageFails(h)
  PROVE  PubIInv'
  <1>0. hstate \in [Handler -> HandlerState] /\ hstate[h] \in HandlerState /\ Knows(hstate[h])
    BY DEF PubIInv, TypeOKPublication, HandlerState, RequestKnows, Knows
  <1>1. /\ UNCHANGED <<now, evaluations, policy, inForce, auth, signed, policies, removals>>
        /\ object' = object \/ CopyObject(h)
    BY DEF AskPatch, ReadTimes, Carry, HeadTarget, HeadSource, CopyObject, StorageFails
  <1>2. \E v \in HandlerState : Knows(v) /\ hstate' = [hstate EXCEPT ![h] = v]
    <2>1. CASE AskPatch(h)
      <3> DEFINE v == [Quiet EXCEPT !.at = "times", !.terms = policy]
      <3>1. policy \subseteq Delays /\ policy \subseteq inForce
        BY DEF PubIInv, TypeOKPublication, Terms
      <3>2. v \in HandlerState /\ Knows(v)
        BY <3>1 DEF Quiet, HandlerState, Knows
      <3>3. hstate' = [hstate EXCEPT ![h] = v]
        BY <2>1 DEF AskPatch
      <3> QED BY <3>2, <3>3
    <2>2. CASE ReadTimes(h)
      <3> DEFINE v == IF Revealed(hstate[h].terms) THEN [hstate[h] EXCEPT !.at = "target"] ELSE Quiet
      <3>1. v \in HandlerState /\ Knows(v)
        <4>1. CASE Revealed(hstate[h].terms)
          <5> DEFINE w == [hstate[h] EXCEPT !.at = "target"]
          <5>1. w \in HandlerState /\ w.terms = hstate[h].terms /\ w.at = "target"
            BY <1>0 DEF HandlerState
          <5>2. Knows(w)
            BY <1>0, <4>1, <5>1 DEF Knows
          <5> QED BY <4>1, <5>1, <5>2
        <4>2. CASE ~Revealed(hstate[h].terms)
          BY <4>2, QuietKnows
        <4> QED BY <4>1, <4>2
      <3>2. hstate' = [hstate EXCEPT ![h] = v]
        BY <2>2, <1>0 DEF ReadTimes
      <3> QED BY <3>1, <3>2
    <2>3. CASE Carry(h)
      <3> DEFINE v == [Quiet EXCEPT !.at = "target", !.to = "carried"]
      <3>1. v \in HandlerState /\ Knows(v)
        BY DEF Quiet, HandlerState, Knows
      <3>2. hstate' = [hstate EXCEPT ![h] = v]
        BY <2>3 DEF Carry
      <3> QED BY <3>1, <3>2
    <2>4. CASE HeadTarget(h)
      <3> DEFINE w == [hstate[h] EXCEPT !.at = "source"]
      <3>1. hstate[h].at = "target"
        BY <2>4 DEF HeadTarget
      <3>2. w \in HandlerState /\ w.terms = hstate[h].terms /\ w.at = "source" /\ w.to = hstate[h].to
        BY <1>0 DEF HandlerState
      <3>3. Knows(w)
        BY <1>0, <3>1, <3>2 DEF Knows
      <3>4. hstate' = [hstate EXCEPT ![h] = w] \/ hstate' = [hstate EXCEPT ![h] = Quiet]
        BY <2>4, <1>0 DEF HeadTarget
      <3> QED BY <3>2, <3>3, <3>4, QuietKnows
    <2>5. CASE HeadSource(h)
      <3> DEFINE w == [hstate[h] EXCEPT !.at = "copy", !.etag = object["private"]]
      <3>1. hstate[h].at = "source"
        BY <2>5 DEF HeadSource
      <3>2. CASE SourceFits
        <4>1. object["private"] = Committed
          BY <3>2 DEF SourceFits
        <4>2. w \in HandlerState /\ w.terms = hstate[h].terms /\ w.at = "copy" /\ w.to = hstate[h].to
              /\ w.etag = Committed
          BY <1>0, <4>1, PublicationAssumption DEF HandlerState
        <4>3. Knows(w)
          BY <1>0, <3>1, <4>2 DEF Knows
        <4>4. hstate' = [hstate EXCEPT ![h] = w]
          BY <2>5, <1>0, <3>2 DEF HeadSource
        <4> QED BY <4>2, <4>3, <4>4
      <3>3. CASE ~SourceFits
        <4>1. hstate' = [hstate EXCEPT ![h] = Quiet]
          BY <2>5, <1>0, <3>3 DEF HeadSource
        <4> QED BY <4>1, QuietKnows
      <3> QED BY <3>2, <3>3
    <2>6. CASE CopyObject(h) \/ StorageFails(h)
      BY <2>6, QuietKnows DEF CopyObject, StorageFails
    <2> QED BY <2>1, <2>2, <2>3, <2>4, <2>5, <2>6
  <1>3. hstate' \in [Handler -> HandlerState] /\ RequestKnows'
    BY <1>1, <1>2, PubHandler
  <1>4. /\ object' \in [Key -> SignedPatch \cup {Absent}]
        /\ CopiesMatchCommitment'
        /\ object'["public"] # Absent => Revealed(inForce)
    <2>1. CASE object' = object
      BY <2>1 DEF PubIInv, TypeOKPublication, CopiesMatchCommitment, PublicOnlyRevealed
    <2>2. CASE CopyObject(h)
      <3>1. hstate[h].at = "copy" /\ hstate[h].etag = Committed /\ hstate[h].to \in {"public", "carried"}
        BY <1>0, <2>2 DEF CopyObject, Knows, HandlerState
      <3>2. object' = object \/ object' = [object EXCEPT ![hstate[h].to] = Committed]
        BY <2>2, <3>1 DEF CopyObject, PubIInv, TypeOKPublication
      <3>3. \A k \in Key : object'[k] = object[k] \/ (k = hstate[h].to /\ object'[k] = Committed)
        BY <3>2 DEF PubIInv, TypeOKPublication
      <3>4. object' \in [Key -> SignedPatch \cup {Absent}]
        BY <3>2, PublicationAssumption DEF PubIInv, TypeOKPublication
      <3>5. CopiesMatchCommitment'
        BY <3>3 DEF PubIInv, CopiesMatchCommitment, Key
      <3>6. ASSUME object'["public"] # Absent PROVE Revealed(inForce)
        <4>1. CASE object'["public"] = object["public"]
          BY <3>6, <4>1 DEF PubIInv, PublicOnlyRevealed
        \* The request reached the copy because its terms revealed the patch.
        <4>2. CASE hstate[h].to = "public"
          <5>1. Revealed(hstate[h].terms) /\ hstate[h].terms \subseteq inForce
            BY <1>0, <3>1, <4>2 DEF Knows
          <5> QED BY <5>1 DEF Revealed
        <4> QED BY <3>3, <4>1, <4>2 DEF Key
      <3> QED BY <3>4, <3>5, <3>6
    <2> QED BY <1>1, <2>1, <2>2
  <1>5. PublicOnlyRevealed'
    BY <1>1, <1>4 DEF PublicOnlyRevealed, Revealed, EvaluatedAt
  <1>6. TypeOKPublication'
    BY <1>1, <1>3, <1>4 DEF PubIInv, TypeOKPublication, HandlerState
  <1>7. EvaluatedBefore' /\ SignedInTime' /\ policy' \subseteq inForce' /\ AuthNames'
    BY <1>1 DEF PubIInv, EvaluatedBefore, SignedInTime, AuthNames
  <1> QED BY <1>3, <1>4, <1>5, <1>6, <1>7 DEF PubIInv

\* Every step of the storage keeps the invariant.
LEMMA PubNext == PubIInv /\ [NextPublication]_pubVars => PubIInv'
  <1>1. ASSUME PubIInv, UNCHANGED pubVars PROVE PubIInv'
    <2>1. RequestKnows' /\ PublicOnlyRevealed'
      BY <1>1 DEF pubVars, PubIInv, RequestKnows, PublicOnlyRevealed, Revealed, EvaluatedAt
    <2>2. TypeOKPublication'
      BY <1>1 DEF pubVars, PubIInv, TypeOKPublication
    <2> QED BY <1>1, <2>1, <2>2 DEF pubVars, PubIInv, SignedInTime, EvaluatedBefore,
       CopiesMatchCommitment, AuthNames
  <1> QED BY <1>1, PubClock, PubUpload, PubRequest DEF NextPublication

\* What a step may do to the private object and to what is revealed.
LEMMA PubSteps ==
  ASSUME PubIInv, [NextPublication]_pubVars
  PROVE  /\ object'["private"] # object["private"] /\ object'["private"] # Absent =>
              /\ object["private"] = Absent
              /\ \E url \in signed : url.patch = object'["private"] /\ now < url.auth
         /\ policy' = policy /\ Revealed(policy) => Revealed(policy)'
  <1>1. ASSUME object'["private"] # object["private"], object'["private"] # Absent
        PROVE  /\ object["private"] = Absent
               /\ \E url \in signed : url.patch = object'["private"] /\ now < url.auth
    <2>0. object \in [Key -> SignedPatch \cup {Absent}] /\ "private" \in Key
      BY DEF PubIInv, TypeOKPublication, Key
    <2>1. CASE \E url \in signed : Put(url)
      <3>1. PICK url \in signed : Put(url)
        BY <2>1
      <3>2. now < url.until /\ object["private"] = Absent /\ object'["private"] = url.patch
        BY <2>0, <3>1 DEF Put
      <3>3. url.until <= url.auth /\ url.until \in Nat /\ url.auth \in Nat /\ now \in Nat
        BY PublicationAssumption DEF PubIInv, SignedInTime, TypeOKPublication
      <3> QED BY <3>2, <3>3
    <2>2. CASE \E h \in Handler : CopyObject(h)
      <3>1. PICK h \in Handler : CopyObject(h)
        BY <2>2
      <3>2. hstate[h].to \in {"public", "carried"}
        BY DEF PubIInv, TypeOKPublication
      <3>3. object'["private"] = object["private"]
        BY <2>0, <3>1, <3>2 DEF CopyObject
      <3> QED BY <1>1, <3>3
    <2>3. CASE RemovePrivate
      BY <1>1, <2>0, <2>3 DEF RemovePrivate
    <2>4. CASE object' = object
      BY <1>1, <2>4
    <2>5. \/ \E url \in signed : Put(url)
          \/ \E h \in Handler : CopyObject(h)
          \/ RemovePrivate
          \/ object' = object
      BY DEF NextPublication, pubVars, Pass, HeadUpload, SignUpload, Evaluate, SetPatchVisibility,
             VerifyUpload, AskPatch, ReadTimes, Carry, HeadTarget, HeadSource, StorageFails
    <2> QED BY <2>1, <2>2, <2>3, <2>4, <2>5
  <1>2. ASSUME policy' = policy, Revealed(policy) PROVE Revealed(policy)'
    <2>1. now' \in Nat /\ now' >= now /\ evaluations' \in {evaluations, evaluations \cup {now}}
      <3>1. now \in Nat
        BY PublicationAssumption DEF PubIInv, TypeOKPublication
      <3>2. now' = now \/ now' = now + 1
        BY DEF NextPublication, pubVars, Pass, HeadUpload, SignUpload, Evaluate,
           SetPatchVisibility,
             VerifyUpload, AskPatch, ReadTimes, Carry, HeadTarget, HeadSource, StorageFails,
             RemovePrivate, Put, CopyObject
      <3>3. evaluations' = evaluations \/ evaluations' = evaluations \cup {now}
        BY DEF NextPublication, pubVars, Pass, HeadUpload, SignUpload, Evaluate,
           SetPatchVisibility,
             VerifyUpload, AskPatch, ReadTimes, Carry, HeadTarget, HeadSource, StorageFails,
             RemovePrivate, Put, CopyObject
      <3> QED BY <3>1, <3>2, <3>3
    <2>2. policy \subseteq Delays
      BY DEF PubIInv, TypeOKPublication, Terms
    <2>3. evaluations' # {} /\ \E d \in policy : now' >= Min(evaluations') + d
      BY <1>2, <2>1, <2>2, RevealedStays DEF PubIInv
    <2> QED BY <1>2, <2>3 DEF Revealed, EvaluatedAt
  <1> QED BY <1>1, <1>2

-----------------------------------------------------------------------------
(* Hermetic builds (Builder). *)

\* What the variables of the build host hold.
BuildTypes ==
  /\ lockHolder \in Builders \cup {Cleaner, Nobody}
  /\ bstep \in [Builders -> {"idle", "waiting", "prepare", "build", "push", "resolve", "transfer", "evict"}]
  /\ job \in [Builders -> Jobs \cup {NoJob}]
  /\ \A b \in Builders : bstep[b] # "idle" => job[b] \in Jobs
  /\ cstep \in {"idle", "retain", "remove"} /\ active \subseteq BuildCampaign
  /\ local \in [Tag -> Images \cup {NoImage}] /\ registry \subseteq Images
  /\ retained \in [BuildCampaign -> Images \cup {NoImage}]
  /\ engineImage \in [BuildCampaign -> Images \cup {NoImage}]
  /\ ccache \in [BuildCampaign -> SUBSET (Tag \X {EngineOf[c] : c \in BuildCampaign})]

\* The steps of a build that hold the lock.
Holding == {"prepare", "build", "push", "resolve", "transfer"}

\* One process at a time is between taking the lock and giving it back.
LockGuards ==
  /\ \A b \in Builders : bstep[b] \in Holding <=> lockHolder = b
  /\ cstep # "idle" <=> lockHolder = Cleaner

\* From the build to the digest the tag names the builder's own image.
TagIsOwn ==
  \A b \in Builders :
    /\ bstep[b] \in {"push", "resolve"} => local[job[b].patch] = Own(job[b])
    /\ bstep[b] = "resolve" => Own(job[b]) \in registry

\* A transferred snapshot of the compiler cache holds baseline entries of its own
\* engine only.
SnapshotsTrusted == \A s \in snapshots : \A e \in s.entries : e = <<EmptyPatch, s.engine>>

\* The loaded campaigns pin an image, and once retention was reconciled an image of
\* theirs that is here has its retention tag.
PinsRetained ==
  /\ \A c \in active : engineImage[c] # NoImage
  /\ cstep = "remove" => \A c \in active : engineImage[c] \in LocalImages => retained[c] = engineImage[c]

\* The inductive invariant of the build host.
BuildIInv ==
  /\ BuildTypes /\ LockGuards /\ TagIsOwn /\ PublishedIsOwn
  /\ CacheTrusted /\ SnapshotsTrusted /\ PinsRetained

\* What a job names, and the image that is its own.
LEMMA JobFacts ==
  /\ \A j \in Jobs : j.patch \in Tag /\ j.campaign \in BuildCampaign /\ Own(j) \in Images
  /\ \A j \in Jobs : j.kind = "baseline" => j.patch = EmptyPatch
  BY DEF Jobs, Tag, Own, Images

\* A host on which nothing was built.
LEMMA BuildInit == InitBuilder => BuildIInv
  <1> SUFFICES ASSUME InitBuilder PROVE BuildIInv
    OBVIOUS
  <1>1. BuildTypes
    BY DEF InitBuilder, BuildTypes
  <1>2. LockGuards
    BY BuilderAssumption DEF InitBuilder, LockGuards, Holding
  <1>3. TagIsOwn /\ PublishedIsOwn /\ CacheTrusted /\ SnapshotsTrusted /\ PinsRetained
    BY DEF InitBuilder, TagIsOwn, PublishedIsOwn, CacheTrusted, SnapshotsTrusted, PinsRetained
  <1> QED BY <1>1, <1>2, <1>3 DEF BuildIInv

\* Whoever changes what the tags name holds the lock, or finds it free.
LEMMA OthersWait ==
  ASSUME BuildIInv, NEW b \in Builders
  PROVE  /\ bstep[b] \in Holding => /\ lockHolder = b /\ cstep = "idle"
                                 /\ \A x \in Builders \ {b} : bstep[x] \notin Holding
         /\ StorageLockFree => cstep = "idle" /\ \A x \in Builders : bstep[x] \notin Holding
         /\ lockHolder = Cleaner => \A x \in Builders : bstep[x] \notin Holding
  BY BuilderAssumption DEF BuildIInv, BuildTypes, LockGuards, StorageLockFree

\* Steps that move only the lock and where a builder is.
LEMMA BuildMoves ==
  ASSUME BuildIInv, NEW b \in Builders,
         StartBuild(b) \/ AcquireLock(b) \/ PrepareBuild(b) \/ BuildEnds(b)
  PROVE  BuildIInv'
  <1>0. UNCHANGED <<local, retained, registry, published, ccache, snapshots, engineImage, cstep, active>>
    BY DEF StartBuild, AcquireLock, PrepareBuild, BuildEnds
  <1>t. bstep \in [Builders -> {"idle", "waiting", "prepare", "build", "push", "resolve", "transfer", "evict"}]
        /\ job \in [Builders -> Jobs \cup {NoJob}]
    BY DEF BuildIInv, BuildTypes
  <1>1. /\ bstep' \in [Builders -> {"idle", "waiting", "prepare", "build", "push", "resolve", "transfer", "evict"}]
        /\ job' \in [Builders -> Jobs \cup {NoJob}]
        /\ \A x \in Builders \ {b} : bstep'[x] = bstep[x] /\ job'[x] = job[x]
        /\ bstep'[b] # "idle" => job'[b] \in Jobs
        /\ bstep'[b] \notin {"push", "resolve"}
    <2>1. CASE StartBuild(b)
      <3>1. PICK j \in Jobs : job' = [job EXCEPT ![b] = j]
        BY <2>1 DEF StartBuild
      <3> QED BY <1>t, <2>1, <3>1 DEF StartBuild, Step
    <2>2. CASE AcquireLock(b)
      BY <1>t, <2>2 DEF AcquireLock, Step, BuildIInv, BuildTypes
    <2>3. CASE PrepareBuild(b)
      BY <1>t, <2>3 DEF PrepareBuild, Step, BuildIInv, BuildTypes
    <2>4. CASE BuildEnds(b)
      BY <1>t, <2>4 DEF BuildEnds
    <2> QED BY <2>1, <2>2, <2>3, <2>4
  <1>2. LockGuards' /\ lockHolder' \in Builders \cup {Cleaner, Nobody}
    <2> USE DEF BuildIInv, LockGuards, BuildTypes, Holding
    <2>1. CASE StartBuild(b)
      BY <1>t, <2>1, BuilderAssumption DEF StartBuild, Step
    <2>2. CASE AcquireLock(b)
      BY <1>t, <2>2, BuilderAssumption DEF AcquireLock, Step, StorageLockFree
    <2>3. CASE PrepareBuild(b)
      BY <1>t, <2>3, BuilderAssumption DEF PrepareBuild, Step
    <2>4. CASE BuildEnds(b)
      BY <1>t, <2>4, BuilderAssumption DEF BuildEnds
    <2> QED BY <2>1, <2>2, <2>3, <2>4
  <1>3. BuildTypes'
    <2>1. \A x \in Builders : bstep'[x] # "idle" => job'[x] \in Jobs
      BY <1>1 DEF BuildIInv, BuildTypes
    <2> QED BY <1>0, <1>1, <1>2, <2>1 DEF BuildIInv, BuildTypes
  <1>4. TagIsOwn'
    BY <1>0, <1>1 DEF BuildIInv, TagIsOwn, Own
  <1>5. PublishedIsOwn' /\ CacheTrusted' /\ SnapshotsTrusted' /\ PinsRetained'
    BY <1>0 DEF BuildIInv, PublishedIsOwn, CacheTrusted, SnapshotsTrusted, PinsRetained,
       LocalImages
  <1> QED BY <1>2, <1>3, <1>4, <1>5 DEF BuildIInv

\* docker build: the tag and the cache.
LEMMA BuildDocker == ASSUME BuildIInv, NEW b \in Builders, DockerBuild(b) PROVE BuildIInv'
  <1> DEFINE j == job[b]
  <1>0. /\ bstep[b] = "build" /\ bstep' = [bstep EXCEPT ![b] = "push"]
        /\ local' = [local EXCEPT ![j.patch] = Own(j)]
        /\ ccache' = [ccache EXCEPT ![j.campaign] =
              IF CacheWritable(j) THEN @ \cup {<<j.patch, EngineOf[j.campaign]>>} ELSE @]
        /\ UNCHANGED <<lockHolder, job, retained, registry, published, snapshots, engineImage, cstep,
                       active>>
    BY DEF DockerBuild, Step
  <1>1. j \in Jobs /\ j.patch \in Tag /\ j.campaign \in BuildCampaign /\ Own(j) \in Images
    BY <1>0, JobFacts DEF BuildIInv, BuildTypes
  <1>2. cstep = "idle" /\ \A x \in Builders \ {b} : bstep[x] \notin Holding
    BY <1>0, OthersWait DEF Holding
  <1>3. BuildTypes'
    <2>1. bstep' \in [Builders -> {"idle", "waiting", "prepare", "build", "push", "resolve", "transfer", "evict"}]
          /\ \A x \in Builders : bstep'[x] # "idle" => job'[x] \in Jobs
      BY <1>0, <1>1 DEF BuildIInv, BuildTypes
    <2>2. local' \in [Tag -> Images \cup {NoImage}]
      BY <1>0, <1>1 DEF BuildIInv, BuildTypes
    <2>3. ccache' \in [BuildCampaign -> SUBSET (Tag \X {EngineOf[c] : c \in BuildCampaign})]
      BY <1>0, <1>1 DEF BuildIInv, BuildTypes
    <2> QED BY <1>0, <2>1, <2>2, <2>3 DEF BuildIInv, BuildTypes
  <1>4. LockGuards'
    BY <1>0 DEF BuildIInv, BuildTypes, LockGuards, Holding
  <1>5. TagIsOwn'
    <2>1. local'[j.patch] = Own(j)
      BY <1>0, <1>1 DEF BuildIInv, BuildTypes
    <2>2. \A x \in Builders : bstep'[x] \in {"push", "resolve"} => x = b /\ bstep'[x] = "push"
      BY <1>0, <1>2 DEF BuildIInv, BuildTypes, Holding
    <2> QED BY <1>0, <2>1, <2>2 DEF TagIsOwn, Own
  <1>6. CacheTrusted'
    <2> SUFFICES ASSUME NEW c \in BuildCampaign, NEW e \in ccache'[c] PROVE e = <<EmptyPatch, EngineOf[c]>>
      BY DEF CacheTrusted
    <2>1. e \in ccache[c] \/ (c = j.campaign /\ CacheWritable(j) /\ e = <<j.patch, EngineOf[j.campaign]>>)
      BY <1>0, <1>1 DEF BuildIInv, BuildTypes
    <2>2. CacheWritable(j) => j.patch = EmptyPatch
      BY <1>1, JobFacts DEF CacheWritable
    <2> QED BY <2>1, <2>2 DEF BuildIInv, CacheTrusted
  <1>7. PublishedIsOwn' /\ SnapshotsTrusted'
    BY <1>0 DEF BuildIInv, PublishedIsOwn, SnapshotsTrusted
  <1>8. PinsRetained'
    BY <1>0, <1>2 DEF BuildIInv, PinsRetained
  <1> QED BY <1>3, <1>4, <1>5, <1>6, <1>7, <1>8 DEF BuildIInv

\* docker push sends the builder's own image.
LEMMA BuildPush == ASSUME BuildIInv, NEW b \in Builders, Push(b) PROVE BuildIInv'
  <1>0. /\ bstep[b] = "push" /\ bstep' = [bstep EXCEPT ![b] = "resolve"]
        /\ registry' = registry \cup {local[job[b].patch]}
        /\ UNCHANGED <<lockHolder, job, local, retained, published, ccache, snapshots, engineImage,
                       cstep, active>>
    BY DEF Push, Step
  <1>1. local[job[b].patch] = Own(job[b]) /\ Own(job[b]) \in Images
    BY <1>0, JobFacts DEF BuildIInv, BuildTypes, TagIsOwn
  <1>3. BuildTypes'
    BY <1>0, <1>1 DEF BuildIInv, BuildTypes
  <1>4. LockGuards'
    BY <1>0 DEF BuildIInv, BuildTypes, LockGuards, Holding
  <1>5. TagIsOwn'
    BY <1>0, <1>1 DEF BuildIInv, BuildTypes, TagIsOwn, Own
  <1>6. PublishedIsOwn' /\ CacheTrusted' /\ SnapshotsTrusted' /\ PinsRetained'
    BY <1>0 DEF BuildIInv, PublishedIsOwn, CacheTrusted, SnapshotsTrusted, PinsRetained,
       LocalImages
  <1> QED BY <1>3, <1>4, <1>5, <1>6 DEF BuildIInv

\* The digest that is stored is the builder's own image.
LEMMA BuildResolve == ASSUME BuildIInv, NEW b \in Builders, Resolve(b) PROVE BuildIInv'
  <1>0. /\ bstep[b] = "resolve"
        /\ bstep' = [bstep EXCEPT ![b] = IF job[b].kind = "miner" THEN "evict" ELSE "idle"]
        /\ published' = published \/ published' = published \cup {[job |-> job[b], image |-> local[job[b].patch]]}
        /\ job' = IF job[b].kind = "miner" THEN job ELSE [job EXCEPT ![b] = NoJob]
        /\ lockHolder' = Nobody
        /\ UNCHANGED <<local, retained, registry, ccache, snapshots, engineImage, cstep, active>>
    BY DEF Resolve, Step
  <1>1. local[job[b].patch] = Own(job[b]) /\ Own(job[b]) \in registry
    BY <1>0 DEF BuildIInv, TagIsOwn
  <1>2. lockHolder = b /\ cstep = "idle" /\ \A x \in Builders \ {b} : bstep[x] \notin Holding
    BY <1>0, OthersWait DEF Holding
  <1>3. /\ bstep' \in [Builders -> {"idle", "waiting", "prepare", "build", "push", "resolve", "transfer", "evict"}]
        /\ job' \in [Builders -> Jobs \cup {NoJob}]
        /\ \A x \in Builders \ {b} : bstep'[x] = bstep[x] /\ job'[x] = job[x]
        /\ bstep'[b] \in {"idle", "evict"} /\ (bstep'[b] # "idle" => job'[b] = job[b])
    BY <1>0 DEF BuildIInv, BuildTypes
  <1>4. BuildTypes'
    <2>1. \A x \in Builders : bstep'[x] # "idle" => job'[x] \in Jobs
      BY <1>0, <1>3 DEF BuildIInv, BuildTypes
    <2> QED BY <1>0, <1>3, <2>1 DEF BuildIInv, BuildTypes
  <1>5. LockGuards'
    BY <1>0, <1>2, <1>3, BuilderAssumption DEF LockGuards, Holding
  <1>6. TagIsOwn'
    BY <1>2, <1>3 DEF TagIsOwn, Holding
  <1>7. PublishedIsOwn'
    <2> SUFFICES ASSUME NEW r \in published' PROVE r.image = Own(r.job) /\ r.image \in registry
      BY <1>0 DEF PublishedIsOwn, Own
    <2>1. CASE r \in published
      BY <2>1 DEF BuildIInv, PublishedIsOwn
    <2>2. CASE r = [job |-> job[b], image |-> local[job[b].patch]]
      BY <1>1, <2>2
    <2> QED BY <1>0, <2>1, <2>2
  <1>8. CacheTrusted' /\ SnapshotsTrusted' /\ PinsRetained'
    BY <1>0 DEF BuildIInv, CacheTrusted, SnapshotsTrusted, PinsRetained, LocalImages
  <1> QED BY <1>4, <1>5, <1>6, <1>7, <1>8 DEF BuildIInv

\* An eviction takes a tag away only while nobody builds or cleans up.
LEMMA BuildEvict == ASSUME BuildIInv, NEW b \in Builders, Evict(b) PROVE BuildIInv'
  <1>0. /\ bstep[b] = "evict" /\ bstep' = [bstep EXCEPT ![b] = "idle"]
        /\ job' = [job EXCEPT ![b] = NoJob]
        /\ local' = local \/ (StorageLockFree /\ local' = [local EXCEPT ![job[b].patch] = NoImage])
        /\ UNCHANGED <<lockHolder, retained, registry, published, ccache, snapshots, engineImage, cstep, active>>
    BY DEF Evict, Step
  <1>1. /\ bstep' \in [Builders -> {"idle", "waiting", "prepare", "build", "push", "resolve", "transfer", "evict"}]
        /\ job' \in [Builders -> Jobs \cup {NoJob}]
        /\ \A x \in Builders \ {b} : bstep'[x] = bstep[x] /\ job'[x] = job[x]
        /\ bstep'[b] = "idle"
    BY <1>0 DEF BuildIInv, BuildTypes
  <1>2. local' \in [Tag -> Images \cup {NoImage}]
    BY <1>0, JobFacts DEF BuildIInv, BuildTypes
  <1>3. BuildTypes'
    <2>1. \A x \in Builders : bstep'[x] # "idle" => job'[x] \in Jobs
      BY <1>1 DEF BuildIInv, BuildTypes
    <2> QED BY <1>0, <1>1, <1>2, <2>1 DEF BuildIInv, BuildTypes
  <1>4. LockGuards'
    BY <1>0, <1>1 DEF BuildIInv, BuildTypes, LockGuards, Holding
  <1>5. TagIsOwn'
    <2>1. CASE local' = local
      BY <1>0, <1>1, <2>1 DEF BuildIInv, TagIsOwn, Own
    <2>2. CASE StorageLockFree
      <3>1. \A x \in Builders : bstep'[x] \notin {"push", "resolve"}
        BY <1>1, <2>2, OthersWait DEF Holding
      <3> QED BY <3>1 DEF TagIsOwn
    <2> QED BY <1>0, <2>1, <2>2
  <1>6. PinsRetained'
    <2>1. CASE local' = local
      BY <1>0, <2>1 DEF BuildIInv, PinsRetained, LocalImages
    <2>2. CASE StorageLockFree
      <3>1. cstep = "idle"
        BY <2>2, OthersWait
      <3> QED BY <1>0, <3>1 DEF BuildIInv, PinsRetained
    <2> QED BY <1>0, <2>1, <2>2
  <1>7. PublishedIsOwn' /\ CacheTrusted' /\ SnapshotsTrusted'
    BY <1>0 DEF BuildIInv, PublishedIsOwn, CacheTrusted, SnapshotsTrusted
  <1> QED BY <1>3, <1>4, <1>5, <1>6, <1>7 DEF BuildIInv

\* A backup copies what is trusted, and a restore goes into a cache of its engine.
LEMMA BuildTransfer == ASSUME BuildIInv, NEW b \in Builders, Transfer(b) PROVE BuildIInv'
  <1> DEFINE c == job[b].campaign
  <1>0. /\ bstep[b] = "transfer" /\ bstep' = [bstep EXCEPT ![b] = "idle"]
        /\ lockHolder' = Nobody /\ job' = [job EXCEPT ![b] = NoJob]
        /\ \/ /\ snapshots' = snapshots \/ snapshots' = snapshots \cup {[engine |-> EngineOf[c], entries |-> ccache[c]]}
              /\ ccache' = ccache
           \/ /\ \/ \E s \in snapshots : SnapshotFits(s, c) /\ ccache' = [ccache EXCEPT ![c] = @ \cup s.entries]
                 \/ ccache' = ccache
              /\ snapshots' = snapshots
        /\ UNCHANGED <<local, retained, registry, published, engineImage, cstep, active>>
    BY DEF Transfer, Step
  <1>1. c \in BuildCampaign
    BY <1>0, JobFacts DEF BuildIInv, BuildTypes
  <1>2. lockHolder = b /\ cstep = "idle" /\ \A x \in Builders \ {b} : bstep[x] \notin Holding
    BY <1>0, OthersWait DEF Holding
  <1>3. /\ bstep' \in [Builders -> {"idle", "waiting", "prepare", "build", "push", "resolve", "transfer", "evict"}]
        /\ job' \in [Builders -> Jobs \cup {NoJob}]
        /\ \A x \in Builders \ {b} : bstep'[x] = bstep[x] /\ job'[x] = job[x]
        /\ bstep'[b] = "idle"
    BY <1>0 DEF BuildIInv, BuildTypes
  <1>4. ccache' \in [BuildCampaign -> SUBSET (Tag \X {EngineOf[x] : x \in BuildCampaign})]
        /\ CacheTrusted' /\ SnapshotsTrusted'
    <2>0. ccache \in [BuildCampaign -> SUBSET (Tag \X {EngineOf[x] : x \in BuildCampaign})]
          /\ CacheTrusted /\ SnapshotsTrusted
      BY DEF BuildIInv, BuildTypes
    <2>1. CASE snapshots' = snapshots /\ ccache' = ccache
      BY <2>0, <2>1 DEF CacheTrusted, SnapshotsTrusted
    <2>2. CASE /\ snapshots' = snapshots \cup {[engine |-> EngineOf[c], entries |-> ccache[c]]}
               /\ ccache' = ccache
      BY <1>1, <2>0, <2>2 DEF CacheTrusted, SnapshotsTrusted
    <2>3. ASSUME NEW s \in snapshots, SnapshotFits(s, c), ccache' = [ccache EXCEPT ![c] = @ \cup s.entries],
                 snapshots' = snapshots
          PROVE  ccache' \in [BuildCampaign -> SUBSET (Tag \X {EngineOf[x] : x \in BuildCampaign})]
                 /\ CacheTrusted' /\ SnapshotsTrusted'
      <3>1. \A e \in s.entries : e = <<EmptyPatch, EngineOf[c]>>
        BY <2>0, <2>3 DEF SnapshotsTrusted, SnapshotFits
      <3>2. s.entries \subseteq Tag \X {EngineOf[x] : x \in BuildCampaign}
        BY <1>1, <3>1 DEF Tag
      <3>3. \A x \in BuildCampaign : ccache'[x] = ccache[x] \/ (x = c /\ ccache'[x] = ccache[x] \cup s.entries)
        BY <2>0, <2>3
      <3>4. CacheTrusted'
        BY <2>0, <3>1, <3>3 DEF CacheTrusted
      <3>5. ccache' \in [BuildCampaign -> SUBSET (Tag \X {EngineOf[x] : x \in BuildCampaign})]
        BY <1>1, <2>0, <2>3, <3>2
      <3> QED BY <2>0, <2>3, <3>4, <3>5 DEF SnapshotsTrusted
    <2> QED BY <1>0, <2>1, <2>2, <2>3
  <1>5. BuildTypes'
    <2>1. \A x \in Builders : bstep'[x] # "idle" => job'[x] \in Jobs
      BY <1>3 DEF BuildIInv, BuildTypes
    <2> QED BY <1>0, <1>3, <1>4, <2>1 DEF BuildIInv, BuildTypes
  <1>6. LockGuards'
    BY <1>0, <1>2, <1>3, BuilderAssumption DEF LockGuards, Holding
  <1>7. TagIsOwn'
    BY <1>2, <1>3 DEF TagIsOwn, Holding
  <1>8. PublishedIsOwn' /\ PinsRetained'
    BY <1>0 DEF BuildIInv, PublishedIsOwn, PinsRetained, LocalImages
  <1> QED BY <1>4, <1>5, <1>6, <1>7, <1>8 DEF BuildIInv

\* Campaigns are loaded and dropped, and the cleanup timer takes the lock, reconciles
\* retention and removes.
LEMMA BuildCleanup ==
  ASSUME BuildIInv, (\E c \in BuildCampaign : OpenCampaign(c)) \/ CleanupBegins \/ Retain \/ CleanupFails
                    \/ RemoveCandidates
  PROVE  BuildIInv'
  <1>0. UNCHANGED <<bstep, job, registry, published, ccache, snapshots>>
    BY DEF OpenCampaign, CleanupBegins, Retain, CleanupFails, RemoveCandidates
  <1>1. PublishedIsOwn' /\ CacheTrusted' /\ SnapshotsTrusted'
    BY <1>0 DEF BuildIInv, PublishedIsOwn, CacheTrusted, SnapshotsTrusted
  <1>2. CASE \E c \in BuildCampaign : OpenCampaign(c)
    <2>1. PICK c \in BuildCampaign, i \in registry :
            engineImage[c] = NoImage /\ engineImage' = [engineImage EXCEPT ![c] = i]
      BY <1>2 DEF OpenCampaign
    <2>2. UNCHANGED <<lockHolder, local, retained, cstep, active>>
      BY <1>2 DEF OpenCampaign
    <2>3. i \in Images /\ engineImage' \in [BuildCampaign -> Images \cup {NoImage}]
      BY <2>1 DEF BuildIInv, BuildTypes
    <2>4. BuildTypes'
      BY <1>0, <2>2, <2>3 DEF BuildIInv, BuildTypes
    <2>5. LockGuards' /\ TagIsOwn'
      BY <1>0, <2>2 DEF BuildIInv, LockGuards, TagIsOwn
    <2>6. \A x \in active : engineImage'[x] = engineImage[x]
      BY <2>1 DEF BuildIInv, BuildTypes, PinsRetained
    <2>7. PinsRetained'
      BY <2>2, <2>6 DEF BuildIInv, PinsRetained, LocalImages
    <2> QED BY <1>1, <2>4, <2>5, <2>7 DEF BuildIInv
  <1>3. CASE CleanupBegins
    <2>1. /\ StorageLockFree /\ lockHolder' = Cleaner /\ cstep' = "retain"
          /\ active' = {c \in BuildCampaign : engineImage[c] # NoImage}
          /\ UNCHANGED <<local, retained, engineImage>>
      BY <1>3 DEF CleanupBegins
    <2>2. \A x \in Builders : bstep[x] \notin Holding
      BY <2>1, OthersWait
    <2>3. BuildTypes'
      BY <1>0, <2>1 DEF BuildIInv, BuildTypes
    <2>4. LockGuards'
      BY <1>0, <2>1, <2>2, BuilderAssumption DEF LockGuards
    <2>5. TagIsOwn'
      BY <1>0, <2>1 DEF BuildIInv, TagIsOwn, Own
    <2>6. PinsRetained'
      BY <2>1 DEF PinsRetained
    <2> QED BY <1>1, <2>3, <2>4, <2>5, <2>6 DEF BuildIInv
  <1>4. CASE Retain
    <2>1. /\ cstep = "retain" /\ cstep' = "remove" /\ retained' = Retention
          /\ UNCHANGED <<lockHolder, local, engineImage, active>>
      BY <1>4 DEF Retain
    <2>2. \A c \in BuildCampaign : Retention[c] = NoImage \/ Retention[c] = retained[c]
                                   \/ (Retention[c] = engineImage[c] /\ engineImage[c] \in LocalImages)
      BY DEF Retention
    <2>3. Retention \in [BuildCampaign -> Images \cup {NoImage}]
      <3>1. \A c \in BuildCampaign : Retention[c] \in Images \cup {NoImage}
        BY <2>2 DEF BuildIInv, BuildTypes
      <3> QED BY <3>1 DEF Retention
    <2>4. BuildTypes'
      BY <1>0, <2>1, <2>3 DEF BuildIInv, BuildTypes
    <2>5. LockGuards'
      BY <1>0, <2>1 DEF BuildIInv, LockGuards
    <2>6. TagIsOwn'
      BY <1>0, <2>1 DEF BuildIInv, TagIsOwn, Own
    \* No image gets a tag that had none.
    <2>7. LocalImages' \subseteq LocalImages \cup {NoImage}
      BY <2>1, <2>2 DEF LocalImages
    <2>8. ASSUME NEW c \in active, engineImage[c] \in LocalImages' PROVE Retention[c] = engineImage[c]
      <3>1. engineImage[c] \in LocalImages /\ c \in BuildCampaign
        BY <2>7, <2>8 DEF BuildIInv, BuildTypes, PinsRetained
      <3> QED BY <3>1 DEF Retention
    <2>9. PinsRetained'
      BY <2>1, <2>8 DEF BuildIInv, PinsRetained
    <2> QED BY <1>1, <2>4, <2>5, <2>6, <2>9 DEF BuildIInv
  <1>5. CASE CleanupFails \/ RemoveCandidates
    <2>1. /\ cstep # "idle" /\ cstep' = "idle" /\ lockHolder' = Nobody /\ active' = {}
          /\ UNCHANGED <<retained, engineImage>>
      BY <1>5 DEF CleanupFails, RemoveCandidates
    <2>2. local' \in [Tag -> Images \cup {NoImage}]
      BY <1>5 DEF CleanupFails, RemoveCandidates, BuildIInv, BuildTypes
    <2>3. \A x \in Builders : bstep[x] \notin Holding
      BY <2>1, BuilderAssumption DEF BuildIInv, LockGuards
    <2>4. BuildTypes'
      BY <1>0, <2>1, <2>2 DEF BuildIInv, BuildTypes
    <2>5. LockGuards'
      BY <1>0, <2>1, <2>3, BuilderAssumption DEF LockGuards
    <2>6. TagIsOwn'
      BY <1>0, <2>3 DEF TagIsOwn, Holding
    <2>7. PinsRetained'
      BY <2>1 DEF PinsRetained
    <2> QED BY <1>1, <2>4, <2>5, <2>6, <2>7 DEF BuildIInv
  <1> QED BY <1>2, <1>3, <1>4, <1>5

\* Every step on the build host keeps the invariant.
LEMMA BuildNext == BuildIInv /\ [NextBuilder]_buildVars => BuildIInv'
  <1>1. ASSUME BuildIInv, UNCHANGED buildVars PROVE BuildIInv'
    BY <1>1 DEF buildVars, BuildIInv, BuildTypes, LockGuards, TagIsOwn, PublishedIsOwn,
       CacheTrusted,
                SnapshotsTrusted, PinsRetained, LocalImages, Own
  <1> QED BY <1>1, BuildMoves, BuildDocker, BuildPush, BuildResolve, BuildEvict, BuildTransfer,
             BuildCleanup DEF NextBuilder, BuilderStep, CleanerStep

\* A cleanup keeps what the campaigns it loaded pin.
LEMMA BuildKeeps ==
  ASSUME BuildIInv, [NextBuilder]_buildVars, lockHolder = Cleaner, NEW c \in active,
         engineImage[c] \in LocalImages
  PROVE  engineImage[c] \in LocalImages'
  <1>0. ~StorageLockFree /\ \A x \in Builders : bstep[x] \notin Holding
    BY BuilderAssumption DEF BuildIInv, LockGuards, StorageLockFree
  <1>1. CASE Retain
    <2>1. c \in BuildCampaign
      BY DEF BuildIInv, BuildTypes
    <2>2. retained'[c] = engineImage[c]
      BY <1>1, <2>1 DEF Retain, Retention
    <2> QED BY <2>1, <2>2 DEF LocalImages
  <1>2. CASE RemoveCandidates
    <2>1. retained'[c] = engineImage[c] /\ c \in BuildCampaign
      BY <1>2 DEF RemoveCandidates, BuildIInv, BuildTypes, PinsRetained
    <2> QED BY <2>1 DEF LocalImages
  <1>3. CASE UNCHANGED <<local, retained>>
    BY <1>3 DEF LocalImages
  <1>4. Retain \/ RemoveCandidates \/ UNCHANGED <<local, retained>>
    <2>1. ASSUME NEW b \in Builders, StartBuild(b) \/ BuilderStep(b) \/ BuildEnds(b)
          PROVE  UNCHANGED <<local, retained>>
      <3>1. ~DockerBuild(b)
        BY <1>0 DEF DockerBuild, Step, Holding
      <3> QED BY <1>0, <2>1, <3>1 DEF StartBuild, BuilderStep, BuildEnds, AcquireLock,
         PrepareBuild, Push,
                Resolve, Evict, Transfer
    <2> QED BY <2>1 DEF NextBuilder, CleanerStep, OpenCampaign, CleanupBegins, CleanupFails,
       buildVars
  <1> QED BY <1>1, <1>2, <1>3, <1>4

\* It says that what is published is the job's own, and that caches are trustworthy.
LEMMA BuildImplies == BuildIInv => TypeOKBuilder /\ PublishedIsOwn /\ CacheTrusted
  BY DEF BuildIInv, BuildTypes, TypeOKBuilder

-----------------------------------------------------------------------------
(* Grading of outputs (Grading). *)

\* What one output's texts show.
LoopsIn(f) == \E t \in Counts(f) : HardReason(t)
SpansIn(f) == \E t \in Counts(f) : SpanReason(t)

\* The loop's bookkeeping, as a function of the outputs read so far.
Booked ==
  /\ empty <=> Read # Answered
  /\ hard <=> \E i \in Answered : LoopsIn(seen[i])
  /\ spans = {i \in Answered : SpansIn(seen[i])}
  /\ relatives = {i \in Answered : seen[i].worse /\ ~seen[i].forced}
  /\ \A i \in Answered : seen[i].score # "error" => seen[i].score \in scored
  /\ \A s \in scored : s # "error" /\ \E i \in Answered : seen[i].score = s

\* The verdict is drawn from the books, or the scorer failed before there was a
\* failure to report.
VerdictDrawn ==
  /\ gverdict = "none" => Len(seen) = at - 1 /\ \A i \in Answered : seen[i].score # "error"
  /\ gverdict # "none" => at = NOutputs + 1
  /\ gverdict # "none" =>
        \/ gverdict = "infra" /\ ~Degenerate(hard, spans, relatives)
        \/ /\ gverdict = Verdict(empty, hard, spans, relatives, scored)
           /\ \/ Degenerate(hard, spans, relatives)
              \/ \A i \in Answered : seen[i].score # "error"

\* What the variables of the grading hold.
GradeTypes ==
  /\ at \in 1..(NOutputs + 1) /\ seen \in Seq(Facts) /\ Len(seen) <= NOutputs
  /\ empty \in BOOLEAN /\ hard \in BOOLEAN
  /\ gverdict \in {"none", "pass", "fail", "infra"}

\* The inductive invariant of the grading.
GradeIInv == GradeTypes /\ Booked /\ VerdictDrawn

\* The verdict is one of three, and follows the first ground that applies.
LEMMA VerdictCases ==
  ASSUME NEW e \in BOOLEAN, NEW h, NEW s, NEW r, NEW sc
  PROVE  /\ Verdict(e, h, s, r, sc) \in {"pass", "fail", "infra"}
         /\ Degenerate(h, s, r) => Verdict(e, h, s, r, sc) = "fail"
         /\ Verdict(e, h, s, r, sc) = "pass" =>
               ~e /\ ~Degenerate(h, s, r) /\ "low" \notin sc /\ "thin" \notin sc
               /\ ~(Relative /\ "drop" \in sc)
         /\ Verdict(e, h, s, r, sc) = "fail" =>
               e \/ Degenerate(h, s, r) \/ "low" \in sc \/ "drop" \in sc
  <1>1. CASE e
    BY <1>1 DEF Verdict
  <1>2. CASE ~e /\ sc \cap {"good", "low", "drop", "thin"} = {}
    BY <1>2 DEF Verdict
  <1>3. CASE ~e /\ sc \cap {"good", "low", "drop", "thin"} # {}
    BY <1>3 DEF Verdict
  <1> QED BY <1>1, <1>2, <1>3

\* The next output joins the ones that were read.
LEMMA ReadNext ==
  ASSUME seen \in Seq(Facts), NEW f \in Facts, seen' = Append(seen, f), Len(seen) = at - 1, at \in Nat
  PROVE  /\ seen' \in Seq(Facts) /\ Len(seen') = at /\ at \notin DOMAIN seen /\ seen'[at] = f
         /\ \A i \in DOMAIN seen : seen'[i] = seen[i]
         /\ Read' = Read \cup (IF f.dropped THEN {} ELSE {at})
         /\ Answered' = Answered \cup (IF f.dropped \/ f.text = <<>> THEN {} ELSE {at})
         /\ \A i \in Answered : seen'[i] = seen[i] /\ i # at
         /\ at \notin Read
  <1>1. /\ seen' \in Seq(Facts) /\ Len(seen') = at /\ DOMAIN seen' = 1..at /\ DOMAIN seen = 1..(at - 1)
        /\ seen'[at] = f /\ \A i \in DOMAIN seen : seen'[i] = seen[i]
    OBVIOUS
  <1>2. at \notin DOMAIN seen /\ DOMAIN seen' = DOMAIN seen \cup {at}
    BY <1>1
  <1>3. Read' = Read \cup (IF f.dropped THEN {} ELSE {at})
    BY <1>1, <1>2 DEF Read
  <1>4. Answered' = {i \in Read' : seen'[i].text # <<>>}
    BY DEF Answered
  <1>5. Read \subseteq DOMAIN seen /\ Answered \subseteq DOMAIN seen
    BY DEF Read, Answered
  <1>6. Answered' = Answered \cup (IF f.dropped \/ f.text = <<>> THEN {} ELSE {at})
    BY <1>1, <1>2, <1>3, <1>4, <1>5 DEF Answered
  <1> QED BY <1>1, <1>2, <1>3, <1>5, <1>6

\* The texts the loop checks are the texts that count.
LEMMA CheckedTexts ==
  ASSUME NEW f \in Facts
  PROVE  /\ f.score = "error" => Repetitions(f) = Counts(f)
         /\ f.score # "error" => Repetitions(f) \cup ScoredPrefixes(f) = Counts(f)
  BY DEF Repetitions, ScoredPrefixes, Counts

\* The books after an output that was read and answered.
LEMMA BookedNext ==
  ASSUME GradeIInv, at \in Output, gverdict = "none", NEW f \in Facts, seen' = Append(seen, f),
         ~f.dropped, f.text # <<>>,
         Checked(Counts(f), hard, spans), relatives' = Worse(f), empty' = empty,
         scored' = IF f.score = "error" THEN scored ELSE scored \cup {f.score}
  PROVE  Booked' /\ hard' \in BOOLEAN
  <1>0. seen \in Seq(Facts) /\ Len(seen) = at - 1 /\ at \in Nat /\ hard \in BOOLEAN
    BY GradingAssumption DEF GradeIInv, GradeTypes, VerdictDrawn, Output
  <1>1. /\ seen'[at] = f /\ at \notin Read
        /\ Read' = Read \cup {at} /\ Answered' = Answered \cup {at}
        /\ \A i \in Answered : seen'[i] = seen[i] /\ i # at
    BY <1>0, ReadNext
  <1>2. Answered \subseteq Read
    BY DEF Answered
  <1>3. empty' <=> Read' # Answered'
    <2>1. Read' = Answered' => Read = Answered
      <3>1. ASSUME Read' = Answered', NEW i \in Read PROVE i \in Answered
        BY <1>1, <3>1
      <3> QED BY <1>2, <3>1
    <2>2. Read = Answered => Read' = Answered'
      BY <1>1
    <2>3. empty <=> Read # Answered
      BY DEF GradeIInv, Booked
    <2> QED BY <2>1, <2>2, <2>3
  <1>4. hard' = (hard \/ LoopsIn(f))
    BY DEF Checked, LoopsIn
  <1>5. hard' <=> \E i \in Answered' : LoopsIn(seen'[i])
    <2>1. hard <=> \E i \in Answered : LoopsIn(seen[i])
      BY DEF GradeIInv, Booked
    <2>2. (\E i \in Answered' : LoopsIn(seen'[i])) <=> ((\E i \in Answered : LoopsIn(seen[i])) \/ LoopsIn(f))
      BY <1>1
    <2> QED BY <1>0, <1>4, <2>1, <2>2
  <1>6. spans' = IF SpansIn(f) THEN spans \cup {at} ELSE spans
    BY DEF Checked, SpansIn
  <1>7. spans' = {i \in Answered' : SpansIn(seen'[i])}
    <2>1. spans = {i \in Answered : SpansIn(seen[i])}
      BY DEF GradeIInv, Booked
    <2> QED BY <1>1, <1>6, <2>1
  <1>8. relatives' = {i \in Answered' : seen'[i].worse /\ ~seen'[i].forced}
    <2>1. relatives = {i \in Answered : seen[i].worse /\ ~seen[i].forced}
      BY DEF GradeIInv, Booked
    <2> QED BY <1>1, <2>1 DEF Worse
  <1>9. \A i \in Answered' : seen'[i].score # "error" => seen'[i].score \in scored'
    BY <1>1 DEF GradeIInv, Booked
  <1>10. \A s \in scored' : s # "error" /\ \E i \in Answered' : seen'[i].score = s
    <2> SUFFICES ASSUME NEW s \in scored' PROVE s # "error" /\ \E i \in Answered' : seen'[i].score = s
      OBVIOUS
    <2>1. CASE s \in scored
      <3>1. PICK i \in Answered : s # "error" /\ seen[i].score = s
        BY <2>1 DEF GradeIInv, Booked
      <3> QED BY <1>1, <3>1
    <2>2. CASE s = f.score /\ f.score # "error"
      BY <1>1, <2>2
    <2> QED BY <2>1, <2>2
  <1>11. Booked'
    BY <1>3, <1>5, <1>7, <1>8, <1>9, <1>10 DEF Booked, LoopsIn, SpansIn, Counts, HardReason,
       SpanReason,
       DegeneracyReason, PartReason
  <1> QED BY <1>0, <1>4, <1>11

\* The books after an output that was skipped, or was not there.
LEMMA BookedSkip ==
  ASSUME GradeIInv, at \in Output, gverdict = "none", NEW f \in Facts, seen' = Append(seen, f),
         f.dropped \/ f.text = <<>>, empty' = (empty \/ ~f.dropped),
         UNCHANGED <<hard, spans, relatives, scored>>
  PROVE  Booked' /\ Answered' = Answered
  <1>0. seen \in Seq(Facts) /\ Len(seen) = at - 1 /\ at \in Nat
    BY GradingAssumption DEF GradeIInv, GradeTypes, VerdictDrawn, Output
  <1>1. /\ at \notin Read /\ Answered' = Answered
        /\ Read' = IF f.dropped THEN Read ELSE Read \cup {at}
        /\ \A i \in Answered : seen'[i] = seen[i]
    BY <1>0, ReadNext
  <1>2. Answered \subseteq Read
    BY DEF Answered
  <1>3. empty' <=> Read' # Answered'
    BY <1>1, <1>2 DEF GradeIInv, Booked
  <1>4. /\ hard' <=> \E i \in Answered' : LoopsIn(seen'[i])
        /\ spans' = {i \in Answered' : SpansIn(seen'[i])}
    BY <1>1 DEF GradeIInv, Booked
  <1>5. /\ relatives' = {i \in Answered' : seen'[i].worse /\ ~seen'[i].forced}
        /\ \A i \in Answered' : seen'[i].score # "error" => seen'[i].score \in scored'
        /\ \A s \in scored' : s # "error" /\ \E i \in Answered' : seen'[i].score = s
    BY <1>1, ZenonT(60) DEF GradeIInv, Booked
  <1>6. Booked'
    BY <1>3, <1>4, <1>5 DEF Booked, LoopsIn, SpansIn, Counts, HardReason, SpanReason,
       DegeneracyReason, PartReason
  <1> QED BY <1>1, <1>6

\* No output is read at the start.
LEMMA GradeInit == InitGrading => GradeIInv
  <1> SUFFICES ASSUME InitGrading PROVE GradeIInv
    OBVIOUS
  <1>1. Read = {} /\ Answered = {}
    BY DEF InitGrading, Read, Answered
  <1>2. empty \in BOOLEAN /\ hard \in BOOLEAN
    BY DEF InitGrading
  <1>3. GradeTypes
    BY <1>2, GradingAssumption DEF InitGrading, GradeTypes
  <1>4. Booked
    BY <1>1 DEF InitGrading, Booked
  <1>5. VerdictDrawn
    BY <1>1 DEF InitGrading, VerdictDrawn
  <1> QED BY <1>3, <1>4, <1>5 DEF GradeIInv

\* The loop moves on with books that are right.
LEMMA GradeMoves ==
  ASSUME GradeIInv, at \in Output, gverdict = "none", NEW f \in Facts, seen' = Append(seen, f),
         Booked', MoveOn, empty' \in BOOLEAN, hard' \in BOOLEAN,
         \A i \in Answered' : seen'[i].score # "error"
  PROVE  GradeIInv'
  <1>0. seen \in Seq(Facts) /\ Len(seen) = at - 1 /\ at \in 1..NOutputs /\ NOutputs \in Nat
    BY GradingAssumption DEF GradeIInv, GradeTypes, VerdictDrawn, Output
  <1>1. seen' \in Seq(Facts) /\ Len(seen') = at
    BY <1>0, ReadNext
  <1>2. at' = at + 1 /\ at' \in 1..(NOutputs + 1) /\ Len(seen') = at' - 1 /\ Len(seen') <= NOutputs
    BY <1>0, <1>1 DEF MoveOn
  <1>3. CASE at = NOutputs
    <2>1. gverdict' = Verdict(empty', hard', spans', relatives', scored')
      BY <1>3 DEF MoveOn, Finish
    <2>2. gverdict' \in {"pass", "fail", "infra"}
      BY <2>1, VerdictCases
    <2>3. GradeTypes'
      BY <1>1, <1>2, <2>2 DEF GradeTypes
    <2>4. VerdictDrawn'
      BY <1>2, <1>3, <2>1, <2>2 DEF VerdictDrawn, Verdict, Degenerate
    <2> QED BY <2>3, <2>4 DEF GradeIInv
  <1>4. CASE at # NOutputs
    <2>1. gverdict' = "none"
      BY <1>4 DEF MoveOn
    <2>2. GradeTypes'
      BY <1>1, <1>2, <2>1 DEF GradeTypes
    <2>3. VerdictDrawn'
      BY <1>2, <2>1 DEF VerdictDrawn
    <2> QED BY <2>2, <2>3 DEF GradeIInv
  <1> QED BY <1>3, <1>4

\* Every step of grade_candidate keeps it: one more output is read, or the verdict is
\* drawn.
LEMMA GradeNext == GradeIInv /\ [NextGrading]_gradingVars => GradeIInv'
  <1>1. ASSUME GradeIInv, UNCHANGED gradingVars PROVE GradeIInv'
    BY <1>1 DEF gradingVars, GradeIInv, GradeTypes, Booked, VerdictDrawn, Read, Answered,
       LoopsIn, SpansIn,
        Degenerate, Verdict
  <1>2. ASSUME GradeIInv, NextGrading PROVE GradeIInv'
    <2>0. at \in Output /\ gverdict = "none"
      BY <1>2, GradingAssumption DEF NextGrading, GradeIInv, VerdictDrawn, Output
    <2>1. PICK f \in Facts :
            /\ seen' = Append(seen, f)
            /\ SkipDropped(f) \/ NoOutput(f) \/ ScorerFails(f) \/ ScoreOutput(f)
      BY <1>2 DEF NextGrading
    <2>2. seen \in Seq(Facts) /\ Len(seen) = at - 1 /\ at \in 1..NOutputs /\ at \in Nat /\ NOutputs \in Nat
          /\ empty \in BOOLEAN /\ hard \in BOOLEAN
      BY <1>2, <2>0, GradingAssumption DEF GradeIInv, GradeTypes, VerdictDrawn, Output
    <2>3. /\ seen' \in Seq(Facts) /\ Len(seen') = at /\ seen'[at] = f
          /\ \A i \in Answered : seen'[i] = seen[i]
          /\ Answered' = Answered \cup (IF f.dropped \/ f.text = <<>> THEN {} ELSE {at})
      BY <2>1, <2>2, ReadNext
    <2>4. \A i \in Answered : seen[i].score # "error"
      BY <1>2, <2>0 DEF GradeIInv, VerdictDrawn
    <2>5. CASE SkipDropped(f)
      <3>1. f.dropped /\ UNCHANGED <<empty, hard, spans, relatives, scored>> /\ MoveOn
        BY <2>5 DEF SkipDropped
      <3>2. empty' = (empty \/ ~f.dropped)
        BY <2>2, <3>1
      <3>3. Booked' /\ Answered' = Answered
        BY <1>2, <2>0, <2>1, <3>1, <3>2, BookedSkip
      <3>4. \A i \in Answered' : seen'[i].score # "error"
        BY <2>3, <2>4, <3>3
      <3> QED BY <1>2, <2>0, <2>1, <2>2, <3>1, <3>3, <3>4, GradeMoves
    <2>6. CASE NoOutput(f)
      <3>1. ~f.dropped /\ f.text = <<>> /\ empty' = TRUE /\ UNCHANGED <<hard, spans, relatives, scored>> /\ MoveOn
        BY <2>6 DEF NoOutput
      <3>2. empty' = (empty \/ ~f.dropped) /\ empty' \in BOOLEAN
        BY <3>1
      <3>3. Booked' /\ Answered' = Answered
        BY <1>2, <2>0, <2>1, <3>1, <3>2, BookedSkip
      <3>4. \A i \in Answered' : seen'[i].score # "error"
        BY <2>3, <2>4, <3>3
      <3> QED BY <1>2, <2>0, <2>1, <2>2, <3>1, <3>2, <3>3, <3>4, GradeMoves
    <2>7. CASE ScoreOutput(f)
      <3>1. /\ ~f.dropped /\ f.text # <<>> /\ f.score # "error"
            /\ Checked(Repetitions(f) \cup ScoredPrefixes(f), hard, spans)
            /\ relatives' = Worse(f) /\ scored' = scored \cup {f.score} /\ empty' = empty /\ MoveOn
        BY <2>7 DEF ScoreOutput
      <3>2. Checked(Counts(f), hard, spans)
        BY <3>1, CheckedTexts
      <3>3. Booked' /\ hard' \in BOOLEAN
        BY <1>2, <2>0, <2>1, <3>1, <3>2, BookedNext
      <3>4. \A i \in Answered' : seen'[i].score # "error"
        BY <2>3, <2>4, <3>1
      <3> QED BY <1>2, <2>0, <2>1, <2>2, <3>1, <3>3, <3>4, GradeMoves
    <2>8. CASE ScorerFails(f)
      <3>1. /\ ~f.dropped /\ f.text # <<>> /\ f.score = "error"
            /\ Checked(Repetitions(f), hard, spans)
            /\ relatives' = Worse(f) /\ UNCHANGED <<empty, scored>> /\ at' = NOutputs + 1
            /\ IF Degenerate(hard', spans', relatives') THEN Finish ELSE gverdict' = "infra"
        BY <2>8 DEF ScorerFails
      <3>2. Checked(Counts(f), hard, spans)
        BY <3>1, CheckedTexts
      <3>3. Booked' /\ hard' \in BOOLEAN
        BY <1>2, <2>0, <2>1, <3>1, <3>2, BookedNext
      <3>4. empty' \in BOOLEAN /\ Len(seen') <= NOutputs /\ at' \in 1..(NOutputs + 1)
        BY <2>2, <2>3, <3>1
      <3>5. CASE Degenerate(hard', spans', relatives')
        <4>1. gverdict' = Verdict(empty', hard', spans', relatives', scored')
          BY <3>1, <3>5 DEF Finish
        <4>2. gverdict' = "fail"
          BY <3>4, <3>5, <4>1, VerdictCases
        <4>3. VerdictDrawn'
          BY <3>1, <3>5, <4>1, <4>2 DEF VerdictDrawn, Verdict, Degenerate
        <4>4. GradeTypes'
          BY <2>3, <3>3, <3>4, <4>2 DEF GradeTypes
        <4> QED BY <3>3, <4>3, <4>4 DEF GradeIInv
      <3>6. CASE ~Degenerate(hard', spans', relatives')
        <4>1. gverdict' = "infra"
          BY <3>1, <3>6
        <4>2. VerdictDrawn'
          BY <3>1, <3>6, <4>1 DEF VerdictDrawn, Degenerate
        <4>3. GradeTypes'
          BY <2>3, <3>3, <3>4, <4>1 DEF GradeTypes
        <4> QED BY <3>3, <4>2, <4>3 DEF GradeIInv
      <3> QED BY <3>5, <3>6
    <2> QED BY <2>1, <2>5, <2>6, <2>7, <2>8
  <1> QED BY <1>1, <1>2

\* Without a loop, a text with a repeated span is booked as one.
LEMMA SpansAreRepeats ==
  ASSUME NEW i
  PROVE  /\ LoopsIn(seen[i]) <=> Looping(i)
         /\ SpansIn(seen[i]) => Repeating(i)
         /\ ~LoopsIn(seen[i]) /\ Repeating(i) => SpansIn(seen[i])
  <1>1. \A t : HardReason(t) <=> (t = <<>> \/ \E k \in DOMAIN t : t[k] = "floor")
    BY DEF HardReason, DegeneracyReason, PartReason
  <1>2. \A t : SpanReason(t) <=> (~HardReason(t) /\ \E k \in DOMAIN t : t[k] = "floor" \/ t[k] = "span")
    BY DEF SpanReason, DegeneracyReason, PartReason
  <1>3. LoopsIn(seen[i]) <=> Looping(i)
    BY <1>1 DEF LoopsIn, Looping
  <1>4. SpansIn(seen[i]) => Repeating(i)
    BY <1>1, <1>2 DEF SpansIn, Repeating
  <1>5. ~LoopsIn(seen[i]) /\ Repeating(i) => SpansIn(seen[i])
    BY <1>2 DEF LoopsIn, SpansIn, Repeating
  <1> QED BY <1>3, <1>4, <1>5

\* The books establish what the verdicts promise.
LEMMA GradeImplies ==
  GradeIInv => TypeOKGrading /\ NothingWrongPasses /\ ScorerTroubleRequeues /\ FailureOutlivesScorer
  <1> SUFFICES ASSUME GradeIInv
               PROVE  TypeOKGrading /\ NothingWrongPasses /\ ScorerTroubleRequeues /\ FailureOutlivesScorer
    OBVIOUS
  <1> DEFINE repeats == {i \in Answered : Repeating(i)}
             worse == {i \in Answered : seen[i].worse /\ ~seen[i].forced}
  <1>0. empty \in BOOLEAN /\ NOutputs \in Nat /\ Allowance \in Nat /\ Len(seen) \in Nat /\ Len(seen) <= NOutputs
        /\ DOMAIN seen = 1..Len(seen)
    BY GradingAssumption DEF GradeIInv, GradeTypes
  <1>1. Answered \subseteq 1..NOutputs /\ Answered \subseteq DOMAIN seen
    BY <1>0 DEF Answered, Read
  <1>2. spans \subseteq repeats /\ relatives = worse /\ spans \subseteq Answered /\ worse \subseteq Answered
    BY SpansAreRepeats DEF GradeIInv, Booked
  <1>3. hard <=> \E i \in Answered : Looping(i)
    BY SpansAreRepeats DEF GradeIInv, Booked
  <1>4. ~hard => spans = repeats
    BY <1>2, <1>3, SpansAreRepeats DEF GradeIInv, Booked
  <1>5. TypeOKGrading
    BY <1>1, <1>2 DEF GradeIInv, GradeTypes, TypeOKGrading, Output
  <1>6. FailureOutlivesScorer
    BY <1>0, VerdictCases DEF FailureOutlivesScorer, GradeIInv, VerdictDrawn
  <1>7. TextFailure => Degenerate(hard, spans, relatives)
    BY <1>2, <1>3, <1>4 DEF TextFailure, Degenerate
  <1>8. NothingWrongPasses
    <2> SUFFICES ASSUME gverdict = "pass"
                 PROVE  /\ Read = Answered /\ ~TextFailure
                        /\ \A i \in Answered : seen[i].score \in {"good", "none", "drop"}
                        /\ Relative => \A i \in Answered : seen[i].score # "drop"
      BY DEF NothingWrongPasses
    <2>1. gverdict = Verdict(empty, hard, spans, relatives, scored)
          /\ (Degenerate(hard, spans, relatives) \/ \A i \in Answered : seen[i].score # "error")
      BY DEF GradeIInv, VerdictDrawn
    <2>2. ~empty /\ ~Degenerate(hard, spans, relatives) /\ "low" \notin scored /\ "thin" \notin scored
               /\ ~(Relative /\ "drop" \in scored)
      BY <1>0, <2>1, VerdictCases
    <2>3. \A i \in Answered : seen[i].score \in scored
      BY <2>1, <2>2 DEF GradeIInv, Booked
    <2>4. \A i \in Answered : seen[i].score \in Scores
      <3>1. \A i \in Answered : seen[i] \in Fact
        BY <1>1, GradingAssumption DEF GradeIInv, GradeTypes
      <3> QED BY <3>1 DEF Fact
    <2>5. \A i \in Answered : seen[i].score \in {"good", "none", "drop"}
      BY <2>1, <2>2, <2>3, <2>4 DEF Scores, VllmScores, SglangScores
    <2>6. Read = Answered
      BY <2>2 DEF GradeIInv, Booked
    <2> QED BY <1>7, <2>2, <2>3, <2>5, <2>6
  <1>9. ScorerTroubleRequeues
    <2> SUFFICES ASSUME gverdict = "fail"
                 PROVE  \/ Read # Answered \/ TextFailure
                        \/ \E i \in Answered : seen[i].score \in {"low", "drop"}
      BY DEF ScorerTroubleRequeues
    <2>1. empty \/ Degenerate(hard, spans, relatives) \/ "low" \in scored \/ "drop" \in scored
      BY <1>0, VerdictCases DEF GradeIInv, VerdictDrawn
    <2>2. CASE empty
      BY <2>2 DEF GradeIInv, Booked
    <2>3. CASE "low" \in scored \/ "drop" \in scored
      BY <2>3 DEF GradeIInv, Booked
    <2>4. CASE Degenerate(hard, spans, relatives)
      \* A set of booked prompts is no larger than the set it is part of.
      <3>1. IsFiniteSet(repeats) /\ Cardinality(spans) <= Cardinality(repeats)
            /\ Cardinality(repeats) \in Nat /\ Cardinality(spans) \in Nat
        <4>1. IsFiniteSet(1..NOutputs)
          BY <1>0, FS_Interval
        <4>2. repeats \subseteq 1..NOutputs
          BY <1>1
        <4>3. IsFiniteSet(repeats)
          BY <4>1, <4>2, FS_Subset
        <4> QED BY <1>2, <4>3, FS_Subset, FS_CardinalityType
      <3>2. hard => TextFailure
        BY <1>3 DEF TextFailure
      <3>3. Cardinality(relatives) > Allowance => TextFailure
        BY <1>2 DEF TextFailure
      <3>4. Cardinality(spans) > Allowance => TextFailure
        BY <1>0, <3>1 DEF TextFailure
      <3> QED BY <2>4, <3>2, <3>3, <3>4 DEF Degenerate
    <2> QED BY <2>1, <2>2, <2>3, <2>4
  <1> QED BY <1>5, <1>6, <1>8, <1>9

-----------------------------------------------------------------------------
(* Admission of submissions (Ingest). *)

\* An entry of the fee history.
FeeEntry == [from : Nat, amount : Fees]

\* The fee at a block is an entry's, and a later entry does not change it.
LEMMA FeeOfHistory ==
  ASSUME NEW hist \in Seq(FeeEntry), ValidHistory(hist), NEW b \in Nat
  PROVE  /\ FeeAtBlock(hist, b) \in Fees
         /\ \A n \in Nat, a \in Fees : b < n =>
               FeeAtBlock(Append(hist, [from |-> n, amount |-> a]), b) = FeeAtBlock(hist, b)
  <1> DEFINE D == {i \in DOMAIN hist : hist[i].from <= b}
  <1>1. Len(hist) \in Nat /\ DOMAIN hist = 1..Len(hist) /\ 1 \in DOMAIN hist /\ hist[1].from = 0
    BY DEF ValidHistory
  <1>2. D \subseteq 0..Len(hist) /\ D # {}
    BY <1>1
  <1> HIDE DEF D
  <1>3. Max(D) \in D
    BY <1>1, <1>2, GreatestOfSet
  <1> USE DEF D
  <1>4. FeeAtBlock(hist, b) \in Fees
    <2>1. FeeAtBlock(hist, b) = hist[Max(D)].amount
      BY DEF FeeAtBlock
    <2>2. Max(D) \in DOMAIN hist
      BY <1>3
    <2> HIDE DEF D
    <2>3. hist[Max(D)] \in FeeEntry
      BY <2>2
    <2> QED BY <2>1, <2>3 DEF FeeEntry
  <1>5. ASSUME NEW n \in Nat, NEW a \in Fees, b < n
        PROVE  FeeAtBlock(Append(hist, [from |-> n, amount |-> a]), b) = FeeAtBlock(hist, b)
    <2> DEFINE more == Append(hist, [from |-> n, amount |-> a])
               E == {i \in DOMAIN more : more[i].from <= b}
    <2>1. /\ DOMAIN more = DOMAIN hist \cup {Len(hist) + 1} /\ more[Len(hist) + 1].from = n
          /\ \A i \in DOMAIN hist : more[i] = hist[i]
      BY <1>1
    <2> HIDE DEF more
    <2>2. E = D
      BY <1>5, <2>1
    <2>3. more[Max(D)] = hist[Max(D)]
      BY <1>3, <2>1
    <2>4. FeeAtBlock(more, b) = more[Max(E)].amount /\ FeeAtBlock(hist, b) = hist[Max(D)].amount
      BY DEF FeeAtBlock
    <2> QED BY <2>2, <2>3, <2>4 DEF more
  <1> QED BY <1>4, <1>5

\* The commitments on chain, the states of the miner's tool, and what a scan has left
\* to do.
Coms == [camp : {Old, New}, patch : Patch, block : 0..MaxHeight, pay : 0..MaxHeight,
         bytes : {"none", "match", "other", "foreign", "garbage"}, own : BOOLEAN]
ToolStates == [pc : {"idle", "uploaded", "paying", "paid", "ready"}, patch : Patch, quote : Fees,
               pay : 0..MaxHeight]
Todo == [key : Miner, com : Coms]

\* The terms in force: fee history, transfers, exempt hotkeys and the start.
TermsInForce == [fees |-> fees, paid |-> paid, exempt |-> Exempt, start |-> CompetitionStart]

\* A commitment, with the reference its row records, meets the terms t.
Meets(t, key, com) ==
  /\ com.block >= t.start
  /\ IF com.pay = 0 THEN key \in t.exempt \/ FeeAtBlock(t.fees, com.block) = 0
     ELSE /\ key \notin t.exempt
          /\ t.paid[com.pay].by = key /\ t.paid[com.pay].amount >= FeeAtBlock(t.fees, com.pay)
          /\ com.pay <= com.block

\* What the chain, the campaign and the rows hold.
ChainTypes ==
  /\ height \in 1..MaxHeight /\ feeRead \in 0..height
  /\ fees \in Seq(FeeEntry) /\ ValidHistory(fees) /\ lagged \in BOOLEAN
  /\ paid = [b \in 1..MaxHeight |-> paid[b]]
  /\ barred \subseteq Miner /\ carry \in {"idle", "planned", "copied"}
  /\ drops \in 0..MaxDrops /\ forged \in 0..MaxForged

\* Commitments are of past blocks; one made by the tool carries a sound proof.
StandingKnows ==
  /\ standing \in [Miner -> Coms]
  /\ \A h \in Miner :
       LET com == standing[h] IN
       /\ com.block <= height /\ com.pay <= height
       /\ com.own /\ com.pay > 0 =>
            /\ com.pay <= com.block
            /\ paid[com.pay].by = h /\ paid[com.pay].amount >= 0
            /\ ~lagged => paid[com.pay].amount >= FeeAtBlock(fees, com.pay)

\* What the tool paid is what it quoted, and a payment it is ready to use suffices.
ToolKnows ==
  /\ tool \in [Miner -> ToolStates]
  /\ \A h \in Miner :
       LET t == tool[h] IN
       /\ t.pc \in {"idle", "uploaded", "paying"} => t.pay = 0
       /\ t.pay > 0 => t.pay <= height /\ paid[t.pay].by = h /\ paid[t.pay].amount = t.quote
       /\ t.pc = "ready" /\ t.pay > 0 /\ ~lagged => t.quote >= FeeAtBlock(fees, t.pay)

\* What insert_submission is to record of a commitment.
RowTerms(todo) == [pay |-> RefOf(todo.key, todo.com), block |-> todo.com.block]

\* The scan works on commitments of past blocks in chain order, and the one it has
\* checked met its terms.
ScanKnows ==
  /\ scan \in [todo : Seq(Todo), checked : BOOLEAN]
  /\ \A i \in DOMAIN scan.todo : scan.todo[i].com.block <= height /\ scan.todo[i].com.pay <= height
  /\ \A i, j \in DOMAIN scan.todo : i < j => scan.todo[i].com.block <= scan.todo[j].com.block
  /\ scan.checked => scan.todo # <<>>
  /\ scan.checked /\ ~lagged => Meets(TermsInForce, scan.todo[1].key, RowTerms(scan.todo[1]))

\* Every row names things that happened; a row of the new campaign that came from the
\* chain meets the terms; a reference backs one row and a work is accepted once.
RowsKnow ==
  /\ \A s \in subs : /\ s.camp \in {Old, New} /\ s.key \in Miner
                     /\ s.pay \in 0..height /\ s.block \in 0..height
  /\ ~lagged => \A s \in subs : s.camp = New /\ s.via = "chain" => Meets(TermsInForce, s.key, s)
  /\ RefBacksOne /\ OneWorkOnce

\* The inductive invariant of the admission.
IngestIInv == ChainTypes /\ StandingKnows /\ ToolKnows /\ ScanKnows /\ RowsKnow

\* Nothing is committed, paid or admitted at the start.
LEMMA IngestInit == InitIngest => IngestIInv
  <1> SUFFICES ASSUME InitIngest PROVE IngestIInv
    OBVIOUS
  <1> USE FeeAssumption, MinerAssumption
  <1>1. ChainTypes
    <2>1. PICK a \in Fees : fees = <<[from |-> 0, amount |-> a]>>
      BY DEF InitIngest
    <2>2. fees \in Seq(FeeEntry)
      BY <2>1 DEF FeeEntry
    <2>3. ValidHistory(fees)
      BY <2>1 DEF ValidHistory
    <2>4. lagged \in BOOLEAN
      BY DEF InitIngest
    <2>5. paid = [b \in 1..MaxHeight |-> paid[b]]
      BY DEF InitIngest
    <2> QED BY <2>2, <2>3, <2>4, <2>5 DEF InitIngest, ChainTypes
  <1>2. StandingKnows
    <2>1. NoCom \in Coms
      BY DEF NoCom, Coms
    <2> QED BY <2>1 DEF InitIngest, StandingKnows, NoCom
  <1>3. ToolKnows
    <2>1. NoTool \in ToolStates
      BY DEF NoTool, ToolStates
    <2> QED BY <2>1 DEF InitIngest, ToolKnows, NoTool
  <1>4. ScanKnows
    <2>1. scan.todo = <<>> /\ scan.checked = FALSE /\ scan \in [todo : Seq(Todo), checked : BOOLEAN]
      BY DEF InitIngest, NoScan
    <2> QED BY <2>1 DEF ScanKnows
  <1>5. RowsKnow
    <2>1. subs = {[camp |-> Old, patch |-> OldPatch, key |-> OldMiner, block |-> 1, pay |-> 1, dup |-> FALSE, via |-> "chain"]}
      BY DEF InitIngest, Row
    <2>2. height = 1
      BY DEF InitIngest
    <2> QED BY <2>1, <2>2 DEF RowsKnow, RefBacksOne, OneWorkOnce
  <1> QED BY <1>1, <1>2, <1>3, <1>4, <1>5 DEF IngestIInv

\* What no step changes: transfers and fees of past blocks, unless a fee came late.
Past ==
  /\ cast' = cast
  /\ height' \in 1..MaxHeight /\ height' >= height
  /\ \A b \in 1..height : paid'[b] = paid[b]
  /\ ~lagged' => ~lagged /\ \A b \in 0..height : FeeAtBlock(fees', b) = FeeAtBlock(fees, b)

\* The exemptions and the start are settings of the whole behaviour.
LEMMA SettingsStay ==
  ASSUME cast' = cast
  PROVE  Exempt' = Exempt /\ CompetitionStart' = CompetitionStart
  BY DEF Exempt, CompetitionStart

\* A payment that met the terms goes on meeting them: a later fee does not reach
\* back.
LEMMA MeetsStays ==
  ASSUME ChainTypes, Past, ~lagged', NEW k, NEW com, com.block \in 0..height, com.pay \in 0..height,
         Meets(TermsInForce, k, com)
  PROVE  Meets(TermsInForce', k, com)
  <1>0. Exempt' = Exempt /\ CompetitionStart' = CompetitionStart
    BY SettingsStay DEF Past
  <1>1. CASE com.pay = 0
    BY <1>0, <1>1 DEF Meets, TermsInForce, Past
  <1>2. CASE com.pay # 0
    <2>1. com.pay \in 1..height
      BY <1>2 DEF ChainTypes
    <2>2. paid'[com.pay] = paid[com.pay] /\ FeeAtBlock(fees', com.pay) = FeeAtBlock(fees, com.pay)
      BY <2>1 DEF Past
    <2> QED BY <1>0, <1>2, <2>2 DEF Meets, TermsInForce
  <1> QED BY <1>1, <1>2

\* What is said of the commitments on chain survives every step that does not touch
\* them.
LEMMA StandingStays == ASSUME IngestIInv, Past, standing' = standing PROVE StandingKnows'
  <1> SUFFICES ASSUME NEW h \in Miner
               PROVE  LET com == standing[h] IN
                 /\ com.block <= height' /\ com.pay <= height'
                 /\ com.own /\ com.pay > 0 =>
                      /\ com.pay <= com.block
                      /\ paid'[com.pay].by = h /\ paid'[com.pay].amount >= 0
                      /\ ~lagged' => paid'[com.pay].amount >= FeeAtBlock(fees', com.pay)
    BY DEF IngestIInv, StandingKnows
  <1>1. standing[h].block \in Nat /\ standing[h].pay \in Nat /\ height \in Nat /\ height' \in Nat
    BY DEF IngestIInv, StandingKnows, ChainTypes, Coms, Past
  <1>2. standing[h].block <= height' /\ standing[h].pay <= height'
    BY <1>1 DEF IngestIInv, StandingKnows, Past
  <1>3. ASSUME standing[h].own, standing[h].pay > 0
        PROVE  /\ standing[h].pay <= standing[h].block
               /\ paid'[standing[h].pay].by = h /\ paid'[standing[h].pay].amount >= 0
               /\ ~lagged' => paid'[standing[h].pay].amount >= FeeAtBlock(fees', standing[h].pay)
    <2>1. standing[h].pay \in 1..height
      BY <1>1, <1>3 DEF IngestIInv, StandingKnows
    <2>2. paid'[standing[h].pay] = paid[standing[h].pay]
      BY <2>1 DEF Past
    <2>3. ~lagged' => ~lagged /\ FeeAtBlock(fees', standing[h].pay) = FeeAtBlock(fees, standing[h].pay)
      BY <2>1 DEF Past
    <2> QED BY <1>3, <2>2, <2>3 DEF IngestIInv, StandingKnows
  <1> QED BY <1>2, <1>3

\* What is said of one miner's tool survives a step that leaves it alone.
LEMMA ToolStays ==
  ASSUME IngestIInv, Past, NEW h \in Miner, NEW t \in ToolStates, t = tool[h]
  PROVE  /\ t.pay > 0 => t.pay <= height' /\ paid'[t.pay].by = h /\ paid'[t.pay].amount = t.quote
         /\ t.pc = "ready" /\ t.pay > 0 /\ ~lagged' => t.quote >= FeeAtBlock(fees', t.pay)
  <1>1. t.pay \in Nat /\ height \in Nat /\ height' \in Nat
    BY DEF IngestIInv, ChainTypes, ToolStates, Past
  <1>2. ASSUME t.pay > 0
        PROVE  /\ t.pay <= height' /\ paid'[t.pay].by = h /\ paid'[t.pay].amount = t.quote
               /\ t.pc = "ready" /\ ~lagged' => t.quote >= FeeAtBlock(fees', t.pay)
    <2>1. t.pay \in 1..height
      BY <1>1, <1>2 DEF IngestIInv, ToolKnows
    <2>2. paid'[t.pay] = paid[t.pay] /\ t.pay <= height'
      BY <1>1, <2>1 DEF Past
    <2>3. ~lagged' => ~lagged /\ FeeAtBlock(fees', t.pay) = FeeAtBlock(fees, t.pay)
      BY <2>1 DEF Past
    <2> QED BY <1>2, <2>2, <2>3 DEF IngestIInv, ToolKnows
  <1> QED BY <1>2

\* So does what is said of all of them.
LEMMA ToolsStay == ASSUME IngestIInv, Past, tool' = tool PROVE ToolKnows'
  <1>1. \A h \in Miner : tool[h] \in ToolStates
    BY DEF IngestIInv, ToolKnows
  <1> QED BY <1>1, ToolStays DEF IngestIInv, ToolKnows

\* So does what is said of the scan.
LEMMA ScanStays == ASSUME IngestIInv, Past, scan' = scan PROVE ScanKnows'
  <1>1. \A i \in DOMAIN scan.todo : scan.todo[i].com.block \in 0..height /\ scan.todo[i].com.pay \in 0..height
    <2> SUFFICES ASSUME NEW i \in DOMAIN scan.todo
                 PROVE  scan.todo[i].com.block \in 0..height /\ scan.todo[i].com.pay \in 0..height
      OBVIOUS
    <2>1. scan.todo[i] \in Todo
      BY DEF IngestIInv, ScanKnows
    <2>2. scan.todo[i].com.block \in Nat /\ scan.todo[i].com.pay \in Nat
      BY <2>1 DEF Todo, Coms
    <2> QED BY <2>2 DEF IngestIInv, ScanKnows, ChainTypes
  <1>2. \A i \in DOMAIN scan.todo : scan.todo[i].com.block <= height' /\ scan.todo[i].com.pay <= height'
    BY <1>1 DEF Past, IngestIInv, ChainTypes
  <1>3. ASSUME scan.checked, ~lagged' PROVE Meets(TermsInForce', scan.todo[1].key, RowTerms(scan.todo[1])')
    <2>1. 1 \in DOMAIN scan.todo
      BY <1>3 DEF IngestIInv, ScanKnows
    <2>2. Meets(TermsInForce, scan.todo[1].key, RowTerms(scan.todo[1]))
      BY <1>3 DEF IngestIInv, ScanKnows, Past
    <2> DEFINE c == RowTerms(scan.todo[1])
    <2>3. scan.todo[1] \in Todo /\ ChainTypes
      BY <2>1 DEF IngestIInv, ScanKnows
    <2>4. c.block \in 0..height /\ c.pay \in 0..height
      BY <1>1, <2>1, <2>3 DEF RowTerms, RefOf, ChainTypes
    <2>5. RowTerms(scan.todo[1])' = c
      BY SettingsStay DEF RowTerms, RefOf, Past
    <2> HIDE DEF c
    <2>6. Meets(TermsInForce', scan.todo[1].key, c)
      BY <1>3, <2>2, <2>3, <2>4, MeetsStays DEF c
    <2> QED BY <2>5, <2>6
  <1> QED BY <1>2, <1>3 DEF IngestIInv, ScanKnows

\* What a row relied on when it was inserted still holds.
LEMMA RowsStay ==
  ASSUME IngestIInv, Past
  PROVE  /\ \A s \in subs : s.camp \in {Old, New} /\ s.key \in Miner
                            /\ s.pay \in 0..height' /\ s.block \in 0..height'
         /\ ~lagged' => \A s \in subs : s.camp = New /\ s.via = "chain" => Meets(TermsInForce', s.key, s)
  <1>1. \A s \in subs : s.camp \in {Old, New} /\ s.key \in Miner
                            /\ s.pay \in 0..height' /\ s.block \in 0..height'
    BY DEF IngestIInv, RowsKnow, Past, ChainTypes
  <1>2. ASSUME ~lagged', NEW s \in subs, s.camp = New, s.via = "chain" PROVE Meets(TermsInForce', s.key, s)
    <2>1. Meets(TermsInForce, s.key, s) /\ s.pay \in 0..height /\ s.block \in 0..height
      BY <1>2 DEF IngestIInv, RowsKnow, Past
    <2> QED BY <1>2, <2>1, MeetsStays DEF IngestIInv
  <1> QED BY <1>1, <1>2

\* A step that inserts no row.
LEMMA RowsUnchanged == ASSUME IngestIInv, Past, subs' = subs PROVE RowsKnow'
  BY RowsStay DEF RowsKnow, IngestIInv, RefBacksOne, OneWorkOnce

\* A step that leaves the chain and the fees alone leaves the past alone.
LEMMA StillPast == ASSUME ChainTypes, UNCHANGED <<height, paid, fees, lagged, cast>> PROVE Past
  BY DEF ChainTypes, Past

\* A block is mined with at most one transfer in it, which is not of the past.
LEMMA MinedPast ==
  ASSUME ChainTypes, FeeAssumption, height < MaxHeight, height' = height + 1, UNCHANGED <<fees, lagged, cast>>,
         NEW x, paid' = paid \/ paid' = [paid EXCEPT ![height + 1] = x]
  PROVE  Past /\ paid' = [b \in 1..MaxHeight |-> paid'[b]]
  <1>1. height \in 1..MaxHeight /\ paid = [b \in 1..MaxHeight |-> paid[b]]
    BY DEF ChainTypes
  <1>2. \A b \in 1..height : paid'[b] = paid[b]
    BY <1>1, FeeAssumption
  <1>3. paid' = [b \in 1..MaxHeight |-> paid'[b]]
    BY <1>1
  <1> QED BY <1>1, <1>2, <1>3, FeeAssumption DEF Past

\* A fee change extends a valid history, and reaches back only when it came late.
LEMMA FeePast ==
  ASSUME ChainTypes, FeeAssumption, cast' = cast, NEW a \in Fees, SetFee(a)
  PROVE  Past /\ ChainTypes'
  <1>0. /\ height' = height /\ paid' = paid /\ feeRead' = 0 /\ feeRead \in 1..height /\ height \in 1..MaxHeight
        /\ barred' = barred /\ carry' = carry /\ drops' = drops /\ forged' = forged
    BY DEF ChainTypes, SetFee, chainState, watcherState
  <1>1. CASE feeRead <= Last(fees).from
    <2>1. UNCHANGED <<fees, lagged>>
      BY <1>1 DEF SetFee
    <2> QED BY <1>0, <2>1, StillPast DEF ChainTypes
  <1>2. CASE ~(feeRead <= Last(fees).from)
    <2> DEFINE e == [from |-> feeRead + 1, amount |-> a]
    <2>1. fees' = Append(fees, e) /\ lagged' = (lagged \/ feeRead + 1 <= height)
      BY <1>2 DEF SetFee
    <2>2. e \in FeeEntry
      BY <1>0 DEF FeeEntry
    <2>3. /\ fees \in Seq(FeeEntry) /\ Len(fees) \in Nat /\ Len(fees) > 0 /\ fees[1].from = 0
          /\ \A i \in 1..(Len(fees) - 1) : fees[i].from < fees[i + 1].from
          /\ \A i \in 1..Len(fees) : fees[i].from \in Nat
      <3>1. fees \in Seq(FeeEntry) /\ ValidHistory(fees)
        BY DEF ChainTypes
      <3>2. \A i \in 1..Len(fees) : fees[i] \in FeeEntry
        BY <3>1
      <3>3. \A i \in 1..Len(fees) : fees[i].from \in Nat
        BY <3>2 DEF FeeEntry
      <3>4. Len(fees) \in Nat /\ Len(fees) > 0
        BY <3>1 DEF ValidHistory
      <3> QED BY <3>1, <3>3, <3>4 DEF ValidHistory
    <2>4. Last(fees) = fees[Len(fees)]
      BY DEF Last
    <2>5. fees' \in Seq(FeeEntry) /\ Len(fees') = Len(fees) + 1 /\ fees'[Len(fees) + 1] = e
          /\ \A i \in 1..Len(fees) : fees'[i] = fees[i]
      BY <2>1, <2>2, <2>3
    <2>6. ASSUME NEW i \in 1..Len(fees) PROVE fees'[i].from < fees'[i + 1].from
      <3>1. CASE i = Len(fees)
        <4>1. fees'[i].from = Last(fees).from /\ fees'[i + 1].from = feeRead + 1
          BY <2>3, <2>4, <2>5, <3>1
        <4>2. Last(fees).from \in Nat
          BY <2>3, <2>4
        <4> QED BY <1>0, <1>2, <4>1, <4>2
      <3>2. CASE i # Len(fees)
        BY <2>3, <2>5, <3>2
      <3> QED BY <3>1, <3>2
    <2>7. ValidHistory(fees')
      BY <2>3, <2>5, <2>6 DEF ValidHistory
    <2>8. ASSUME ~lagged' PROVE ~lagged /\ \A b \in 0..height : FeeAtBlock(fees', b) = FeeAtBlock(fees, b)
      <3>1. ~lagged /\ ~(feeRead + 1 <= height)
        BY <2>1, <2>8
      <3>2. \A b \in 0..height : b \in Nat /\ b < feeRead + 1
        BY <1>0, <3>1
      <3>3. ValidHistory(fees) /\ feeRead + 1 \in Nat
        BY <1>0 DEF ChainTypes
      <3> QED BY <2>1, <2>3, <3>1, <3>2, <3>3, FeeOfHistory
    <2>9. lagged' \in BOOLEAN
      BY <2>1
    <2>10. Past
      BY <1>0, <2>8 DEF Past, ChainTypes
    <2> QED BY <1>0, <2>5, <2>7, <2>9, <2>10 DEF ChainTypes
  <1> QED BY <1>1, <1>2

\* A step with a past that leaves commitments, tools, the scan and rows alone.
LEMMA IngestQuiet ==
  ASSUME IngestIInv, Past, ChainTypes', UNCHANGED <<standing, tool, scan, subs>>
  PROVE  IngestIInv'
  BY StandingStays, ToolsStay, ScanStays, RowsUnchanged DEF IngestIInv

\* The operator's steps that enter no row, the empty block, and a foreign transfer.
LEMMA IngestOperator ==
  ASSUME IngestIInv, FeeAssumption, cast' = cast,
         \/ ReadHeight \/ NextBlock \/ CloseNew \/ PlanCarry \/ CopyCarry
         \/ \E a \in Fees : SetFee(a)
         \/ \E h \in Miner : ForeignTransfer(h) \/ Disqualify(h)
  PROVE  IngestIInv' /\ subs' = subs
  <1> USE DEF chainState, campaignState, watcherState
  <1>0. ChainTypes
    BY DEF IngestIInv
  <1>1. CASE ReadHeight
    BY <1>0, <1>1, StillPast, IngestQuiet DEF ReadHeight, ChainTypes
  <1>2. CASE NextBlock
    <2>1. Past /\ paid' = [b \in 1..MaxHeight |-> paid'[b]]
      BY <1>0, <1>2, MinedPast DEF NextBlock, Mined
    <2>2. ChainTypes'
      BY <1>0, <1>2, <2>1 DEF NextBlock, Mined, ChainTypes
    <2> QED BY <1>2, <2>1, <2>2, IngestQuiet DEF NextBlock, Mined
  <1>3. CASE CloseNew
    BY <1>0, <1>3, StillPast, IngestQuiet DEF CloseNew, ChainTypes
  <1>4. CASE PlanCarry
    BY <1>0, <1>4, StillPast, IngestQuiet DEF PlanCarry, ChainTypes
  <1>5. CASE CopyCarry
    BY <1>0, <1>5, StillPast, IngestQuiet DEF CopyCarry, ChainTypes
  <1>6. ASSUME NEW a \in Fees, SetFee(a) PROVE IngestIInv' /\ subs' = subs
    <2>1. Past /\ ChainTypes'
      BY <1>0, <1>6, FeePast
    <2> QED BY <1>6, <2>1, IngestQuiet DEF SetFee
  <1>7. ASSUME NEW h \in Miner, ForeignTransfer(h) PROVE IngestIInv' /\ subs' = subs
    <2>1. PICK a \in Fees \cup {-1} :
            Mined(paid' = [paid EXCEPT ![height + 1] = [by |-> h, amount |-> a]] /\ UNCHANGED standing)
      BY <1>7 DEF ForeignTransfer
    <2>2. Past /\ paid' = [b \in 1..MaxHeight |-> paid'[b]]
      BY <1>0, <1>7, <2>1, MinedPast DEF ForeignTransfer, Mined
    <2>3. ChainTypes'
      BY <1>0, <1>7, <2>1, <2>2, SMTT(30) DEF ForeignTransfer, Mined, ChainTypes
    <2> QED BY <1>7, <2>1, <2>2, <2>3, IngestQuiet, SMTT(30) DEF ForeignTransfer, Mined
  <1>8. ASSUME NEW h \in Miner, Disqualify(h) PROVE IngestIInv' /\ subs' = subs
    BY <1>0, <1>8, StillPast, IngestQuiet DEF Disqualify, ChainTypes
  <1> QED BY <1>1, <1>2, <1>3, <1>4, <1>5, <1>6, <1>7, <1>8

\* The miner's tool: a state it writes for one hotkey stands by that hotkey's payment.
LEMMA ToolMoves ==
  ASSUME IngestIInv, Past, NEW h \in Miner, NEW t \in ToolStates, tool' = [tool EXCEPT ![h] = t],
         t.pc \in {"idle", "uploaded", "paying"} => t.pay = 0,
         t.pay > 0 => t.pay <= height' /\ paid'[t.pay].by = h /\ paid'[t.pay].amount = t.quote,
         t.pc = "ready" /\ t.pay > 0 /\ ~lagged' => t.quote >= FeeAtBlock(fees', t.pay)
  PROVE  ToolKnows'
  <1>1. tool \in [Miner -> ToolStates]
    BY DEF IngestIInv, ToolKnows
  <1>2. tool' \in [Miner -> ToolStates] /\ tool'[h] = t /\ \A k \in Miner : k # h => tool'[k] = tool[k]
    BY <1>1
  <1>3. ASSUME NEW k \in Miner, k # h
        PROVE  LET u == tool'[k] IN
               /\ u.pc \in {"idle", "uploaded", "paying"} => u.pay = 0
               /\ u.pay > 0 => u.pay <= height' /\ paid'[u.pay].by = k /\ paid'[u.pay].amount = u.quote
               /\ u.pc = "ready" /\ u.pay > 0 /\ ~lagged' => u.quote >= FeeAtBlock(fees', u.pay)
    <2>1. tool[k] \in ToolStates /\ tool'[k] = tool[k]
      BY <1>1, <1>2, <1>3
    <2>2. tool[k].pc \in {"idle", "uploaded", "paying"} => tool[k].pay = 0
      BY DEF IngestIInv, ToolKnows
    <2> QED BY <2>1, <2>2, ToolStays
  <1> QED BY <1>2, <1>3 DEF ToolKnows

\* The fee the API publishes is one the operator may set.
LEMMA LastFee == ASSUME ChainTypes PROVE Last(fees).amount \in Fees
  <1>1. fees \in Seq(FeeEntry) /\ ValidHistory(fees)
    BY DEF ChainTypes
  <1>2. Len(fees) \in Nat /\ Len(fees) > 0
    BY <1>1 DEF ValidHistory
  <1>3. Last(fees) \in FeeEntry
    BY <1>1, <1>2 DEF Last
  <1> QED BY <1>3 DEF FeeEntry

\* commit_patch up to its commitment.
LEMMA IngestTool ==
  ASSUME IngestIInv, FeeAssumption, cast' = cast, NEW h \in Miner,
         (\E p \in Patch : UploadPatch(h, p)) \/ QuoteFee(h) \/ PayFee(h) \/ VerifyPaid(h)
  PROVE  IngestIInv' /\ subs' = subs
  <1> USE DEF chainState, campaignState, watcherState
  <1>0. ChainTypes /\ tool \in [Miner -> ToolStates] /\ tool[h] \in ToolStates
    BY DEF IngestIInv, ToolKnows
  <1>1. ASSUME NEW p \in Patch, UploadPatch(h, p) PROVE IngestIInv' /\ subs' = subs
    <2> DEFINE t == [pc |-> "uploaded", patch |-> p, quote |-> 0, pay |-> 0]
    <2>1. Past /\ ChainTypes'
      BY <1>0, <1>1, StillPast DEF UploadPatch, ChainTypes
    <2>2. t \in ToolStates /\ tool' = [tool EXCEPT ![h] = t] /\ t.pc = "uploaded" /\ t.pay = 0
      BY <1>1, FeeAssumption DEF UploadPatch, ToolStates
    <2> HIDE DEF t
    <2>3. ToolKnows'
      <3>1. /\ t.pc \in {"idle", "uploaded", "paying"} => t.pay = 0
            /\ t.pay > 0 => t.pay <= height' /\ paid'[t.pay].by = h /\ paid'[t.pay].amount = t.quote
            /\ t.pc = "ready" /\ t.pay > 0 /\ ~lagged' => t.quote >= FeeAtBlock(fees', t.pay)
        BY <2>2
      <3> QED BY <2>1, <2>2, <3>1, ToolMoves
    <2> QED BY <1>1, <2>1, <2>3, StandingStays, ScanStays, RowsUnchanged DEF UploadPatch,
       IngestIInv
  <1>2. CASE QuoteFee(h)
    <2> DEFINE t == [tool[h] EXCEPT !.quote = Last(fees).amount,
                                    !.pc = IF Last(fees).amount > 0 THEN "paying" ELSE "ready"]
    <2>1. Past /\ ChainTypes'
      BY <1>0, <1>2, StillPast DEF QuoteFee, ChainTypes
    <2>2. Last(fees).amount \in Fees
      BY <1>0, LastFee
    <2>3. tool[h].pay = 0
      BY <1>2 DEF IngestIInv, ToolKnows, QuoteFee
    <2>4. t \in ToolStates /\ t.pay = 0
      BY <1>0, <2>2, <2>3 DEF ToolStates
    <2>5. tool' = [tool EXCEPT ![h] = t]
      BY <1>0, <1>2 DEF QuoteFee
    <2> HIDE DEF t
    <2>6. ToolKnows'
      <3>1. /\ t.pc \in {"idle", "uploaded", "paying"} => t.pay = 0
            /\ t.pay > 0 => t.pay <= height' /\ paid'[t.pay].by = h /\ paid'[t.pay].amount = t.quote
            /\ t.pc = "ready" /\ t.pay > 0 /\ ~lagged' => t.quote >= FeeAtBlock(fees', t.pay)
        BY <2>4
      <3> QED BY <2>1, <2>4, <2>5, <3>1, ToolMoves
    <2> QED BY <1>2, <2>1, <2>6, StandingStays, ScanStays, RowsUnchanged DEF QuoteFee, IngestIInv
  <1>3. CASE PayFee(h)
    <2> DEFINE t == [tool[h] EXCEPT !.pc = "paid", !.pay = height + 1]
    <2>1. /\ height < MaxHeight /\ height' = height + 1 /\ standing' = standing
          /\ paid' = [paid EXCEPT ![height + 1] = [by |-> h, amount |-> tool[h].quote]]
          /\ UNCHANGED <<fees, feeRead, lagged, barred, newOpen, subs, carry, scan, drops, forged>>
      BY <1>3 DEF PayFee, Mined
    <2>2. Past /\ paid' = [b \in 1..MaxHeight |-> paid'[b]]
      BY <1>0, <2>1, MinedPast
    <2>3. ChainTypes'
      BY <1>0, <2>1, <2>2 DEF ChainTypes
    <2>4. height + 1 \in 1..MaxHeight /\ height + 1 > 0 /\ height + 1 <= height'
      BY <1>0, <2>1 DEF ChainTypes
    <2>5. paid'[height + 1] = [by |-> h, amount |-> tool[h].quote]
      BY <1>0, <2>1, <2>4 DEF ChainTypes
    <2>6. t \in ToolStates /\ t.pay = height + 1 /\ t.pc = "paid" /\ t.quote = tool[h].quote
      <3>1. height + 1 \in 0..MaxHeight
        BY <1>0, <2>4, FeeAssumption DEF ChainTypes
      <3> QED BY <1>0, <3>1 DEF ToolStates
    <2>7. tool' = [tool EXCEPT ![h] = t]
      BY <1>0, <1>3 DEF PayFee
    <2> HIDE DEF t
    <2>8. ToolKnows'
      <3>1. /\ t.pc \in {"idle", "uploaded", "paying"} => t.pay = 0
            /\ t.pay > 0 => t.pay <= height' /\ paid'[t.pay].by = h /\ paid'[t.pay].amount = t.quote
            /\ t.pc = "ready" /\ t.pay > 0 /\ ~lagged' => t.quote >= FeeAtBlock(fees', t.pay)
        BY <2>4, <2>5, <2>6
      <3> QED BY <2>2, <2>6, <2>7, <3>1, ToolMoves
    <2> QED BY <2>1, <2>2, <2>3, <2>8, StandingStays, ScanStays, RowsUnchanged DEF IngestIInv
  <1>4. CASE VerifyPaid(h)
    <2>1. Past /\ ChainTypes'
      BY <1>0, <1>4, StillPast DEF VerifyPaid, ChainTypes
    <2>2. CASE FeeAt(tool[h].pay) > tool[h].quote
      <3>1. tool' = [tool EXCEPT ![h] = NoTool]
        BY <1>0, <1>4, <2>2 DEF VerifyPaid
      <3>2. NoTool \in ToolStates /\ NoTool.pay = 0 /\ NoTool.pc = "idle"
        BY FeeAssumption, MinerAssumption DEF ToolStates, NoTool
      <3>3. ToolKnows'
        <4>1. /\ NoTool.pc \in {"idle", "uploaded", "paying"} => NoTool.pay = 0
              /\ NoTool.pay > 0 => NoTool.pay <= height' /\ paid'[NoTool.pay].by = h /\ paid'[NoTool.pay].amount = NoTool.quote
              /\ NoTool.pc = "ready" /\ NoTool.pay > 0 /\ ~lagged' => NoTool.quote >= FeeAtBlock(fees', NoTool.pay)
          BY <3>2
        <4> QED BY <2>1, <3>1, <3>2, <4>1, ToolMoves
      <3> QED BY <1>4, <2>1, <3>3, StandingStays, ScanStays, RowsUnchanged DEF VerifyPaid,
         IngestIInv
    <2>3. CASE ~(FeeAt(tool[h].pay) > tool[h].quote)
      <3> DEFINE t == [tool[h] EXCEPT !.pc = "ready"]
      <3>1. tool' = [tool EXCEPT ![h] = t]
        BY <1>0, <1>4, <2>3 DEF VerifyPaid
      <3>2. t \in ToolStates /\ t.pay = tool[h].pay /\ t.quote = tool[h].quote /\ t.pc = "ready"
        BY <1>0 DEF ToolStates
      <3> HIDE DEF t
      <3>3. tool[h].pay > 0 => /\ tool[h].pay <= height' /\ paid'[tool[h].pay].by = h
                               /\ paid'[tool[h].pay].amount = tool[h].quote
        BY <1>0, <2>1, ToolStays
      <3>4. FeeAtBlock(fees, tool[h].pay) \in Nat /\ tool[h].quote \in Nat
        <4>1. tool[h].pay \in Nat /\ tool[h].quote \in Nat
          <5>1. tool[h].pay \in 0..MaxHeight /\ tool[h].quote \in Fees
            BY <1>0 DEF ToolStates
          <5>2. tool[h].pay \in Nat
            BY <5>1
          <5>3. Fees \subseteq Nat
            BY FeeAssumption
          <5> QED BY <5>1, <5>2, <5>3
        <4> QED BY <1>0, <4>1, FeeOfHistory, FeeAssumption DEF ChainTypes
      <3>5. tool[h].quote >= FeeAtBlock(fees', tool[h].pay)
        BY <1>4, <2>3, <3>4 DEF VerifyPaid, FeeAt
      <3>6. ToolKnows'
        <4>1. /\ t.pc \in {"idle", "uploaded", "paying"} => t.pay = 0
              /\ t.pay > 0 => t.pay <= height' /\ paid'[t.pay].by = h /\ paid'[t.pay].amount = t.quote
              /\ t.pc = "ready" /\ t.pay > 0 /\ ~lagged' => t.quote >= FeeAtBlock(fees', t.pay)
          BY <3>2, <3>3, <3>5
        <4> QED BY <2>1, <3>1, <3>2, <4>1, ToolMoves
      <3> QED BY <1>4, <2>1, <3>6, StandingStays, ScanStays, RowsUnchanged DEF VerifyPaid,
         IngestIInv
    <2> QED BY <2>2, <2>3
  <1> QED BY <1>1, <1>2, <1>3, <1>4

\* A commitment in a new block stands by what its tool paid, or is none of the tool's.
LEMMA StandingMoves ==
  ASSUME IngestIInv, Past, NEW h \in Miner, NEW c \in Coms, standing' = [standing EXCEPT ![h] = c],
         c.block <= height', c.pay <= height',
         c.own /\ c.pay > 0 =>
           /\ c.pay <= c.block
           /\ paid'[c.pay].by = h /\ paid'[c.pay].amount >= 0
           /\ ~lagged' => paid'[c.pay].amount >= FeeAtBlock(fees', c.pay)
  PROVE  StandingKnows'
  <1>1. standing \in [Miner -> Coms]
    BY DEF IngestIInv, StandingKnows
  <1>2. standing' \in [Miner -> Coms] /\ standing'[h] = c /\ \A k \in Miner : k # h => standing'[k] = standing[k]
    BY <1>1
  <1>3. ASSUME NEW k \in Miner, k # h
        PROVE  LET com == standing'[k] IN
               /\ com.block <= height' /\ com.pay <= height'
               /\ com.own /\ com.pay > 0 =>
                    /\ com.pay <= com.block
                    /\ paid'[com.pay].by = k /\ paid'[com.pay].amount >= 0
                    /\ ~lagged' => paid'[com.pay].amount >= FeeAtBlock(fees', com.pay)
    <2>1. standing'[k] = standing[k]
      BY <1>2, <1>3
    <2>2. standing[k].block \in Nat /\ standing[k].pay \in Nat /\ height \in Nat /\ height' \in Nat
      BY DEF IngestIInv, StandingKnows, ChainTypes, Coms, Past
    <2>3. standing[k].block <= height' /\ standing[k].pay <= height'
      BY <2>2 DEF IngestIInv, StandingKnows, Past
    <2>4. ASSUME standing[k].own, standing[k].pay > 0
          PROVE  /\ standing[k].pay <= standing[k].block
                 /\ paid'[standing[k].pay].by = k /\ paid'[standing[k].pay].amount >= 0
                 /\ ~lagged' => paid'[standing[k].pay].amount >= FeeAtBlock(fees', standing[k].pay)
      <3>1. standing[k].pay \in 1..height
        BY <2>2, <2>4 DEF IngestIInv, StandingKnows
      <3>2. paid'[standing[k].pay] = paid[standing[k].pay]
        BY <3>1 DEF Past
      <3>3. ~lagged' => ~lagged /\ FeeAtBlock(fees', standing[k].pay) = FeeAtBlock(fees, standing[k].pay)
        BY <3>1 DEF Past
      <3> QED BY <2>4, <3>2, <3>3 DEF IngestIInv, StandingKnows
    <2> QED BY <2>1, <2>3, <2>4
  <1> QED BY <1>2, <1>3 DEF StandingKnows

\* A commitment by other software.
LEMMA IngestForeign ==
  ASSUME IngestIInv, FeeAssumption, cast' = cast, NEW h \in Miner, ForeignCommit(h)
  PROVE  IngestIInv' /\ subs' = subs
  <1> USE DEF chainState, campaignState, watcherState
  <1>0. ChainTypes
    BY DEF IngestIInv
  <1>1. PICK p \in Patch, ref \in 0..height, by \in {"match", "other", "foreign", "garbage"} :
          Mined(standing' = [standing EXCEPT ![h] =
                  [camp |-> New, patch |-> p, block |-> height + 1, pay |-> ref,
                   bytes |-> by, own |-> FALSE]] /\ UNCHANGED paid)
    BY DEF ForeignCommit
  <1> DEFINE c == [camp |-> New, patch |-> p, block |-> height + 1, pay |-> ref, bytes |-> by, own |-> FALSE]
  <1>2. /\ height < MaxHeight /\ height' = height + 1 /\ paid' = paid
        /\ standing' = [standing EXCEPT ![h] = c]
    BY <1>1 DEF Mined
  <1>3. UNCHANGED <<fees, feeRead, lagged, barred, newOpen, tool, subs, carry, scan, drops>>
        /\ forged' = forged + 1 /\ forged < MaxForged
    BY DEF ForeignCommit
  <1>4. Past
    BY <1>0, <1>2, <1>3, MinedPast
  <1>5. ChainTypes'
    BY <1>0, <1>2, <1>3, FeeAssumption DEF ChainTypes
  <1>6. height + 1 \in 0..MaxHeight /\ ref \in 0..MaxHeight /\ ref <= height'
    BY <1>0, <1>2, FeeAssumption DEF ChainTypes
  <1>7. c \in Coms
    BY <1>6 DEF Coms
  <1>8. c.block <= height' /\ c.pay <= height' /\ ~c.own
    BY <1>2, <1>6
  <1> HIDE DEF c
  <1>9. StandingKnows'
    BY <1>2, <1>4, <1>7, <1>8, StandingMoves
  <1> QED BY <1>3, <1>4, <1>5, <1>9, ToolsStay, ScanStays, RowsUnchanged DEF IngestIInv

\* The tool's own commitment: its payment is older than the block and was verified.
LEMMA IngestSubmit ==
  ASSUME IngestIInv, FeeAssumption, cast' = cast, NEW h \in Miner, SubmitCommit(h)
  PROVE  IngestIInv' /\ subs' = subs
  <1> USE DEF chainState, campaignState, watcherState
  <1>0. ChainTypes /\ tool[h] \in ToolStates /\ tool[h].pc = "ready"
    BY DEF IngestIInv, ToolKnows, SubmitCommit
  <1> DEFINE c == [camp |-> New, patch |-> tool[h].patch, block |-> height + 1, pay |-> tool[h].pay,
                   bytes |-> "match", own |-> TRUE]
  <1>1. /\ height < MaxHeight /\ height' = height + 1 /\ paid' = paid
        /\ standing' = [standing EXCEPT ![h] = c]
    BY DEF SubmitCommit, Mined
  <1>2. UNCHANGED <<fees, feeRead, lagged, barred, newOpen, subs, carry, scan, drops, forged>>
    BY DEF SubmitCommit
  <1>3. Past
    BY <1>0, <1>1, <1>2, MinedPast
  <1>4. ChainTypes'
    BY <1>0, <1>1, <1>2, FeeAssumption DEF ChainTypes
  <1>5. height \in Nat /\ tool[h].pay \in Nat /\ tool[h].pay <= height /\ tool[h].patch \in Patch
    <2>1. height \in Nat /\ tool[h].pay \in Nat /\ tool[h].patch \in Patch
      BY <1>0 DEF ChainTypes, ToolStates
    <2> QED BY <2>1 DEF IngestIInv, ToolKnows
  <1>6. c \in Coms
    <2>1. height + 1 \in 0..MaxHeight /\ tool[h].pay \in 0..MaxHeight
      BY <1>0, <1>1, <1>5, FeeAssumption DEF ChainTypes
    <2> QED BY <1>5, <2>1 DEF Coms
  <1>7. c.block = height + 1 /\ c.pay = tool[h].pay
    OBVIOUS
  <1>8. tool[h].pay > 0 =>
           /\ paid'[tool[h].pay].by = h /\ paid'[tool[h].pay].amount = tool[h].quote
           /\ ~lagged' => tool[h].quote >= FeeAtBlock(fees', tool[h].pay)
    BY <1>0, <1>3, ToolStays
  <1>9. tool[h].quote >= 0
    <2>1. tool[h].quote \in Fees
      BY <1>0 DEF ToolStates
    <2>2. Fees \subseteq Nat
      BY FeeAssumption
    <2>3. tool[h].quote \in Nat
      BY <2>1, <2>2
    <2> QED BY <2>3
  <1>10. /\ c.block <= height' /\ c.pay <= height'
         /\ c.own /\ c.pay > 0 =>
           /\ c.pay <= c.block
           /\ paid'[c.pay].by = h /\ paid'[c.pay].amount >= 0
           /\ ~lagged' => paid'[c.pay].amount >= FeeAtBlock(fees', c.pay)
    BY <1>1, <1>5, <1>7, <1>8, <1>9
  <1> HIDE DEF c
  <1>11. StandingKnows'
    BY <1>1, <1>3, <1>6, <1>10, StandingMoves
  <1>12. ToolKnows'
    <2>1. CASE tool' = tool
      BY <1>3, <2>1, ToolsStay
    <2>2. CASE tool' = [tool EXCEPT ![h] = NoTool]
      <3>1. NoTool \in ToolStates /\ NoTool.pay = 0 /\ NoTool.pc = "idle"
        BY FeeAssumption, MinerAssumption DEF ToolStates, NoTool
      <3>2. /\ NoTool.pc \in {"idle", "uploaded", "paying"} => NoTool.pay = 0
            /\ NoTool.pay > 0 => NoTool.pay <= height' /\ paid'[NoTool.pay].by = h /\ paid'[NoTool.pay].amount = NoTool.quote
            /\ NoTool.pc = "ready" /\ NoTool.pay > 0 /\ ~lagged' => NoTool.quote >= FeeAtBlock(fees', NoTool.pay)
        BY <3>1
      <3> QED BY <1>3, <2>2, <3>1, <3>2, ToolMoves
    <2> QED BY <2>1, <2>2 DEF SubmitCommit
  <1> QED BY <1>2, <1>3, <1>4, <1>11, <1>12, ScanStays, RowsUnchanged DEF IngestIInv

\* The rest of a scan, and a scan that ended, know as much as the scan did.
LEMMA ScanShrinks ==
  ASSUME IngestIInv, ChainTypes', UNCHANGED <<height, paid, fees, lagged>>, scan.todo # <<>>, Skip
  PROVE  ScanKnows'
  <1>1. scan.todo \in Seq(Todo)
    BY DEF IngestIInv, ScanKnows
  <1>2. scan' = [todo |-> Tail(scan.todo), checked |-> FALSE]
    BY DEF Skip
  <1>3. /\ Tail(scan.todo) \in Seq(Todo) /\ Len(Tail(scan.todo)) = Len(scan.todo) - 1
        /\ \A i \in 1..Len(Tail(scan.todo)) : Tail(scan.todo)[i] = scan.todo[i + 1]
    BY <1>1
  <1> DEFINE rest == Tail(scan.todo)
  <1> HIDE DEF rest
  <1>4. \A i \in DOMAIN rest : i + 1 \in DOMAIN scan.todo /\ rest[i] = scan.todo[i + 1]
    BY <1>1, <1>3 DEF rest
  <1>5. DOMAIN rest \subseteq Nat
    BY <1>3 DEF rest
  <1>6. \A i \in DOMAIN rest : rest[i].com.block <= height' /\ rest[i].com.pay <= height'
    BY <1>4 DEF IngestIInv, ScanKnows
  <1>7. ASSUME NEW i \in DOMAIN rest, NEW j \in DOMAIN rest, i < j PROVE rest[i].com.block <= rest[j].com.block
    <2>1. i + 1 < j + 1
      BY <1>5, <1>7
    <2> QED BY <1>4, <2>1 DEF IngestIInv, ScanKnows
  <1>8. scan'.todo = rest /\ scan'.checked = FALSE /\ scan' \in [todo : Seq(Todo), checked : BOOLEAN]
    BY <1>2, <1>3 DEF rest
  <1> QED BY <1>6, <1>7, <1>8 DEF ScanKnows

\* A scan that is over has nothing left to do.
LEMMA ScanEnds == ASSUME scan' = NoScan PROVE ScanKnows'
  <1>1. scan'.todo = <<>> /\ scan'.checked = FALSE /\ scan' \in [todo : Seq(Todo), checked : BOOLEAN]
    BY DEF NoScan
  <1> QED BY <1>1 DEF ScanKnows

\* A scan starts, checks its next commitment, or fails.
LEMMA IngestScan ==
  ASSUME IngestIInv, FeeAssumption, cast' = cast, BeginScan \/ CheckCommitment \/ ScanFails
  PROVE  IngestIInv' /\ subs' = subs
  <1> USE DEF chainState, campaignState, watcherState
  <1>0. ChainTypes /\ scan \in [todo : Seq(Todo), checked : BOOLEAN] /\ standing \in [Miner -> Coms]
    BY DEF IngestIInv, ScanKnows, StandingKnows
  <1>1. UNCHANGED <<height, paid, standing, fees, feeRead, lagged, barred, newOpen, tool, subs, carry, forged>>
    BY DEF BeginScan, CheckCommitment, ScanFails
  <1>2. drops' \in 0..MaxDrops
    <2>1. drops' = drops \/ (drops < MaxDrops /\ drops' = drops + 1)
      BY DEF BeginScan, CheckCommitment, ScanFails, FetchFails
    <2> QED BY <1>0, <2>1, FeeAssumption DEF ChainTypes
  <1>3. ChainTypes' /\ Past
    BY <1>0, <1>1, <1>2, StillPast DEF ChainTypes
  <1>4. StandingKnows' /\ ToolKnows' /\ RowsKnow'
    BY <1>1, <1>3, StandingStays, ToolsStay, RowsUnchanged
  <1>5. CASE BeginScan
    <2>1. PICK order \in [1..Cardinality(Parsed) -> Parsed] :
            /\ \A i, j \in DOMAIN order : i < j => Earlier(order[i], order[j])
            /\ scan' = [NoScan EXCEPT !.todo = [i \in DOMAIN order |->
                                             [key |-> order[i], com |-> standing[order[i]]]]]
      BY <1>5 DEF BeginScan
    <2>2. scan' \in [todo : Seq(Todo), checked : BOOLEAN] /\ ~scan'.checked
          /\ scan'.todo = [i \in DOMAIN order |-> [key |-> order[i], com |-> standing[order[i]]]]
      <3>1. Cardinality(Parsed) \in Nat
        BY MinerAssumption, FS_Subset, FS_CardinalityType DEF Parsed
      <3>2. DOMAIN order = 1..Cardinality(Parsed)
        OBVIOUS
      <3>3. \A i \in DOMAIN order : [key |-> order[i], com |-> standing[order[i]]] \in Todo
        BY <1>0 DEF Parsed, Todo
      <3>4. [i \in DOMAIN order |-> [key |-> order[i], com |-> standing[order[i]]]] \in Seq(Todo)
        BY <3>1, <3>2, <3>3
      <3>5. scan' = [todo |-> [i \in DOMAIN order |-> [key |-> order[i], com |-> standing[order[i]]]],
                     checked |-> FALSE]
        BY <2>1 DEF NoScan
      <3> QED BY <3>4, <3>5
    <2>3. \A i \in DOMAIN order : order[i] \in Miner
      BY DEF Parsed
    <2>4. \A i \in DOMAIN scan'.todo : /\ scan'.todo[i].com = standing[order[i]]
                                       /\ scan'.todo[i].com.block <= height' /\ scan'.todo[i].com.pay <= height'
      BY <1>1, <2>2, <2>3 DEF IngestIInv, StandingKnows
    <2>5. ASSUME NEW i \in DOMAIN scan'.todo, NEW j \in DOMAIN scan'.todo, i < j
          PROVE  scan'.todo[i].com.block <= scan'.todo[j].com.block
      <3>1. i \in DOMAIN order /\ j \in DOMAIN order
        BY <2>2
      <3>2. standing[order[i]].block \in Nat /\ standing[order[j]].block \in Nat
        BY <1>0, <2>3, <3>1 DEF Coms
      <3>3. Earlier(order[i], order[j])
        BY <2>1, <2>5, <3>1
      <3> QED BY <2>4, <3>2, <3>3 DEF Earlier
    <2>6. ScanKnows'
      BY <2>2, <2>4, <2>5 DEF ScanKnows
    <2> QED BY <1>1, <1>3, <1>4, <2>6 DEF IngestIInv
  <1>6. CASE CheckCommitment
    <2> DEFINE h == Head(scan.todo).key
               com == Head(scan.todo).com
    <2>1. scan.todo # <<>> /\ ~scan.checked
      BY <1>6 DEF CheckCommitment
    <2>2. CASE Skip
      BY <1>1, <1>3, <1>4, <2>1, <2>2, ScanShrinks DEF IngestIInv
    <2>3. CASE Admissible(h, com) /\ scan' = [scan EXCEPT !.checked = TRUE]
      <3>1. scan.todo \in Seq(Todo) /\ 1 \in DOMAIN scan.todo /\ Head(scan.todo) = scan.todo[1] /\ scan.todo[1] \in Todo
        BY <1>0, <2>1
      <3>2. scan'.todo = scan.todo /\ scan' \in [todo : Seq(Todo), checked : BOOLEAN]
        BY <1>0, <2>3
      <3>3. FeeOK(h, com)
        BY <2>3 DEF Admissible
      <3>4. com.pay \in Nat /\ com.block \in Nat
        BY <3>1 DEF Todo, Coms
      <3>5. Meets(TermsInForce, h, RowTerms(scan.todo[1]))
        <4>1. RowTerms(scan.todo[1]) = [pay |-> RefOf(h, com), block |-> com.block]
          BY <3>1 DEF RowTerms
        <4>2. com.block >= CompetitionStart
          BY <2>3 DEF Admissible
        <4>3. CASE h \in Exempt
          BY <4>1, <4>2, <4>3 DEF Meets, TermsInForce, RefOf
        <4>4. CASE h \notin Exempt /\ com.pay = 0 /\ FeeAt(com.block) = 0
          BY <4>1, <4>2, <4>4 DEF Meets, TermsInForce, RefOf, FeeAt
        <4>5. CASE h \notin Exempt /\ ~(com.pay = 0 /\ FeeAt(com.block) = 0)
          <5>1. ProofOK(h, com)
            BY <3>3, <4>5 DEF FeeOK
          <5> QED BY <3>4, <4>1, <4>2, <4>5, <5>1 DEF ProofOK, VerifyPayment, Meets, TermsInForce, RefOf, FeeAt
        <4> QED BY <4>3, <4>4, <4>5
      <3>6. Meets(TermsInForce', scan'.todo[1].key, RowTerms(scan.todo[1])')
        <4>1. TermsInForce' = TermsInForce /\ RowTerms(scan.todo[1])' = RowTerms(scan.todo[1])
          BY <1>1, <3>2, SettingsStay DEF TermsInForce, RowTerms, RefOf
        <4> QED BY <1>1, <3>1, <3>2, <3>5, <4>1
      <3>7. ScanKnows'
        BY <1>1, <2>1, <3>2, <3>6 DEF IngestIInv, ScanKnows
      <3> QED BY <1>1, <1>3, <1>4, <3>7 DEF IngestIInv
    <2> QED BY <1>6, <2>2, <2>3 DEF CheckCommitment
  <1>7. CASE ScanFails
    <2>1. ScanKnows'
      BY <1>7, ScanEnds DEF ScanFails
    <2> QED BY <1>1, <1>3, <1>4, <2>1 DEF IngestIInv
  <1> QED BY <1>5, <1>6, <1>7

\* insert_submission enters at most the row it was given, for a hotkey that is not
\* excluded; a payment reference that backs no row yet backs only this one.
LEMMA Inserted ==
  ASSUME IngestIInv, UNCHANGED <<height, paid, fees, lagged, cast>>,
         NEW h \in Miner, NEW p, NEW b \in 0..height, NEW pay \in 0..height, NEW via,
         InsertSubmission(h, p, b, pay, via),
         pay > 0 => ~RefConsumed(New, pay),
         via = "chain" /\ ~lagged => Meets(TermsInForce, h, [pay |-> pay, block |-> b])
  PROVE  /\ RowsKnow'
         /\ \A s \in subs' \ subs : s.key = h /\ h \notin barred /\ s.via = via /\ s.block = b
  <1>0. /\ \A s \in subs : s.camp \in {Old, New} /\ s.key \in Miner /\ s.pay \in 0..height /\ s.block \in 0..height
        /\ ~lagged => \A s \in subs : s.camp = New /\ s.via = "chain" => Meets(TermsInForce, s.key, s)
        /\ \A s, t \in subs : s.pay > 0 /\ s.pay = t.pay => s = t
        /\ \A s, t \in subs : s.camp = t.camp /\ printOf[s.patch] = printOf[t.patch] /\ ~s.dup /\ ~t.dup => s = t
    BY DEF IngestIInv, RowsKnow, RefBacksOne, OneWorkOnce
  <1>t. TermsInForce' = TermsInForce
    BY SettingsStay DEF TermsInForce
  <1>1. CASE h \in barred \/ Taken(New, p)
    <2>1. subs' = subs
      BY <1>1 DEF InsertSubmission
    <2> QED BY <1>0, <1>t, <2>1 DEF RowsKnow, RefBacksOne, OneWorkOnce
  <1>2. CASE ~(h \in barred \/ Taken(New, p))
    <2> DEFINE r == Row(New, p, h, b, pay, Duplicate(New, p), via)
    <2>1. subs' = subs \cup {r}
      BY <1>2 DEF InsertSubmission
    <2>2. /\ r.camp = New /\ r.patch = p /\ r.key = h /\ r.block = b /\ r.pay = pay /\ r.via = via
          /\ r.dup = Duplicate(New, p)
      BY DEF Row
    <2> HIDE DEF r
    <2>3. \A s \in subs' : s.camp \in {Old, New} /\ s.key \in Miner
                           /\ s.pay \in 0..height' /\ s.block \in 0..height'
      BY <1>0, <2>1, <2>2
    <2>4. ASSUME ~lagged', NEW s \in subs', s.camp = New, s.via = "chain" PROVE Meets(TermsInForce', s.key, s)
      <3>1. CASE s \in subs
        BY <1>0, <1>t, <2>4, <3>1
      <3>2. CASE s = r
        BY <1>t, <2>2, <2>4, <3>2 DEF Meets
      <3> QED BY <2>1, <3>1, <3>2
    <2>5. ASSUME NEW s \in subs', NEW t \in subs', s.pay > 0, s.pay = t.pay PROVE s = t
      <3>1. \A u \in subs : pay > 0 => u.pay # pay
        BY DEF RefConsumed
      <3> QED BY <1>0, <2>1, <2>2, <2>5, <3>1
    <2>6. ASSUME NEW s \in subs', NEW t \in subs', s.camp = t.camp,
                 printOf[s.patch] = printOf[t.patch], ~s.dup, ~t.dup
          PROVE  s = t
      <3>1. ASSUME NEW u \in subs, u.camp = New, printOf[u.patch] = printOf[p] PROVE r.dup
        BY <2>2, <3>1 DEF Duplicate
      <3>2. CASE s = r /\ t \in subs
        BY <2>2, <2>6, <3>1, <3>2
      <3>3. CASE t = r /\ s \in subs
        BY <2>2, <2>6, <3>1, <3>3
      <3>4. CASE s \in subs /\ t \in subs
        BY <1>0, <2>6, <3>4
      <3> QED BY <2>1, <3>2, <3>3, <3>4
    <2>7. RowsKnow'
      BY <2>3, <2>4, <2>5, <2>6 DEF RowsKnow, RefBacksOne, OneWorkOnce
    <2> QED BY <1>2, <2>1, <2>2, <2>7
  <1> QED BY <1>1, <1>2

\* A row enters from the watcher or from the carryover: for a hotkey that is not
\* excluded, and from the chain at the earliest block that the scan has left.
EntryStep ==
  \A s \in subs' \ subs :
    /\ s.key \notin barred
    /\ s.via = "chain" => \A i \in DOMAIN scan.todo : s.block <= scan.todo[i].com.block

\* A row is inserted, from the chain or by the carryover: it takes an unused
\* reference, enters as its terms say, and its hotkey is not excluded.
LEMMA IngestInsert ==
  ASSUME IngestIInv, FeeAssumption, cast' = cast, InsertCarry \/ IngestCommitment
  PROVE  IngestIInv' /\ EntryStep
  <1> USE DEF chainState, campaignState, watcherState
  <1>0. ChainTypes /\ height \in Nat /\ height >= 1
    BY DEF IngestIInv, ChainTypes
  <1>1. UNCHANGED <<height, paid, standing, fees, feeRead, lagged, barred, newOpen, tool, drops, forged>>
    BY DEF InsertCarry, IngestCommitment
  <1>2. ChainTypes' /\ Past
    BY <1>0, <1>1, StillPast DEF ChainTypes, InsertCarry, IngestCommitment
  <1>3. StandingKnows' /\ ToolKnows'
    BY <1>1, <1>2, StandingStays, ToolsStay
  <1>4. CASE InsertCarry
    <2>1. InsertSubmission(OldMiner, OldPatch, 1, 0, "carry") /\ scan' = scan
      BY <1>4 DEF InsertCarry
    <2>2. OldMiner \in Miner /\ 1 \in 0..height /\ 0 \in 0..height
      BY <1>0, MinerAssumption
    <2>3. /\ RowsKnow'
          /\ \A s \in subs' \ subs : s.key = OldMiner /\ OldMiner \notin barred /\ s.via = "carry" /\ s.block = 1
      <3>1. /\ 0 > 0 => ~RefConsumed(New, 0)
            /\ "carry" = "chain" /\ ~lagged => Meets(TermsInForce, OldMiner, [pay |-> 0, block |-> 1])
        OBVIOUS
      <3>2. \A b \in 0..height, pay \in 0..height, via \in {"chain", "carry"} :
               /\ InsertSubmission(OldMiner, OldPatch, b, pay, via)
               /\ pay > 0 => ~RefConsumed(New, pay)
               /\ via = "chain" /\ ~lagged => Meets(TermsInForce, OldMiner, [pay |-> pay, block |-> b])
               => /\ RowsKnow'
                  /\ \A s \in subs' \ subs : s.key = OldMiner /\ OldMiner \notin barred /\ s.via = via /\ s.block = b
        BY <1>1, <2>2, Inserted
      <3> QED BY <2>1, <2>2, <3>1, <3>2
    <2>4. ScanKnows'
      BY <1>2, <2>1, ScanStays
    <2> QED BY <1>2, <1>3, <2>3, <2>4 DEF IngestIInv, EntryStep
  <1>5. CASE IngestCommitment
    <2> DEFINE h == Head(scan.todo).key
               com == Head(scan.todo).com
    <2>1. scan.checked /\ scan.todo \in Seq(Todo) /\ scan.todo # <<>>
      BY <1>5 DEF IngestCommitment, IngestIInv, ScanKnows
    <2>2. 1 \in DOMAIN scan.todo /\ Head(scan.todo) = scan.todo[1] /\ scan.todo[1] \in Todo
      BY <2>1
    <2>3. h \in Miner /\ com \in Coms
      BY <2>2 DEF Todo
    <2> DEFINE ref == RefOf(h, com)
    <2>4. com.block \in 0..height /\ ref \in 0..height
      <3>1. com.block <= height /\ com.pay <= height
        BY <2>2 DEF IngestIInv, ScanKnows
      <3>2. com.block \in Nat /\ com.pay \in Nat
        BY <2>3 DEF Coms
      <3> QED BY <1>0, <3>1, <3>2 DEF RefOf
    <2>5. ~lagged => Meets(TermsInForce, h, [pay |-> ref, block |-> com.block])
      BY <2>1, <2>2 DEF IngestIInv, ScanKnows, RowTerms
    <2>6. ASSUME NEW i \in DOMAIN scan.todo PROVE com.block <= scan.todo[i].com.block
      <3>1. CASE i = 1
        BY <2>2, <2>4, <3>1
      <3>2. CASE i # 1
        <4>1. 1 < i
          BY <2>1, <3>2
        <4> QED BY <2>2, <4>1 DEF IngestIInv, ScanKnows
      <3> QED BY <3>1, <3>2
    <2>7. CASE ref > 0 /\ RefConsumed(com.camp, ref)
      <3>1. scan' = NoScan /\ subs' = subs
        BY <1>5, <2>7 DEF IngestCommitment
      <3> QED BY <1>2, <1>3, <3>1, ScanEnds, RowsUnchanged DEF IngestIInv, EntryStep
    <2>8. CASE ~(ref > 0 /\ RefConsumed(com.camp, ref))
      <3>1. InsertSubmission(h, com.patch, com.block, ref, "chain") /\ Skip
        BY <1>5, <2>8 DEF IngestCommitment
      <3>2. ref > 0 => ~RefConsumed(New, ref)
        BY <2>8 DEF RefConsumed
      <3>3. ScanKnows'
        BY <1>1, <1>2, <2>1, <3>1, ScanShrinks
      <3> HIDE DEF h, com, ref
      <3>4. /\ RowsKnow'
            /\ \A s \in subs' \ subs : s.key = h /\ h \notin barred /\ s.via = "chain" /\ s.block = com.block
        BY <1>1, <2>3, <2>4, <2>5, <3>1, <3>2, Inserted
      <3>5. EntryStep
        BY <2>6, <3>4 DEF EntryStep
      <3> QED BY <1>2, <1>3, <3>3, <3>4, <3>5 DEF IngestIInv
    <2> QED BY <2>7, <2>8
  <1> QED BY <1>4, <1>5

\* Every step of miners, operator and watcher keeps the invariant, and enters rows
\* only as the rules say.
LEMMA IngestNext ==
  ASSUME IngestIInv, [NextIngest]_ingestVars
  PROVE  IngestIInv' /\ [EntryStep]_ingestVars
  <1> USE FeeAssumption
  <1>1. CASE UNCHANGED ingestVars
    <2>1. UNCHANGED <<height, fees, feeRead, lagged, paid, standing, tool, subs, barred, newOpen,
                carry, scan, failed, drops, forged, cast>>
      BY <1>1 DEF ingestVars
    <2>2. ChainTypes
      BY DEF IngestIInv
    <2>3. Past /\ ChainTypes'
      BY <2>1, <2>2, StillPast DEF ChainTypes
    <2> QED BY <1>1, <2>1, <2>3, IngestQuiet
  <1>2. ASSUME subs' = subs PROVE EntryStep
    BY <1>2 DEF EntryStep
  <1> SUFFICES ASSUME NextIngest, cast' = cast PROVE IngestIInv' /\ EntryStep
    BY <1>1 DEF NextIngest
  <1>3. CASE NextBlock
    BY <1>2, <1>3, IngestOperator
  <1>4. CASE ToolNext
    <2>1. PICK h \in ToolUser : \/ \E p \in Patch : UploadPatch(h, p)
                                \/ QuoteFee(h) \/ PayFee(h) \/ VerifyPaid(h) \/ SubmitCommit(h)
      BY <1>4 DEF ToolNext
    <2>2. h \in Miner
      BY MinerAssumption
    <2> QED BY <1>2, <2>1, <2>2, IngestTool, IngestSubmit
  <1>5. CASE BeginScan \/ CheckCommitment \/ ScanFails
    BY <1>2, <1>5, IngestScan
  <1>6. CASE IngestCommitment \/ InsertCarry
    BY <1>6, IngestInsert
  <1>7. CASE \/ ReadHeight \/ CloseNew \/ PlanCarry \/ CopyCarry
             \/ \E a \in Fees : SetFee(a)
             \/ \E h \in Miner : ForeignTransfer(h) \/ Disqualify(h)
    BY <1>2, <1>7, IngestOperator
  <1>8. ASSUME NEW h \in Miner, ForeignCommit(h) PROVE IngestIInv' /\ EntryStep
    BY <1>2, <1>8, IngestForeign
  <1>9. CASE Others
    BY <1>6, <1>7, <1>8, <1>9 DEF Others
  <1> QED BY <1>3, <1>4, <1>5, <1>6, <1>9 DEF NextIngest, WatcherNext

\* It says what AdmissionSafe asks.
LEMMA IngestImplies ==
  IngestIInv => TypeOKIngest /\ RefBacksOne /\ TermsMet /\ ToolProofAccepted /\ OneWorkOnce
  <1> SUFFICES ASSUME IngestIInv
               PROVE  TypeOKIngest /\ RefBacksOne /\ TermsMet /\ ToolProofAccepted /\ OneWorkOnce
    OBVIOUS
  <1>1. RefBacksOne /\ OneWorkOnce
    BY DEF IngestIInv, RowsKnow
  <1>2. height \in 1..MaxHeight
    BY DEF IngestIInv, ChainTypes
  <1>3. TypeOKIngest
    <2>1. \A h \in Miner : tool[h].pc \in {"idle", "uploaded", "paying", "paid", "ready"}
      BY DEF IngestIInv, ToolKnows, ToolStates
    <2>2. \A s \in subs : s.camp \in {Old, New} /\ s.key \in Miner /\ s.pay \in 0..MaxHeight
      BY <1>2, FeeAssumption DEF IngestIInv, RowsKnow
    <2>3. feeRead \in 0..MaxHeight
      BY <1>2, FeeAssumption DEF IngestIInv, ChainTypes
    <2> QED BY <1>2, <2>1, <2>2, <2>3 DEF IngestIInv, ChainTypes, TypeOKIngest
  <1>4. TermsMet
    BY DEF IngestIInv, RowsKnow, TermsMet, Meets, TermsInForce, FeeAt
  <1>5. ASSUME ~lagged, NEW h \in Miner, standing[h].own, standing[h].pay > 0, ~RefConsumed(New, standing[h].pay)
        PROVE  ProofOK(h, standing[h])
    <2>1. ~RefConsumed(standing[h].camp, standing[h].pay)
      BY <1>5 DEF RefConsumed
    <2>2. /\ standing[h].pay <= standing[h].block
          /\ paid[standing[h].pay].by = h /\ paid[standing[h].pay].amount >= 0
          /\ paid[standing[h].pay].amount >= FeeAtBlock(fees, standing[h].pay)
      BY <1>5 DEF IngestIInv, StandingKnows
    <2> QED BY <1>5, <2>1, <2>2 DEF ProofOK, VerifyPayment, FeeAt
  <1> QED BY <1>1, <1>3, <1>4, <1>5 DEF ToolProofAccepted

-----------------------------------------------------------------------------
(* The benchmark and its progress (Bench). *)

\* The statuses a candidate can end with before it is settled, the legs of the
\* candidates, and the scorer's leg.
Fallen == {"disqualified", "infra_failed"}
CandidateLeg == 3..(NCandidates + 2)
Scorer == NCandidates + 3

\* What each variable of the benchmark holds.
BenchTypes ==
  /\ leader \in Entries /\ concurrent \in BOOLEAN
  /\ leg \in 1..(NCandidates + 4) /\ tries \in 0..MaxStarts
  /\ hstep \in {"stage", "start", "run", "boot", "serving", "ended"}
  /\ up \subseteq 1..Scorer /\ stuck \subseteq up
  /\ excluded \subseteq Prompt /\ Cardinality(excluded) <= MaxUnstable
  /\ replayed \in [Candidate -> SUBSET Prompt]
  /\ crun \in [Candidate -> Over \cup {"none"}]
  /\ verdicts \in [Entries -> {"none", "pass", "fail_correctness", "infra_failed"}]
  /\ beacon \in [Entries -> Over \cup {"none", "running"}]
  /\ live \in [Entries -> Statuses]
  /\ round \in {"running", "complete", "void"}
  /\ benchFaults \in 0..MaxBenchFaults

\* The report: none, an error that names nobody, or an entry per candidate.
ReportTypes ==
  /\ DOMAIN report.entries \in {{}, Candidate}
  /\ report.verdict # "pass" => DOMAIN report.entries = {}

\* What holds at each step of the harness.
HarnessAt ==
  /\ hstep \in {"stage", "run", "boot", "serving"} => leg <= Scorer
  /\ hstep = "stage" => leg = 1 /\ up = {}
  /\ hstep \in {"stage", "start"} => tries = 0
  /\ hstep = "run" => tries < MaxStarts
  /\ hstep \in {"boot", "serving"} => leg \in up \ stuck
  /\ up \ stuck \subseteq {leg}
  /\ hstep \in {"start", "run"} => up = stuck
  /\ exit # "none" => hstep = "ended"
  /\ exit \in {"engine", "env"} => leg <= Scorer

\* A candidate whose leg is under way has been announced.
LegAnnounced ==
  hstep \in {"run", "boot", "serving"} /\ leg \in CandidateLeg => beacon[leg - 2] = "running"

\* A candidate has a result only once its leg is behind, and its progress starts with
\* that leg.
LegOrder ==
  \A c \in Candidate :
    /\ crun[c] # "none" => c + 2 < leg
    /\ crun[c] = "none" => beacon[c] \in {"none", "running"}
    /\ crun[c] = "scored" /\ leg <= Scorer => beacon[c] = "running"

\* A terminal status in the progress file says what became of the candidate.
BeaconMeans ==
  \A c \in Candidate :
    /\ beacon[c] # "scored"
    /\ beacon[c] \in Fallen /\ crun[c] = "infra_failed" => beacon[c] = "infra_failed"
    /\ beacon[c] \in Fallen /\ crun[c] = "disqualified" =>
         beacon[c] = IF c = leader THEN "infra_failed" ELSE "disqualified"
    /\ beacon[c] \in Fallen /\ crun[c] = "scored" =>
         /\ verdicts[c] \in {"fail_correctness", "infra_failed"}
         /\ beacon[c] = VerdictStatus(verdicts[c])

\* A pass report says the same, of a harness that has ended.
ReportMeans ==
  /\ report.verdict # "none" => hstep = "ended"
  /\ report.verdict = "pass" => \A c \in Candidate :
       /\ crun[c] # "scored" => report.entries[c] = crun[c]
       /\ crun[c] = "scored" /\ verdicts[c] \in {"fail_correctness", "infra_failed"} =>
            report.entries[c] = VerdictStatus(verdicts[c])
       /\ report.entries[c] \in Over \cup {"none"}

\* The worker judges a harness that has ended, after it stopped its poller.
WorkerAt ==
  /\ wstep \in {"final", "teardown", "judge"} => hstep = "ended"
  /\ wstep \in {"teardown", "judge", "void"} => stopped
  /\ phase = "teardown" => stopped
  /\ round = "complete" => wstep = "done" /\ hstep = "ended" /\ report.verdict = "pass"

\* What the poll holds was in the progress file, and every terminal status still is.
PollMeans ==
  /\ stopped \in BOOLEAN
  /\ poll.at = "phase" => poll.phase \in {"correctness", "sla_bench"}
  /\ poll.at = "rows" =>
       /\ poll.batch \in [Entries -> Over \cup {"none", "running"}]
       /\ \A c \in Candidate :
            /\ poll.batch[c] # "scored"
            /\ poll.batch[c] \in Fallen => beacon[c] = poll.batch[c]

\* A row that was told a terminal status was told the one in the file.
LiveMeans ==
  round # "complete" => \A c \in Candidate :
    /\ live[c] # "scored"
    /\ live[c] \in Fallen => beacon[c] = live[c]

\* The inductive invariant of the benchmark.
BenchIInv ==
  /\ BenchTypes /\ ReportTypes /\ HarnessAt /\ LegAnnounced /\ LegOrder
  /\ BeaconMeans /\ ReportMeans /\ WorkerAt /\ PollMeans /\ LiveMeans
  /\ SamePrompts /\ HarnessFaultChargesNobody

\* plan_round_starts puts the baseline first, its drift run second, then the
\* candidates in order, and the scorer last.
LEMMA PlanOrder ==
  /\ Len(Plan) = Scorer
  /\ Plan[1].kind = "baseline" /\ Plan[1].entry = 0
  /\ Plan[2].kind = "drift" /\ Plan[2].entry = 0
  /\ Plan[Scorer].kind = "scorer" /\ Plan[Scorer].entry = 0
  /\ \A i \in CandidateLeg : Plan[i].kind = "candidate" /\ Plan[i].entry = i - 2
  <1> DEFINE Start == [kind : {"baseline", "drift", "candidate", "scorer"}, entry : Nat]
             mid == CandidateStarts
             head == TrustedStart("baseline") \o TrustedStart("drift")
             front == head \o mid
             tail == TrustedStart("scorer")
  <1>0. NCandidates \in Nat \ {0}
    BY BenchAssumption
  <1>1. /\ mid \in Seq(Start) /\ Len(mid) = NCandidates
        /\ \A i \in 1..NCandidates : mid[i] = [kind |-> "candidate", entry |-> i]
    BY <1>0 DEF CandidateStarts, Candidate
  <1>2. /\ head \in Seq(Start) /\ Len(head) = 2
        /\ head[1] = [kind |-> "baseline", entry |-> 0] /\ head[2] = [kind |-> "drift", entry |-> 0]
    BY DEF TrustedStart
  <1>3. tail \in Seq(Start) /\ Len(tail) = 1 /\ tail[1] = [kind |-> "scorer", entry |-> 0]
    BY DEF TrustedStart
  <1>4. Plan = front \o tail
    BY DEF Plan
  <1> HIDE DEF mid, head, tail, Start
  <1>5. /\ front \in Seq(Start) /\ Len(front) = NCandidates + 2
        /\ front[1] = head[1] /\ front[2] = head[2]
        /\ \A i \in CandidateLeg : front[i] = mid[i - 2]
    <2>1. /\ front \in Seq(Start) /\ Len(front) = Len(head) + Len(mid)
          /\ \A i \in 1..(Len(head) + Len(mid)) :
               front[i] = IF i <= Len(head) THEN head[i] ELSE mid[i - Len(head)]
      BY <1>1, <1>2, ConcatProperties
    <2> HIDE DEF front
    <2> QED BY <2>1, <1>0, <1>1, <1>2 DEF CandidateLeg
  <1> HIDE DEF front
  <1>6. /\ Len(Plan) = NCandidates + 3
        /\ Plan[1] = front[1] /\ Plan[2] = front[2]
        /\ \A i \in CandidateLeg : Plan[i] = front[i]
        /\ Plan[NCandidates + 3] = tail[1]
    <2>1. /\ Len(Plan) = Len(front) + Len(tail)
          /\ \A i \in 1..(Len(front) + Len(tail)) :
               Plan[i] = IF i <= Len(front) THEN front[i] ELSE tail[i - Len(front)]
      BY <1>3, <1>4, <1>5, ConcatProperties
    <2> QED BY <2>1, <1>0, <1>3, <1>5 DEF CandidateLeg
  <1>7. \A i \in CandidateLeg : i - 2 \in 1..NCandidates
    BY <1>0 DEF CandidateLeg
  <1> QED BY <1>1, <1>2, <1>3, <1>5, <1>6, <1>7 DEF Scorer

\* What the harness is at, read off its position.
LEMMA AtLeg ==
  ASSUME leg \in 1..Scorer
  PROVE  /\ Kind = "baseline" <=> leg = 1
         /\ Kind = "drift" <=> leg = 2
         /\ Kind = "scorer" <=> leg = Scorer
         /\ Kind = "candidate" <=> leg \in CandidateLeg
         /\ leg \in CandidateLeg => Entry = leg - 2 /\ Entry \in Candidate
         /\ leg \notin CandidateLeg => Entry = 0
  <1>0. NCandidates \in Nat \ {0}
    BY BenchAssumption
  <1>1. leg = 1 \/ leg = 2 \/ leg = Scorer \/ leg \in CandidateLeg
    BY <1>0 DEF Scorer, CandidateLeg
  <1>2. /\ Scorer # 1 /\ Scorer # 2 /\ Scorer \notin CandidateLeg
        /\ 1 \notin CandidateLeg /\ 2 \notin CandidateLeg
        /\ \A i \in CandidateLeg : i - 2 \in Candidate
    BY <1>0 DEF Scorer, CandidateLeg, Candidate
  <1> QED BY <1>1, <1>2, PlanOrder DEF Kind, Entry

\* A round that was just started.
LEMMA BenchInit == InitBench => BenchIInv
  <1> SUFFICES ASSUME InitBench PROVE BenchIInv
    OBVIOUS
  <1>0. NCandidates \in Nat \ {0} /\ MaxStarts \in Nat \ {0} /\ MaxBenchFaults \in Nat /\ MaxUnstable \in Nat
    BY BenchAssumption
  <1>1. PICK s \in Shapes : leader = s[1] /\ concurrent = s[2]
    BY DEF InitBench
  <1>2. leader \in Entries /\ concurrent \in BOOLEAN
    BY <1>1, BenchAssumption DEF Entries
  <1>3. Cardinality({}) = 0
    BY FS_EmptySet
  <1>4. BenchTypes
    BY <1>0, <1>2, <1>3 DEF InitBench, BenchTypes, Over, Statuses, Scorer
  <1>5. ReportTypes /\ HarnessAt /\ LegOrder /\ BeaconMeans /\ ReportMeans
    BY <1>0 DEF InitBench, ReportTypes, HarnessAt, LegOrder, BeaconMeans, ReportMeans, Scorer,
       Fallen,
          Entries, Candidate
  <1>6. PollMeans
    BY DEF InitBench, PollMeans, Idle
  <1>7. WorkerAt /\ LiveMeans
    BY DEF InitBench, WorkerAt, LiveMeans, Fallen, Entries, Candidate
  <1>8. SamePrompts /\ HarnessFaultChargesNobody /\ LegAnnounced
    BY DEF InitBench, SamePrompts, HarnessFaultChargesNobody, LegAnnounced
  <1> QED BY <1>4, <1>5, <1>6, <1>7, <1>8 DEF BenchIInv

\* The worker's half stands while the harness moves, as long as no terminal status
\* is taken back.
LEMMA WorkerWaits ==
  ASSUME BenchIInv, hstep # "ended", UNCHANGED workerVars,
         \A c \in Candidate : beacon[c] \in Fallen => beacon'[c] = beacon[c]
  PROVE  WorkerAt' /\ PollMeans' /\ LiveMeans'
  <1>1. WorkerAt'
    BY DEF BenchIInv, WorkerAt, workerVars
  <1>2. PollMeans'
    BY DEF BenchIInv, PollMeans, workerVars
  <1>3. LiveMeans'
    BY DEF BenchIInv, LiveMeans, workerVars
  <1> QED BY <1>1, <1>2, <1>3

\* A leg of a candidate ends without a result.
LEMMA CandidateEnds ==
  ASSUME BenchIInv, hstep # "ended", leg \in CandidateLeg,
         NEW x \in Fallen, crun' = [crun EXCEPT ![leg - 2] = x],
         beacon' = [beacon EXCEPT ![leg - 2] =
                      IF x = "disqualified" /\ leg - 2 # leader THEN "disqualified" ELSE "infra_failed"],
         leg' = leg + 1, hstep' = "start", tries' = 0,
         up' \subseteq 1..Scorer, up' = stuck', benchFaults' \in 0..MaxBenchFaults,
         UNCHANGED <<leader, concurrent, excluded, replayed, verdicts, report, exit, workerVars>>
  PROVE  BenchIInv'
  <1>0. NCandidates \in Nat \ {0} /\ MaxStarts \in Nat \ {0} /\ leg \in Nat
    BY BenchAssumption DEF CandidateLeg
  <1>1. leg - 2 \in Candidate /\ leg - 2 \in Entries /\ leg < Scorer /\ leg - 2 \in Int
    BY <1>0 DEF CandidateLeg, Candidate, Entries, Scorer
  <1>2. crun[leg - 2] = "none"
    BY <1>0, <1>1 DEF BenchIInv, BenchTypes, LegOrder
  <1>3. BenchTypes'
    <2>1. crun' \in [Candidate -> Over \cup {"none"}]
      BY DEF BenchIInv, BenchTypes, Over, Fallen
    <2>2. beacon' \in [Entries -> Over \cup {"none", "running"}]
      BY DEF BenchIInv, BenchTypes, Over
    <2> QED BY <1>0, <1>1, <2>1, <2>2 DEF BenchIInv, BenchTypes, workerVars, Scorer
  <1>4. ReportTypes' /\ ReportMeans' /\ HarnessAt'
    BY <1>0, <1>1 DEF BenchIInv, ReportTypes, ReportMeans, HarnessAt, Scorer
  <1>5. \A c \in Candidate : c # leg - 2 => crun'[c] = crun[c] /\ beacon'[c] = beacon[c]
    BY DEF BenchIInv, BenchTypes, Candidate, Entries
  <1>6. crun'[leg - 2] = x /\ beacon'[leg - 2] =
           IF x = "disqualified" /\ leg - 2 # leader THEN "disqualified" ELSE "infra_failed"
    BY <1>1 DEF BenchIInv, BenchTypes
  <1>7. \A c \in Candidate : beacon[c] \in Fallen => beacon'[c] = beacon[c]
    BY <1>2, <1>5 DEF BenchIInv, LegOrder, Fallen
  <1>8. LegOrder'
    BY <1>0, <1>1, <1>5, <1>6 DEF BenchIInv, LegOrder, Fallen, Scorer, Candidate
  <1>9. BeaconMeans'
    BY <1>5, <1>6 DEF BenchIInv, BeaconMeans, Fallen, VerdictStatus
  <1>10. SamePrompts' /\ HarnessFaultChargesNobody'
    BY <1>4, <1>5, <1>6 DEF BenchIInv, SamePrompts, HarnessFaultChargesNobody, HarnessAt, Fallen
  <1> QED BY <1>3, <1>4, <1>7, <1>8, <1>9, <1>10, WorkerWaits DEF BenchIInv, LegAnnounced

\* The harness ends the round from a leg of the plan: nobody's status moves.
LEMMA RoundEnds ==
  ASSUME BenchIInv, hstep # "ended", leg <= Scorer, NEW code \in {"engine", "env"}, EndRound(code),
         up' \subseteq 1..Scorer, stuck' \subseteq up', up' \ stuck' \subseteq {leg},
         benchFaults' \in 0..MaxBenchFaults,
         beacon' \in [Entries -> Over \cup {"none", "running"}],
         \A c \in Candidate : beacon'[c] = beacon[c],
         verdicts' \in [Entries -> {"none", "pass", "fail_correctness", "infra_failed"}],
         UNCHANGED <<leader, concurrent, excluded, replayed, crun, workerVars>>
  PROVE  BenchIInv'
  <1>0. NCandidates \in Nat \ {0} /\ leg \in Nat
    BY BenchAssumption DEF BenchIInv, BenchTypes
  <1>1. leg' = leg /\ tries' = tries /\ hstep' = "ended" /\ exit' = code
    BY DEF EndRound
  <1>2. /\ report' = [verdict |-> "error", entries |-> <<>>] \/ report' = report
        /\ report.verdict = "none"
    BY DEF EndRound, BenchIInv, ReportMeans
  <1>3. BenchTypes'
    BY <1>1 DEF BenchIInv, BenchTypes, workerVars
  <1>4. ReportTypes' /\ ReportMeans'
    BY <1>1, <1>2 DEF BenchIInv, ReportTypes, ReportMeans
  <1>5. HarnessAt'
    BY <1>1 DEF HarnessAt
  <1>6. LegOrder'
    BY <1>1 DEF BenchIInv, LegOrder
  <1>7. \A c \in Candidate : crun[c] = "scored" => beacon[c] = "running"
    BY DEF BenchIInv, LegOrder
  <1>8. BeaconMeans'
    BY <1>7 DEF BenchIInv, BeaconMeans, Fallen
  <1>9. SamePrompts' /\ HarnessFaultChargesNobody'
    <2>1. SamePrompts'
      BY DEF BenchIInv, SamePrompts
    <2>2. \A c \in Candidate : crun[c] \in {"none", "scored", "disqualified", "infra_failed"}
      BY DEF BenchIInv, BenchTypes, Over
    <2>3. \A c \in Candidate : beacon[c] = "disqualified" => crun[c] = "disqualified"
      BY <1>7, <2>2 DEF BenchIInv, BeaconMeans, LegOrder, Fallen
    <2> QED BY <2>1, <2>3 DEF HarnessFaultChargesNobody
  <1>10. WorkerAt' /\ PollMeans' /\ LiveMeans'
    BY WorkerWaits
  <1>11. LegAnnounced'
    BY <1>1 DEF LegAnnounced
  <1> QED BY <1>3, <1>4, <1>5, <1>6, <1>8, <1>9, <1>10, <1>11 DEF BenchIInv

\* The harness goes on with its progress file, its results and its report as they are.
LEMMA HarnessGoesOn ==
  ASSUME BenchIInv, hstep # "ended", HarnessAt', LegAnnounced', hstep' # "ended",
         leg' = leg \/ (leg' = leg + 1 /\ leg <= Scorer /\ (leg = Scorer => Pending = {})),
         tries' \in 0..MaxStarts,
         hstep' \in {"stage", "start", "run", "boot", "serving"},
         up' \subseteq 1..Scorer, stuck' \subseteq up', benchFaults' \in 0..MaxBenchFaults,
         excluded' \subseteq Prompt, Cardinality(excluded') <= MaxUnstable,
         excluded' = excluded \/ leg <= 2,
         beacon' \in [Entries -> Over \cup {"none", "running"}],
         \A c \in Candidate : beacon'[c] = beacon[c] \/ (crun[c] = "none" /\ beacon'[c] = "running"),
         UNCHANGED <<leader, concurrent, replayed, crun, verdicts, report, exit, workerVars>>
  PROVE  BenchIInv'
  <1>0. NCandidates \in Nat \ {0} /\ leg \in Nat
    BY BenchAssumption DEF BenchIInv, BenchTypes
  <1>1. BenchTypes'
    BY <1>0 DEF BenchIInv, BenchTypes, workerVars, Scorer
  <1>2. ReportTypes' /\ ReportMeans'
    BY DEF BenchIInv, ReportTypes, ReportMeans
  <1>3. \A c \in Candidate : c \in Int /\ (crun[c] = "scored" => (c + 2 < leg /\ leg # Scorer) \/ leg' = leg)
    BY <1>0 DEF BenchIInv, LegOrder, Pending, Candidate
  <1>4. \A c \in Candidate : crun'[c] # "none" => c + 2 < leg'
    BY <1>0, <1>3 DEF BenchIInv, LegOrder
  <1>5. \A c \in Candidate : crun'[c] = "none" => beacon'[c] \in {"none", "running"}
    BY DEF BenchIInv, LegOrder
  <1>6. \A c \in Candidate : crun'[c] = "scored" /\ leg' <= Scorer => beacon'[c] = "running"
    BY <1>0 DEF BenchIInv, LegOrder, Scorer
  <1>7. LegOrder'
    BY <1>4, <1>5, <1>6 DEF LegOrder
  <1>8. BeaconMeans'
    BY DEF BenchIInv, BeaconMeans, LegOrder, Fallen
  <1>9. leg <= 2 => \A c \in Candidate : crun[c] # "scored"
    BY <1>0 DEF BenchIInv, LegOrder, Candidate
  <1>10. SamePrompts'
    BY <1>9 DEF BenchIInv, SamePrompts
  <1>11. HarnessFaultChargesNobody'
    BY DEF BenchIInv, HarnessFaultChargesNobody, HarnessAt
  <1>12. \A c \in Candidate : beacon[c] \in Fallen => beacon'[c] = beacon[c]
    BY DEF BenchIInv, LegOrder, Fallen
  <1>13. WorkerAt' /\ PollMeans' /\ LiveMeans'
    BY <1>12, WorkerWaits
  <1> QED BY <1>1, <1>2, <1>7, <1>8, <1>10, <1>11, <1>13 DEF BenchIInv

\* RemoveContainer of a leg that booted leaves only what would not go.
LEMMA Removed ==
  ASSUME BenchIInv, hstep \in {"boot", "serving"}, RemoveContainer
  PROVE  /\ up' \subseteq 1..Scorer /\ up' = stuck' /\ benchFaults' \in 0..MaxBenchFaults
         /\ leg \in 1..Scorer
  <1>0. MaxBenchFaults \in Nat /\ NCandidates \in Nat
    BY BenchAssumption
  <1>1. leg \in 1..Scorer /\ leg \in up \ stuck /\ up \ stuck \subseteq {leg} /\ stuck \subseteq up
    BY <1>0 DEF BenchIInv, BenchTypes, HarnessAt, Scorer
  <1>2. up' = stuck'
    BY <1>1 DEF RemoveContainer
  <1>3. up' \subseteq 1..Scorer
    BY DEF RemoveContainer, BenchIInv, BenchTypes
  <1>4. benchFaults' \in 0..MaxBenchFaults
    BY <1>0 DEF RemoveContainer, BenchFault, BenchIInv, BenchTypes
  <1> QED BY <1>1, <1>2, <1>3, <1>4

\* Whatever a leg fails of, it falls on its candidate or ends the round.
LEMMA LegFailsOK ==
  ASSUME BenchIInv, hstep \in {"run", "boot", "serving"}, NEW why \in {"crash", "infra"}, LegFails(why),
         up' \subseteq 1..Scorer, up' = stuck', benchFaults' \in 0..MaxBenchFaults,
         UNCHANGED <<leader, concurrent, excluded, replayed, verdicts, workerVars>>
  PROVE  BenchIInv'
  <1>0. leg \in 1..Scorer /\ leg <= Scorer
    BY BenchAssumption DEF BenchIInv, BenchTypes, HarnessAt, Scorer
  <1>1. CASE leg \in CandidateLeg /\ why = "crash"
    <2>1. Crashed /\ Advance /\ UNCHANGED <<report, exit>>
      BY <1>0, <1>1, AtLeg DEF LegFails
    <2>2. Entry = leg - 2
      BY <1>0, <1>1, AtLeg
    <2>3. /\ crun' = [crun EXCEPT ![leg - 2] = "disqualified"]
          /\ beacon' = [beacon EXCEPT ![leg - 2] =
               IF leg - 2 # leader THEN "disqualified" ELSE "infra_failed"]
      BY <2>1, <2>2 DEF Crashed, Note
    <2>4. "disqualified" \in Fallen
      BY DEF Fallen
    <2> QED BY <1>1, <2>1, <2>3, <2>4, CandidateEnds DEF Advance
  <1>2. CASE leg \in CandidateLeg /\ why # "crash"
    <2>1. /\ crun' = [crun EXCEPT ![Entry] = "infra_failed"]
          /\ Note(Entry, "infra_failed")
          /\ Advance /\ UNCHANGED <<report, exit>>
      BY <1>0, <1>2, AtLeg DEF LegFails
    <2>2. Entry = leg - 2
      BY <1>0, <1>2, AtLeg
    <2>3. /\ crun' = [crun EXCEPT ![leg - 2] = "infra_failed"]
          /\ beacon' = [beacon EXCEPT ![leg - 2] = "infra_failed"]
      BY <2>1, <2>2 DEF Note
    <2>4. "infra_failed" \in Fallen
      BY DEF Fallen
    <2> QED BY <1>2, <2>1, <2>3, <2>4, CandidateEnds DEF Advance
  <1>3. CASE leg \notin CandidateLeg
    <2>1. /\ IF Kind = "baseline" THEN Note(0, "infra_failed") ELSE UNCHANGED beacon
          /\ EndRound("engine") /\ UNCHANGED crun
      BY <1>0, <1>3, AtLeg DEF LegFails
    <2>2. /\ beacon' \in [Entries -> Over \cup {"none", "running"}]
          /\ \A c \in Candidate : beacon'[c] = beacon[c]
      BY <2>1, BenchAssumption DEF Note, BenchIInv, BenchTypes, Over, Entries, Candidate
    <2>3. verdicts' \in [Entries -> {"none", "pass", "fail_correctness", "infra_failed"}]
      BY DEF BenchIInv, BenchTypes
    <2>4. stuck' \subseteq up' /\ up' \ stuck' \subseteq {leg}
      OBVIOUS
    <2> QED BY <1>0, <2>1, <2>2, <2>3, <2>4, RoundEnds
  <1> QED BY <1>1, <1>2, <1>3

\* Staging, and the starts that are skipped or announced.
LEMMA StageOK == ASSUME BenchIInv, StageFails \/ StageDone PROVE BenchIInv'
  <1>0. leg = 1 /\ 1 <= Scorer /\ up = {} /\ stuck = {} /\ tries = 0 /\ hstep = "stage"
    BY BenchAssumption DEF BenchIInv, BenchTypes, HarnessAt, StageFails, StageDone, Scorer
  <1>1. CASE StageFails
    <2>1. /\ beacon' \in [Entries -> Over \cup {"none", "running"}]
          /\ \A c \in Candidate : beacon'[c] = beacon[c]
          /\ verdicts' \in [Entries -> {"none", "pass", "fail_correctness", "infra_failed"}]
          /\ benchFaults' \in 0..MaxBenchFaults
      BY <1>1 DEF StageFails, BenchIInv, BenchTypes
    <2>2. up' \subseteq 1..Scorer /\ stuck' \subseteq up' /\ up' \ stuck' \subseteq {leg}
      BY <1>0, <1>1 DEF StageFails
    <2> QED BY <1>0, <1>1, <2>1, <2>2, RoundEnds DEF StageFails
  <1>2. CASE StageDone
    <2>1. HarnessAt' /\ LegAnnounced'
      BY <1>0, <1>2 DEF StageDone, BenchIInv, HarnessAt, LegAnnounced
    <2>2. /\ tries' \in 0..MaxStarts /\ up' \subseteq 1..Scorer /\ stuck' \subseteq up'
          /\ benchFaults' \in 0..MaxBenchFaults
          /\ excluded' \subseteq Prompt /\ Cardinality(excluded') <= MaxUnstable
          /\ beacon' \in [Entries -> Over \cup {"none", "running"}]
      BY <1>2 DEF StageDone, BenchIInv, BenchTypes
    <2> QED BY <1>0, <1>2, <2>1, <2>2, HarnessGoesOn DEF StageDone
  <1> QED BY <1>1, <1>2

\* A candidate is skipped because the leader failed.
LEMMA SkipCandidateOK == ASSUME BenchIInv, SkipCandidate PROVE BenchIInv'
  <1>0. leg \in 1..Scorer /\ leg \in CandidateLeg /\ Entry = leg - 2
    BY PlanOrder, AtLeg, BenchAssumption DEF SkipCandidate, BenchIInv, BenchTypes, Scorer
  <1>1. "infra_failed" \in Fallen
    BY DEF Fallen
  <1>2. /\ crun' = [crun EXCEPT ![leg - 2] = "infra_failed"]
        /\ beacon' = [beacon EXCEPT ![leg - 2] = "infra_failed"]
    BY <1>0 DEF SkipCandidate, Note
  <1>3. up' \subseteq 1..Scorer /\ up' = stuck' /\ benchFaults' \in 0..MaxBenchFaults
    BY DEF SkipCandidate, BenchIInv, BenchTypes, HarnessAt
  <1> QED BY <1>0, <1>1, <1>2, <1>3, CandidateEnds DEF SkipCandidate, Advance

\* The scorer is skipped because no output was captured.
LEMMA SkipScorerOK == ASSUME BenchIInv, SkipScorer PROVE BenchIInv'
  <1>0. leg = Scorer /\ leg \in Nat /\ MaxStarts \in Nat \ {0} /\ NCandidates \in Nat
    BY PlanOrder, AtLeg, BenchAssumption DEF SkipScorer, BenchIInv, BenchTypes, Scorer
  <1>1. HarnessAt' /\ LegAnnounced'
    BY <1>0 DEF SkipScorer, Advance, BenchIInv, HarnessAt, LegAnnounced
  <1>2. /\ tries' \in 0..MaxStarts /\ up' \subseteq 1..Scorer /\ stuck' \subseteq up'
        /\ benchFaults' \in 0..MaxBenchFaults
        /\ excluded' \subseteq Prompt /\ Cardinality(excluded') <= MaxUnstable
        /\ beacon' \in [Entries -> Over \cup {"none", "running"}]
    BY <1>0 DEF SkipScorer, Advance, BenchIInv, BenchTypes
  <1>3. leg' = leg + 1 /\ leg <= Scorer /\ (leg = Scorer => Pending = {})
    BY <1>0 DEF SkipScorer, Advance, Scorer
  <1> QED BY <1>1, <1>2, <1>3, HarnessGoesOn DEF SkipScorer, Advance

\* A leg is announced before its container is run.
LEMMA BeginLegOK == ASSUME BenchIInv, BeginLeg PROVE BenchIInv'
  <1>0. leg \in 1..Scorer /\ MaxStarts \in Nat \ {0} /\ tries = 0
    BY PlanOrder, BenchAssumption DEF BeginLeg, BenchIInv, BenchTypes, HarnessAt, Scorer
  <1>1. HarnessAt'
    BY <1>0 DEF BeginLeg, BenchIInv, HarnessAt
  <1>2. /\ tries' \in 0..MaxStarts /\ up' \subseteq 1..Scorer /\ stuck' \subseteq up'
        /\ benchFaults' \in 0..MaxBenchFaults
        /\ excluded' \subseteq Prompt /\ Cardinality(excluded') <= MaxUnstable
    BY <1>0 DEF BeginLeg, BenchIInv, BenchTypes
  <1>3. beacon' = beacon \/ beacon' = [beacon EXCEPT ![Entry] = "running"]
    BY DEF BeginLeg, Note
  <1>4. beacon' \in [Entries -> Over \cup {"none", "running"}]
    BY <1>3 DEF BenchIInv, BenchTypes
  <1>5. \A c \in Candidate : c = Entry => crun[c] = "none"
    BY <1>0, AtLeg DEF BenchIInv, LegOrder, Candidate
  <1>6. \A c \in Candidate : beacon'[c] = beacon[c] \/ (crun[c] = "none" /\ beacon'[c] = "running")
    <2>1. Candidate \subseteq Entries
      BY BenchAssumption DEF Candidate, Entries
    <2>2. beacon \in [Entries -> Over \cup {"none", "running"}]
      BY DEF BenchIInv, BenchTypes
    <2> QED BY <1>3, <1>5, <2>1, <2>2
  <1>7. LegAnnounced'
    <2>1. SUFFICES ASSUME leg \in CandidateLeg PROVE beacon'[leg - 2] = "running"
      BY DEF LegAnnounced, BeginLeg
    <2>2. Kind = "candidate" /\ Entry = leg - 2 /\ Entry \in Entries
      BY <1>0, <2>1, AtLeg, BenchAssumption DEF Candidate, Entries
    <2>3. beacon' = [beacon EXCEPT ![leg - 2] = "running"] /\ leg - 2 \in Entries
      BY <2>2 DEF BeginLeg, Note
    <2> QED BY <2>3 DEF BenchIInv, BenchTypes
  <1> QED BY <1>1, <1>2, <1>4, <1>6, <1>7, HarnessGoesOn DEF BeginLeg

\* Containers start, boot, serve and are started again.
LEMMA EngineUpOK ==
  ASSUME BenchIInv, RunContainer \/ BecomesHealthy \/ NoAccelerator
  PROVE  BenchIInv'
  <1>0. leg \in 1..Scorer /\ MaxStarts \in Nat \ {0} /\ MaxBenchFaults \in Nat /\ tries \in Nat
    BY BenchAssumption DEF RunContainer, BecomesHealthy, NoAccelerator, BenchIInv, BenchTypes,
       HarnessAt, Scorer
  <1>1. /\ excluded' \subseteq Prompt /\ Cardinality(excluded') <= MaxUnstable
        /\ beacon' \in [Entries -> Over \cup {"none", "running"}]
    BY DEF RunContainer, BecomesHealthy, NoAccelerator, BenchIInv, BenchTypes
  <1>2. CASE RunContainer
    <2>1. HarnessAt' /\ LegAnnounced'
      BY <1>0, <1>2 DEF RunContainer, BenchIInv, HarnessAt, BenchTypes, LegAnnounced
    <2>2. /\ tries' \in 0..MaxStarts /\ up' \subseteq 1..Scorer /\ stuck' \subseteq up'
          /\ benchFaults' \in 0..MaxBenchFaults
      BY <1>0, <1>2 DEF RunContainer, BenchIInv, BenchTypes, HarnessAt
    <2> QED BY <1>1, <1>2, <2>1, <2>2, HarnessGoesOn DEF RunContainer
  <1>3. CASE BecomesHealthy
    <2>1. HarnessAt' /\ LegAnnounced'
      BY <1>0, <1>3 DEF BecomesHealthy, BenchIInv, HarnessAt, LegAnnounced
    <2>2. /\ tries' \in 0..MaxStarts /\ up' \subseteq 1..Scorer /\ stuck' \subseteq up'
          /\ benchFaults' \in 0..MaxBenchFaults
      BY <1>3 DEF BecomesHealthy, BenchIInv, BenchTypes
    <2> QED BY <1>1, <1>3, <2>1, <2>2, HarnessGoesOn DEF BecomesHealthy
  <1>4. CASE NoAccelerator
    <2>0. up' \subseteq 1..Scorer /\ up' = stuck' /\ benchFaults' \in 0..MaxBenchFaults
      BY <1>4, Removed DEF NoAccelerator
    <2>1. HarnessAt' /\ LegAnnounced'
      BY <1>0, <1>4, <2>0 DEF NoAccelerator, MayRetry, BenchIInv, HarnessAt, LegAnnounced
    <2>2. tries' \in 0..MaxStarts
      BY <1>4 DEF NoAccelerator, BenchIInv, BenchTypes
    <2> QED BY <1>1, <1>4, <2>0, <2>1, <2>2, HarnessGoesOn DEF NoAccelerator
  <1> QED BY <1>2, <1>3, <1>4

\* A leg fails before docker, at docker, while it boots or while it serves.
LEMMA LegLost ==
  ASSUME BenchIInv,
         RunFails \/ DockerDown \/ ServingFails \/ \E why \in {"crash", "infra"} : BootFails(why)
  PROVE  BenchIInv'
  <1>0. MaxBenchFaults \in Nat /\ NCandidates \in Nat
    BY BenchAssumption
  <1>1. CASE RunFails
    <2>0. leg \in 1..Scorer /\ up \subseteq 1..Scorer /\ up = stuck
      BY <1>0, <1>1 DEF RunFails, BenchIInv, BenchTypes, HarnessAt, Scorer
    <2>1. up' \subseteq 1..Scorer /\ up' = stuck'
      BY <1>1, <2>0 DEF RunFails
    <2>2. benchFaults' \in 0..MaxBenchFaults
      <3>1. benchFaults \in 0..MaxBenchFaults
        BY DEF BenchIInv, BenchTypes
      <3>2. benchFaults' = benchFaults \/ BenchFault
        BY <1>1 DEF RunFails
      <3> QED BY <1>0, <3>1, <3>2 DEF BenchFault
    <2> QED BY <1>1, <2>1, <2>2, LegFailsOK DEF RunFails
  <1>2. CASE DockerDown
    <2>1. /\ up' \subseteq 1..Scorer /\ stuck' \subseteq up' /\ up' \ stuck' \subseteq {leg}
          /\ benchFaults' \in 0..MaxBenchFaults /\ leg <= Scorer /\ hstep # "ended"
      BY <1>0, <1>2 DEF DockerDown, BenchFault, BenchIInv, BenchTypes, HarnessAt
    <2>2. /\ beacon' \in [Entries -> Over \cup {"none", "running"}]
          /\ \A c \in Candidate : beacon'[c] = beacon[c]
          /\ verdicts' \in [Entries -> {"none", "pass", "fail_correctness", "infra_failed"}]
      BY <1>2 DEF DockerDown, BenchIInv, BenchTypes
    <2> QED BY <1>2, <2>1, <2>2, RoundEnds DEF DockerDown
  <1>3. CASE ServingFails
    BY <1>3, Removed, LegFailsOK DEF ServingFails
  <1>4. ASSUME NEW why \in {"crash", "infra"}, BootFails(why) PROVE BenchIInv'
    BY <1>4, Removed, LegFailsOK DEF BootFails
  <1> QED BY <1>1, <1>2, <1>3, <1>4

\* A baseline run is measured: prompts are dropped before any candidate's leg.
LEMMA BaselineServesOK == ASSUME BenchIInv, BaselineServes PROVE BenchIInv'
  <1>0. leg \in 1..2 /\ leg <= Scorer /\ leg # Scorer /\ MaxStarts \in Nat \ {0} /\ leg \in Nat
    <2>1. leg \in 1..Scorer
      BY Removed DEF BaselineServes
    <2> QED BY <2>1, AtLeg, BenchAssumption DEF BaselineServes, Scorer
  <1>1. up' \subseteq 1..Scorer /\ up' = stuck' /\ benchFaults' \in 0..MaxBenchFaults
    BY Removed DEF BaselineServes
  <1>2. PICK d \in SUBSET Prompt : excluded' = excluded \cup d /\ Droppable(excluded')
    BY DEF BaselineServes
  <1>3. excluded' \subseteq Prompt /\ Cardinality(excluded') <= MaxUnstable
    BY <1>2 DEF Droppable, BenchIInv, BenchTypes
  <1>4. beacon' = beacon \/ beacon' = [beacon EXCEPT ![0] = "scored"]
    BY DEF BaselineServes, Note
  <1>5. beacon' \in [Entries -> Over \cup {"none", "running"}]
    BY <1>4 DEF BenchIInv, BenchTypes, Over
  <1>6. \A c \in Candidate : beacon'[c] = beacon[c]
    BY <1>4, BenchAssumption DEF BenchIInv, BenchTypes, Candidate, Entries
  <1>7. leg' = leg + 1 /\ hstep' = "start" /\ tries' = 0
    BY DEF BaselineServes, Advance
  <1>8. HarnessAt' /\ LegAnnounced'
    BY <1>0, <1>1, <1>7 DEF BaselineServes, BenchIInv, HarnessAt, LegAnnounced
  <1>9. tries' \in 0..MaxStarts /\ stuck' \subseteq up'
    BY <1>0, <1>1, <1>7
  <1>10. leg <= 2
    BY <1>0
  <1> QED BY <1>0, <1>1, <1>3, <1>5, <1>6, <1>7, <1>8, <1>9, <1>10,
     HarnessGoesOn DEF BaselineServes

\* A candidate is measured: on the prompts the baselines left.
LEMMA CandidateServesOK == ASSUME BenchIInv, CandidateServes PROVE BenchIInv'
  <1> DEFINE c0 == leg - 2
  <1>0. NCandidates \in Nat \ {0} /\ MaxStarts \in Nat \ {0} /\ leg \in Nat /\ leg < Scorer
        /\ Entry = c0 /\ c0 \in Candidate /\ c0 \in Entries /\ leg \in CandidateLeg
    <2>1. leg \in 1..Scorer
      BY Removed DEF CandidateServes
    <2> QED BY <2>1, AtLeg, BenchAssumption DEF CandidateServes, CandidateLeg, Scorer, Candidate,
       Entries
  <1>1. up' \subseteq 1..Scorer /\ up' = stuck' /\ benchFaults' \in 0..MaxBenchFaults
    BY Removed DEF CandidateServes
  <1>2. /\ crun' = [crun EXCEPT ![c0] = "scored"]
        /\ replayed' = [replayed EXCEPT ![c0] = IF concurrent THEN Prompt \ excluded ELSE Prompt]
        /\ leg' = leg + 1 /\ hstep' = "start" /\ tries' = 0
        /\ UNCHANGED <<leader, concurrent, excluded, verdicts, beacon, report, exit, workerVars>>
    BY <1>0 DEF CandidateServes, Advance
  <1>3. crun[c0] = "none" /\ hstep = "serving"
    BY <1>0 DEF BenchIInv, LegOrder, BenchTypes, CandidateServes
  <1>4. crun' \in [Candidate -> Over \cup {"none"}] /\ replayed' \in [Candidate -> SUBSET Prompt]
    BY <1>2 DEF BenchIInv, BenchTypes, Over
  <1>5. BenchTypes'
    BY <1>0, <1>1, <1>2, <1>4 DEF BenchIInv, BenchTypes, workerVars, Scorer
  <1>6. ReportTypes' /\ ReportMeans' /\ HarnessAt'
    BY <1>0, <1>1, <1>2, <1>3 DEF BenchIInv, ReportTypes, ReportMeans, HarnessAt, Scorer
  <1>7. /\ \A c \in Candidate : c # c0 => crun'[c] = crun[c] /\ replayed'[c] = replayed[c]
        /\ crun'[c0] = "scored"
        /\ replayed'[c0] = IF concurrent THEN Prompt \ excluded ELSE Prompt
    BY <1>0, <1>2 DEF BenchIInv, BenchTypes
  <1>8. SamePrompts'
    BY <1>2, <1>7 DEF BenchIInv, SamePrompts
  <1>9. exit' = "none"
    BY <1>2, <1>3 DEF BenchIInv, HarnessAt
  <1>10. HarnessFaultChargesNobody'
    BY <1>9 DEF HarnessFaultChargesNobody
  <1>11. beacon[c0] = "running"
    BY <1>0, <1>3 DEF BenchIInv, LegAnnounced
  <1>12. LegOrder'
    BY <1>0, <1>2, <1>7, <1>11 DEF BenchIInv, LegOrder, Candidate, Scorer
  <1>13. BeaconMeans'
    BY <1>2, <1>7, <1>11 DEF BenchIInv, BeaconMeans, Fallen
  <1>14. WorkerAt' /\ PollMeans' /\ LiveMeans'
    BY <1>2, <1>3, WorkerWaits
  <1> QED BY <1>2, <1>5, <1>6, <1>8, <1>10, <1>12, <1>13, <1>14 DEF BenchIInv, LegAnnounced

\* The scorer's verdicts: streamed once the baseline itself has passed.
LEMMA ScorerServesOK == ASSUME BenchIInv, ScorerServes PROVE BenchIInv'
  <1> DEFINE Verdicts == {"none", "pass", "fail_correctness", "infra_failed"}
  <1>0. /\ NCandidates \in Nat \ {0} /\ MaxStarts \in Nat \ {0} /\ leg \in Nat /\ leg = Scorer
        /\ hstep = "serving" /\ Candidate \subseteq Entries /\ 0 \in Entries /\ 0 \notin Candidate
    <2>1. leg \in 1..Scorer
      BY Removed DEF ScorerServes
    <2> QED BY <2>1, AtLeg, BenchAssumption DEF ScorerServes, Scorer, Candidate, Entries
  <1>1. up' \subseteq 1..Scorer /\ up' = stuck' /\ benchFaults' \in 0..MaxBenchFaults
    BY Removed DEF ScorerServes
  <1>2. PICK g \in Graded :
          /\ verdicts' = [c \in Entries |-> IF c \in DOMAIN g THEN g[c] ELSE "none"]
          /\ StreamVerdicts(g)
    BY DEF ScorerServes
  <1>3. /\ DOMAIN g = Pending \cup {0}
        /\ \A c \in DOMAIN g : g[c] \in {"pass", "fail_correctness", "infra_failed"}
    BY DEF Graded
  <1>4. verdicts' \in [Entries -> Verdicts]
    BY <1>2, <1>3
  <1>5. UNCHANGED <<leader, concurrent, excluded, replayed, crun, workerVars>>
    BY DEF ScorerServes
  <1>6. CASE g[0] # "pass"
    <2>1. EndRound("engine") /\ UNCHANGED beacon
      BY <1>2, <1>6 DEF StreamVerdicts
    <2>2. /\ beacon' \in [Entries -> Over \cup {"none", "running"}]
          /\ \A c \in Candidate : beacon'[c] = beacon[c]
      BY <2>1 DEF BenchIInv, BenchTypes
    <2>3. stuck' \subseteq up' /\ up' \ stuck' \subseteq {leg} /\ leg <= Scorer /\ hstep # "ended"
      BY <1>0, <1>1
    <2> QED BY <1>1, <1>4, <1>5, <2>1, <2>2, <2>3, RoundEnds
  <1>7. CASE g[0] = "pass"
    <2>1. /\ beacon' = [c \in Entries |-> Judged(g, c)]
          /\ leg' = leg + 1 /\ hstep' = "start" /\ tries' = 0 /\ UNCHANGED <<report, exit>>
      BY <1>2, <1>7 DEF StreamVerdicts, Advance
    <2>2. \A c \in Pending : crun[c] = "scored" /\ beacon[c] = "running" /\ c \in Candidate /\ c \in Entries
      BY <1>0 DEF Pending, BenchIInv, LegOrder
    <2>3. \A c \in Pending : g[c] # "pass" =>
            /\ g[c] \in {"fail_correctness", "infra_failed"}
            /\ beacon'[c] = VerdictStatus(g[c])
      BY <1>3, <2>1, <2>2 DEF Judged
    <2>4. \A c \in Entries : c \notin Pending \/ g[c] = "pass" => beacon'[c] = beacon[c]
      BY <2>1 DEF Judged
    <2>5. \A c \in Pending : verdicts'[c] = g[c]
      BY <1>2, <1>3, <2>2
    <2>6. beacon' \in [Entries -> Over \cup {"none", "running"}]
      <3>1. \A c \in Entries : Judged(g, c) \in Over \cup {"none", "running"}
        BY DEF Judged, VerdictStatus, Over, BenchIInv, BenchTypes
      <3> QED BY <2>1, <3>1
    <2>7. BenchTypes'
      BY <1>0, <1>1, <1>4, <1>5, <2>1, <2>6 DEF BenchIInv, BenchTypes, workerVars, Scorer
    <2>8. ReportTypes' /\ ReportMeans' /\ HarnessAt' /\ LegAnnounced'
      BY <1>0, <1>1, <2>1 DEF BenchIInv, ReportTypes, ReportMeans, HarnessAt, LegAnnounced, Scorer
    <2>9. LegOrder'
      BY <1>0, <1>5, <2>1, <2>4 DEF BenchIInv, LegOrder, Pending, Candidate, Scorer
    <2>10. BeaconMeans'
      <3> SUFFICES ASSUME NEW c \in Candidate
                   PROVE  /\ beacon'[c] # "scored"
                          /\ beacon'[c] \in Fallen /\ crun[c] = "infra_failed" => beacon'[c] = "infra_failed"
                          /\ beacon'[c] \in Fallen /\ crun[c] = "disqualified" =>
                               beacon'[c] = IF c = leader THEN "infra_failed" ELSE "disqualified"
                          /\ beacon'[c] \in Fallen /\ crun[c] = "scored" =>
                               /\ verdicts'[c] \in {"fail_correctness", "infra_failed"}
                               /\ beacon'[c] = VerdictStatus(verdicts'[c])
        BY <1>5 DEF BeaconMeans, VerdictStatus
      <3>1. CASE c \in Pending /\ g[c] # "pass"
        BY <2>2, <2>3, <2>5, <3>1 DEF VerdictStatus
      <3>2. CASE c \notin Pending
        BY <1>0, <2>4, <3>2 DEF Pending, BenchIInv, BeaconMeans
      <3>3. CASE c \in Pending /\ g[c] = "pass"
        BY <1>0, <2>2, <2>4, <3>3 DEF Fallen
      <3> QED BY <3>1, <3>2, <3>3
    <2>11. exit' = "none" /\ exit = "none"
      BY <1>0, <2>1 DEF BenchIInv, HarnessAt
    <2>12. SamePrompts' /\ HarnessFaultChargesNobody'
      BY <1>5, <2>11 DEF BenchIInv, SamePrompts, HarnessFaultChargesNobody
    <2>13. \A c \in Candidate : beacon[c] \in Fallen => beacon'[c] = beacon[c]
      BY <1>0, <2>2, <2>4 DEF Fallen
    <2>14. WorkerAt' /\ PollMeans' /\ LiveMeans'
      BY <1>0, <1>5, <2>13, WorkerWaits
    <2> QED BY <2>7, <2>8, <2>9, <2>10, <2>12, <2>14 DEF BenchIInv
  <1> QED BY <1>6, <1>7

\* The pass report says of every candidate what its run and its verdict say.
LEMMA WriteReportOK == ASSUME BenchIInv, WriteReport PROVE BenchIInv'
  <1>0. /\ hstep = "start" /\ hstep' = "ended" /\ exit' = "ok" /\ leg > Scorer
        /\ UNCHANGED <<leader, concurrent, leg, tries, up, stuck, excluded, replayed, crun,
                   verdicts, beacon, workerVars>>
    BY PlanOrder DEF WriteReport
  <1>1. PICK noisy \in SUBSET Candidate :
          /\ IF noisy = {} THEN UNCHANGED benchFaults ELSE BenchFault
          /\ report' = [verdict |-> "pass",
                        entries |-> [c \in Candidate |-> EntryStatus(c, c \in noisy)]]
    BY DEF WriteReport
  <1>2. benchFaults' \in 0..MaxBenchFaults
    BY <1>1, BenchAssumption DEF BenchFault, BenchIInv, BenchTypes
  <1>3. BenchTypes'
    BY <1>0, <1>2 DEF BenchIInv, BenchTypes, workerVars
  <1>4. report'.verdict = "pass" /\ DOMAIN report'.entries = Candidate
        /\ \A c \in Candidate : report'.entries[c] = EntryStatus(c, c \in noisy)
    BY <1>1
  <1>5. ReportTypes'
    BY <1>4 DEF ReportTypes
  <1>6. ASSUME NEW c \in Candidate
        PROVE  LET s == EntryStatus(c, c \in noisy) IN
               /\ crun[c] # "scored" => s = crun[c]
               /\ crun[c] = "scored" /\ verdicts[c] \in {"fail_correctness", "infra_failed"} =>
                    s = VerdictStatus(verdicts[c])
               /\ s \in Over \cup {"none"}
    <2>1. crun[c] \in Over \cup {"none"}
      BY DEF BenchIInv, BenchTypes
    <2>2. CASE crun[c] # "scored"
      BY <2>1, <2>2 DEF EntryStatus
    <2>3. CASE crun[c] = "scored" /\ verdicts[c] \in {"fail_correctness", "infra_failed"}
      BY <2>3 DEF EntryStatus, VerdictStatus, Over
    <2>4. CASE crun[c] = "scored" /\ verdicts[c] \notin {"fail_correctness", "infra_failed"}
      BY <2>4 DEF EntryStatus, Over
    <2> QED BY <2>2, <2>3, <2>4
  <1>7. ReportMeans'
    BY <1>0, <1>4, <1>6 DEF ReportMeans, VerdictStatus
  <1>8. HarnessAt' /\ LegAnnounced' /\ LegOrder' /\ BeaconMeans'
    BY <1>0 DEF BenchIInv, HarnessAt, LegAnnounced, LegOrder, BeaconMeans, VerdictStatus
  <1>9. SamePrompts' /\ HarnessFaultChargesNobody'
    BY <1>0 DEF BenchIInv, SamePrompts, HarnessFaultChargesNobody
  <1>10. WorkerAt' /\ PollMeans' /\ LiveMeans'
    BY <1>0, WorkerWaits
  <1> QED BY <1>3, <1>5, <1>7, <1>8, <1>9, <1>10 DEF BenchIInv

\* A report that fails its validation leaves the harness at its end without one.
LEMMA ReportFailsOK == ASSUME BenchIInv, ReportFails PROVE BenchIInv'
  <1>0. /\ hstep = "start" /\ hstep' = "ended" /\ exit' = "bad_request" /\ leg > Scorer
        /\ UNCHANGED <<leader, concurrent, leg, tries, up, stuck, excluded, replayed, crun,
                   verdicts, beacon, report, workerVars>>
    BY PlanOrder DEF ReportFails
  <1>1. benchFaults' \in 0..MaxBenchFaults
    BY BenchAssumption DEF ReportFails, BenchFault, BenchIInv, BenchTypes
  <1>2. BenchTypes' /\ ReportTypes'
    BY <1>0, <1>1 DEF BenchIInv, BenchTypes, ReportTypes, workerVars
  <1>3. ReportMeans'
    BY <1>0 DEF BenchIInv, ReportMeans
  <1>4. HarnessAt' /\ LegAnnounced' /\ LegOrder' /\ BeaconMeans'
    BY <1>0 DEF BenchIInv, HarnessAt, LegAnnounced, LegOrder, BeaconMeans, VerdictStatus
  <1>5. SamePrompts' /\ HarnessFaultChargesNobody'
    BY <1>0 DEF BenchIInv, SamePrompts, HarnessFaultChargesNobody
  <1>6. WorkerAt' /\ PollMeans' /\ LiveMeans'
    BY <1>0, WorkerWaits
  <1> QED BY <1>2, <1>3, <1>4, <1>5, <1>6 DEF BenchIInv

\* Rows written from a batch of statuses that stand in the progress file stay true.
LEMMA RowsWritten ==
  ASSUME BenchIInv, NEW b \in [Entries -> Over \cup {"none", "running"}], WriteRows(b),
         \A c \in Candidate : b[c] # "scored" /\ (b[c] \in Fallen => beacon[c] = b[c]),
         round' = round, beacon' = beacon
  PROVE  /\ live' \in [Entries -> Statuses]
         /\ LiveMeans'
         /\ round # "running" => live' = live
  <1>0. Candidate \subseteq Entries
    BY BenchAssumption DEF Candidate, Entries
  <1>1. live \in [Entries -> Statuses]
    BY DEF BenchIInv, BenchTypes
  <1>2. live' \in [Entries -> Statuses]
    BY <1>1 DEF WriteRows, Statuses
  <1>3. round # "running" => live' = live
    BY <1>1 DEF WriteRows
  <1>4. \A c \in Candidate : live'[c] = live[c] \/ live'[c] = b[c]
    BY <1>0 DEF WriteRows
  <1>5. LiveMeans'
    BY <1>4 DEF BenchIInv, LiveMeans
  <1> QED BY <1>2, <1>3, <1>5

\* What is read of the progress file says nothing of a candidate but what it says.
LEMMA ParsedOK ==
  ASSUME BenchIInv, NEW b \in [Entries -> Over \cup {"none", "running"}],
         \A c \in Candidate : b[c] \in Fallen => beacon[c] = b[c]
  PROVE  /\ ParsedStatus(b) \in [Entries -> Over \cup {"none", "running"}]
         /\ \A c \in Candidate : /\ ParsedStatus(b)[c] # "scored"
                                 /\ ParsedStatus(b)[c] \in Fallen => beacon[c] = ParsedStatus(b)[c]
  <1>0. Candidate \subseteq Entries /\ 0 \notin Candidate
    BY BenchAssumption DEF Candidate, Entries
  <1>1. ParsedStatus(b) \in [Entries -> Over \cup {"none", "running"}]
    BY DEF ParsedStatus
  <1>2. \A c \in Candidate : ParsedStatus(b)[c] = IF b[c] = "scored" THEN "none" ELSE b[c]
    BY <1>0 DEF ParsedStatus
  <1> QED BY <1>1, <1>2 DEF Fallen

\* The worker's steps leave the harness's half as it is.
LEMMA HarnessWaits ==
  ASSUME BenchIInv, UNCHANGED <<leader, concurrent, harnessVars>>,
         live' \in [Entries -> Statuses],
         round' \in {"running", "complete", "void"}, benchFaults' \in 0..MaxBenchFaults
  PROVE  /\ BenchTypes' /\ ReportTypes' /\ HarnessAt' /\ LegAnnounced' /\ LegOrder'
         /\ BeaconMeans' /\ ReportMeans' /\ SamePrompts' /\ HarnessFaultChargesNobody'
  <1>1. BenchTypes' /\ ReportTypes' /\ HarnessAt'
    BY DEF BenchIInv, BenchTypes, ReportTypes, HarnessAt, harnessVars
  <1>2. LegAnnounced' /\ LegOrder' /\ BeaconMeans'
    BY DEF BenchIInv, LegAnnounced, LegOrder, BeaconMeans, VerdictStatus, harnessVars
  <1>3. ReportMeans'
    BY DEF BenchIInv, ReportMeans, VerdictStatus, harnessVars
  <1>4. SamePrompts' /\ HarnessFaultChargesNobody'
    BY DEF BenchIInv, SamePrompts, HarnessFaultChargesNobody, harnessVars
  <1> QED BY <1>1, <1>2, <1>3, <1>4

\* The poll thread: reading the phase, relaying it, relaying the rows.
LEMMA PollPhaseOK == ASSUME BenchIInv, PollPhase PROVE BenchIInv'
  <1>1. /\ live' \in [Entries -> Statuses]
        /\ round' \in {"running", "complete", "void"} /\ benchFaults' \in 0..MaxBenchFaults
    BY DEF PollPhase, BenchIInv, BenchTypes
  <1>2. PollMeans'
    BY DEF PollPhase, BenchIInv, PollMeans, Idle, HarnessPhase
  <1>3. WorkerAt' /\ LiveMeans'
    BY DEF PollPhase, BenchIInv, WorkerAt, LiveMeans, harnessVars
  <1> QED BY <1>1, <1>2, <1>3, HarnessWaits DEF PollPhase, BenchIInv

\* The poll thread writes the phase it has read, unless it was stopped meanwhile, and
\* reads the statuses.
LEMMA RelayPhaseOK == ASSUME BenchIInv, RelayPhase PROVE BenchIInv'
  <1>0. Candidate \subseteq Entries /\ MaxBenchFaults \in Nat
    BY BenchAssumption DEF Candidate, Entries
  <1>1. /\ live' \in [Entries -> Statuses]
        /\ round' \in {"running", "complete", "void"}
    BY DEF RelayPhase, BenchIInv, BenchTypes
  <1>2. benchFaults' \in 0..MaxBenchFaults
    <2>1. UNCHANGED benchFaults \/ BenchFault
      BY DEF RelayPhase, PollEntries
    <2> QED BY <1>0, <2>1 DEF BenchFault, BenchIInv, BenchTypes
  <1>3. LiveMeans'
    BY DEF RelayPhase, BenchIInv, LiveMeans, harnessVars
  <1>4. WorkerAt'
    BY DEF RelayPhase, SetPhase, BenchIInv, WorkerAt, PollMeans, harnessVars
  <1>5. beacon \in [Entries -> Over \cup {"none", "running"}] /\ beacon' = beacon /\ stopped' = stopped
    BY DEF RelayPhase, BenchIInv, BenchTypes, harnessVars
  <1>6. PollMeans'
    <2>1. CASE stopped
      BY <1>5, <2>1 DEF RelayPhase, BenchIInv, PollMeans, Idle
    <2>2. ASSUME ~stopped, poll' = [Idle EXCEPT !.at = "rows", !.batch = ParsedStatus(beacon)]
          PROVE  PollMeans'
      <3>1. /\ ParsedStatus(beacon) \in [Entries -> Over \cup {"none", "running"}]
            /\ \A c \in Candidate :
                 /\ ParsedStatus(beacon)[c] # "scored"
                 /\ ParsedStatus(beacon)[c] \in Fallen => beacon[c] = ParsedStatus(beacon)[c]
        BY <1>5, ParsedOK
      <3>2. poll'.at = "rows" /\ poll'.batch = ParsedStatus(beacon)
        BY <2>2 DEF Idle
      <3> QED BY <1>5, <3>1, <3>2 DEF BenchIInv, PollMeans
    <2>3. ASSUME ~stopped, NEW k \in Candidate,
                 poll' = [Idle EXCEPT !.at = "rows", !.batch = ParsedStatus([beacon EXCEPT ![k] = "scored"])]
          PROVE  PollMeans'
      <3> DEFINE b == [beacon EXCEPT ![k] = "scored"]
      <3>1. b \in [Entries -> Over \cup {"none", "running"}]
        BY <1>5 DEF Over
      <3>2. \A c \in Candidate : b[c] \in Fallen => beacon[c] = b[c]
        BY <1>0, <1>5 DEF Fallen
      <3>3. poll'.at = "rows" /\ poll'.batch = ParsedStatus(b)
        BY <2>3 DEF Idle
      <3> HIDE DEF b
      <3>4. /\ ParsedStatus(b) \in [Entries -> Over \cup {"none", "running"}]
            /\ \A c \in Candidate :
                 /\ ParsedStatus(b)[c] # "scored"
                 /\ ParsedStatus(b)[c] \in Fallen => beacon[c] = ParsedStatus(b)[c]
        BY <3>1, <3>2, ParsedOK
      <3> QED BY <1>5, <3>3, <3>4 DEF BenchIInv, PollMeans
    <2> QED BY <2>1, <2>2, <2>3 DEF RelayPhase, PollEntries
  <1> QED BY <1>1, <1>2, <1>3, <1>4, <1>6, HarnessWaits DEF RelayPhase, BenchIInv

\* The poll thread writes the rows it has read, also after it was stopped, and after
\* its round ended.
LEMMA RelayEntriesOK ==
  ASSUME BenchIInv, RelayEntries
  PROVE  BenchIInv' /\ (round # "running" => live' = live)
  <1>0. /\ poll.batch \in [Entries -> Over \cup {"none", "running"}] /\ WriteRows(poll.batch)
        /\ \A c \in Candidate : /\ poll.batch[c] # "scored"
                                /\ poll.batch[c] \in Fallen => beacon[c] = poll.batch[c]
        /\ beacon' = beacon /\ round' = round
    BY DEF RelayEntries, BenchIInv, PollMeans, harnessVars
  <1>1. /\ live' \in [Entries -> Statuses] /\ LiveMeans'
        /\ round # "running" => live' = live
    BY <1>0, RowsWritten
  <1>2. round' \in {"running", "complete", "void"} /\ benchFaults' \in 0..MaxBenchFaults
    BY DEF RelayEntries, BenchIInv, BenchTypes
  <1>3. PollMeans'
    BY DEF RelayEntries, BenchIInv, PollMeans, Idle
  <1>4. WorkerAt'
    BY DEF RelayEntries, BenchIInv, WorkerAt, harnessVars
  <1> QED BY <1>1, <1>2, <1>3, <1>4, HarnessWaits DEF RelayEntries, BenchIInv

\* The ssh session ends, or is given up; the poller is stopped.
LEMMA SshEndsOK ==
  ASSUME BenchIInv, SshReturns \/ SshTimesOut \/ StopPoller
  PROVE  BenchIInv'
  <1>1. /\ live' \in [Entries -> Statuses]
        /\ round' \in {"running", "complete", "void"}
    BY DEF SshReturns, SshTimesOut, StopPoller, BenchIInv, BenchTypes
  <1>2. benchFaults' \in 0..MaxBenchFaults
    BY BenchAssumption DEF SshReturns, SshTimesOut, StopPoller, BenchFault, BenchIInv, BenchTypes
  <1>3. WorkerAt'
    BY DEF SshReturns, SshTimesOut, StopPoller, SetPhase, BenchIInv, WorkerAt, harnessVars
  <1>4. PollMeans'
    BY DEF SshReturns, SshTimesOut, StopPoller, BenchIInv, PollMeans, harnessVars
  <1>5. LiveMeans'
    BY DEF SshReturns, SshTimesOut, StopPoller, BenchIInv, LiveMeans, harnessVars
  <1> QED BY <1>1, <1>2, <1>3, <1>4, <1>5, HarnessWaits DEF SshReturns, SshTimesOut, StopPoller,
     BenchIInv

\* The worker's own last read of the progress file.
LEMMA FinalReadOK ==
  ASSUME BenchIInv, FinalRead
  PROVE  BenchIInv' /\ (round # "running" => live' = live)
  <1>0. beacon \in [Entries -> Over \cup {"none", "running"}] /\ beacon' = beacon /\ round' = round
        /\ WriteRows(ParsedStatus(beacon))
    BY DEF FinalRead, BenchIInv, BenchTypes, harnessVars
  <1>1. /\ ParsedStatus(beacon) \in [Entries -> Over \cup {"none", "running"}]
        /\ \A c \in Candidate :
             /\ ParsedStatus(beacon)[c] # "scored"
             /\ ParsedStatus(beacon)[c] \in Fallen => beacon[c] = ParsedStatus(beacon)[c]
    BY <1>0, ParsedOK
  <1>2. /\ live' \in [Entries -> Statuses] /\ LiveMeans'
        /\ round # "running" => live' = live
    BY <1>0, <1>1, RowsWritten
  <1>3. round' \in {"running", "complete", "void"} /\ benchFaults' \in 0..MaxBenchFaults
    BY DEF FinalRead, BenchIInv, BenchTypes
  <1>4. PollMeans' /\ WorkerAt'
    BY DEF FinalRead, BenchIInv, PollMeans, WorkerAt, harnessVars
  <1> QED BY <1>2, <1>3, <1>4, HarnessWaits DEF FinalRead, BenchIInv

\* The output is pulled and the pod torn down.
LEMMA PullOutputOK == ASSUME BenchIInv, PullOutput PROVE BenchIInv'
  <1>0. hstep = "ended" /\ stopped /\ round # "complete" /\ MaxStarts \in Nat
    BY BenchAssumption DEF PullOutput, BenchIInv, WorkerAt
  <1>1. benchFaults' \in 0..MaxBenchFaults
    BY BenchAssumption DEF PullOutput, BenchFault, BenchIInv, BenchTypes
  <1>2. BenchTypes'
    BY <1>0, <1>1 DEF PullOutput, BenchIInv, BenchTypes
  <1>3. report' = report \/ report' = [verdict |-> "none", entries |-> <<>>]
    BY DEF PullOutput, Unbound
  <1>4. exit' = exit \/ exit' = "destroy_failed"
    BY DEF PullOutput
  <1>5. ReportTypes' /\ ReportMeans'
    BY <1>0, <1>3 DEF PullOutput, BenchIInv, ReportTypes, ReportMeans, VerdictStatus
  <1>6. HarnessAt' /\ LegAnnounced'
    BY <1>0, <1>4 DEF PullOutput, BenchIInv, HarnessAt, LegAnnounced
  <1>7. LegOrder' /\ BeaconMeans' /\ SamePrompts'
    BY DEF PullOutput, BenchIInv, LegOrder, BeaconMeans, SamePrompts, VerdictStatus
  <1>8. HarnessFaultChargesNobody'
    BY <1>4 DEF PullOutput, BenchIInv, HarnessFaultChargesNobody
  <1>9. WorkerAt' /\ PollMeans' /\ LiveMeans'
    BY <1>0 DEF PullOutput, SetPhase, BenchIInv, WorkerAt, PollMeans, LiveMeans
  <1> QED BY <1>2, <1>5, <1>6, <1>7, <1>8, <1>9 DEF BenchIInv

\* The round is judged: a complete round had a pass report, and what was streamed
\* as terminal is what is recorded.
LEMMA JudgeRoundOK ==
  ASSUME BenchIInv, JudgeRound
  PROVE  /\ BenchIInv'
         /\ round # "running" => live' = live
         /\ round = "running" /\ round' = "complete" =>
              \A c \in Candidate : live[c] \in Over => live'[c] = live[c]
  <1>0. /\ hstep = "ended" /\ hstep' = hstep /\ wstep' = "done" /\ Candidate # {}
        /\ Candidate \subseteq Entries /\ 0 \notin Candidate
        /\ UNCHANGED <<leader, concurrent, harnessVars, phase, poll, stopped, benchFaults>>
    <2>1. hstep = "ended" /\ wstep' = "done"
      BY DEF JudgeRound, BenchIInv, WorkerAt
    <2>2. UNCHANGED <<leader, concurrent, harnessVars, phase, poll, stopped, benchFaults>>
      BY DEF JudgeRound
    <2>3. hstep' = hstep
      BY <2>2 DEF harnessVars
    <2>4. Candidate # {} /\ Candidate \subseteq Entries /\ 0 \notin Candidate
      BY BenchAssumption DEF Candidate, Entries
    <2> QED BY <2>1, <2>2, <2>3, <2>4
  <1>1. CASE VoidRound
    <2>1. /\ live' = live /\ round' \in {"running", "complete", "void"}
          /\ round' = "complete" => round = "complete"
          /\ round' # "complete" => round # "complete"
      BY <1>1 DEF VoidRound, BenchIInv, BenchTypes
    <2>2. benchFaults' \in 0..MaxBenchFaults /\ live' \in [Entries -> Statuses]
      BY <1>0, <2>1 DEF BenchIInv, BenchTypes
    <2>3. WorkerAt' /\ PollMeans' /\ LiveMeans'
      BY <1>0, <2>1 DEF BenchIInv, WorkerAt, PollMeans, LiveMeans, harnessVars
    <2> QED BY <1>0, <2>1, <2>2, <2>3, HarnessWaits DEF BenchIInv
  <1>2. CASE /\ Settleable /\ CompleteReport /\ round = "running" /\ round' = "complete"
             /\ live' = [k \in Entries |-> IF k = 0 THEN "scored" ELSE EntryResults(k)]
    <2>1. report.verdict = "pass" /\ DOMAIN report.entries = Candidate
      BY <1>0, <1>2 DEF CompleteReport, BenchIInv, ReportTypes
    <2>2. \A c \in Candidate : live'[c] = IF c = leader /\ crun[c] = "disqualified"
                                          THEN "infra_failed" ELSE report.entries[c]
      BY <1>0, <1>2, <2>1 DEF EntryResults
    <2>3. \A c \in Candidate : report.entries[c] \in Over \cup {"none"}
      BY <2>1 DEF BenchIInv, ReportMeans
    <2>4. live' \in [Entries -> Statuses]
      <3>1. \A k \in Entries : k # 0 => k \in Candidate
        BY DEF Entries, Candidate
      <3>2. \A k \in Entries : k # 0 => EntryResults(k) \in Statuses
        BY <2>1, <2>3, <3>1 DEF EntryResults, Statuses, Over
      <3> QED BY <1>2, <3>2 DEF Statuses, Over
    <2>5. benchFaults' \in 0..MaxBenchFaults /\ round' \in {"running", "complete", "void"}
      BY <1>0, <1>2 DEF BenchIInv, BenchTypes
    <2>6. WorkerAt' /\ PollMeans' /\ LiveMeans'
      BY <1>0, <1>2, <2>1 DEF BenchIInv, WorkerAt, PollMeans, LiveMeans, harnessVars
    <2>7. BenchIInv'
      BY <1>0, <2>4, <2>5, <2>6, HarnessWaits DEF BenchIInv
    <2>8. ASSUME NEW c \in Candidate, live[c] \in Over PROVE live'[c] = live[c]
      <3>1. live[c] \in Fallen /\ beacon[c] = live[c]
        BY <1>2, <2>8 DEF BenchIInv, LiveMeans, Over, Fallen
      <3>2. /\ crun[c] # "scored" => report.entries[c] = crun[c]
            /\ crun[c] = "scored" /\ verdicts[c] \in {"fail_correctness", "infra_failed"} =>
                 report.entries[c] = VerdictStatus(verdicts[c])
        BY <2>1 DEF BenchIInv, ReportMeans
      <3>3. crun[c] \in {"scored", "disqualified", "infra_failed"}
        BY <3>1 DEF BenchIInv, BenchTypes, LegOrder, Over, Fallen
      <3>4. CASE crun[c] = "scored"
        BY <2>2, <3>1, <3>2, <3>4 DEF BenchIInv, BeaconMeans
      <3>5. CASE crun[c] = "disqualified"
        BY <2>2, <3>1, <3>2, <3>5 DEF BenchIInv, BeaconMeans
      <3>6. CASE crun[c] = "infra_failed"
        BY <2>2, <3>1, <3>2, <3>6 DEF BenchIInv, BeaconMeans
      <3> QED BY <3>3, <3>4, <3>5, <3>6
    <2> QED BY <1>2, <2>7, <2>8
  <1> QED BY <1>1, <1>2 DEF JudgeRound

\* The round is voided after a timeout, or reaped by another worker.
LEMMA RoundLostOK == ASSUME BenchIInv, TimeoutVoids \/ ReapedMeanwhile PROVE BenchIInv' /\ live' = live
  <1>1. /\ UNCHANGED <<leader, concurrent, harnessVars, phase, poll, stopped, live>>
        /\ round' \in {"running", "complete", "void"} /\ live' \in [Entries -> Statuses]
        /\ wstep' = wstep \/ (wstep = "void" /\ wstep' = "done")
    BY DEF TimeoutVoids, ReapedMeanwhile, VoidRound, BenchIInv, BenchTypes
  <1>2. benchFaults' \in 0..MaxBenchFaults
    BY BenchAssumption DEF TimeoutVoids, ReapedMeanwhile, BenchFault, BenchIInv, BenchTypes
  <1>3. round' = "complete" <=> round = "complete"
    BY DEF TimeoutVoids, ReapedMeanwhile, VoidRound
  <1>4. WorkerAt' /\ PollMeans' /\ LiveMeans'
    BY <1>1, <1>3 DEF BenchIInv, WorkerAt, PollMeans, LiveMeans, harnessVars
  <1> QED BY <1>1, <1>2, <1>4, HarnessWaits DEF BenchIInv

\* Every step of the harness and of the worker keeps the invariant.
LEMMA BenchNext == ASSUME BenchIInv, [NextBench]_benchVars PROVE BenchIInv'
  <1>1. CASE HarnessStep
    BY <1>1, StageOK, SkipCandidateOK, SkipScorerOK, BeginLegOK, EngineUpOK, LegLost,
       BaselineServesOK, CandidateServesOK, ScorerServesOK, WriteReportOK,
       ReportFailsOK DEF HarnessStep
  <1>2. CASE WorkerStep
    BY <1>2, PollPhaseOK, RelayPhaseOK, RelayEntriesOK, SshEndsOK, FinalReadOK, PullOutputOK,
       JudgeRoundOK, RoundLostOK DEF WorkerStep
  <1>3. CASE UNCHANGED benchVars
    <2>1. /\ UNCHANGED <<leader, concurrent, harnessVars, phase, poll, stopped, wstep, round, live>>
          /\ live' \in [Entries -> Statuses] /\ round' \in {"running", "complete", "void"}
          /\ benchFaults' \in 0..MaxBenchFaults
      BY <1>3 DEF benchVars, workerVars, BenchIInv, BenchTypes
    <2>2. WorkerAt' /\ PollMeans' /\ LiveMeans'
      BY <2>1 DEF BenchIInv, WorkerAt, PollMeans, LiveMeans, harnessVars
    <2> QED BY <2>1, <2>2, HarnessWaits DEF BenchIInv
  <1> QED BY <1>1, <1>2, <1>3 DEF NextBench

\* What the invariant says of the benchmark.
LEMMA BenchImplies ==
  ASSUME BenchIInv
  PROVE  /\ TypeOKBench /\ OneEngineAtATime /\ SamePrompts
         /\ HarnessFaultChargesNobody /\ OnlySettlementScores /\ CompleteOnlyFromPass
  <1>1. Len(Plan) = NCandidates + 3 /\ NCandidates \in Nat
    BY PlanOrder, BenchAssumption DEF Scorer
  <1>2. \A k \in Entries : beacon[k] \in Statuses /\ live[k] \in Statuses
    BY DEF BenchIInv, BenchTypes, Statuses
  <1>3. TypeOKBench
    BY <1>1, <1>2 DEF BenchIInv, BenchTypes, ReportTypes, TypeOKBench, Scorer
  <1>4. OneEngineAtATime
    BY DEF BenchIInv, HarnessAt, OneEngineAtATime
  <1>5. OnlySettlementScores /\ CompleteOnlyFromPass
    BY DEF BenchIInv, LiveMeans, WorkerAt, OnlySettlementScores, CompleteOnlyFromPass
  <1> QED BY <1>3, <1>4, <1>5 DEF BenchIInv

\* What a step may not do to progress and phase.
LEMMA BenchSteps ==
  ASSUME BenchIInv, [NextBench]_benchVars
  PROVE  /\ [round = "running" /\ round' = "complete" =>
                \A c \in Candidate : live[c] \in Over => live'[c] = live[c]]_benchVars
         /\ [round # "running" => live' = live]_benchVars
         /\ [phase = "teardown" => phase' = "teardown"]_benchVars
  <1>1. CASE HarnessStep
    <2>1. UNCHANGED workerVars
      BY <1>1 DEF HarnessStep, StageFails, StageDone, SkipCandidate, SkipScorer, BeginLeg,
         RunContainer,
         RunFails, DockerDown, BecomesHealthy, NoAccelerator, BootFails, BaselineServes,
         CandidateServes, ScorerServes, ServingFails, WriteReport, ReportFails
    <2> QED BY <2>1 DEF workerVars
  <1>2. CASE WorkerStep
    <2>1. round # "running" => live' = live
      BY <1>2, RelayEntriesOK, FinalReadOK, JudgeRoundOK, RoundLostOK
         DEF WorkerStep, PollPhase, RelayPhase, SshReturns, SshTimesOut, StopPoller, PullOutput
    <2>2. round = "running" /\ round' = "complete" => JudgeRound
      BY <1>2 DEF WorkerStep, PollPhase, RelayPhase, RelayEntries, SshReturns, SshTimesOut,
         FinalRead,
         StopPoller, PullOutput, TimeoutVoids, VoidRound, ReapedMeanwhile
    <2>3. round = "running" /\ round' = "complete" =>
             \A c \in Candidate : live[c] \in Over => live'[c] = live[c]
      BY <2>2, JudgeRoundOK
    <2>4. phase = "teardown" => phase' = "teardown"
      BY <1>2 DEF WorkerStep, PollPhase, RelayPhase, RelayEntries, SshReturns, SshTimesOut,
         FinalRead,
         StopPoller, PullOutput, JudgeRound, TimeoutVoids, ReapedMeanwhile, SetPhase, BenchIInv, WorkerAt
    <2> QED BY <2>1, <2>3, <2>4
  <1> QED BY <1>1, <1>2 DEF NextBench
-----------------------------------------------------------------------------
(* The pipeline. *)

\* A step of the pipeline is a step of one part, and a stutter of every other.
LEMMA PipelineStep ==
  ASSUME [NextPipeline]_pipelineVars
  PROVE  /\ part' = part
         /\ [NextStaging]_stageVars /\ [NextSync]_syncVars /\ [NextPublication]_pubVars
         /\ [NextIngest]_ingestVars /\ [NextBuilder]_buildVars /\ [NextGrading]_gradingVars
         /\ [NextBench]_benchVars /\ [NextReplay]_replayVars /\ [NextScore]_scoreVars
         /\ [NextRepeats]_repeatsVars
  <1>1. part' = part
    BY DEF NextPipeline, pipelineVars, Only
  <1>2. [NextStaging]_stageVars /\ [NextSync]_syncVars
    BY DEF NextPipeline, pipelineVars
  <1>3. [NextPublication]_pubVars /\ [NextIngest]_ingestVars
    BY DEF NextPipeline, pipelineVars
  <1>4. [NextBuilder]_buildVars /\ [NextGrading]_gradingVars
    BY DEF NextPipeline, pipelineVars
  <1>5. [NextBench]_benchVars
    BY DEF NextPipeline, pipelineVars
  <1>6. [NextReplay]_replayVars /\ [NextScore]_scoreVars
    BY DEF NextPipeline, pipelineVars
  <1>7. [NextRepeats]_repeatsVars
    BY DEF NextPipeline, pipelineVars
  <1> QED BY <1>1, <1>2, <1>3, <1>4, <1>5, <1>6, <1>7

\* Staging (src/bench/weights.py): a hash on record beside staged weights is used
\* only while it is the hash of what is there, whatever was replaced or damaged on
\* the disk and wherever the process died.
THEOREM StagedRecordsTrustworthy == SpecPipeline => []StagingSafe
  <1>1. InitPipeline => StagingIInv
    BY StagingInit DEF InitPipeline
  <1>2. StagingIInv /\ [NextPipeline]_pipelineVars => StagingIInv'
    BY StagingNext, PipelineStep
  <1>3. StagingIInv => StagingSafe
    BY DEF StagingIInv, StagingSafe
  <1> QED BY <1>1, <1>2, <1>3, PTL DEF SpecPipeline

\* Configuration sync (src/ops/sync-config.py): between two invocations a managed
\* file on the disk is in force, or the reload, restart or worker flag it needs is on
\* record; and an installation that fails leaves the file as it found it; for every
\* number of files (vector.service is a unit and vector's), commits and faults. The
\* properties leave out, file by file, those in stray: installed by an invocation that
\* an exception, an overrun command or a kill ended, not put back by a rollback that
\* raised, restarted on a definition that was not reloaded, or struck out of the record
\* unpaid. Nothing is assumed of when that happens.
THEOREM SyncKeepsDebts == SpecPipeline => []SyncSafe
  <1>1. InitPipeline => SyncIInv
    BY SyncInit DEF InitPipeline
  <1>2. SyncIInv /\ [NextPipeline]_pipelineVars => SyncIInv'
    BY SyncNext, PipelineStep
  <1>3. SyncIInv => SyncSafe
    BY SyncImplies DEF SyncSafe
  <1> QED BY <1>1, <1>2, <1>3, PTL DEF SpecPipeline

\* Patch storage (src/storage/visibility.py, src/storage/s3.py): a patch is in public
\* storage only when terms that were in force have revealed it, and every copy is of
\* the committed bytes, for every number of requests in flight.
THEOREM PublishedOnlyInTime == SpecPipeline => []PublicationSafe
  <1>1. InitPipeline => PubIInv
    BY PubInit DEF InitPipeline
  <1>2. PubIInv /\ [NextPipeline]_pipelineVars => PubIInv'
    BY PubNext, PipelineStep
  <1>3. PubIInv => PublicationSafe
    BY DEF PubIInv, PublicationSafe
  <1> QED BY <1>1, <1>2, <1>3, PTL DEF SpecPipeline

\* The build host (src/builder/): miner builds, baseline builds, cache transfers,
\* evictions and the cleanup share one daemon, and still the digest stored for a
\* submission is that of its own patch on its own campaign's base, and a compiler
\* cache holds what trusted builds put there.
THEOREM BuildsArePublishedAsBuilt == SpecPipeline => []BuilderSafe
  <1>1. InitPipeline => BuildIInv
    BY BuildInit DEF InitPipeline
  <1>2. BuildIInv /\ [NextPipeline]_pipelineVars => BuildIInv'
    BY BuildNext, PipelineStep
  <1>3. BuildIInv => BuilderSafe
    BY BuildImplies DEF BuilderSafe
  <1> QED BY <1>1, <1>2, <1>3, PTL DEF SpecPipeline

\* grade_candidate (src/bench/correctness.py), for every number of outputs in
\* whatever order they and the scorer fail: a pass is clean, a failure has its ground
\* in what the candidate answered, and an established repetition failure stands.
THEOREM VerdictsAreDrawn == SpecPipeline => []GradingSafe
  <1>1. InitPipeline => GradeIInv
    BY GradeInit DEF InitPipeline
  <1>2. GradeIInv /\ [NextPipeline]_pipelineVars => GradeIInv'
    BY GradeNext, PipelineStep
  <1>3. GradeIInv => GradingSafe
    BY GradeImplies DEF GradingSafe
  <1> QED BY <1>1, <1>2, <1>3, PTL DEF SpecPipeline

\* Admission (src/chain/watcher.py, src/campaign/fees.py, src/miner/commit_patch.py):
\* one payment backs one row; every row from the chain was committed after the start
\* of the competition and, unless its hotkey is exempt or a fee change landed behind
\* the chain, met the fee of its block; a payment the miner's tool committed is
\* accepted; and one work goes to the gates once. For every number of miners, exempt
\* or not, patches, fee changes and scans.
THEOREM RowsMeetTheirTerms == SpecPipeline => []AdmissionSafe
  <1>1. InitPipeline => IngestIInv
    BY IngestInit DEF InitPipeline
  <1>2. IngestIInv /\ [NextPipeline]_pipelineVars => IngestIInv'
    BY IngestNext, PipelineStep
  <1>3. IngestIInv => AdmissionSafe
    BY IngestImplies DEF AdmissionSafe
  <1> QED BY <1>1, <1>2, <1>3, PTL DEF SpecPipeline

\* How rows are entered: never for an excluded hotkey, and a hash enters for the
\* earliest commitment to it that the scan saw and could fetch.
THEOREM EntriesFollowRules == SpecPipeline => EntryRules
  <1>1. InitPipeline => IngestIInv
    BY IngestInit DEF InitPipeline
  <1>2. IngestIInv /\ [NextPipeline]_pipelineVars => IngestIInv'
    BY IngestNext, PipelineStep
  <1>3. IngestIInv /\ [NextPipeline]_pipelineVars
          => [\A s \in subs' \ subs : s.key \notin barred]_ingestVars
    BY IngestNext, PipelineStep DEF EntryStep
  <1>4. IngestIInv /\ [NextPipeline]_pipelineVars
          => [\A s \in subs' \ subs : s.via = "chain" =>
                \A i \in DOMAIN scan.todo :
                  LET c == scan.todo[i].com IN
                  c.patch = s.patch /\ c.bytes = "match" /\ c.block >= CompetitionStart
                    /\ FeeOK(scan.todo[i].key, c) => s.block <= c.block]_ingestVars
    BY IngestNext, PipelineStep DEF EntryStep
  <1> QED BY <1>1, <1>2, <1>3, <1>4, PTL DEF SpecPipeline, EntryRules, BarredStaysOut,
     FirstCommitWins

\* What no step of the API, of a staging or of a cleanup does to what is stored.
THEOREM StoredThingsStand == SpecPipeline => StorageSteps
  <1> DEFINE Inv == StagingIInv /\ PubIInv /\ BuildIInv
  <1>1. InitPipeline => Inv
    BY StagingInit, PubInit, BuildInit DEF InitPipeline
  <1>2. Inv /\ [NextPipeline]_pipelineVars => Inv'
    BY StagingNext, PubNext, BuildNext, PipelineStep
  <1>3. Inv /\ [NextPipeline]_pipelineVars =>
          [object'["private"] # object["private"] /\ object'["private"] # Absent =>
             /\ object["private"] = Absent
             /\ \E url \in signed : url.patch = object'["private"] /\ now < url.auth]_pubVars
    BY PubSteps, PipelineStep
  <1>4. Inv /\ [NextPipeline]_pipelineVars =>
          [policy' = policy /\ Revealed(policy) => Revealed(policy)']_pubVars
    BY PubSteps, PipelineStep
  <1>5. Inv /\ [NextPipeline]_pipelineVars =>
          [(sstep # "served" /\ sstep' = "served") => final # None /\ (final.whole \/ hurt)]_stageVars
    BY WholeServed, PipelineStep
  <1>6. Inv /\ [NextPipeline]_pipelineVars =>
          [lockHolder = Cleaner =>
             \A c \in active : engineImage[c] \in LocalImages => engineImage[c] \in LocalImages']_buildVars
    BY BuildKeeps, PipelineStep
  <1> HIDE DEF Inv
  <1> QED BY <1>1, <1>2, <1>3, <1>4, <1>5, <1>6, PTL
          DEF SpecPipeline, StorageSteps, PutAuthorized, RevealStands, OnlyWholeServed,
             CleanupKeepsBaselines

\* The benchmark (src/bench/main.py, src/gpu/orchestrate.py): engines run one at a
\* time, except beside a container whose removal failed or whose id docker run did not
\* tell, and every candidate is measured on the prompts the baselines kept; a fault of
\* the harness disqualifies nobody whose own process did not die; and a round
\* completes only from a report in which the harness vouched for itself, for every
\* number of candidates and prompts.
THEOREM RoundsSettleOnVouchedReports == SpecPipeline => []BenchSafe
  <1>1. InitPipeline => BenchIInv
    BY BenchInit DEF InitPipeline
  <1>2. BenchIInv /\ [NextPipeline]_pipelineVars => BenchIInv'
    BY BenchNext, PipelineStep
  <1>3. BenchIInv => BenchSafe
    BY BenchImplies DEF BenchSafe
  <1> QED BY <1>1, <1>2, <1>3, PTL DEF SpecPipeline

\* Progress (src/worker/phase_reporter.py, src/gpu/orchestrate.py): what was streamed
\* as a candidate's terminal status is what settlement records, a poll that outlives
\* its poller changes nothing of a round that ended, and the phase never leaves
\* teardown.
THEOREM ProgressAgrees == SpecPipeline => BeaconFaithful
  <1>1. InitPipeline => BenchIInv
    BY BenchInit DEF InitPipeline
  <1>2. BenchIInv /\ [NextPipeline]_pipelineVars => BenchIInv'
    BY BenchNext, PipelineStep
  <1>3. BenchIInv /\ [NextPipeline]_pipelineVars =>
          [round = "running" /\ round' = "complete" =>
             \A c \in Candidate : live[c] \in Over => live'[c] = live[c]]_benchVars
    BY BenchSteps, PipelineStep
  <1>4. BenchIInv /\ [NextPipeline]_pipelineVars => [round # "running" => live' = live]_benchVars
    BY BenchSteps, PipelineStep
  <1>5. BenchIInv /\ [NextPipeline]_pipelineVars => [phase = "teardown" => phase' = "teardown"]_benchVars
    BY BenchSteps, PipelineStep
  <1> QED BY <1>1, <1>2, <1>3, <1>4, <1>5, PTL
          DEF SpecPipeline, BeaconFaithful, StreamAgrees, LateProgressDropped, TeardownPhaseStands

\* The replay (src/bench/sla_bench.py, src/bench/concurrency.py): one that ends clean
\* measured every request once, all requests of a tier from one group start, and with
\* an occupancy no greater than the slots; an answer that stops short is charged for
\* the decode it left out; and only a request that hung, or one that is alone in its
\* trace, overruns the deadline; for every trace, tier list, number of slots and
\* timeout.
THEOREM ReplaysMeasureEverything == SpecPipeline => []ReplaySafe
  <1>1. InitPipeline => ReplayIInv
    BY ReplayInit DEF InitPipeline
  <1>2. ReplayIInv /\ [NextPipeline]_pipelineVars => ReplayIInv'
    BY ReplayNext, PipelineStep
  <1>3. ReplayIInv => ReplaySafe
    BY ReplayImplies DEF ReplaySafe
  <1> QED BY <1>1, <1>2, <1>3, PTL DEF SpecPipeline

\* Repetition (src/bench/correctness.py): the suffix automaton finds the longest span
\* that occurs twice, overlapping or not, and a text that repeats a unit has no more
\* distinct n-grams than the unit has characters; for every text, alphabet and n.
THEOREM RepetitionMeasured == SpecPipeline => []RepeatsSafe
  <1>1. InitPipeline => RepeatsIInv
    BY RepeatsInit DEF InitPipeline
  <1>2. RepeatsIInv /\ [NextPipeline]_pipelineVars => RepeatsIInv'
    BY RepeatsNext, PipelineStep
  <1>3. RepeatsIInv => RepeatsSafe
    BY RepeatsImplies DEF RepeatsSafe
  <1> QED BY <1>1, <1>2, <1>3, PTL DEF SpecPipeline

\* The score (src/bench/score.py): under both rules, an answer or a tier that takes
\* longer never scores better, whatever the alignment, the median, the cap and the
\* penalty make of it; a score is at most one; and the baseline against itself scores
\* nothing; for every number of prompts, every timing, penalty, cap and weighting.
THEOREM SlowerNeverScoresBetter == SpecPipeline => []ScoreSafe
  <1>1. InitPipeline => ScoreIInv
    BY ScoreInit DEF InitPipeline
  <1>2. ScoreIInv /\ [NextPipeline]_pipelineVars => ScoreIInv'
    BY ScoreNext, PipelineStep
  <1>3. ScoreIInv => ScoreSafe
    BY ScoreImplies DEF ScoreSafe
  <1> QED BY <1>1, <1>2, <1>3, PTL DEF SpecPipeline
=============================================================================

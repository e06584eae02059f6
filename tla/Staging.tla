------------------------------ MODULE Staging ------------------------------
(***************************************************************************)
(* Staging of a pinned model revision on the GPU host                      *)
(* (src/bench/weights.py): a snapshot is downloaded into a resumable       *)
(* partial directory, validated, published by a rename, hashed, and the    *)
(* hash recorded beside it so that a multi-terabyte checkpoint is hashed   *)
(* once.  The process may die between any two steps; files of the cache    *)
(* may be replaced or damaged on the disk while it runs and between runs.  *)
(*                                                                         *)
(* A tree is abstracted to what it holds, the stat signature of its files  *)
(* (size, mtime and inode) and whether it is a complete snapshot without   *)
(* symbolic links.                                                         *)
(***************************************************************************)
EXTENDS Naturals

CONSTANTS Contents,       \* what the files of a tree can hold, numbered from one
          Attempts,       \* _STAGING_ATTEMPTS
          MaxStats,       \* bound on stat signatures
          MaxDamages,     \* bound on changes behind the process's back
          MaxStagings     \* bound on calls of stage_weights

ASSUME StagingAssumption ==
    /\ Contents \subseteq Nat \ {0} /\ Attempts \in Nat \ {0}
    /\ MaxStats \in Nat \ {0} /\ MaxDamages \in Nat /\ MaxStagings \in Nat

VARIABLES final,          \* the published tree
          partial,        \* the partial tree
          record,         \* the hash record beside the published tree
          sstep,          \* where stage_weights is
          attempt,        \* of _download_to_partial
          statsRead,           \* the stats _finalize read before it hashed
          hashed,         \* the hash it computed or reused, 0 before
          fresh,          \* stat signatures used so far
          hurt,           \* the published tree changed since stage_weights last looked at it
          damages, stagings

stageVars == <<final, partial, record, sstep, attempt, statsRead, hashed, fresh, hurt, damages, stagings>>

Tree == [holds : Contents, stats : 1..MaxStats, whole : BOOLEAN]
None == <<>>

TypeOKStaging ==
    /\ final \in Tree \cup {None} /\ partial \in Tree \cup {None}
    /\ record \in [stats : 1..MaxStats, hash : Contents] \cup {None}
    /\ sstep \in {"off", "check", "download", "verify", "unlink", "clear", "rename",
                  "stat", "hash", "save", "drop", "served", "failed"}
    /\ attempt \in 0..(Attempts - 1) /\ statsRead \in 0..MaxStats
    /\ hashed \in Contents \cup {0} /\ hurt \in BOOLEAN
    /\ fresh \in 1..MaxStats /\ damages \in 0..MaxDamages /\ stagings \in 0..MaxStagings

InitStaging ==
    /\ final = None /\ partial = None /\ record = None
    /\ sstep = "off" /\ attempt = 0 /\ statsRead = 0 /\ hashed = 0
    /\ fresh = 1 /\ hurt = FALSE /\ damages = 0 /\ stagings = 0

Becomes(from, to) == sstep = from /\ sstep' = to
Settle(to)        == sstep' = to /\ attempt' = 0

\* stage_weights: a published directory is validated before it is used.
Stage ==
    /\ sstep \in {"off", "served", "failed"} /\ stagings < MaxStagings
    /\ stagings' = stagings + 1
    /\ sstep' = IF final # None THEN "check" ELSE "download"
    /\ statsRead' = 0 /\ hashed' = 0 /\ attempt' = 0
    /\ UNCHANGED <<final, partial, record, fresh, hurt, damages>>

\* validate_staged_tree: no symbolic link, and a configuration, weights and,
\* unless the model is a draft, a tokenizer.
Valid(tree) == tree # None /\ tree.whole

\* _finalize validates the published tree; an invalid cache is deleted.
Check ==
    /\ sstep = "check"
    /\ IF Valid(final) THEN sstep' = "stat" /\ UNCHANGED final
                       ELSE sstep' = "drop" /\ final' = None
    /\ hurt' = FALSE
    /\ UNCHANGED <<partial, record, attempt, statsRead, hashed, fresh, damages, stagings>>

\* ... and then its record.
DropRecord ==
    /\ Becomes("drop", "download")
    /\ record' = None
    /\ UNCHANGED <<final, partial, attempt, statsRead, hashed, fresh, hurt, damages, stagings>>

\* snapshot_download (external) fills the partial directory, resuming what is
\* there. Its files may carry any stat signature, one seen before included.
Filled(tree) ==
    /\ tree.stats <= fresh + 1 /\ tree.stats <= MaxStats
    /\ fresh' = IF tree.stats > fresh THEN tree.stats ELSE fresh

Download ==
    /\ Becomes("download", "verify")
    /\ \E tree \in Tree : Filled(tree) /\ partial' = tree
    /\ attempt' = 0
    /\ UNCHANGED <<final, record, statsRead, hashed, hurt, damages, stagings>>

\* A dropped connection: retried while attempts are left, and the partial
\* directory is kept for the next run.
DownloadDrops ==
    /\ sstep = "download"
    /\ IF attempt + 1 < Attempts THEN attempt' = attempt + 1 /\ sstep' = sstep
                                 ELSE Settle("failed")
    /\ \E tree \in {t \in Tree : ~t.whole} : Filled(tree) /\ partial' = tree
    /\ UNCHANGED <<final, record, statsRead, hashed, hurt, damages, stagings>>

\* Any other error removes it.
DownloadFails ==
    /\ sstep = "download"
    /\ partial' = None /\ Settle("failed")
    /\ UNCHANGED <<final, record, statsRead, hashed, fresh, hurt, damages, stagings>>

\* The downloaded tree is validated; an invalid one is removed.
Verify ==
    /\ sstep = "verify"
    /\ IF Valid(partial) THEN sstep' = "unlink" /\ UNCHANGED partial
                         ELSE sstep' = "failed" /\ partial' = None
    /\ UNCHANGED <<final, record, attempt, statsRead, hashed, fresh, hurt, damages, stagings>>

\* A fresh tree is always hashed: the old record goes before the tree comes.
UnlinkRecord ==
    /\ Becomes("unlink", "clear")
    /\ record' = None
    /\ UNCHANGED <<final, partial, attempt, statsRead, hashed, fresh, hurt, damages, stagings>>

ClearFinal ==
    /\ Becomes("clear", "rename")
    /\ final' = None
    /\ UNCHANGED <<partial, record, attempt, statsRead, hashed, fresh, hurt, damages, stagings>>

\* os.rename, or an OSError that removes the partial tree; _finalize then
\* validates the published tree once more and gives up when it fails.
Rename ==
    /\ sstep = "rename"
    /\ partial' = None
    /\ \/ final' = partial /\ sstep' = IF Valid(partial) THEN "stat" ELSE "failed"
       \/ UNCHANGED final /\ sstep' = "failed"
    /\ hurt' = FALSE
    /\ UNCHANGED <<record, attempt, statsRead, hashed, fresh, damages, stagings>>

\* _recorded_manifest: the record is reused while every file keeps its stats.
Recorded == record # None /\ record.stats = final.stats

\* _file_stats, before hashing: a file changed while it is hashed fails the next match.
Stat ==
    /\ sstep = "stat" /\ final # None
    /\ sstep' = IF Recorded THEN "served" ELSE "hash"
    /\ statsRead' = final.stats /\ hashed' = IF Recorded THEN record.hash ELSE 0
    /\ UNCHANGED <<final, partial, record, attempt, fresh, hurt, damages, stagings>>

\* build_weights_manifest reads every file.
Hash ==
    /\ Becomes("hash", "save") /\ final # None
    /\ hashed' = final.holds
    /\ UNCHANGED <<final, partial, record, attempt, statsRead, fresh, hurt, damages, stagings>>

\* Mutant: the record takes the stats the files have after the hash.
SaveRecordLateStats ==
    /\ Becomes("save", "served")
    /\ record' = [stats |-> final.stats, hash |-> hashed]
    /\ UNCHANGED <<final, partial, attempt, statsRead, hashed, fresh, hurt, damages, stagings>>

\* _write_hash_record replaces the record in one step; a failure is only logged.
SaveRecord ==
    /\ Becomes("save", "served")
    /\ \/ record' = [stats |-> statsRead, hash |-> hashed]
       \/ UNCHANGED record
    /\ UNCHANGED <<final, partial, attempt, statsRead, hashed, fresh, hurt, damages, stagings>>

\* A staged file is replaced or lost on the disk (external): the tree gets a
\* stat signature it never had.
Damage ==
    /\ final # None /\ damages < MaxDamages /\ fresh < MaxStats
    /\ damages' = damages + 1 /\ fresh' = fresh + 1 /\ hurt' = TRUE
    /\ \E holds \in Contents, whole \in BOOLEAN :
           final' = [holds |-> holds, stats |-> fresh + 1, whole |-> whole]
    /\ UNCHANGED <<partial, record, sstep, attempt, statsRead, hashed, stagings>>

\* The harness is killed (external).
Die ==
    /\ sstep \notin {"off", "served", "failed"}
    /\ sstep' = "off" /\ attempt' = 0 /\ statsRead' = 0 /\ hashed' = 0
    /\ UNCHANGED <<final, partial, record, fresh, hurt, damages, stagings>>

StagingStep ==
    \/ Check \/ DropRecord \/ Download \/ DownloadDrops \/ DownloadFails \/ Verify
    \/ UnlinkRecord \/ ClearFinal \/ Rename \/ Stat \/ Hash \/ SaveRecord

NextStaging == Stage \/ StagingStep \/ Damage \/ Die

SpecStaging == InitStaging /\ [][NextStaging]_stageVars

\* The recorded hash is reused on the evidence of the stats alone. While they
\* match, it is the hash of what the files hold: through kills, changed files
\* and trees that were downloaded again with the same time stamps.
RecordTrustworthy ==
    record # None /\ final # None /\ record.stats = final.stats => record.hash = final.holds

\* A tree that fails its validation is never served, neither from the cache nor
\* after a download, unless a file was lost after the check.
\* A kill may come between any two steps of the publication.
OnlyWholeServed ==
    [][(sstep # "served" /\ sstep' = "served") => final # None /\ (final.whole \/ hurt)]_stageVars
=============================================================================

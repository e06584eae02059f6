------------------------------ MODULE Builder ------------------------------
(***************************************************************************)
(* The host that builds engine images (builder/): miner builds, the        *)
(* operators' baseline builds and compiler-cache transfers, the cleanup    *)
(* timer and the eviction of a published candidate share one Docker        *)
(* daemon, one registry and the file lock of builder/lock.py.              *)
(***************************************************************************)
EXTENDS Naturals, FiniteSets

CONSTANTS
    BuildPatch,         \* patches, each with its own image tag
    EmptyPatch,         \* the patch of a baseline build, under a tag of its own
    BuildCampaign,      \* campaigns: a commit and a base image each
    EngineOf,           \* campaign -> the engine it runs
    Builders,           \* processes that build: the gate worker, an operator
    Cleaner, Nobody,    \* holders of the lock besides the builders
    NoImage,
    MaxBuilds,          \* bound: builds and transfers started
    MaxBuildFaults      \* bound: failing commands and crashes

ASSUME BuilderAssumption ==
    /\ EmptyPatch \notin BuildPatch /\ MaxBuilds \in Nat /\ MaxBuildFaults \in Nat
    /\ Cleaner \notin Builders /\ Nobody \notin Builders \cup {Cleaner}
    /\ NoImage \notin (BuildPatch \cup {EmptyPatch}) \X BuildCampaign

VARIABLES
    lockHolder,     \* who holds the storage lock
    bstep,      \* builder -> where it is
    job,        \* builder -> what it builds: kind, patch, campaign
    local,      \* tag -> the image it names on this host
    retained,   \* campaign -> the image under its retention tag
    registry,   \* images that were pushed
    published,  \* results the gate stored: patch, campaign, image
    ccache,     \* campaign's commit -> the entries <<author's patch, engine>> of its cache
    snapshots,  \* cache backups: engine, entries
    engineImage, \* campaign -> the baseline engine image it pins, once it is open
    cstep, active,   \* the cleanup, and the campaigns it loaded
    builds, buildFaults

buildVars == <<lockHolder, bstep, job, local, retained, registry, published, ccache, snapshots,
               engineImage, cstep, active, builds, buildFaults>>

Tag == BuildPatch \cup {EmptyPatch}
Images == Tag \X BuildCampaign
NoJob == [kind |-> "none", patch |-> EmptyPatch, campaign |-> CHOOSE c \in BuildCampaign : TRUE]
Jobs == [kind : {"miner"}, patch : BuildPatch, campaign : BuildCampaign]
        \cup [kind : {"baseline", "backup", "restore"}, patch : {EmptyPatch}, campaign : BuildCampaign]

\* What a build of this job makes, and the images Docker keeps: those with a tag.
Own(j) == <<j.patch, j.campaign>>
LocalImages == {local[t] : t \in Tag} \cup {retained[c] : c \in BuildCampaign}
BuildFault == buildFaults < MaxBuildFaults /\ buildFaults' = buildFaults + 1
Step(b, from, to) == bstep[b] = from /\ bstep' = [bstep EXCEPT ![b] = to]

-----------------------------------------------------------------------------
(* Builds: serialized_build_storage around build_engine_image. *)

StartBuild(b) ==
    /\ Step(b, "idle", "waiting") /\ builds < MaxBuilds
    /\ \E j \in Jobs : job' = [job EXCEPT ![b] = j]
    /\ builds' = builds + 1
    /\ UNCHANGED <<lockHolder, local, retained, registry, published, ccache, snapshots, engineImage,
                   cstep, active, buildFaults>>

\* builder_storage_lock: a blocking caller waits for this, the others give up.
StorageLockFree == lockHolder = Nobody

\* Mutant: builds share the lock and only the cleanup is kept out.
AcquireLockShared(b) ==
    /\ lockHolder # Cleaner
    /\ Step(b, "waiting", IF job[b].kind \in {"backup", "restore"} THEN "transfer" ELSE "prepare")
    /\ lockHolder' = b
    /\ UNCHANGED <<job, local, retained, registry, published, ccache, snapshots, engineImage,
                   cstep, active, builds, buildFaults>>

AcquireLock(b) ==
    /\ StorageLockFree
    /\ Step(b, "waiting", IF job[b].kind \in {"backup", "restore"} THEN "transfer" ELSE "prepare")
    /\ lockHolder' = b
    /\ UNCHANGED <<job, local, retained, registry, published, ccache, snapshots, engineImage,
                   cstep, active, builds, buildFaults>>

\* The profile, the architecture list (pulled with the base image when it is not
\* there), the clone and the checkout, which is tried again after a fetch.
PrepareBuild(b) ==
    /\ Step(b, "prepare", "build")
    /\ UNCHANGED <<lockHolder, job, local, retained, registry, published, ccache, snapshots,
                   engineImage, cstep, active, builds, buildFaults>>

\* dockerfile_for_patch: only the trusted baseline build, which applies no patch,
\* mounts the commit's cache writable.
CacheWritable(j) == j.kind = "baseline"

\* docker buildx build --load: the tag moves to the new image.
DockerBuild(b) ==
    LET j == job[b] IN
    /\ Step(b, "build", "push")
    /\ local' = [local EXCEPT ![j.patch] = Own(j)]
    /\ ccache' = [ccache EXCEPT ![j.campaign] =
            IF CacheWritable(j) THEN @ \cup {<<j.patch, EngineOf[j.campaign]>>} ELSE @]
    /\ UNCHANGED <<lockHolder, job, retained, registry, published, snapshots, engineImage, cstep,
                   active, builds, buildFaults>>

\* docker push sends whatever the tag names.
Push(b) ==
    LET t == job[b].patch IN
    /\ Step(b, "push", "resolve")
    /\ registry' = registry \cup {local[t]}
    /\ UNCHANGED <<lockHolder, job, local, retained, published, ccache, snapshots, engineImage,
                   cstep, active, builds, buildFaults>>

\* resolve_image_repo_digest inspects the tag once more; the digest is the result,
\* and the lock is released.  The gate stores a miner's result.
Resolve(b) ==
    LET t == job[b].patch IN
    /\ Step(b, "resolve", IF job[b].kind = "miner" THEN "evict" ELSE "idle")
    /\ published' = IF job[b].kind = "miner"
                    THEN published \cup {[job |-> job[b], image |-> local[t]]} ELSE published
    /\ job' = IF job[b].kind = "miner" THEN job ELSE [job EXCEPT ![b] = NoJob]
    /\ lockHolder' = Nobody
    /\ UNCHANGED <<local, retained, registry, ccache, snapshots, engineImage, cstep, active,
                   builds, buildFaults>>

\* Any command fails or runs into its timeout, or the process dies: the submission
\* is rejected or tried again; the lock is free, and what was tagged stays.  The
\* docker client it ran is taken to die with it: the units' KillMode=mixed kills
\* what is left of a dead worker's processes.
BuildEnds(b) ==
    /\ bstep[b] \in {"prepare", "build", "push", "resolve", "transfer"}
    /\ BuildFault
    /\ bstep' = [bstep EXCEPT ![b] = "idle"] /\ job' = [job EXCEPT ![b] = NoJob]
    /\ lockHolder' = Nobody
    /\ UNCHANGED <<local, retained, registry, published, ccache, snapshots, engineImage, cstep,
                   active, builds>>

\* evict_candidate_image, once the digest is stored: given up when the lock is busy
\* or Docker refuses.
Evict(b) ==
    /\ Step(b, "evict", "idle")
    /\ \/ StorageLockFree /\ local' = [local EXCEPT ![job[b].patch] = NoImage] /\ UNCHANGED buildFaults
       \/ ~StorageLockFree /\ UNCHANGED <<local, buildFaults>>
       \/ StorageLockFree /\ BuildFault /\ UNCHANGED local
    /\ job' = [job EXCEPT ![b] = NoJob]
    /\ UNCHANGED <<lockHolder, retained, registry, published, ccache, snapshots, engineImage, cstep,
                   active, builds>>

-----------------------------------------------------------------------------
(* Cache transfers. *)

\* read_snapshot and the comparison with the target.  A transfer is told its engine
\* (--engine); its operator is taken to name the one of the commit it names.
SnapshotFits(s, c) == s.engine = EngineOf[c]

\* backup copies a commit's cache, if it has entries, into an image; restore merges
\* one into the cache of this or another commit.
Transfer(b) ==
    LET c == job[b].campaign IN
    /\ Step(b, "transfer", "idle")
    /\ \/ /\ job[b].kind = "backup"
          /\ snapshots' = IF ccache[c] = {} THEN snapshots
                          ELSE snapshots \cup {[engine |-> EngineOf[c], entries |-> ccache[c]]}
          /\ UNCHANGED ccache
       \/ /\ job[b].kind = "restore"
          /\ \/ \E s \in snapshots : SnapshotFits(s, c)
                    /\ ccache' = [ccache EXCEPT ![c] = @ \cup s.entries]
             \/ UNCHANGED ccache
          /\ UNCHANGED snapshots
    /\ lockHolder' = Nobody /\ job' = [job EXCEPT ![b] = NoJob]
    /\ UNCHANGED <<local, retained, registry, published, engineImage, cstep, active, builds, buildFaults>>

-----------------------------------------------------------------------------
(* Campaigns and the cleanup timer. *)

\* A campaign is seeded with a pushed image as its baseline engine.
OpenCampaign(c) ==
    /\ engineImage[c] = NoImage
    /\ \E i \in registry : engineImage' = [engineImage EXCEPT ![c] = i]
    /\ UNCHANGED <<lockHolder, bstep, job, local, retained, registry, published, ccache, snapshots,
                   cstep, active, builds, buildFaults>>

\* main and _load_campaigns: the run is skipped while the lock is busy.
CleanupBegins ==
    /\ cstep = "idle" /\ StorageLockFree
    /\ lockHolder' = Cleaner /\ cstep' = "retain"
    /\ active' = {c \in BuildCampaign : engineImage[c] # NoImage}
    /\ UNCHANGED <<bstep, job, local, retained, registry, published, ccache, snapshots,
                   engineImage, builds, buildFaults>>

\* _reconcile_retention: the tags of the loaded campaigns, for images that are here;
\* the others are released.
Retention == [c \in BuildCampaign |->
    IF c \notin active THEN NoImage
    ELSE IF engineImage[c] \in LocalImages THEN engineImage[c] ELSE retained[c]]

Retain ==
    /\ cstep = "retain" /\ cstep' = "remove"
    /\ retained' = Retention
    /\ UNCHANGED <<lockHolder, bstep, job, local, registry, published, ccache, snapshots,
                   engineImage, active, builds, buildFaults>>

\* A tag cannot be set, or the database is away: the whole run is given up.
CleanupFails ==
    /\ cstep = "retain" /\ BuildFault
    /\ cstep' = "idle" /\ lockHolder' = Nobody /\ active' = {}
    /\ UNCHANGED <<bstep, job, local, retained, registry, published, ccache, snapshots,
                   engineImage, builds>>

\* _candidate_refs: the tags that are patch hashes.
Removable == {t \in BuildPatch : local[t] # NoImage}

\* _remove_candidates, a refused one is skipped; then the build cache is pruned down
\* to the watermark, the cache mounts excepted.
RemoveCandidates ==
    /\ cstep = "remove" /\ cstep' = "idle"
    /\ \E kept \in SUBSET Removable :
        /\ IF kept = {} THEN UNCHANGED buildFaults ELSE BuildFault
        /\ local' = [t \in Tag |-> IF t \in Removable \ kept THEN NoImage ELSE local[t]]
    /\ lockHolder' = Nobody /\ active' = {}
    /\ UNCHANGED <<bstep, job, retained, registry, published, ccache, snapshots, engineImage, builds>>

InitBuilder ==
    /\ lockHolder = Nobody
    /\ bstep = [b \in Builders |-> "idle"] /\ job = [b \in Builders |-> NoJob]
    /\ local = [t \in Tag |-> NoImage] /\ retained = [c \in BuildCampaign |-> NoImage]
    /\ registry = {} /\ published = {} /\ snapshots = {}
    /\ ccache = [c \in BuildCampaign |-> {}]
    /\ engineImage = [c \in BuildCampaign |-> NoImage]
    /\ cstep = "idle" /\ active = {} /\ builds = 0 /\ buildFaults = 0

BuilderStep(b) ==
    AcquireLock(b) \/ PrepareBuild(b) \/ DockerBuild(b) \/ Push(b) \/ Resolve(b)
    \/ Evict(b) \/ Transfer(b)

CleanerStep == CleanupBegins \/ Retain \/ RemoveCandidates

NextBuilder ==
    \/ \E b \in Builders : StartBuild(b) \/ BuilderStep(b) \/ BuildEnds(b)
    \/ \E c \in BuildCampaign : OpenCampaign(c)
    \/ CleanerStep \/ CleanupFails

SpecBuilder == InitBuilder /\ [][NextBuilder]_buildVars

-----------------------------------------------------------------------------
\* Types: a tag names the image of a patch on a campaign's base.
TypeOKBuilder ==
    /\ lockHolder \in Builders \cup {Cleaner, Nobody}
    /\ \A b \in Builders :
        /\ bstep[b] \in {"idle", "waiting", "prepare", "build", "push", "resolve", "transfer", "evict"}
        /\ job[b] \in Jobs \cup {NoJob}
    /\ cstep \in {"idle", "retain", "remove"} /\ active \subseteq BuildCampaign
    /\ local \in [Tag -> Images \cup {NoImage}] /\ registry \subseteq Images

\* The digest stored for a submission is that of its own patch on its own campaign's
\* base, and can be pulled, although the tag is named after the patch alone and
\* another campaign's build of the same patch moves it.
PublishedIsOwn ==
    \A r \in published : r.image = Own(r.job) /\ r.image \in registry

\* A commit's compiler cache holds only what trusted builds of its engine put there,
\* along every chain of backups and restores.
CacheTrusted ==
    \A c \in BuildCampaign : \A e \in ccache[c] : e = <<EmptyPatch, EngineOf[c]>>

\* A cleanup never removes the last tag of an image that a campaign it loaded pins.
CleanupKeepsBaselines ==
    [][lockHolder = Cleaner =>
        \A c \in active : engineImage[c] \in LocalImages => engineImage[c] \in LocalImages']_buildVars
=============================================================================

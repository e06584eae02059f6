----------------------------- MODULE StaticHost -----------------------------
(***************************************************************************)
(* Benchmark runs on one owned GPU machine (run_bench_on_pod with the      *)
(* static_ssh provider, gpu/static_host.py and the reaper's part of it).   *)
(*                                                                         *)
(* Runs are made one after the other under a local lock.  On the machine a *)
(* file lock is held by whoever may touch its containers: a harness for    *)
(* its whole life, a clean-up, or the reaper.  An SSH client or its        *)
(* connection may die while the harness it started lives on; the next run  *)
(* then meets a machine it does not own, and a client that goes on after   *)
(* the connection broke pulls the output of a harness that is not over.    *)
(***************************************************************************)
EXTENDS Naturals, FiniteSets

CONSTANTS
    MaxRuns,        \* bound: benchmark runs
    Image,          \* engine images: the baseline and the candidates
    Baseline,       \* the baseline's image, kept from round to round
    MaxHostFaults   \* bound: SSH failures, killed clients, failed removals

ASSUME StaticHostAssumption ==
    MaxRuns \in Nat /\ Baseline \in Image /\ MaxHostFaults \in Nat

Runs == 1..MaxRuns
NoHolder == 0
Reaper == MaxRuns + 1

VARIABLES
    run,        \* the run under way, or the last one
    hpc,        \* where its client is
    needs,      \* the images of its engines
    holder,     \* who holds the machine's lock: a run's harness, the reaper
    queued,     \* harnesses started and waiting for the lock
    boxes,      \* the runs whose containers are on the machine
    images,     \* images on the machine
    tracked,    \* the images tracked.json names
    output,     \* run -> its directory there: "none", "begun", "report", "gone"
    copy,       \* run -> the same, as pulled by the client
    broken,     \* history: runs whose connection broke under the harness
    lostReports,\* history: runs whose report was deleted and never pulled
    hostFaults  \* faults so far (bound)

reportVars == <<copy, broken, lostReports>>
hostVars == <<run, hpc, needs, holder, queued, boxes, images, tracked, output,
              reportVars, hostFaults>>

HostFault == hostFaults < MaxHostFaults /\ hostFaults' = hostFaults + 1

\* A client takes the local host_lock and probes the machine's lock: a harness
\* that outlived its client must end first.  Busy defers the round.
ClaimHost ==
    /\ hpc = "idle" /\ run < MaxRuns
    /\ run' = run + 1
    /\ \E c \in Image : needs' = {Baseline, c}
    /\ hpc' = IF holder = NoHolder THEN "prepare" ELSE "idle"
    /\ UNCHANGED <<holder, queued, boxes, images, tracked, output, reportVars, hostFaults>>

\* Mutant: an image that could not be removed is forgotten.
CleanupForgets(cands, keep) ==
    \E failing \in SUBSET ((tracked \ keep) \cap images) :
        /\ boxes' = {}
        /\ images' = images \ ((tracked \ keep) \ failing)
        /\ tracked' = (tracked \cap keep) \cup cands
        /\ IF failing = {} THEN UNCHANGED hostFaults ELSE HostFault

\* static_host.cleanup under the lock: containers go, tracked images outside
\* keep go unless their removal fails, and what will be pulled is tracked before.
Cleanup(cands, keep) ==
    \E failing \in SUBSET ((tracked \ keep) \cap images) :
        /\ boxes' = {}
        /\ images' = images \ ((tracked \ keep) \ failing)
        /\ tracked' = (tracked \cap keep) \cup failing \cup cands
        /\ IF failing = {} THEN UNCHANGED hostFaults ELSE HostFault

\* Bootstrap, then the preparing clean-up; busy gives the claim up.
Prepare ==
    /\ hpc = "prepare"
    /\ IF holder = NoHolder
       THEN Cleanup(needs \ {Baseline}, needs) /\ hpc' = "pull"
       ELSE hpc' = "idle" /\ UNCHANGED <<boxes, images, tracked, hostFaults>>
    /\ UNCHANGED <<run, needs, holder, queued, output, reportVars>>

\* The clean-up is cut off after some removals, before tracked.json is written:
\* the round fails before it was prepared, so nothing is cleaned up after it.
PrepareCut ==
    /\ hpc = "prepare" /\ holder = NoHolder /\ HostFault
    /\ \E gone \in SUBSET (tracked \ needs) : images' = images \ gone
    /\ boxes' = {} /\ hpc' = "idle"
    /\ UNCHANGED <<run, needs, holder, queued, tracked, output, reportVars>>

\* pull_engine_images, all of them or, when it fails, some.
PullImages ==
    /\ hpc = "pull"
    /\ \/ images' = images \cup needs /\ hpc' = "start" /\ UNCHANGED hostFaults
       \/ HostFault /\ hpc' = "final" /\ \E s \in SUBSET needs : images' = images \cup s
    /\ UNCHANGED <<run, needs, holder, queued, boxes, tracked, output, reportVars>>

\* ssh_exec starts the bounded command, which makes the output directory and
\* waits for the lock.
StartHarness ==
    /\ hpc = "start"
    /\ queued' = queued \cup {run} /\ hpc' = "wait"
    /\ output' = [output EXCEPT ![run] = "begun"]
    /\ UNCHANGED <<run, needs, holder, boxes, images, tracked, reportVars, hostFaults>>

HarnessRuns(k) ==
    /\ k \in queued /\ holder = NoHolder
    /\ queued' = queued \ {k} /\ holder' = k
    /\ boxes' = boxes \cup {k}
    /\ output' = [output EXCEPT ![k] = "begun"]
    /\ UNCHANGED <<run, hpc, needs, images, tracked, reportVars, hostFaults>>

\* The 120 s wait for the lock ends: the client reads HOST_BUSY_EXIT and leaves
\* the other owner's resources alone.
HarnessBusy(k) ==
    /\ k \in queued /\ holder # NoHolder
    /\ queued' = queued \ {k}
    /\ hpc' = IF k = run /\ hpc = "wait" THEN "idle" ELSE hpc
    /\ UNCHANGED <<run, needs, holder, boxes, images, tracked, output, reportVars,
                   hostFaults>>

\* The harness ends by itself: its report is written, its containers go.
HarnessEnds(k) ==
    /\ holder = k
    /\ holder' = NoHolder /\ boxes' = boxes \ {k}
    /\ output' = [output EXCEPT ![k] = "report"]
    /\ UNCHANGED <<run, hpc, needs, queued, images, tracked, reportVars, hostFaults>>

\* timeout(1) on the machine ends it at the deadline, client or no client; its
\* containers stay.
Timeout(k) ==
    /\ holder = k
    /\ holder' = NoHolder
    /\ UNCHANGED <<run, hpc, needs, queued, boxes, images, tracked, output, reportVars,
                   hostFaults>>

\* The harness of the run under way is neither running nor waiting for the lock.
Over(k) == k \notin queued /\ holder # k

\* ssh_exec(check=False) returns: the harness is over.
SshReturns ==
    /\ hpc = "wait" /\ Over(run)
    /\ hpc' = "collect"
    /\ UNCHANGED <<run, needs, holder, queued, boxes, images, tracked, output,
                   reportVars, hostFaults>>

\* Or its connection breaks under the harness, which lives on: the exit status
\* is 255, no exception, and the client goes on to the final pull.
SshBreaks ==
    /\ hpc = "wait" /\ ~Over(run) /\ HostFault
    /\ hpc' = "collect" /\ broken' = broken \cup {run}
    /\ UNCHANGED <<run, needs, holder, queued, boxes, images, tracked, output, copy,
                   lostReports>>

\* Or the client's own deadline passes: GpuError, and teardown with nothing
\* collected.
SshLost ==
    /\ hpc = "wait" /\ HostFault
    /\ hpc' = "final"
    /\ UNCHANGED <<run, needs, holder, queued, boxes, images, tracked, output, reportVars>>

\* The final pull, over a connection of its own, takes what is there, or fails.
Collect ==
    /\ hpc = "collect" /\ hpc' = "final"
    /\ \/ copy' = [copy EXCEPT ![run] = output[run]] /\ UNCHANGED hostFaults
       \/ HostFault /\ UNCHANGED copy
    /\ UNCHANGED <<run, needs, holder, queued, boxes, images, tracked, output, broken,
                   lostReports>>

\* The client is killed: no teardown at all, and the local lock is released.
ClientKilled ==
    /\ hpc # "idle" /\ HostFault
    /\ hpc' = "idle"
    /\ UNCHANGED <<run, needs, holder, queued, boxes, images, tracked, output, reportVars>>

\* The output counts as collected if every pull succeeded.
CollectedOutput(k) == copy[k] # "none"

\* The final clean-up keeps the baselines, deletes the collected output, and
\* leaves everything to the owner when the machine is busy.
FinalCleanup ==
    /\ hpc = "final" /\ hpc' = "idle"
    /\ IF holder = NoHolder
       THEN /\ Cleanup({}, {Baseline})
            /\ IF CollectedOutput(run)
               THEN /\ output' = [output EXCEPT ![run] = "gone"]
                    /\ lostReports' = IF output[run] = "report" /\ copy[run] # "report"
                               THEN lostReports \cup {run} ELSE lostReports
               ELSE UNCHANGED <<output, lostReports>>
       ELSE UNCHANGED <<boxes, images, tracked, output, lostReports, hostFaults>>
    /\ UNCHANGED <<run, needs, holder, queued, copy, broken>>

\* Mutant: the periodic clean-up takes no lock.
ReaperTakesAnyway ==
    /\ holder # Reaper /\ boxes # {}
    /\ boxes' = {}
    /\ UNCHANGED <<run, hpc, needs, holder, queued, images, tracked, output, reportVars,
                   hostFaults>>

\* reap_idle_containers: busy does nothing; otherwise containers of Pareton go.
ReaperTakes ==
    /\ holder = NoHolder
    /\ holder' = Reaper
    /\ UNCHANGED <<run, hpc, needs, queued, boxes, images, tracked, output, reportVars,
                   hostFaults>>

ReaperCleans ==
    /\ holder = Reaper
    /\ holder' = NoHolder /\ boxes' = {}
    /\ UNCHANGED <<run, hpc, needs, queued, images, tracked, output, reportVars,
                   hostFaults>>

InitHost ==
    /\ run = 0 /\ hpc = "idle" /\ needs = {}
    /\ holder = NoHolder /\ queued = {} /\ boxes = {}
    /\ images = {} /\ tracked = {}
    /\ output = [k \in Runs |-> "none"] /\ copy = [k \in Runs |-> "none"]
    /\ broken = {} /\ lostReports = {}
    /\ hostFaults = 0

NextHost ==
    \/ ClaimHost \/ Prepare \/ PrepareCut \/ PullImages \/ StartHarness
    \/ SshReturns \/ SshBreaks \/ SshLost \/ Collect \/ ClientKilled \/ FinalCleanup
    \/ ReaperTakes \/ ReaperCleans
    \/ \E k \in Runs : HarnessRuns(k) \/ HarnessBusy(k) \/ HarnessEnds(k) \/ Timeout(k)

\* timeout(1) fires; the reaper's remote command is itself bounded.
FairHost ==
    /\ \A k \in Runs : WF_hostVars(Timeout(k))
    /\ WF_hostVars(ReaperCleans)

SpecHost == InitHost /\ [][NextHost]_hostVars

-----------------------------------------------------------------------------
\* Types, and nothing of a run is on the machine before it was made.
TypeOKHost ==
    /\ run \in 0..MaxRuns
    /\ hpc \in {"idle", "prepare", "pull", "start", "wait", "collect", "final"}
    /\ holder \in 0..(MaxRuns + 1)
    /\ queued \subseteq 1..run /\ boxes \subseteq 1..run
    /\ needs \subseteq Image /\ images \subseteq Image /\ tracked \subseteq Image
    /\ \A k \in Runs : k > run => output[k] = "none" /\ copy[k] = "none"
    /\ hostFaults \in 0..MaxHostFaults

\* "Delete only this run after every attempted output pull succeeded": the output
\* of a run whose client died or could not pull stays for an operator, whatever
\* cleans up later, and a report that no client has is deleted only when the
\* connection broke under the harness that wrote it.
UncollectedKept ==
    /\ \A k \in Runs : output[k] = "gone" => copy[k] # "none"
    /\ lostReports \subseteq broken

\* Every candidate image on the machine is in tracked.json, so that some later
\* clean-up removes it: it is registered before it is pulled and stays
\* registered while its removal fails.
ImagesTracked == images \subseteq (tracked \cup {Baseline})

\* A harness that is running keeps its containers until it ends: neither the
\* reaper nor the clean-up of another run touches them.
HarnessUndisturbed ==
    [][\A k \in Runs : (holder = k /\ holder' = k /\ k \in boxes) => k \in boxes']_hostVars

\* "A dead SSH client must not leave a harness running indefinitely": the lock of
\* the machine is free again and again, whoever died holding it.
HostFreed == []<>(holder = NoHolder)

\* What the machine keeps for its runs: reports, but those written after a broken
\* client's pull, and a record of every candidate image.
HostSafe == TypeOKHost /\ UncollectedKept /\ ImagesTracked

\* Runs, reaper and dead clients share the machine: nobody disturbs a running
\* harness, and nobody holds the machine for good.
HostShared == HarnessUndisturbed /\ HostFreed
=============================================================================

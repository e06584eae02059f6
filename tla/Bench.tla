------------------------------- MODULE Bench -------------------------------
(***************************************************************************)
(* One round's benchmark: the harness on the GPU machine (bench/main.py,   *)
(* bench/lifecycle.py), the progress files it writes, the thread that      *)
(* relays them to the database (gpu/orchestrate.py, worker/round_job.py)   *)
(* and the judgement of the report it leaves behind.                       *)
(*                                                                         *)
(* The harness starts one engine after the other: the baseline, the        *)
(* baseline again, every candidate, and one scorer that grades everything  *)
(* captured.  What an engine does is a choice; what a candidate says is    *)
(* graded by Grading, of which only the verdict is used here.              *)
(***************************************************************************)
EXTENDS Naturals, Sequences, FiniteSets

CONSTANTS
    NCandidates,    \* candidates of the round, numbered from 1
    Shapes,         \* <<leader's index or 0, tiered workload>> of the rounds considered
    Prompt,         \* requests of the workload trace
    MaxUnstable,       \* MAX_BASELINE_PROMPT_DROPS
    MaxStarts,      \* _NO_ACCELERATOR_ATTEMPTS
    MaxBenchFaults  \* bound: failed removals and pulls, noisy runs, lost reports, reaped rounds

ASSUME BenchAssumption ==
    /\ Shapes \subseteq (0..NCandidates) \X BOOLEAN
    /\ NCandidates \in Nat \ {0} /\ MaxUnstable \in Nat
    /\ MaxStarts \in Nat \ {0} /\ MaxBenchFaults \in Nat

Candidate == 1..NCandidates
Entries == 0..NCandidates       \* 0 is the baseline's row
Over == {"scored", "disqualified", "infra_failed"}

VARIABLES
    leader,         \* the leader's index among the candidates, or 0
    concurrent,     \* a tiered workload: prompts are filtered after the drift leg
    leg,            \* position in the plan
    hstep,          \* where the harness is with it
    tries,          \* docker runs of this leg so far
    up,             \* legs whose started container is on the machine
    stuck,          \* of those, the ones the harness will not remove: the removal
                    \* failed, or docker run never told the container's id
    excluded,       \* prompts a baseline run was unstable on
    replayed,       \* candidate -> prompts it was measured on
    crun,           \* candidate -> how its leg ended
    verdicts,       \* entry -> correctness verdict
    beacon,         \* entry_status.json: entry -> status
    report,         \* bench_report.json: its verdict and its entries' statuses
    exit,           \* the harness's exit code, or the timeout's
    live,           \* round_entries.status
    phase,          \* rounds.phase
    round,          \* rounds.status: running, complete, void
    wstep,          \* where the worker is
    poll,           \* what the poll thread has read and not yet written
    stopped,        \* the poller's stop event
    benchFaults     \* faults so far (bound)

harnessVars == <<leg, hstep, tries, up, stuck, excluded, replayed, crun, verdicts,
                 beacon, report, exit>>
workerVars == <<live, phase, round, wstep, poll, stopped>>
benchVars == <<leader, concurrent, harnessVars, workerVars, benchFaults>>

BenchFault == benchFaults < MaxBenchFaults /\ benchFaults' = benchFaults + 1

-----------------------------------------------------------------------------
(* The plan. *)

CandidateStarts == [i \in Candidate |-> [kind |-> "candidate", entry |-> i]]
TrustedStart(kind) == <<[kind |-> kind, entry |-> 0]>>

\* plan_round_starts: every container of the round, in order.
Plan ==
    TrustedStart("baseline") \o TrustedStart("drift") \o CandidateStarts
        \o TrustedStart("scorer")

Kind == Plan[leg].kind
Entry == Plan[leg].entry

\* note: the whole progress file is rewritten with one more status.
Note(k, st) == beacon' = [beacon EXCEPT ![k] = st]

\* The next start of the plan.
Advance == leg' = leg + 1 /\ hstep' = "start" /\ tries' = 0

\* A round that cannot go on: EXIT_ENGINE with an error report that names no
\* entry, or EXIT_ENV without one.
EndRound(code) ==
    /\ hstep' = "ended" /\ exit' = code /\ UNCHANGED <<leg, tries>>
    /\ \/ code = "engine" /\ report' = [verdict |-> "error", entries |-> <<>>]
       \/ UNCHANGED report

\* The engine's container is removed, or docker rm -f fails until its deadline.
RemoveContainer ==
    \/ up' = up \ {leg} /\ UNCHANGED <<stuck, benchFaults>>
    \/ up' = up /\ stuck' = stuck \cup {leg} /\ BenchFault

-----------------------------------------------------------------------------
(* The harness. *)

\* The weights are staged, once, before any engine.
StageFails ==
    /\ hstep = "stage"
    /\ EndRound("engine")
    /\ UNCHANGED <<leader, concurrent, up, stuck, excluded, replayed, crun, verdicts,
                   beacon, workerVars, benchFaults>>

StageDone ==
    /\ hstep = "stage" /\ hstep' = "start"
    /\ UNCHANGED <<leader, concurrent, leg, tries, up, stuck, excluded, replayed, crun,
                   verdicts, beacon, report, exit, workerVars, benchFaults>>

\* The leader failed: "benching the rest of the cohort only burns pod hours".
LeaderFailed == leader # 0 /\ crun[leader] \in {"disqualified", "infra_failed"}

SkipCandidate ==
    /\ hstep = "start" /\ leg <= Len(Plan) /\ Kind = "candidate" /\ LeaderFailed
    /\ crun' = [crun EXCEPT ![Entry] = "infra_failed"]
    /\ Note(Entry, "infra_failed")
    /\ Advance
    /\ UNCHANGED <<leader, concurrent, up, stuck, excluded, replayed, verdicts, report,
                   exit, workerVars, benchFaults>>

\* PendingCorrectness: the candidates whose outputs were captured.
Pending == {c \in Candidate : crun[c] = "scored"}

SkipScorer ==
    /\ hstep = "start" /\ leg <= Len(Plan) /\ Kind = "scorer" /\ Pending = {}
    /\ Advance
    /\ UNCHANGED <<leader, concurrent, up, stuck, excluded, replayed, crun, verdicts,
                   beacon, report, exit, workerVars, benchFaults>>

Skipped == \/ Kind = "candidate" /\ LeaderFailed
           \/ Kind = "scorer" /\ Pending = {}

\* The leg is announced.
BeginLeg ==
    /\ hstep = "start" /\ leg <= Len(Plan) /\ ~Skipped
    /\ IF Kind \in {"baseline", "candidate"} THEN Note(Entry, "running") ELSE UNCHANGED beacon
    /\ hstep' = "run"
    /\ UNCHANGED <<leader, concurrent, leg, tries, up, stuck, excluded, replayed, crun,
                   verdicts, report, exit, workerVars, benchFaults>>

\* A candidate's own code died: disqualified, but the incumbent's crash is read as
\* infrastructure here as it will be at settlement.
Crashed ==
    /\ crun' = [crun EXCEPT ![Entry] = "disqualified"]
    /\ Note(Entry, IF Entry = leader THEN "infra_failed" ELSE "disqualified")

\* What a leg's failure does: a trusted engine's ends the round, a candidate's is
\* that entry's.
LegFails(why) ==
    CASE Kind = "candidate" /\ why = "crash" ->
            Crashed /\ Advance /\ UNCHANGED <<report, exit>>
      [] Kind = "candidate" /\ why # "crash" ->
            /\ crun' = [crun EXCEPT ![Entry] = "infra_failed"]
            /\ Note(Entry, "infra_failed")
            /\ Advance /\ UNCHANGED <<report, exit>>
      [] Kind # "candidate" ->
            /\ IF Kind = "baseline" THEN Note(0, "infra_failed") ELSE UNCHANGED beacon
            /\ EndRound("engine") /\ UNCHANGED crun

\* The image is pulled and resolved, and docker run is called.
RunContainer ==
    /\ hstep = "run" /\ leg \notin stuck /\ hstep' = "boot"
    /\ tries' = tries + 1 /\ up' = up \cup {leg}
    /\ UNCHANGED <<leader, concurrent, leg, stuck, excluded, replayed, crun, verdicts,
                   beacon, report, exit, workerVars, benchFaults>>

\* A container that would not go keeps the name a second attempt needs.  A run that
\* times out may have started its container, whose id _teardown then does not have.
RunFails ==
    /\ hstep = "run"
    /\ \/ leg \in stuck /\ UNCHANGED <<up, stuck, benchFaults>>
       \/ UNCHANGED <<up, stuck>> /\ BenchFault
       \/ up' = up \cup {leg} /\ stuck' = stuck \cup {leg} /\ BenchFault
    /\ LegFails("infra")
    /\ UNCHANGED <<leader, concurrent, excluded, replayed, verdicts, workerVars>>

\* The docker daemon is gone (raise_docker_failure), and so is the way to remove.
DockerDown ==
    /\ hstep \in {"run", "boot"} /\ BenchFault
    /\ EndRound("env")
    /\ stuck' = up
    /\ UNCHANGED <<leader, concurrent, up, excluded, replayed, crun, verdicts,
                   beacon, workerVars>>

BecomesHealthy ==
    /\ hstep = "boot" /\ hstep' = "serving"
    /\ UNCHANGED <<leader, concurrent, leg, tries, up, stuck, excluded, replayed, crun,
                   verdicts, beacon, report, exit, workerVars, benchFaults>>

\* "No accelerator" in the log: another attempt, but never for a candidate, which
\* writes that log itself.
MayRetry == Kind # "candidate" /\ tries < MaxStarts

NoAccelerator ==
    /\ hstep = "boot" /\ MayRetry
    /\ RemoveContainer
    /\ hstep' = "run" /\ UNCHANGED tries
    /\ UNCHANGED <<leader, concurrent, leg, excluded, replayed, crun, verdicts, beacon,
                   report, exit, workerVars>>

\* The container exits ("crash"), is killed or stays unhealthy too long ("infra");
\* it is removed before the failure is reported.
BootFails(why) ==
    /\ hstep = "boot"
    /\ RemoveContainer
    /\ LegFails(why)
    /\ UNCHANGED <<leader, concurrent, excluded, replayed, verdicts, workerVars>>

\* baseline_prompt_drops and the degeneracy references: prompts unstable in either
\* baseline run, within the limit and never all of them.
Droppable(d) == Cardinality(d) <= MaxUnstable /\ d # Prompt

\* A baseline run is measured.
BaselineServes ==
    /\ hstep = "serving" /\ Kind \in {"baseline", "drift"}
    /\ RemoveContainer
    /\ \E d \in SUBSET Prompt : excluded' = excluded \cup d /\ Droppable(excluded')
    /\ IF Kind = "baseline" THEN Note(0, "scored") ELSE UNCHANGED beacon
    /\ Advance
    /\ UNCHANGED <<leader, concurrent, replayed, crun, verdicts, report, exit, workerVars>>

\* A candidate is measured on what the trace then holds.
CandidateServes ==
    /\ hstep = "serving" /\ Kind = "candidate"
    /\ RemoveContainer
    /\ replayed' = [replayed EXCEPT ![Entry] = IF concurrent THEN Prompt \ excluded ELSE Prompt]
    /\ crun' = [crun EXCEPT ![Entry] = "scored"]
    /\ Advance
    /\ UNCHANGED <<leader, concurrent, excluded, verdicts, beacon, report, exit, workerVars>>

\* Preflight, a request or the capture fails; unstable prompts beyond the limit.
ServingFails ==
    /\ hstep = "serving"
    /\ RemoveContainer
    /\ LegFails("infra")
    /\ UNCHANGED <<leader, concurrent, excluded, replayed, verdicts, workerVars>>

\* grade_all: every pending output gets a verdict, the baseline's first.
Graded == [Pending \cup {0} -> {"pass", "fail_correctness", "infra_failed"}]

\* The status a verdict other than pass streams and reports.
VerdictStatus(v) == IF v = "infra_failed" THEN "infra_failed" ELSE "disqualified"

Judged(g, c) == IF c \in Pending /\ g[c] # "pass" THEN VerdictStatus(g[c]) ELSE beacon[c]

\* Mutant: the verdicts are streamed before the baseline is looked at.
StreamVerdictsFirst(g) ==
    /\ beacon' = [c \in Entries |-> Judged(g, c)]
    /\ IF g[0] = "pass" THEN Advance /\ UNCHANGED <<report, exit>> ELSE EndRound("engine")

\* A baseline that does not pass is the harness's fault and ends the round; only
\* then are the candidates' verdicts streamed.
StreamVerdicts(g) ==
    IF g[0] = "pass"
    THEN /\ beacon' = [c \in Entries |-> Judged(g, c)]
         /\ Advance /\ UNCHANGED <<report, exit>>
    ELSE EndRound("engine") /\ UNCHANGED beacon

ScorerServes ==
    /\ hstep = "serving" /\ Kind = "scorer"
    /\ RemoveContainer
    /\ \E g \in Graded :
        /\ verdicts' = [c \in Entries |-> IF c \in DOMAIN g THEN g[c] ELSE "none"]
        /\ StreamVerdicts(g)
    /\ UNCHANGED <<leader, concurrent, excluded, replayed, crun, workerVars>>

\* _build_entries: crash, failed run, verdict, repetitions too far apart, score.
EntryStatus(c, noisy) ==
    CASE crun[c] # "scored" -> crun[c]
      [] crun[c] = "scored" /\ verdicts[c] \in {"fail_correctness", "infra_failed"} ->
            VerdictStatus(verdicts[c])
      [] crun[c] = "scored" /\ verdicts[c] = "pass" /\ noisy -> "infra_failed"
      [] OTHER -> "scored"

\* The pass report.
WriteReport ==
    /\ hstep = "start" /\ leg > Len(Plan)
    /\ \E noisy \in SUBSET Candidate :
        /\ IF noisy = {} THEN UNCHANGED benchFaults ELSE BenchFault
        /\ report' = [verdict |-> "pass",
                      entries |-> [c \in Candidate |-> EntryStatus(c, c \in noisy)]]
    /\ hstep' = "ended" /\ exit' = "ok"
    /\ UNCHANGED <<leader, concurrent, leg, tries, up, stuck, excluded, replayed, crun,
                   verdicts, beacon, workerVars>>

\* The report does not pass its own validation, or cannot be written.
ReportFails ==
    /\ hstep = "start" /\ leg > Len(Plan) /\ BenchFault
    /\ hstep' = "ended" /\ exit' = "bad_request"
    /\ UNCHANGED <<leader, concurrent, leg, tries, up, stuck, excluded, replayed, crun,
                   verdicts, beacon, report, workerVars>>

-----------------------------------------------------------------------------
(* The progress relay. *)

\* PhaseReporter.set: the row of a round that is not running refuses the write.
SetPhase(p) == phase' = IF round = "running" THEN p ELSE phase

Idle == [at |-> "idle", phase |-> "none", batch |-> <<>>]

\* The phase file names the work under way.
HarnessPhase == IF leg <= Len(Plan) /\ Kind = "scorer" THEN "correctness" ELSE "sla_bench"

\* read_pod_phase over SSH.
PollPhase ==
    /\ poll.at = "idle" /\ ~stopped /\ wstep = "ssh"
    /\ poll' = [Idle EXCEPT !.at = "phase", !.phase = HarnessPhase]
    /\ UNCHANGED <<leader, concurrent, harnessVars, live, phase, round, wstep, stopped, benchFaults>>

\* read_pod_entry_statuses: only the baseline's leg ever reports scored.
ParsedStatus(b) == [k \in Entries |-> IF k # 0 /\ b[k] = "scored" THEN "none" ELSE b[k]]

\* The file as the harness wrote it, or corrupt in one entry.
PollEntries ==
    \/ poll' = [Idle EXCEPT !.at = "rows", !.batch = ParsedStatus(beacon)] /\ UNCHANGED benchFaults
    \/ /\ BenchFault
       /\ \E c \in Candidate :
            poll' = [Idle EXCEPT !.at = "rows", !.batch = ParsedStatus([beacon EXCEPT ![c] = "scored"])]

\* Mutant: the stop event is not looked at under the lock.
RelayPhaseAnyway ==
    /\ poll.at = "phase"
    /\ SetPhase(poll.phase)
    /\ PollEntries
    /\ UNCHANGED <<leader, concurrent, harnessVars, live, round, wstep, stopped>>

\* on_phase under the poller's lock, unless the poller was stopped meanwhile: then
\* the thread ends.
RelayPhase ==
    /\ poll.at = "phase"
    /\ IF stopped
       THEN poll' = [Idle EXCEPT !.at = "dead"] /\ UNCHANGED <<phase, benchFaults>>
       ELSE /\ SetPhase(poll.phase)
            /\ PollEntries
    /\ UNCHANGED <<leader, concurrent, harnessVars, live, round, wstep, stopped>>

\* update_round_entry_live_status: forward only, and only of a running round.
WriteRows(b) ==
    live' = [k \in Entries |->
        IF round = "running" /\ live[k] \in {"pending", "running"} /\ b[k] # "none"
        THEN b[k] ELSE live[k]]

RelayEntries ==
    /\ poll.at = "rows"
    /\ WriteRows(poll.batch)
    /\ poll' = IF stopped THEN [Idle EXCEPT !.at = "dead"] ELSE Idle
    /\ UNCHANGED <<leader, concurrent, harnessVars, phase, round, wstep, stopped, benchFaults>>

-----------------------------------------------------------------------------
(* The worker. *)

\* The blocking ssh returns with the harness's exit code, or times out first.
SshReturns ==
    /\ wstep = "ssh" /\ hstep = "ended" /\ wstep' = "final"
    /\ UNCHANGED <<leader, concurrent, harnessVars, live, phase, round, poll, stopped, benchFaults>>

SshTimesOut ==
    /\ wstep = "ssh" /\ hstep # "ended" /\ BenchFault
    /\ wstep' = "timeout"
    /\ UNCHANGED <<leader, concurrent, harnessVars, live, phase, round, poll, stopped>>

\* final_read, the poller's stop (its thread may outlive the join), and teardown.
FinalRead ==
    /\ wstep = "final" /\ wstep' = "teardown"
    /\ WriteRows(ParsedStatus(beacon))
    /\ stopped' = TRUE
    /\ UNCHANGED <<leader, concurrent, harnessVars, phase, round, poll, benchFaults>>

StopPoller ==
    /\ wstep = "timeout" /\ wstep' = "void"
    /\ stopped' = TRUE
    /\ SetPhase("teardown")
    /\ UNCHANGED <<leader, concurrent, harnessVars, live, round, poll, benchFaults>>

\* No report, or one that bind_report_to_round finds not to be of this request.
Unbound == [verdict |-> "none", entries |-> <<>>]

\* The output's pull and the pod's teardown: the report may be lost, and a pod that
\* cannot be destroyed replaces the exit code by EXIT_DESTROY_FAILED.
PullOutput ==
    /\ wstep = "teardown" /\ wstep' = "judge"
    /\ SetPhase("teardown")
    /\ \/ UNCHANGED <<report, exit, benchFaults>>
       \/ BenchFault /\ report' = Unbound /\ UNCHANGED exit
       \/ BenchFault /\ exit' = "destroy_failed" /\ UNCHANGED report
    /\ up' = {} /\ stuck' = {} /\ tries' = 0
    /\ UNCHANGED <<leader, concurrent, leg, hstep, excluded, replayed, crun, verdicts,
                   beacon, live, round, poll, stopped>>

\* classify_round_failure: a bound report is needed, and a clean exit code or the
\* one that hides it.
Settleable == report.verdict # "none" /\ exit \in {"ok", "destroy_failed"}

\* entry_results_from_report: request order, an entry without a status counts as
\* infra_failed, and the incumbent's crash is read as infrastructure.
EntryResults(c) ==
    IF c \notin DOMAIN report.entries \/ (c = leader /\ crun[c] = "disqualified")
    THEN "infra_failed" ELSE report.entries[c]

\* An error report names no entries.
CompleteReport == DOMAIN report.entries = Candidate

VoidRound == round' = (IF round = "running" THEN "void" ELSE round) /\ UNCHANGED live

LeaderInfra == leader # 0 /\ EntryResults(leader) = "infra_failed"

\* The verdict on the round: rank_round voids it when the leader's entry failed as
\* infrastructure or the two baselines drifted apart; complete_round loses to an
\* earlier void.
JudgeRound ==
    /\ wstep = "judge" /\ wstep' = "done"
    /\ \/ /\ Settleable /\ CompleteReport /\ round = "running"
          /\ ~LeaderInfra
          /\ round' = "complete"
          /\ live' = [k \in Entries |-> IF k = 0 THEN "scored" ELSE EntryResults(k)]
       \/ VoidRound
    /\ UNCHANGED <<leader, concurrent, harnessVars, phase, poll, stopped, benchFaults>>

TimeoutVoids ==
    /\ wstep = "void" /\ wstep' = "done"
    /\ VoidRound
    /\ UNCHANGED <<leader, concurrent, harnessVars, phase, poll, stopped, benchFaults>>

\* Another worker reaps the round as stale.
ReapedMeanwhile ==
    /\ round = "running" /\ wstep # "done" /\ BenchFault
    /\ round' = "void"
    /\ UNCHANGED <<leader, concurrent, harnessVars, live, phase, wstep, poll, stopped>>

-----------------------------------------------------------------------------
InitBench ==
    /\ \E s \in Shapes : leader = s[1] /\ concurrent = s[2]
    /\ leg = 1 /\ hstep = "stage" /\ tries = 0
    /\ up = {} /\ stuck = {} /\ excluded = {}
    /\ replayed = [c \in Candidate |-> {}]
    /\ crun = [c \in Candidate |-> "none"]
    /\ verdicts = [k \in Entries |-> "none"]
    /\ beacon = [k \in Entries |-> "none"]
    /\ report = [verdict |-> "none", entries |-> <<>>] /\ exit = "none"
    /\ live = [k \in Entries |-> "pending"]
    /\ phase = "provision" /\ round = "running" /\ wstep = "ssh"
    /\ poll = Idle /\ stopped = FALSE
    /\ benchFaults = 0

HarnessStep ==
    \/ StageFails \/ StageDone \/ SkipCandidate \/ SkipScorer \/ BeginLeg
    \/ RunContainer \/ RunFails \/ DockerDown \/ BecomesHealthy \/ NoAccelerator
    \/ \E why \in {"crash", "infra"} : BootFails(why)
    \/ BaselineServes \/ CandidateServes \/ ScorerServes \/ ServingFails
    \/ WriteReport \/ ReportFails

WorkerStep ==
    \/ PollPhase \/ RelayPhase \/ RelayEntries
    \/ SshReturns \/ SshTimesOut \/ FinalRead \/ StopPoller \/ PullOutput
    \/ JudgeRound \/ TimeoutVoids \/ ReapedMeanwhile

NextBench == HarnessStep \/ WorkerStep

SpecBench == InitBench /\ [][NextBench]_benchVars

-----------------------------------------------------------------------------
Statuses == Over \cup {"none", "pending", "running"}

\* Types; no more prompts are dropped than the limit; a report is either absent, an error's or has an entry per candidate.
TypeOKBench ==
    /\ leader \in Entries /\ concurrent \in BOOLEAN
    /\ leg \in 1..(Len(Plan) + 1) /\ tries \in 0..MaxStarts
    /\ hstep \in {"stage", "start", "run", "boot", "serving", "ended"}
    /\ stuck \subseteq up /\ up \subseteq 1..Len(Plan)
    /\ excluded \subseteq Prompt /\ Cardinality(excluded) <= MaxUnstable
    /\ DOMAIN report.entries \in {{}, Candidate}
    /\ \A k \in Entries : beacon[k] \in Statuses /\ live[k] \in Statuses
    /\ benchFaults \in 0..MaxBenchFaults

\* "__exit__ is NOT called when __enter__ raises": whatever way a start ends, its
\* container is gone before the next engine is started and measured, unless docker
\* could not remove it or never told the harness what it had started.
OneEngineAtATime ==
    /\ up \ stuck \subseteq {leg}
    /\ hstep \in {"start", "run"} => up = stuck

\* Every scored candidate of a tiered workload was measured on the prompts the
\* baselines are scored on: the drift run had its say before the first candidate.
SamePrompts ==
    concurrent => \A c \in Candidate : crun[c] = "scored" => replayed[c] = Prompt \ excluded

\* A round the harness itself failed charges nobody but the candidates whose own
\* process died: no verdict is streamed from a reference that was not vouched for.
HarnessFaultChargesNobody ==
    exit \in {"engine", "env"} =>
        \A c \in Candidate : beacon[c] = "disqualified" => crun[c] = "disqualified"

\* A challenger's row is never settled by progress, only by complete_round.
OnlySettlementScores ==
    round # "complete" => \A c \in Candidate : live[c] # "scored"

\* A round completes only from a report in which the harness vouched for itself, an
\* exit code hidden by a failed teardown included.
CompleteOnlyFromPass == round = "complete" => report.verdict = "pass"

\* What was streamed as terminal for an entry is what settlement records for it.
StreamAgrees ==
    [][round = "running" /\ round' = "complete" =>
        \A c \in Candidate : live[c] \in Over => live'[c] = live[c]]_benchVars

\* Progress that arrives late, from a poll that outlived its poller, changes nothing
\* of a round that ended.
LateProgressDropped == [][round # "running" => live' = live]_benchVars

\* "never overwrite a later worker-owned phase such as teardown".
TeardownPhaseStands == [][phase = "teardown" => phase' = "teardown"]_benchVars

\* Progress that is streamed while the harness runs agrees with what is settled, and
\* never outruns the round or the worker's own phase.
BeaconFaithful == StreamAgrees /\ LateProgressDropped /\ TeardownPhaseStands
=============================================================================

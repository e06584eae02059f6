# Pareton: a TLA+ verification project

Pareton (SN10) runs inference-optimisation campaigns. Miners commit patches on
chain; a watcher ingests them, workers gate and build them, rounds benchmark
them on a rented GPU pod, the best one wears the campaign's crown, and a weights
process turns the crowns into on-chain weights. All of it is a handful of
processes that share one Postgres database, a few files on one host, and no
other means of talking to each other. This project models the parts in which
those processes meet, checks them with TLC on small instances, and proves the
main invariants with TLAPS for every value of the constants.

## 1. Inventory

| Component | State | Operations | Interacts through |
| --- | --- | --- | --- |
| Ranking (`round/rank.py`) | none | `rank_round` | called by the round worker on one report |
| Rounds and crown (`round/store.py`, `db/schema.sql`) | `rounds`, `round_entries`, `leaders`, `leader_history` | create, claim, defer, heartbeat, live status, complete, void, reap, vacate, exclude, waive | rows and row locks |
| Round creation (`round/create.py`, `worker/watcher.py`) | none between scans | queue read, `should_create`, `create_round`, `reap_stale_rounds` | the database; several watchers may run |
| Round worker (`worker/round_job.py`, `worker/phase_reporter.py`) | the claimed round, its report | `process_round` | the database, the pod |
| Gate queue (`campaign/store.py`, `worker/pipeline.py`) | `submission_jobs`, `submission_events` | claim, defer, fail, build, complete | the database |
| Recovery (`ops/recover_submission.py`) | none | inspect, recover | the database, the deploy mutex and the activity lock |
| Claim gate (`worker/coordination.py`, `worker/main.py`) | a shared file lock per cycle | `claim_guard` | lock file, release state file |
| Release coordinator (`ops/release.py`) | `release-state.json`, `request.json`, checkout, virtualenv, installed configuration | tick, seven requests, hold | the two files, two locks, systemd |
| Exclusion (`campaign/exclusion.py`, `disqualify.py`, `waive.py`) | events with an action | exclude, waive | the database |
| Weights (`weights/`, `chain/weights.py`) | `weight_sets`, two in-process markers | cycle due, reconcile, build, store, sign | the database, the chain |
| Ingest (`chain/`, `miner/commit_patch.py`, `campaign/fees.py`, `set_fee.py`, `carryover.py`) | commitments, payments, fee history, submissions | pay, commit, scan, check, insert, set fee, carry over | the chain, the database |
| GPU pods (`gpu/orchestrate.py`, `registry.py`, `reap.py`, `providers/`) | `pods.json`, rented pods and volumes | search, rent, use, destroy, reap | providers, registry file, provision lock |
| Static host (`gpu/static_host.py`) | a file lock, containers, images, outputs on one machine | prepare, run, collect, clean up, reap | SSH, the file lock |
| Benchmark (`bench/`) | engines, progress files, report | start, replay, grade, score, report, stage weights | files the worker polls and pulls |
| Builder (`builder/`) | images, tags, caches, a file lock | build, push, evict, clean up | Docker, the registry |
| Storage and API (`storage/`, `api/server.py`) | private and public objects, disclosure terms | sign, upload, copy, publish | the object store, the database |
| Connections (`db/connection.py`) | semaphore, pool | `db_connection` | every store function |
| Configuration (`ops/sync-config.py`) | managed files, `sync-pending.json` | install, roll back, settle | systemd, the release tick |
| Gate checks, observability, one-off tools | local to one call | | verdicts and log lines only |

What is hard in this code, and therefore what the properties are about:

* *Two transactions where one was meant.* A queue read and `create_round`; a
  leader found deregistered and `vacate_leader_if_idle`; the two halves of
  `_fail`; the phase and the request of a tick. Anything may happen in between.
* *Actors that come back late.* A round worker whose round was reaped, a gate
  worker whose job was recovered, an operator who acts on an old `inspect`.
* *Death.* Workers are killed; a tick is killed or a command it runs times out.
  Rounds are reaped, gate jobs are not; a tick is continued from its two files.
* *Order.* A submission's state is its newest event, by a timestamp that is
  taken when the writing transaction begins.
* *Half a job done.* A pod rented and not written down, a container that is not
  removed, a configuration installed and not in force, a report written and not
  collected, a weight vector stored and not signed.
* *What was checked is not what is used.* A fee quoted and changed, weights
  hashed while they change, a patch verified and replaced, a registry file read
  and overwritten.
* *Two locks and a gate.* Workers may claim only when the release gate is open,
  and the gate is not the lock.

`PROJECT.json` lists every component, also those left out, and every hazard at
its line.

## 2. Modules

| Module | Models | Used by |
| --- | --- | --- |
| `Rank` | `rank_round` as operators on one report | `Rounds` |
| `Rounds` | one campaign: gates in short, watchers, round workers, reaper, crown, exclusion, waiver, vacating | `MCRounds`, proofs |
| `CrownRegister` | abstract: what the competition promises about a crown | implemented by `Rounds` |
| `RoundsProofs` | type correctness, the safety theorems, the action properties and the refinement | |
| `EventOrder` | the three transactions that race over a campaign, split at their lock waits | `MCLedger`, `LedgerProofs` |
| `Weights` | the weights process, settling rounds, opening campaigns | `MCLedger`, `LedgerProofs` |
| `Pool` | database connections of one process | `MCLedger`, `FleetProofs` |
| `GateJobs` | the gate queue, worker death, recovery, the claim gate | `MCFleet`, `GateJobsProofs` |
| `Pods` | rented pods, registry file, reaper | `MCFleet`, `FleetProofs` |
| `StaticHost` | runs on the owned machine | `MCFleet`, `FleetProofs` |
| `Ingest` | commitments, payments, fees, carryover, the scan | `MCPipeline` |
| `Builder` | builds, caches, publication and clean-up of images | `MCPipeline` |
| `Staging` | model weights on the GPU host | `MCPipeline` |
| `Bench` | one round's harness, its progress and its report | `MCPipeline` |
| `Replay`, `Grading`, `Repeats`, `Score` | the concurrent replay, the verdict on outputs, the repetition measures, the scoring rules | `MCPipeline` |
| `Publication` | upload, verification and disclosure of a patch | `MCPipeline` |
| `SyncConfig` | installation of managed files and restart debts | `MCPipeline` |
| `Release` | the deploy state machine of one host | `MCRelease`, `ReleaseProofs` |
| `LedgerProofs`, `FleetProofs`, `PipelineProofs`, `ReleaseProofs` | the theorems about event order and weights, about connections and machines, about the parts of the pipeline (it extends `MCPipeline`), and about the release | |
| `MeasureProofs`, `SetProofs` | the invariants of `Replay`, `Repeats` and `Score`; facts about finite sets, numberings and folds that several proofs need | `PipelineProofs`, `LedgerProofs` |

`MCRounds` and `MCRelease` only give the constants small values. `MCLedger`,
`MCFleet` and `MCPipeline` also put components side by side: a variable `part`,
chosen in the initial state and never changed, says which of them this behaviour
runs; the others stand in one initial state. The components share no variable, so
the union has exactly the behaviours of its parts, and its run asks of each part
what a run of its own would. It is a way to check many components together, not a
composition; those that do interact are composed inside one module (watchers,
workers, operators and weights process in `Rounds`; gate workers, recovery and
releases in `GateJobs`; harness, relay and worker in `Bench`).

### Rounds

Each store function is one transaction that first takes the row lock its
re-checks depend on, so it is one action. What the callers carry from one
transaction to the next is their local state: `due` (a watcher has read a due
queue), `claim`, `report` and `seen` (a worker), `condemned` (the weights
process). `state[s]` is the newest event of a submission by `created_at`, which is
the begin of the transaction that wrote it; a round is an ordinal. Dates matter for
the one transaction that may wait long: an exclusion. It is `BeginExclusion`, which
fixes its date, and `Disqualify` (or `EndExclusion`, refused or dead); `later` collects
what was committed about its hotkey in between. Each of these may have begun after it
or before it, so any part of `later` may turn out newer (`missed`), stays as it is, and
is recorded in the history variable `escaped`. `BanSticks`, `VerdictFinal` and
`NobodyStranded` say exactly what holds of such a submission and what of every other.
Dates also explain a challenger that reads `bench_queued`: it was queued after
`create_round` began.
The bench is a free choice of report, so every verdict and score of the
instance is tried; a void is possible at every point at which the code can raise.
`GoStale` lets any heartbeat age at any time, which covers the stretches in
which the code sends none. A lost live status or heartbeat is simply not taken.

`Rank` keeps the overtake rule `score > leader * (1 + epsilon)` exact with
integers: `score * EpsDen > leader * (EpsDen + EpsNum)`.

### CrownRegister

The crown as a register: a holder, its published score, the newest ledger row, and
whether a contest is open. A contest ends in the one step that may move the crown;
between contests the holder can be vacated or succeeded. `Rounds` implements it
with `holder <- leader.sub`, `worth <- leader.score`, `contest <- ~Idle` and the
ledger read off `leader_history`.

### EventOrder

`Rounds` knows of an exclusion's begin and end. `EventOrder` looks inside, and keeps
the dates of all three: a transaction's `now()` is fixed by its first statement, then
it waits for locks.
`disqualify_campaign_hotkey` is begin, lock campaign and submissions, lock jobs
and write; `complete_gates_job` locks the job and then, through the foreign key
of the event, the submission; `create_round` waits for the campaign. Deadlock
detection is Postgres and therefore external: the exclusion and a gate completion
lock in opposite orders, and one of them is rolled back, whichever it is.

### GateJobs

A cycle is lock, read gate, claim, and then the transactions of
`process_submission` and `_fail`, each its own action; `Crash` may follow any of
them. `events` keeps only the four states that recovery reads. `noted` is what
the operator saw at `inspect`. The release is reduced to four phases (open,
draining, applying, starting); `draining` stands for draining and quiescing, and
`cancel` for every way back before the first write.

### Release

`st` is the state file, `request` the request file while it is pending or
running, and `pc` the next step of the tick that holds the deploy mutex. Each
step is one externally visible effect: the stop, the wait, the copy, the
checkout, pip, the configuration install, the re-exec, the two starts, the log
check, and `closing`, which is everything between the last state write and
`_finish_request`. `Crash` may strike at any step in `CrashPoints`; it leaves
the virtualenv mixed when pip or a restore was running and the configuration
mixed when an install was. A commit is its code, its dependencies (`depsOf`) and
its configuration; `TomlOnly` relates commits that differ in `vector.toml` only,
the one change released without a drain. The failure steps are grouped by what
later code does with them: `unaccepted` stands for the five that end a
verification (`log-ingestion`, `axiom-query`, ...).

Assumed of the operator, as the request demands it: the evidence given with
`reset` is true (the named copy fits the baseline, or the present virtualenv does).
`prune_recovery_copies` keeps the two newest copies; a rollback or reset that names an
older one fails to restore it, which is the failure `restore` has anyway, so copies
are not counted. `request vector-repair` is refused only on drift it can see; a drift
check that itself fails stops nothing, so the repair may or may not proceed.

### Weights, Pool

A cycle is due when a round completed after the marker or the cadence has passed;
then come the metagraph, the reconcile, the vector, the row, the signature and its
record, each a step at which the process can die. `completed_at` is the begin of the
settling transaction, so rounds can commit in the other order. Shares are exact:
parts of the emission times `Scale`. Opening a campaign is two steps, since the
trigger reads what others have not yet committed. In `Pool` the library's pool is
external: connections are open or dropped by the server unnoticed.

### Ingest

`tool` is the state of one run of `commit_patch`; other software commits anything
(`Forge`). A payment is the block of its transfer. The watcher's scan is a snapshot
and then one insertion after the other, so fees, exclusions and carryovers fall in
between. A fee change reads the chain height before it takes the lock (`lagged`
records that the chain had moved on); two properties except exactly that case:
a free commitment can then lie at a block that has a fee. Hotkeys in
`SUBMISSION_FEE_EXEMPT_HOTKEYS` pay nothing and use up no payment, even one they name;
`TermsMet` asks that of them and the fee of everybody else. A commitment from before
`COMPETITION_START_DATETIME` is skipped; the chain's blocks stand for its clock.
`_failed_hash_checks` also names the URL; here a locator resolves to what it did before,
so what it resolves to stands for it.
`FirstCommitWins` compares a row with the rest of the same scan, the only commitments
whose order the watcher decides; `OneWorkOnce` holds across scans.

### Pods, StaticHost

A client walks the configured providers under the provision lock; every call may
fail, be unanswered although it worked, or be the last of a killed process. Only a
`ProvisionError` goes on to the next provider; any other error ends the attempt. The
registry file is read and replaced in two steps, except while renting, so updates
are lost; a pod's name carries its expiry, which is what the reaper falls back on.
`undone` is a history variable, the names of which a destroy was tried and failed:
`ReaperSparesLive` says that only these can lose something before their time. (The
file alone cannot say so: the mark `destroy_failed` in it may be overwritten by a
second client that read the file before.)
`StaticHost` has one machine with a file lock, runs one after the other, a harness
that outlives its SSH client until `timeout` ends it, and the reaper. When the
connection breaks the client goes on: it pulls what there is over a new connection
(`copy`), takes that for the outcome and cleans up (`SshBreaks`, `Collect`). A report
the harness writes after that pull is lost when the clean-up gets the lock after it;
`broken` and `lostReports` record both, and `UncollectedKept` says that nothing else
loses one.

### Bench, Replay, Grading, Repeats, Score, Staging

`Bench` follows the harness from engine to engine (baseline, baseline again,
candidates, scorer), with the progress files, the thread that relays them and the
worker that judges the report; what an engine does and what a grade says are
choices. A container that `docker rm` cannot remove, or that a timed-out `docker run`
started without telling its id, stays on the machine (`stuck`); `OneEngineAtATime` says
that nothing else does. `Grading` is `grade_candidate` over kinds of output. `Repeats` grows the
suffix automaton one character at a time and compares it with the definition of the
longest repeated span, for every text up to the bound. `Replay` has tier groups, the
queue, the threads and the deadline, a token a tick; an answer of one token has no
decoding time to charge for (`ShortAnswersCharged` starts at two). `Score` draws timings
prompt by prompt, with whether the answer ended by itself (`done`, the finish reason);
its properties compare the score of an input with that of a slower one. `Staging` is the
resumable download, the rename, the hash and the record beside it, with files changing
on disk at any point; a tree is removed in one step (an interrupted `rmtree` leaves
fewer files than any record has stats of).

### Builder, Publication, SyncConfig

`Builder` has builds, operators' builds, cache transfers, eviction and the clean-up
over one Docker daemon and one lock. It assumes that a killed process takes its docker
client with it (the units' kill mode; a client an operator starts by hand could live on
and move a tag after the lock is free), and that the `--engine` an operator names for a
cache snapshot is the campaign's. `Publication` follows one upload from its
signature to public storage; terms, times and the copy are separate reads, as in
`api/server.py`. `SyncConfig` installs file by file, tells systemd, restarts, and
records what is owed; main may also move back to an earlier content. `vector.service`
is both a unit and one of vector's files, as in `units_changed` and `vector_changed`. A
command that answers with an error rolls back as far as that works (`StepFails`: files
that raise stay, the recovery's own commands are not checked). Anything else that ends
the invocation (an `OSError`, a kill, a command that overruns its 120 seconds) ends it
where it stands, with neither rollback nor debt (`Interrupted`). A check that finds the
installation unclean afterwards is an exit code and no rollback. Services are restarted
by others at any time (`ServiceRestarts`), and debts can be struck out by
`settle-debts` and `clear-restarts`. The history variable `stray` holds the files that
lost their claim this way (section 3).

## 3. Runs

| Run | Bounds | Shows |
| --- | --- | --- |
| `rounds_crown` | 2 submissions of 2 hotkeys, 2 rounds, scores 0..2, epsilon 1/2; one hotkey is excluded at any time, the other, and exclusions overtaken while they wait, in the first round | crown, verdicts, exclusions; implements `CrownRegister` |
| `rounds_race` | 1 submission, 2 watchers, 2 workers, 2 rounds, fairness | at most one live round, one owner, no stranding, rounds end, queue drains |
| `stale_vacate` | 3 submissions of 2 hotkeys, two with one image, 1 round | *violation*: the wrong leader is vacated |
| `event_skew` | 2 submissions | *violation*: the exclusion is not the newest event |
| `ledger` | 2 campaigns that together promise more than there is, 2 settling rounds, 1 failure; 2 submissions; 3 threads for 2 connections; fairness | a crown is published in a sound vector; an exclusion quiets the gates; no connection leaks |
| `fleet` | 2 jobs, 2 workers, 2 attempts; 2 pod names, 2 provider orders, 2 markets, 1 failure; 2 runs on one host, 3 failures; fairness | the gate queue; rentals end, live ones are spared; the host is shared and freed |
| `pipeline` | below | ingest, build, staging, bench, replay, grading, repetition, scores, publication, configuration |
| `release_env` | 3 commits, 2 dependency sets, all requests, death at all 13 steps | code and dependencies match, nothing runs under writes, idle hosts run a verified commit |
| `release_live` | 2 commits, 5 requests, death at 11 steps, fairness | requests end |
| `release_certify` | 3 commits, no deaths | *violation*: a commit is certified that was never installed |
| `release_held` | death in `closing` | *violation*: a release starts under hold |
| `release_stranded` | death in `check` | *violation*: a request never ends |

`pipeline` bounds: 2 miners (one uses the tool) with 2 patches that are one work, 3
blocks, 3 fees, and one of four casts of further actors and settings (fee changes;
forged commitments; the same with an exempt hotkey; exclusion and carryover in a
competition that starts at the last block); 3 builds in 2 campaigns of both engines
with 1 failure; 3 stagings of 2 contents with 1 damage; an incumbent and a
challenger, 2 prompts, 1 failure; 4 requests in 3 tiers on 2 slots with 1 hang; 4
outputs of 14 kinds with an allowance of 1; all texts over 2 characters up to
length 8; 2 prompts with 8 timings; 2 signatures of 2 patches with 2 changes of
terms; 2 new commits of at most 2 of 5 managed files (API, worker, a timer, vector's
unit and its settings) with 1 failure.

Why the bounds are enough to be interesting: two rounds let a crown be seated,
defended, overtaken, vacated and replaced; scores 0, 1, 2 with epsilon 1/2 put a score
below, at and above the baseline and the moat (2 > 1.5); two workers and two watchers
are the least that can race: `OneLiveRound` is checked there, and breaks when the
second watcher does not look again under the lock. One round is enough for an
overtaken exclusion to fall before, beside and after it (`OverruledEarly`). The single
infrastructure retry, which two submissions cannot exhaust, is proved (section 4). In
`Release` the commits A, B with other requirements, and T = B with another
`vector.toml`, are the three kinds of difference the code tells apart. One failure at
every point of a component is what its error paths are written for; a second and a
third (`StaticHost`) are used where a clean-up follows a failure. Three threads on two
connections, three builds and three stagings let one wait, one fail and one find what
the failure left; a run of the static host finds what the one before it left. A text
of eight characters over two is long enough for the automaton to clone states of
clones.

Deadlock is not checked in the runs whose parts come to an end (a text is read, a
report is judged, a bound is used up).

Named bounds: `MaxOrdinal` rounds, `MaxClock` transactions, `MaxClaims` requeues,
`MaxHeight` blocks, `MaxNames` pods, `MaxTouched` files of a commit, `Excludable`
hotkeys an operator excludes and `Waits` those whose exclusion is overtaken, and the
`Max...` constants of failures, which every module declares with a comment.

### The five violations

1. `stale_vacate`: `reconcile_deregistrations` lists idle leaders, then vacates
   by campaign. The second transaction re-checks idleness but not the holder.
2. `event_skew`: an exclusion that waits for a lock while a gate job completes
   is stamped with its own, earlier begin; the newest event stays `bench_queued`.
3. `release_certify`: `cancel` resets the abandoned target because "a later
   `request verify` would otherwise certify a commit that was never installed";
   the failure path of the vector-only release does not.
4. `release_held`: phase `idle` and the end of the request are two writes. The
   re-executed tick does not catch a command's timeout, so no power loss is
   needed. A rollback left running makes the next tick ignore the hold.
5. `release_stranded`: a second `verify` killed during its check leaves a running
   request which the early return for a finished-but-failed verification never
   ends; only editing the file by hand frees the slot. `closing` has the same
   effect on every failing verification.

Two more limits are met in the models and excepted there, since the code takes
them knowingly or leaves them to operators: `set_fee` reads the height before its
lock (`lagged` in `Ingest`), and a campaign set back to private while a publication
is between its reads is still published. A pending round of a closed campaign waits
until it is reopened, and a lone challenger that always fails as infrastructure is
queued again without end; `QueueDrains` excepts the first and says nothing of the
second. `settle-debts`, called at the end of a full release, clears the whole record: a
`daemon-reload` or a restart of vector that failed before and that the release did
not repeat is then owed by nobody, although `ops/runbook.md:180` has these debts
"survive ticks until completed". A service that is restarted while a reload is owed
comes up from the old definition, with its own debt paid if it had one. These, what an
operator strikes out, and the files of an interrupted or badly rolled-back installation
are `stray` in `SyncConfig`; its properties are about all other files, one by one.

`release_live` leaves out exactly the two steps of 4 and 5 and shows that all the
others are safe.

Three comments of the code promise more than their code keeps when a call fails without
an answer. Each case is modelled, and excepted by a history variable from the property
that states the promise:

* `ops/sync-config.py:703-706` has "a failed daemon-reload or vector restart" trigger
  "the matching rollback recovery and leave the debt recorded". `run_cmd` gives up after
  120 seconds with an exception that is not a `Fail`; the new files stay, and there is
  neither rollback nor debt (`stray`).
* `bench/lifecycle.py:762-763`: "from docker run onward, any failure [...] must tear
  down". A `docker run` that times out has set no container id, and teardown without
  one does nothing although the daemon may have started the container (`stuck`).
* `gpu/static_host.py:170-171` deletes a run's directory "only [...] after every
  attempted output pull succeeded", as it may hold the only copy of a report. After a
  broken connection the final pull succeeds over a new one while the harness still runs;
  the clean-up waits for the machine's lock, and deletes the report that was written
  meanwhile (`broken`).

### Fairness

* `Rounds`: watchers scan on a schedule, time passes (heartbeats age, retry
  times come), idle workers poll, and a bench is cut off by its own timeout.
  Nothing is assumed of miners, operators, heartbeats or crashes.
* `GateJobs`: a live worker goes on; systemd restarts a dead one, and a cycle
  that can reach its gate read and its claim again and again does so (strong
  fairness, because it may die in between); deferral windows pass; a release
  that has begun to write ends. Nobody has to recover a job or begin a release.
* `Weights`: systemd restarts the process, its calls return, blocks pass, and a
  round that began to settle settles (`RunningEnds`).
* `Pods`: the reaper's timer fires and a reap that is not killed ends; nothing is
  assumed of clients, who may be killed anywhere. `StaticHost`: `timeout` ends a
  harness and the reaper's bounded command returns.
* `Release`: ticks are run by the timer or, under hold, by the operator who
  registered the request. Draining, quiescing and stopping are tried on every
  tick, hence strong fairness. Workers end tasks and heed SIGTERM.

Every property of a passing run has a mutant: a definition replaced by a plausible
bug (a dropped re-check, a swapped order, a status that is not filtered) under
which TLC finds the property violated. The mutants stand next to their originals.

## 4. Proofs

All theorems hold for any sets of submissions, hotkeys, workers, watchers, jobs,
threads, pods, runs, miners, builders, files, candidates and commits, any trace,
timing and weighting of tiers, and any bounds, from the assumptions stated with the
constants. These say that bounds are natural numbers, that placeholders (`NoImage`,
`NoCommit`, `Nobody`) are not values, that threads, miners, campaigns, uids and tiers
are finitely many, and what the program's own data guarantee: vector's settings are no
unit, and no service is in two groups; hotkeys are ordered, `TomlOnly` is symmetric
and transitive and relates commits with equal requirements, the tier list names no
tier twice and every tier of the trace (`input_tiers` and `request_groups` refuse
others), and a time to the first token that was measured is positive. TLC evaluates
each of them in the run of the component. The inductive invariants of `FleetProofs`,
`PipelineProofs`, `ReleaseProofs` and of the weights also hold, by TLC, of instances
like those of the runs; those of the benchmark and of the weights were checked on
larger ones (two candidates and two faults; two hotkeys and a decay of two blocks).

* `RoundsProofs!TypeCorrect`. One lemma per group of actions.
* `RoundsProofs`, safety. None of these properties is inductive alone. The invariant
  adds that rounds follow one another (`Sequential`), that a busy worker's round
  is running or void and nobody else's (`Claims`), that no entry is scored
  before its round settles (`Unsettled`), and what a submission under a gate job
  or an exclusion looks like (`GateState`, `BanState`), also one the exclusion missed. The
  delicate steps are
  `complete_round`, where `IncumbentFrozen` makes the decision computed outside
  the transaction fit the crown it is applied to, the void, where `Unsettled` makes
  every challenger return, and the exclusion with a replacement leader.
* `RoundsProofs`, steps. From that invariant: no step takes back a verdict
  (`VerdictsStand`), no challenger gets a second infrastructure retry
  (`OneInfraRetry`), a crown changes hands over the moat or by exclusion
  (`CrownChangesFairly`), and the refinement (`CompetitionImplementsRegister`).
  The crown is written in three places; `QuietStep` shows that every other step
  leaves it alone, `CompleteStep` that `complete_round` ends the only contest in
  the step that moves the crown, `DisqualifyStep` what an exclusion can do to it.
* `LedgerProofs`. While the operator holds the submissions no gate transaction of
  the hotkey can commit (`Holding`); from it `GatesQuiet` and `DoneIsQueued`, together
  `ExclusionSafe`. For the weights, `VectorsSumToTheWhole`: the vector a cycle builds
  gives every uid a share within the emission and sums to the emission exactly
  (`BuiltSound`), and it reaches the row as it was built. The sums are those of the
  library.
* `SetProofs`. That the recursion behind the library's folds defines a function at all
  (`FoldsExist`), and what a sum of naturals or a changed summand does (`SumOfNaturals`,
  `SumGrows`), is proved by induction over the subsets of a finite set, stated with a
  set in place of a predicate (`SubsetsInduct`). `Numbering`: counting what is up to an
  element, in a total order, numbers a finite set; the order of a group's requests and
  the r-th value of a median are such numberings.
* `GateJobsProofs`. The invariant adds what a worker's position says about its
  events (`Traces`), which statuses a piece of evidence can coexist with
  (`Verdicts`), and what the activity lock excludes in each phase (`Locks`).
  `AlwaysRecoverable` then follows from `Verdicts` and the table of `_decide`;
  `QueueSafe` is all of them.

* `FleetProofs`. `PoolNeverLeaks`: slots and lent connections are counted by the
  sets of threads that hold them, so what moves one thread moves one count, on every
  error path of `db_connection`. `HostKeepsReports` needs the place of the client
  (`HostSteps`): images are registered before they are pulled, outputs collected
  before they are deleted, and what was collected is the report unless the connection
  broke under the harness. `HostLockProtects`: nobody removes the containers of the
  run that holds the lock. `RentalsKeepTerms` and `ReaperSpares` rest on `PodsIInv`,
  which says of each client and of the reaper what its position guarantees about its
  locals. Since the registry file is rewritten from old snapshots, all that can be
  said of it is `Plausible`: it names pods that were drawn, and calls a destroy failed
  only if one was; every snapshot still held is as good as the file.
* `PipelineProofs`. A step of the pipeline is a step of one part and a stutter of the
  others (`PipelineStep`); each part has its own inductive invariant.
  - `StagedRecordsTrustworthy`: a stat signature is drawn before anything carries
    it (`StatsDrawn`), so a tree with the recorded signature is the hashed tree.
  - `SyncKeepsDebts`: file by file, what was saved is what is restored, and what runs
    was started from the disk or is owed a restart, at each step of installation and
    rollback; whatever breaks that for a file makes it `stray` in the same step.
  - `PublishedOnlyInTime`: from its check on, a request knows terms that were in
    force and that revealed the patch, and the digest of the bytes it copies.
  - `BuildsArePublishedAsBuilt`: whoever is between build and push holds the lock,
    so the local tag is still that of its own image.
  - `VerdictsAreDrawn`: the flags of the grading loop are a function of the outputs
    read so far.
  - `RowsMeetTheirTerms`: a fee set later does not reach back (`Past`), so a payment
    that met the terms when checked still does when its row is inserted; payments
    are marked used in the transaction that inserts, and an exempt hotkey's row names
    none.
  - `RoundsSettleOnVouchedReports` and `ProgressAgrees`: a terminal status in the
    progress file stands and says of a candidate what its run and verdict say
    (`BeaconMeans`), and so does the report (`ReportMeans`); hence whatever poll
    relays it, and however late, settlement agrees. Every way a start ends removes its
    container or adds it to `stuck`.
  - `ReplaysMeasureEverything`, from `MeasureProofs`. Groups are slices of the tier
    list, so every request is in exactly one (`GroupsPartition`); a request is in the
    queue, in a slot, on a row, or was dropped with an error on record (`EachOnce`,
    `NoneLost`). For the occupancy, `SeatsCounted` counts at every time, past or
    present, the rows admitted by then and not yet released and the slots held since:
    never more than the slots. For the deadline, `ClockPaid`: the time that has passed
    is paid for by the requests answered, a timeout each. The proof of the last one
    failed for a trace of one request, rightly: the replay's deadline is that
    request's own timeout, so it overruns without hanging. `DeadlineOnlyForHung` says
    so since.
  - `SlowerNeverScoresBetter`, from `MeasureProofs`. Not about the order of steps: each
    part compares the scores of two inputs. If the r-th value of a list were below the
    r-th of a list that nowhere exceeds it, r values would be among r - 1 (`NthKeeps`);
    hence medians, and with them the cap and both scores, keep the order of their
    inputs. Scores are fractions, and their arithmetic is split into single factors
    (`Factor`, `Regroup`), which the solver finds. The proof needs first-token times to
    be positive: a time of zero does not count as measured (`ttft_ratio`), and counting
    it after all could lower the median and lift the cap.
  - `RepetitionMeasured`, from `MeasureProofs`. The model keeps states and links, not the
    strings they stand for; the invariant (`Automaton`) says them through a place where
    each state's longest string ends, which exists but is not in the model. A state's
    strings end at the same places (`Classes`), every span of the text has exactly one
    state (`Covered`, `Unique`), a link leads to the longest suffix that ends elsewhere
    too (`Linked`, `Proper`), and transitions append a character (`Transitions`,
    `Followed`). The states met on the way up the links are all the suffixes of the
    text (`SuffixesByLink`), so the walk of `ReadChar` finds the longest that occurred
    before (`StopFound`, `TargetFound`); splitting its state (`Split`) and adding the
    new one below it (`Extended`) each keep the automaton. Then a state's end places are
    the disjoint union of those of the states linked to it and its own (`EndsSplit`), so
    the counts added up along the links are numbers of occurrences (`OccurrencesAre`),
    and the longest string counted twice is the longest repeated span. An induction
    along the links is over the least length at which a claim fails (`LinksInduct`).
  - `EntriesFollowRules` and `StoredThingsStand`: the action properties of ingest
    and of storage, from the same invariants.
* `ReleaseProofs`. What each direction may rely on while the environment is being
  rebuilt: a forward release without a recovery copy has touched nothing
  (`FreshForward`), one whose requirements did not change has the environment of its
  source (`SourceKept`), a step of the full path has the earlier ones behind it
  (`PathDone`), and an open gate is over a whole environment (`OpenWhole`).
  `StepPhase` ties the tick's position to the state file a crash would leave, which
  makes the resumed tick safe. From these `EnvironmentStaysPaired`,
  `WritesUndisturbed` and `IdleIsVerified`.

The proofs changed the models where those could not be reasoned about or said too
little: `undone` and `stray` above; commits that move back; the queue read of a
scan as any list in the order of `Earlier` (there is exactly one); the order of a
replay group stated by each request's turn instead of built by nested recursion; the
walks of `Repeats` along the links as functions of the states.

Only model-checked:

* all liveness (`RunningEnds`, `QueueDrains`, `RentalsEnd`, `HostShared`, the requests
  of `Release`, ...), since fairness is out of the prover's reach;
* the five violations, which are counterexamples.

## 5. Not modelled

Corrupt state files and the park loop; the GPU probe dispatch, drill acceptance
and log queries of the release tick; what each gate check reads in a patch (text
analysis of one document: the queue sees pass, reject or defer); what a container
build or a GPU kernel does; campaign seeding and manifests (validation of one JSON
document); prompt sampling, token statistics and report schemas; HTTP encoding of
the providers, SSH scripts, the read-only views of the API; observability and
one-off tools, which change none of the modelled state. `PROJECT.json` gives the
reason for each.

## 6. Plan

1. Done: round engine with its refinement and action properties, event order, gate
   queue with recovery, release coordinator, weights, ingest, pods and static host,
   the benchmark's control, builder, publication, configuration sync, connections.
2. Done: the theorems of every safety invariant and action property that a passing run
   checks, but those of section 4.
3. Left: the four-phase gate of `GateJobs` as an abstraction that `Release` implements.

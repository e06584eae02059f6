---------------------------- MODULE MCPipeline ----------------------------
(***************************************************************************)
(* The way of a patch from its commitment on chain to its score and its    *)
(* publication, and the configuration all of it runs under: ten parts      *)
(* checked in one run as their disjoint union.  Every behaviour picks one  *)
(* part and runs it alone, with the others standing in an initial state;   *)
(* the parts share no variable, so the union reaches the states of each    *)
(* part, and a property of a part holds in the union exactly when it holds *)
(* of the part.                                                            *)
(***************************************************************************)
EXTENDS Ingest, Builder, Staging, Bench, Replay, Grading, Repeats, Score, Publication,
        SyncConfig, TLC

CONSTANTS h1, h2, p1, p2, c1, c2

\* The second miner's commitment comes first; both patches are one work.
MCOrder == (h1 :> 2) @@ (h2 :> 1)
MCPrint == (p1 :> 1) @@ (p2 :> 1)

MCEngine == (c1 :> "vllm") @@ (c2 :> "sglang")

\* An incumbent and one challenger, on a tiered workload.
MCShapes == {<<1, TRUE>>}

MCTrace == <<"a", "b", "a", "c">>
MCTiers == <<"a", "b", "c">>

\* The kinds of output the gates tell apart.
F(d, fo, t, o, p, m, w, s) == [dropped |-> d, forced |-> fo, text |-> t, other |-> o,
                               prefix |-> p, match |-> m, worse |-> w, score |-> s]
fine == <<"fine">>
MCTexts == {<<>>, fine, <<"span">>, <<"floor">>, <<"span", "floor">>}
MCFacts ==
    {F(TRUE, FALSE, <<"floor">>, fine, fine, FALSE, FALSE, "good"),
     F(FALSE, FALSE, <<>>, fine, fine, FALSE, FALSE, "good"),
     F(FALSE, FALSE, fine, fine, fine, FALSE, TRUE, "good"),
     F(FALSE, FALSE, fine, <<>>, fine, FALSE, FALSE, "good"),
     F(FALSE, FALSE, fine, <<"span", "floor">>, fine, FALSE, FALSE, "good"),
     F(FALSE, FALSE, <<"span">>, fine, fine, FALSE, FALSE, "error"),
     F(FALSE, TRUE, <<"floor">>, fine, <<"floor">>, TRUE, TRUE, "thin"),
     F(FALSE, TRUE, <<"floor">>, fine, <<"span">>, FALSE, FALSE, "good")}
    \cup {F(FALSE, FALSE, fine, fine, fine, FALSE, FALSE, s) : s \in Scores}

MCTierWeight == ("a" :> 3) @@ ("b" :> 1)
MCTierTimes == {<<2, 1>>, <<2, 3>>}
T(n, f, g, has) == [tokens |-> n, ttft |-> f, gap |-> g, gaps |-> has, done |-> TRUE]
MCTiming == {T(0, 1, 0, FALSE), T(1, 1, 0, TRUE), T(2, 1, 1, FALSE), T(3, 1, 1, TRUE)}
            \cup {T(2, f, g, TRUE) : f \in 1..2, g \in 1..2}
            \cup {[T(3, 1, 1, TRUE) EXCEPT !.done = FALSE]}

VARIABLE part      \* the part this behaviour runs

pipelineVars == <<ingestVars, buildVars, stageVars, benchVars, replayVars, gradingVars,
                  repeatsVars, scoreVars, pubVars, syncVars, part>>

InitPipeline ==
    /\ part \in {"ingest", "builder", "staging", "bench", "replay", "grading", "repeats",
                 "score", "publication", "sync"}
    /\ InitIngest /\ InitBuilder /\ InitStaging /\ InitBench /\ InitReplay
    /\ InitGrading /\ InitRepeats /\ InitScore /\ InitPublication /\ InitSync
    \* A part that does not run stands in one initial state.
    /\ part # "ingest" => /\ cast = (CHOOSE c \in Casts : TRUE)
                          /\ fees = <<[from |-> 0, amount |-> 0]>>
    /\ part # "bench" => concurrent
    /\ part # "score" => \A t \in Tier : tierCand[t] = 1
    /\ part # "sync" => \A f \in File : disk[f] = 1

Only(p) == part = p /\ part' = part

NextPipeline ==
    \/ /\ Only("ingest") /\ NextIngest
       /\ UNCHANGED <<buildVars, stageVars, benchVars, replayVars, gradingVars, repeatsVars,
                      scoreVars, pubVars, syncVars>>
    \/ /\ Only("builder") /\ NextBuilder
       /\ UNCHANGED <<ingestVars, stageVars, benchVars, replayVars, gradingVars, repeatsVars,
                      scoreVars, pubVars, syncVars>>
    \/ /\ Only("staging") /\ NextStaging
       /\ UNCHANGED <<ingestVars, buildVars, benchVars, replayVars, gradingVars, repeatsVars,
                      scoreVars, pubVars, syncVars>>
    \/ /\ Only("bench") /\ NextBench
       /\ UNCHANGED <<ingestVars, buildVars, stageVars, replayVars, gradingVars, repeatsVars,
                      scoreVars, pubVars, syncVars>>
    \/ /\ Only("replay") /\ NextReplay
       /\ UNCHANGED <<ingestVars, buildVars, stageVars, benchVars, gradingVars, repeatsVars,
                      scoreVars, pubVars, syncVars>>
    \/ /\ Only("grading") /\ NextGrading
       /\ UNCHANGED <<ingestVars, buildVars, stageVars, benchVars, replayVars, repeatsVars,
                      scoreVars, pubVars, syncVars>>
    \/ /\ Only("repeats") /\ NextRepeats
       /\ UNCHANGED <<ingestVars, buildVars, stageVars, benchVars, replayVars, gradingVars,
                      scoreVars, pubVars, syncVars>>
    \/ /\ Only("score") /\ NextScore
       /\ UNCHANGED <<ingestVars, buildVars, stageVars, benchVars, replayVars, gradingVars,
                      repeatsVars, pubVars, syncVars>>
    \/ /\ Only("publication") /\ NextPublication
       /\ UNCHANGED <<ingestVars, buildVars, stageVars, benchVars, replayVars, gradingVars,
                      repeatsVars, scoreVars, syncVars>>
    \/ /\ Only("sync") /\ NextSync
       /\ UNCHANGED <<ingestVars, buildVars, stageVars, benchVars, replayVars, gradingVars,
                      repeatsVars, scoreVars, pubVars>>

SpecPipeline == InitPipeline /\ [][NextPipeline]_pipelineVars

-----------------------------------------------------------------------------
(* Each invariant is asked of the behaviours that run its part. *)

\* What the watcher, the fee terms and the carryover admit: every reference backs
\* one row, every row was in time and, but for exempt hotkeys, met its terms, what
\* the tool sent is accepted, and one work goes to the gates once.
AdmissionSafe ==
    part = "ingest" =>
        TypeOKIngest /\ RefBacksOne /\ TermsMet /\ ToolProofAccepted /\ OneWorkOnce

\* Builds, evictions and the cleanup share a host, tags and caches, and still publish
\* and reuse only what is theirs.
BuilderSafe ==
    part = "builder" =>
        TypeOKBuilder /\ PublishedIsOwn /\ CacheTrusted

\* A hash on record beside staged weights is trusted only while it is the hash of
\* what is there.
StagingSafe ==
    part = "staging" =>
        TypeOKStaging /\ RecordTrustworthy

\* The harness and the worker together: engines are measured one at a time, beside no
\* container but one the harness could not remove or was never told of, and on the
\* same prompts; the harness's own faults charge nobody, and only a report it vouched
\* for settles a round.
BenchSafe ==
    part = "bench" =>
        /\ TypeOKBench /\ OneEngineAtATime /\ SamePrompts
        /\ HarnessFaultChargesNobody /\ OnlySettlementScores /\ CompleteOnlyFromPass

\* A replay that ends clean measured every request, whole tiers and real occupancy, and
\* charged for what was left out; one that overran had a request that hung.
ReplaySafe ==
    part = "replay" =>
        /\ TypeOKReplay /\ NothingOmitted /\ TiersWhole /\ PeakWithinSlots
        /\ ShortAnswersCharged /\ DeadlineOnlyForHung

\* Whatever the order in which outputs and scorer fail, a pass is clean, a failure is
\* the candidate's, and an established repetition failure stands.
GradingSafe ==
    part = "grading" =>
        TypeOKGrading /\ NothingWrongPasses /\ ScorerTroubleRequeues /\ FailureOutlivesScorer

\* The two measures of repetition compute what they are named for, on every text.
RepeatsSafe ==
    part = "repeats" =>
        TypeOKRepeats /\ AutomatonCorrect /\ LoopsHaveFewGrams

\* Time lost never pays, and the baseline against itself earns nothing.
ScoreSafe ==
    part = "score" =>
        TypeOKScore /\ SlowerNeverBetter /\ SlowerTierNeverBetter /\ SelfScoresZero

\* No patch is public before its time, and no copy is of another patch.
PublicationSafe ==
    part = "publication" =>
        TypeOKPublication /\ PublicOnlyRevealed /\ CopiesMatchCommitment

\* Whatever command of an installation fails, files are as they were or in force, and
\* what is not in force is owed; file by file, except those an interrupted installation
\* or a failed restoration left, or whose debt somebody struck out.
SyncSafe ==
    part = "sync" =>
        TypeOKSync /\ EffectiveOrOwed /\ StaleProcessOwed /\ FailureRestores

\* What no step may do to what is stored: an upload lands only while it is
\* authorized and replaces nothing, a revealed patch stays revealed, a tree of
\* weights that fails its check is not served, and a cleanup keeps the images that
\* the campaigns it loaded pin.
StorageSteps == PutAuthorized /\ RevealStands /\ OnlyWholeServed /\ CleanupKeepsBaselines
=============================================================================

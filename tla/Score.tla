------------------------------- MODULE Score -------------------------------
(***************************************************************************)
(* bench/score.py: one candidate's timings against the baseline's, under   *)
(* the two scoring rules.  The state is an input, drawn prompt by prompt;  *)
(* the properties compare its score with that of related inputs.  Scores   *)
(* are fractions <<numerator, denominator>>.                               *)
(***************************************************************************)
EXTENDS Integers, FiniteSets, FiniteSetsExt, Functions

CONSTANTS
    NPrompts,       \* prompts of the round
    Timing,         \* what a replay may record for a prompt: tokens, ttft, gap, and
                    \* whether the gaps were recorded and the answer ended by "stop"
                    \* or "length"
    TierTimes,      \* what a tier may take, the baseline's first
    Penalty,        \* failure_penalty
    TtftCap,        \* max_ttft_ratio
    Tier, TierWeight    \* tiers of the weighted rule, and their weights in quarters

ASSUME ScoreAssumption ==
    /\ NPrompts \in Nat \ {0} /\ TierTimes \subseteq (Nat \ {0}) \X (Nat \ {0})
    \* A time to the first token that was measured is positive.
    /\ \A t \in Timing : t \in [tokens : Nat, ttft : Nat \ {0}, gap : Nat, gaps : BOOLEAN,
                             done : BOOLEAN]
    /\ Penalty \in Nat /\ TtftCap \in Nat \ {0}
    /\ IsFiniteSet(Tier) /\ TierWeight \in [Tier -> Nat] /\ SumFunction(TierWeight) = 4

VARIABLES
    base, cand,     \* prompts drawn so far -> timing of the baseline and of the candidate
    tierBase, tierCand  \* tier completion times

scoreVars == <<base, cand, tierBase, tierCand>>

Prompts == DOMAIN base
Missing == [tokens |-> 0, ttft |-> 0, gap |-> 0, gaps |-> FALSE, done |-> FALSE]
NoTime == -1

-----------------------------------------------------------------------------
(* Fractions with a positive denominator. *)
Leq(x, y) == x[1] * y[2] <= y[1] * x[2]
Minus(x, y) == <<x[1] * y[2] - y[1] * x[2], x[2] * y[2]>>
Half(x, y) == <<x[1] * y[2] + y[1] * x[2], 2 * x[2] * y[2]>>
Zero == <<0, 1>>

\* aligned_e2e_s: the time to the k-th token, if it was emitted with its gaps.
AlignedE2e(t, k) ==
    IF k < 1 \/ t.tokens < k \/ (k > 1 /\ ~t.gaps) THEN NoTime ELSE t.ttft + (k - 1) * t.gap

\* _min_aligned_tokens at the tolerance of nine tenths.
MinAligned(n) == IF n < 2 THEN n ELSE Max({2, (9 * n + 9) \div 10})

\* A failed request counts only against a baseline that has a time itself.
ValidReference(b) == AlignedE2e(b, b.tokens) > 0

\* Counted as zeroed by its reason, never by its value (summarize_prompt_scores).
Zeroed(s) == s.reason # "none"

\* Mutant: the difference without its sign.
RatioAbs(be, ce) == IF ce > be THEN <<ce - be, be>> ELSE <<be - ce, be>>

Ratio(be, ce) == <<be - ce, be>>

\* prompt_speedup: (baseline - candidate) / baseline at the same token.
PromptSpeedup(b, c) ==
    LET k == Min({b.tokens, c.tokens})
        be == AlignedE2e(b, k)
        ce == AlignedE2e(c, k)
        none(why, failed) == [speedup |-> Zero, reason |-> why, failed |-> failed]
    IN IF c = Missing THEN none("no timing", ValidReference(b))
       ELSE IF b.tokens < 1 THEN none("baseline", FALSE)
       ELSE IF k < MinAligned(b.tokens) THEN none("tolerance", ValidReference(b))
       ELSE IF be = NoTime \/ ce = NoTime \/ be = 0 THEN none("timing", ValidReference(b))
       ELSE [speedup |-> Ratio(be, ce), reason |-> "none", failed |-> FALSE]

\* The values up to the i-th, equal ones in the order of the prompts; and the r-th of all.
UpTo(f, i) == {j \in DOMAIN f : Leq(f[j], f[i]) /\ (Leq(f[i], f[j]) => j <= i)}
NthOf(f, r) == f[CHOOSE i \in DOMAIN f : Cardinality(UpTo(f, i)) = r]

\* The middle value, or the mean of the two middle ones.
Median(f) ==
    LET n == Cardinality(DOMAIN f)
    IN Half(NthOf(f, (n + 1) \div 2), NthOf(f, (n + 2) \div 2))

\* _median_e2e_speedup.
MedianScore(b, c) ==
    LET per == [p \in DOMAIN b |-> PromptSpeedup(b[p], c[p])]
        failed == Cardinality({p \in DOMAIN b : per[p].failed})
    IN Minus(Median([p \in DOMAIN b |-> per[p].speedup]),
             <<Penalty * failed, Cardinality(DOMAIN b)>>)

-----------------------------------------------------------------------------
(* The weighted rule. *)

\* The median time to the first token, of those that were measured.
MedianTtft(f) ==
    LET usable == {p \in DOMAIN f : f[p] # Missing /\ f[p].ttft > 0}
    IN IF usable = {} THEN <<NoTime, 1>>
       ELSE Median([p \in usable |-> <<f[p].ttft, 1>>])

\* ttft_ratio above the cap: the candidate keeps a slowdown and loses a gain.
Capped(b, c) ==
    LET mb == MedianTtft(b)
        mc == MedianTtft(c)
    IN mb[1] # NoTime /\ mc[1] # NoTime /\ ~Leq(mc, <<TtftCap * mb[1], mb[2]>>)

Eligible(raw, capped) == IF capped /\ raw[1] > 0 THEN Zero ELSE raw

\* A completion fails when it is missing, below the tolerance or ended otherwise than
\* by "stop" or "length", whatever its timings.
CompletionFails(b, c) == c = Missing \/ c.tokens < MinAligned(b.tokens) \/ ~c.done

\* The weighted gain of the tiers, in quarters over the product of the baselines' times.
RawGain(tb, tc) ==
    LET product == FoldFunction(LAMBDA x, y : x * y, 1, tb)
    IN <<SumFunction([t \in Tier |-> TierWeight[t] * (tb[t] - tc[t]) * (product \div tb[t])]),
         4 * product>>

\* _weighted_tier_completion_speedup, for a baseline whose completions are valid.
WeightedScore(b, c, tb, tc) ==
    LET failed == Cardinality({p \in DOMAIN b : CompletionFails(b[p], c[p])})
    IN Minus(Eligible(RawGain(tb, tc), Capped(b, c)), <<Penalty * failed, Cardinality(DOMAIN b)>>)

-----------------------------------------------------------------------------
InitScore ==
    /\ base = <<>> /\ cand = <<>>
    /\ \E f \in [Tier -> TierTimes] :
        tierBase = [t \in Tier |-> f[t][1]] /\ tierCand = [t \in Tier |-> f[t][2]]

\* One more prompt is drawn: what the replays recorded for it.
Draw ==
    /\ Cardinality(Prompts) < NPrompts
    /\ \E b \in Timing, c \in Timing \cup {Missing} :
        /\ base' = [p \in 1..Cardinality(Prompts) + 1 |-> IF p \in Prompts THEN base[p] ELSE b]
        /\ cand' = [p \in 1..Cardinality(Prompts) + 1 |-> IF p \in Prompts THEN cand[p] ELSE c]
    /\ UNCHANGED <<tierBase, tierCand>>

NextScore == Draw

SpecScore == InitScore /\ [][NextScore]_scoreVars

-----------------------------------------------------------------------------
Slower(t) == {[t EXCEPT !.ttft = @ + 1], [t EXCEPT !.gap = @ + 1]}
ValidBaseline == \A p \in Prompts : base[p].tokens >= 1 /\ base[p].done

\* Types: every score is a fraction with a positive denominator and at most one.
TypeOKScore ==
    Prompts # {} =>
        LET m == MedianScore(base, cand) IN m[2] > 0 /\ Leq(m, <<1, 1>>)

\* A candidate whose answer to one prompt takes longer, everything else alike, never
\* scores better: neither the alignment, the median, the cap nor a zeroed prompt
\* turns lost time into gain.
SlowerNeverBetter ==
    \A p \in Prompts : cand[p] # Missing =>
        \A s \in Slower(cand[p]) :
            /\ Leq(MedianScore(base, [cand EXCEPT ![p] = s]), MedianScore(base, cand))
            /\ ValidBaseline => Leq(WeightedScore(base, [cand EXCEPT ![p] = s], tierBase, tierCand),
                                    WeightedScore(base, cand, tierBase, tierCand))

\* So does a tier that takes longer.
SlowerTierNeverBetter ==
    Prompts # {} /\ ValidBaseline =>
        \A t \in Tier : Leq(WeightedScore(base, cand, tierBase, [tierCand EXCEPT ![t] = @ + 1]),
                            WeightedScore(base, cand, tierBase, tierCand))

\* The baseline against itself earns nothing, loses nothing, and, where it has a
\* time, no prompt of it is counted as zeroed.
SelfScoresZero ==
    Prompts # {} =>
        /\ MedianScore(base, base)[1] = 0
        /\ \A p \in Prompts : ValidReference(base[p]) /\ base[p] # Missing =>
                ~Zeroed(PromptSpeedup(base[p], base[p]))
=============================================================================

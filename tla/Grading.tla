------------------------------ MODULE Grading ------------------------------
(***************************************************************************)
(* grade_candidate (bench/correctness.py): the outputs one engine gave for *)
(* the correctness prompts are read in order, each text is checked for     *)
(* repetition and teacher-forced through the scorer, and one verdict is    *)
(* drawn: pass, fail_correctness (disqualified) or infra_failed (requeued).*)
(*                                                                         *)
(* A text is the sequence of its graded parts (the thinking and the        *)
(* answer), each one fine, too short to grade, below the distinct n-gram   *)
(* floor, or at the repeated-span ceiling.                                 *)
(***************************************************************************)
EXTENDS Naturals, Sequences, FiniteSets

CONSTANTS
    NOutputs,   \* captured outputs, graded in order
    Texts,      \* texts an engine may have produced; <<>> is no output
    Facts,      \* what one output is like (see Fact)
    Allowance,  \* MAX_REPEATED_SPAN_FAILURES and MAX_RELATIVE_DEGENERACY_FAILURES
    Relative    \* a mean to compare with: the baseline's grade, and the campaign's bar

Output == 1..NOutputs

\* What scoring an output comes to: plausible, below the absolute bars, below the
\* baseline by more than the campaign allows, too few positions with a logprob, none
\* at all, or an answer that cannot be read.
VllmScores == {"good", "low", "drop", "thin", "none", "error"}

\* With SGLang the span is counted from the forced token IDs, so an output without
\* any logprob is thin coverage.
SglangScores == VllmScores \ {"none"}

Scores == VllmScores \cup SglangScores

\* One captured output: whether the baselines dropped its prompt, whether EOS was
\* ignored, the latency-median text, another repetition's, the prefix up to the
\* baseline's stop, whether a measured baseline begins with that prefix, whether
\* the text is more repetitive than the baseline's, and what the scorer makes of it.
Fact == [dropped : BOOLEAN, forced : BOOLEAN, text : Texts, other : Texts,
         prefix : Texts, match : BOOLEAN, worse : BOOLEAN, score : Scores]

ASSUME GradingAssumption ==
    /\ NOutputs \in Nat /\ Facts \subseteq Fact
    /\ Allowance \in Nat /\ Relative \in BOOLEAN

VARIABLES
    at,         \* the next output
    seen,       \* what the outputs were like
    empty,      \* a retained prompt got no output
    hard,       \* a text below the floor was found
    spans,      \* prompts with a repeated-span failure
    relatives,  \* prompts more repetitive than the baseline
    scored,     \* what the scorer returned so far
    gverdict

gradingVars == <<at, seen, empty, hard, spans, relatives, scored, gverdict>>

-----------------------------------------------------------------------------
\* _text_degeneracy_reason on one part, the span check included or not.
PartReason(part, checkSpan) == part = "floor" \/ (checkSpan /\ part = "span")

\* degeneracy_reason: some part of the text is flagged.
DegeneracyReason(text, checkSpan) ==
    \E i \in DOMAIN text : PartReason(text[i], checkSpan)

\* record_absolute_check: no output, or a part below the floor, is final; a repeated
\* span only counts against the allowance.
HardReason(text) == text = <<>> \/ DegeneracyReason(text, FALSE)
SpanReason(text) == ~HardReason(text) /\ DegeneracyReason(text, TRUE)

\* The texts checked before the scorer is asked: every repetition, unless EOS was
\* ignored.
Repetitions(f) == IF f.forced THEN {} ELSE {f.text, f.other}

\* The texts checked after it: the prefix, unless a forced baseline began so, and
\* the whole of an ordinary completion.  A scorer that returned nothing gives no
\* prefix.
ScoredPrefixes(f) ==
    (IF f.score = "none" \/ (f.forced /\ f.match) THEN {} ELSE {f.prefix} \ {<<>>})
        \cup (IF f.forced THEN {} ELSE {f.text})

Checked(texts, h, s) ==
    /\ hard' = (h \/ \E t \in texts : HardReason(t))
    /\ spans' = IF \E t \in texts : SpanReason(t) THEN s \cup {at} ELSE s

\* degenerate is set: a hard failure, or more prompts than an allowance.
Degenerate(h, s, r) ==
    h \/ Cardinality(s) > Allowance \/ Cardinality(r) > Allowance

\* The verdict once every output was read, or a scorer failure ended the loop.
Verdict(e, h, s, r, sc) ==
    CASE e -> "fail"
      [] ~e /\ sc \cap {"good", "low", "drop", "thin"} = {} ->
            IF Degenerate(h, s, r) THEN "fail" ELSE "infra"
      [] OTHER ->
            IF \/ "low" \in sc
               \/ Degenerate(h, s, r)
               \/ Relative /\ "drop" \in sc
            THEN "fail"
            ELSE IF "thin" \in sc THEN "infra" ELSE "pass"

Finish == gverdict' = Verdict(empty', hard', spans', relatives', scored')

\* The loop moves on, and the last output's verdict is drawn.
MoveOn ==
    /\ at' = at + 1
    /\ IF at = NOutputs THEN Finish ELSE gverdict' = "none"

\* A prompt the baselines were unstable on is skipped.
SkipDropped(f) ==
    /\ f.dropped
    /\ UNCHANGED <<empty, hard, spans, relatives, scored>>
    /\ MoveOn

NoOutput(f) ==
    /\ ~f.dropped /\ f.text = <<>>
    /\ empty' = TRUE
    /\ UNCHANGED <<hard, spans, relatives, scored>>
    /\ MoveOn

\* Prompts more repetitive than the baseline; a forced tail is diagnostic only.
Worse(f) == IF f.worse /\ ~f.forced THEN relatives \cup {at} ELSE relatives

\* Mutant: a scorer failure always ends the grading as the scorer's.
ScorerFailsAlways(f) ==
    /\ ~f.dropped /\ f.text # <<>> /\ f.score = "error"
    /\ Checked(Repetitions(f), hard, spans)
    /\ relatives' = Worse(f)
    /\ UNCHANGED <<empty, scored>>
    /\ at' = NOutputs + 1
    /\ gverdict' = "infra"

\* The scorer fails on this output.  "A scorer failure cannot erase an established
\* text failure": the loop ends with what is known; otherwise the entry is not
\* judged at all.
ScorerFails(f) ==
    /\ ~f.dropped /\ f.text # <<>> /\ f.score = "error"
    /\ Checked(Repetitions(f), hard, spans)
    /\ relatives' = Worse(f)
    /\ UNCHANGED <<empty, scored>>
    /\ at' = NOutputs + 1
    /\ IF Degenerate(hard', spans', relatives') THEN Finish ELSE gverdict' = "infra"

\* The output is scored and its remaining texts are checked.
ScoreOutput(f) ==
    /\ ~f.dropped /\ f.text # <<>> /\ f.score # "error"
    /\ Checked(Repetitions(f) \cup ScoredPrefixes(f), hard, spans)
    /\ relatives' = Worse(f)
    /\ scored' = scored \cup {f.score}
    /\ UNCHANGED empty
    /\ MoveOn

InitGrading ==
    /\ at = 1 /\ seen = <<>> /\ empty = FALSE /\ hard = FALSE
    /\ spans = {} /\ relatives = {} /\ scored = {} /\ gverdict = "none"

NextGrading ==
    /\ at \in Output
    /\ \E f \in Facts :
        /\ seen' = Append(seen, f)
        /\ SkipDropped(f) \/ NoOutput(f) \/ ScorerFails(f) \/ ScoreOutput(f)

SpecGrading == InitGrading /\ [][NextGrading]_gradingVars

-----------------------------------------------------------------------------
(* What was wrong with the outputs, said without the loop's bookkeeping. *)

Read == {i \in DOMAIN seen : ~seen[i].dropped}
Answered == {i \in Read : seen[i].text # <<>>}

\* The texts of an output that count: all but a forced tail, and a prefix the
\* baseline emitted itself; an output the scorer did not read has no prefix.
Counts(f) ==
    (IF f.forced THEN {} ELSE {f.text, f.other})
        \cup (IF f.score \in {"none", "error"} \/ (f.forced /\ f.match) THEN {} ELSE {f.prefix} \ {<<>>})

Looping(i) == \E t \in Counts(seen[i]) : t = <<>> \/ \E k \in DOMAIN t : t[k] = "floor"
Repeating(i) ==
    /\ \E t \in Counts(seen[i]) : \E k \in DOMAIN t : t[k] = "span"

TextFailure ==
    \/ \E i \in Answered : Looping(i)
    \/ Cardinality({i \in Answered : Repeating(i)}) > Allowance
    \/ Cardinality({i \in Answered : seen[i].worse /\ ~seen[i].forced}) > Allowance

\* Types; a failure is booked on an output that was read.
TypeOKGrading ==
    /\ at \in 1..(NOutputs + 1) /\ seen \in Seq(Facts)
    /\ empty \in BOOLEAN /\ hard \in BOOLEAN
    /\ spans \subseteq Output /\ relatives \subseteq Output
    /\ spans \cup relatives \subseteq Answered
    /\ gverdict \in {"none", "pass", "fail", "infra"}

\* An entry that passes has no output missing, no loop in any part of any text that
\* counts, no more repeated or relatively repetitive prompts than are allowed, and
\* nothing the scorer found implausible: a span flagged in the thinking hides no loop
\* in the answer, and a scorer that reads too little never makes a pass.
NothingWrongPasses ==
    gverdict = "pass" =>
        /\ Read = Answered /\ ~TextFailure
        /\ \A i \in Answered : seen[i].score \in {"good", "none", "drop"}
        /\ Relative => \A i \in Answered : seen[i].score # "drop"

\* Only the candidate's own output disqualifies it; what the scorer could not read
\* is requeued.
ScorerTroubleRequeues ==
    gverdict = "fail" =>
        \/ Read # Answered \/ TextFailure
        \/ \E i \in Answered : seen[i].score \in {"low", "drop"}

\* A repetition failure that is established stays one, whatever the scorer does
\* with the outputs after it.
FailureOutlivesScorer ==
    gverdict # "none" /\ Degenerate(hard, spans, relatives) => gverdict = "fail"
=============================================================================

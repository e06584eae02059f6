------------------------------ MODULE Repeats ------------------------------
(***************************************************************************)
(* longest_repeated_substring_ratio and distinct_ngram_ratio (bench/       *)
(* correctness.py): the two measures of repetition every text is held to.  *)
(* The longest repeated span is found with a suffix automaton, grown by    *)
(* one character at a time; it is checked against the plain definition on  *)
(* every text up to a length.                                              *)
(***************************************************************************)
EXTENDS Integers, Sequences, FiniteSets, FiniteSetsExt, Functions

CONSTANTS
    Char,       \* characters
    MaxText,    \* bound: length of the text
    Gram        \* DEGENERACY_NGRAM

ASSUME RepeatsAssumption == MaxText \in Nat /\ Gram \in Nat \ {0}

Root == 0

VARIABLES
    chars,       \* what was read
    trans,      \* state -> its transitions, a partial function of Char
    link,       \* state -> suffix link; the root has none
    length,     \* state -> length of its longest string
    own,        \* state -> 1 where a prefix of the text ends, 0 for a clone
    last        \* the state of the whole text

repeatsVars == <<chars, trans, link, length, own, last>>

Sized == DOMAIN trans
NextState == Cardinality(Sized)

\* The states met when suffix links are followed from s while ch has no transition,
\* and the first that has one; the root's link leads out of the automaton.
Unlinked(s, ch) ==
    LET step[q \in Sized] ==
            IF ch \in DOMAIN trans[q] THEN [passed |-> {}, stop |-> {q}]
            ELSE IF q = Root THEN [passed |-> {q}, stop |-> {}]
            ELSE LET rest == step[link[q]]
                 IN  [passed |-> rest.passed \cup {q}, stop |-> rest.stop]
    IN  step[s]

\* From s along the links, the states whose ch leads to target: they are redirected
\* to its clone.
Redirected(s, ch, target) ==
    LET step[q \in Sized] ==
            IF ch \in DOMAIN trans[q] /\ trans[q][ch] = target
            THEN {q} \cup (IF q = Root THEN {} ELSE step[link[q]])
            ELSE {}
    IN  step[s]

With(f, ch, q) == [c \in DOMAIN f \cup {ch} |-> IF c = ch THEN q ELSE f[c]]
Grow(f, q, v) == [s \in DOMAIN f \cup {q} |-> IF s = q THEN v ELSE f[s]]

\* A new state for the longer text, linked to the root, to the state reached by ch,
\* or to a clone of it that stands for the shorter of its strings.
ReadChar(ch) ==
    LET cur == NextState
        walk == Unlinked(last, ch)
        grown == [s \in Sized \cup {cur} |->
                    IF s \in walk.passed THEN With(trans[s], ch, cur)
                    ELSE IF s = cur THEN <<>> ELSE trans[s]]
    IN  /\ Len(chars) < MaxText
        /\ chars' = Append(chars, ch)
        /\ last' = cur
        /\ \/ /\ walk.stop = {}
              /\ trans' = grown
              /\ link' = Grow(link, cur, Root)
              /\ length' = Grow(length, cur, length[last] + 1)
              /\ own' = Grow(own, cur, 1)
           \/ \E s \in walk.stop :
                LET target == trans[s][ch]
                    clone == cur + 1
                IN  IF length[s] + 1 = length[target]
                    THEN /\ trans' = grown
                         /\ link' = Grow(link, cur, target)
                         /\ length' = Grow(length, cur, length[last] + 1)
                         /\ own' = Grow(own, cur, 1)
                    ELSE /\ trans' = [q \in Sized \cup {cur, clone} |->
                                IF q = clone THEN grown[target]
                                ELSE IF q \in Redirected(s, ch, target)
                                     THEN With(trans[q], ch, clone)
                                ELSE grown[q]]
                         /\ link' = [q \in Sized \cup {cur, clone} |->
                                IF q = clone THEN link[target]
                                ELSE IF q \in {cur, target} THEN clone ELSE link[q]]
                         /\ length' = Grow(Grow(length, cur, length[last] + 1), clone, length[s] + 1)
                         /\ own' = Grow(Grow(own, cur, 1), clone, 0)

InitRepeats ==
    /\ chars = <<>>
    /\ trans = [q \in {Root} |-> <<>>] /\ link = [q \in {Root} |-> Root]
    /\ length = [q \in {Root} |-> 0] /\ own = [q \in {Root} |-> 0]
    /\ last = Root
NextRepeats == \E ch \in Char : ReadChar(ch)

SpecRepeats == InitRepeats /\ [][NextRepeats]_repeatsVars

-----------------------------------------------------------------------------
\* Mutant: a state's occurrences are not passed on to the state it links to.
OccurrencesOwn(s) == own[s]

\* Occurrences are passed up the links, longest strings first.
Occurrences(s) ==
    LET occ[q \in Sized] ==
            own[q] + SumFunction([t \in {c \in Sized \ {Root} : link[c] = q} |-> occ[t]])
    IN  occ[s]

\* longest_repeated_substring_ratio, before it is divided by the length.
LongestRepeated ==
    Max({0} \cup {length[s] : s \in {q \in Sized \ {Root} : Occurrences(q) >= 2}})

\* The character n-grams of distinct_ngram_ratio.
Grams(t) == {SubSeq(t, i, i + Gram - 1) : i \in 1..(Len(t) - Gram + 1)}

\* The definition: the longest span that occurs at two places, overlapping or not.
Repeated(n) ==
    \E i, j \in 1..(Len(chars) - n + 1) :
        i < j /\ SubSeq(chars, i, i + n - 1) = SubSeq(chars, j, j + n - 1)
LongestByDefinition == Max({n \in 0..Len(chars) : n = 0 \/ Repeated(n)})

\* The text repeats a unit of p characters.
HasPeriod(p) == \A i \in 1..(Len(chars) - p) : chars[i] = chars[i + p]

\* The automaton's shape: links lead to shorter strings, transitions to longer ones.
TypeOKRepeats ==
    /\ last \in Sized /\ chars \in Seq(Char)
    /\ \A s \in Sized \ {Root} : link[s] \in Sized /\ length[link[s]] < length[s]
    /\ \A s \in Sized : \A ch \in DOMAIN trans[s] : length[trans[s][ch]] > length[s]
    /\ length[last] = Len(chars)

\* The automaton finds the longest repeated span of every text.
AutomatonCorrect == LongestRepeated = LongestByDefinition

\* "the bar catches any repeated unit": a text of period p has at most p distinct
\* n-grams, and only a text of one character has a single one.
LoopsHaveFewGrams ==
    /\ \A p \in 1..MaxText : HasPeriod(p) => Cardinality(Grams(chars)) <= p
    /\ Len(chars) > Gram => (Cardinality(Grams(chars)) = 1 <=> HasPeriod(1))
=============================================================================

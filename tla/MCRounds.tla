----------------------------- MODULE MCRounds -----------------------------
(* Instances of Rounds for TLC. *)
EXTENDS Rounds, TLC

CONSTANTS a, b, c, x, y, d1, d2, w1, w2, v1, v2

\* a and b belong to different hotkeys, c to the first hotkey again.
MCSub      == {a, b, c}
MCHotkey   == {x, y}
MCHotkeyOf == (a :> x) @@ (b :> y) @@ (c :> x)
MCCommit   == (a :> 1) @@ (b :> 2) @@ (c :> 3)
MCDigest   == {d1, d2}
\* b and c are the same image.
MCDigestOf == (a :> d1) @@ (b :> d2) @@ (c :> d2)

MCSub1      == {a}
MCHotkeyOf1 == a :> x
MCCommit1   == a :> 1
MCDigestOf1 == a :> d1

MCSub2      == {a, b}
MCHotkeyOf2 == (a :> x) @@ (b :> y)
MCCommit2   == (a :> 1) @@ (b :> 2)
MCDigestOf2 == (a :> d1) @@ (b :> d2)

\* Bound: an exclusion of y, and one of x during whose wait anything happens, is
\* looked at in the first round only.
OverruledEarly ==
  rstatus'[MaxOrdinal] # "none" =>
    /\ later' = {} /\ escaped' = {}
    /\ excluding' = {} \/ (excluding = {} /\ excluding' = {x})
    /\ action'[y] = "none"
=============================================================================

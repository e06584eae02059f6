----------------------------- MODULE MCRelease -----------------------------
(* Instances of Release for TLC. *)
EXTENDS Release, TLC

CONSTANTS A, B, T, d1, d2

\* B changes the requirements of A; T is B with another vector.toml.
MCCommit == {A, B, T}
MCDepsOf == (A :> d1) @@ (B :> d2) @@ (T :> d2)
MCToml   == {<<B, T>>, <<T, B>>}

\* Two commits, no vector-only change.
MCCommitPair == {A, B}
MCDepsOfPair == (A :> d1) @@ (B :> d2)
=============================================================================

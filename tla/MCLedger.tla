----------------------------- MODULE MCLedger -----------------------------
(***************************************************************************)
(* The parts that write what the subnet reads: the weights process, the    *)
(* order of submission events and the connections all of them write with,  *)
(* checked in one run as their disjoint union.  Every behaviour picks one  *)
(* part and runs it alone, with the others standing in an initial state;   *)
(* the parts share no variable, so the union reaches the states of each    *)
(* part, and a property of a part holds in the union exactly when it holds *)
(* of the part.                                                            *)
(***************************************************************************)
EXTENDS Weights, EventOrder, Pool, TLC

CONSTANTS c1, c2, h1

\* Earnings start at start, fall by one a block after span blocks, and stop at floor.
MCRule == (c1 :> [start |-> 3, floor |-> 1, span |-> 1])
       @@ (c2 :> [start |-> 2, floor |-> 2, span |-> 1])
\* The metagraph knows the hotkey, or does not.
MCMeta == {(h1 :> 1), (h1 :> -1)}

VARIABLE part      \* the part this behaviour runs

ledgerVars == <<weightVars, orderVars, poolVars, part>>

InitLedger ==
    /\ part \in {"weights", "order", "pool"}
    /\ InitWeights /\ InitOrder /\ InitPool

Only(p) == part = p /\ part' = part

NextLedger ==
    \/ Only("weights") /\ NextWeights /\ UNCHANGED <<orderVars, poolVars>>
    \/ Only("order") /\ NextOrder /\ UNCHANGED <<weightVars, poolVars>>
    \/ Only("pool") /\ NextPool /\ UNCHANGED <<weightVars, orderVars>>

\* FairWeights, asked of the behaviours that run the part.
FairLedger ==
    /\ WF_weightVars(Only("weights") /\ ProcessNext)
    /\ WF_weightVars(Only("weights") /\ Block)
    /\ \A c \in Campaign : WF_weightVars(Only("weights") /\ Settle(c))

SpecLedger == InitLedger /\ [][NextLedger]_ledgerVars /\ FairLedger
=============================================================================

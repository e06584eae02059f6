--------------------------- MODULE CrownRegister ---------------------------
(***************************************************************************)
(* What the round engine promises about a campaign's crown, with no round, *)
(* worker, queue, gate or operator in sight.  The crown is a register that *)
(* one contest at a time may change.  A contest ends in one step that may  *)
(* move the crown; while it is open nothing else touches the crown, the    *)
(* published score or the ledger.  Every change of holder writes the       *)
(* ledger row that names the new holder and whom it removed.               *)
(***************************************************************************)
EXTENDS Integers

CONSTANTS
  Sub,    \* who may hold the crown
  NoSub   \* nobody

VARIABLES
  holder,   \* who holds the crown
  worth,    \* the score the holder is published with
  contest,  \* a contest for the crown is open
  ledger    \* newest row: [new, prev, prevScore]

register == <<holder, worth, contest, ledger>>

Entry(new, prev, prevScore) == [new |-> new, prev |-> prev, prevScore |-> prevScore]

InitRegister ==
  /\ holder = NoSub /\ worth = 0
  /\ ~contest
  /\ ledger = Entry(NoSub, NoSub, 0)

Open ==
  /\ ~contest /\ contest'
  /\ UNCHANGED <<holder, worth, ledger>>

\* A contest that measured nothing, or that nobody won for an empty crown.
Abandon ==
  /\ contest /\ ~contest'
  /\ UNCHANGED <<holder, worth, ledger>>

\* The holder keeps the crown with the score of this contest.
Defend ==
  /\ contest /\ ~contest'
  /\ holder # NoSub
  /\ worth' > 0
  /\ UNCHANGED <<holder, ledger>>

\* A contest crowns somebody else, above the baseline.
Take ==
  /\ contest /\ ~contest'
  /\ holder' \in Sub \ {holder}
  /\ worth' > 0
  /\ ledger'.new = holder' /\ ledger'.prev = holder

\* A contest in which the holder failed and nobody won.
Lose ==
  /\ contest /\ ~contest'
  /\ holder # NoSub
  /\ holder' = NoSub /\ worth' = 0
  /\ ledger'.new = NoSub /\ ledger'.prev = holder

\* Between contests the holder is removed: its key left the subnet or was
\* excluded, and nobody succeeds it.
Vacate ==
  /\ ~contest /\ ~contest'
  /\ holder # NoSub
  /\ holder' = NoSub /\ worth' = 0
  /\ ledger' = Entry(NoSub, holder, worth)

\* Between contests an excluded holder is succeeded by the runner-up.  The
\* excluded one is not named on the row.
Succeed ==
  /\ ~contest /\ ~contest'
  /\ holder # NoSub
  /\ holder' \in Sub \ {holder}
  /\ worth' > 0
  /\ ledger' = Entry(holder', NoSub, 0)

NextRegister ==
  Open \/ Abandon \/ Defend \/ Take \/ Lose \/ Vacate \/ Succeed

SpecRegister == InitRegister /\ [][NextRegister]_register
=============================================================================

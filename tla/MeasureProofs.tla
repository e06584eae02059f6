--------------------------- MODULE MeasureProofs ---------------------------
(***************************************************************************)
(* The measurement, for every trace, tier list, number of slots and timing.*)
(*                                                                         *)
(* Replay  the groups are slices of the tier list, so they part the        *)
(*         requests (GroupsPartition), and a group's order numbers its     *)
(*         members (GroupHoldsMembers); a request is in one place: queue,  *)
(*         slot or rows (EachOnce, NoneLost); at every time the rows on    *)
(*         record and the slots held are no more than the slots            *)
(*         (SeatsCounted), so the peak computed from the rows is one the   *)
(*         engine had; and the clock is paid for by answers that timed out *)
(*         (ClockPaid), so only a hung request overruns the deadline.      *)
(* Score   no property is about the order of steps: each compares two      *)
(*         inputs.  Where no value falls, the r-th value does not          *)
(*         (NthKeeps), so medians, caps and penalties keep the order of    *)
(*         their inputs.                                                   *)
(* Repeats the automaton that has been grown is the suffix automaton of    *)
(*         what was read (Automaton): a state stands for spans of the text *)
(*         that end at the same places (Classes), every span has one state *)
(*         (Covered, Unique), a link leads to the longest suffix that ends *)
(*         elsewhere too (Linked, Proper), and a transition to the state   *)
(*         of the span that is one character longer (Transitions,          *)
(*         Followed).  ReadChar keeps this in two moves, a state that is   *)
(*         split (Split) and one that is added below it (Extended).  So    *)
(*         the places where a state's strings end are those of the states  *)
(*         that link to it, and its own if a prefix ends there             *)
(*         (EndsSplit), and the count passed up the links is the number    *)
(*         of occurrences (OccurrencesAre).                                *)
(***************************************************************************)
EXTENDS Replay, Repeats, Score, SetProofs, SequenceTheorems

-----------------------------------------------------------------------------
(* Groups of a replay (Replay): whole tiers, every request in one of them. *)

\* A request's tier is at one place of the list.
LEMMA TierPlaces ==
  /\ Len(TierList) \in Nat \ {0} /\ Len(Trace) \in Nat
  /\ \A r \in Req : TierIndex(r) \in 1..Len(TierList)
  /\ \A x, y \in Req : TierIndex(x) = TierIndex(y) <=> Trace[x] = Trace[y]
  <1>0. /\ Len(TierList) \in Nat \ {0} /\ Len(Trace) \in Nat
        /\ DOMAIN TierList = 1..Len(TierList)
    BY ReplayAssumption
  <1>1. ASSUME NEW r \in Req
        PROVE  TierIndex(r) \in 1..Len(TierList) /\ TierList[TierIndex(r)] = Trace[r]
    <2>1. Trace[r] \in Range(TierList)
      BY ReplayAssumption DEF Req
    <2>2. PICK i \in 1..Len(TierList) : TierList[i] = Trace[r]
      BY <1>0, <2>1 DEF Range
    <2> QED BY <2>2 DEF TierIndex
  <1>2. ASSUME NEW x \in Req, NEW y \in Req
        PROVE  TierIndex(x) = TierIndex(y) <=> Trace[x] = Trace[y]
    <2>1. Trace[x] = Trace[y] => TierIndex(x) = TierIndex(y)
      BY DEF TierIndex
    <2> QED BY <1>1, <2>1
  <1> QED BY <1>0, <1>1, <1>2

\* The requests are finitely many.
LEMMA RequestsFinite == IsFiniteSet(Req) /\ Cardinality(Req) = Len(Trace)
  <1>1. 1 \in Int /\ Len(Trace) \in Int /\ Len(Trace) >= 0
    BY TierPlaces
  <1>2. IsFiniteSet(1..Len(Trace))
        /\ Cardinality(1..Len(Trace)) = IF 1 > Len(Trace) THEN 0 ELSE Len(Trace) - 1 + 1
    BY <1>1, FS_Interval
  <1> QED BY <1>1, <1>2 DEF Req

\* Two requests of a tier have different turns.
LEMMA TurnsDiffer ==
  /\ \A r \in Req : Turn(r) \in Nat
  /\ \A x, y \in Req : Trace[x] = Trace[y] /\ Turn(x) = Turn(y) => x = y
  <1> DEFINE upTo(r) == {x \in Req : Trace[x] = Trace[r] /\ x <= r}
  <1>0. ASSUME NEW r \in Req PROVE IsFiniteSet(upTo(r)) /\ Cardinality(upTo(r)) \in Nat
    <2>1. upTo(r) \in SUBSET Req
      OBVIOUS
    <2> QED BY <2>1, RequestsFinite, FS_Subset, FS_CardinalityType
  <1>1. ASSUME NEW x \in Req, NEW y \in Req, Trace[x] = Trace[y], Turn(x) = Turn(y), x < y
        PROVE  FALSE
    <2>1. upTo(x) \in SUBSET upTo(y) /\ y \in upTo(y) /\ y \notin upTo(x)
      BY <1>1 DEF Req
    <2>2. Cardinality(upTo(x)) = Cardinality(upTo(y))
      BY <1>1 DEF Turn
    <2> HIDE DEF upTo
    <2> QED BY <1>0, <2>1, <2>2, FS_Subset
  <1>2. \A x, y \in Req : x < y \/ y < x \/ x = y
    BY DEF Req
  <1>3. \A r \in Req : Turn(r) \in Nat
    BY <1>0 DEF Turn
  <1> QED BY <1>1, <1>2, <1>3

\* A group is what is left of a queue that holds its members once each.
LEMMA GroupHoldsMembers ==
  ASSUME NEW n
  PROVE  /\ Group(n) \in Seq(Req) /\ Len(Group(n)) = Cardinality(Members(n))
         /\ \A i, j \in 1..Len(Group(n)) : Group(n)[i] = Group(n)[j] => i = j
         /\ \A r : r \in Members(n) <=> \E i \in 1..Len(Group(n)) : Group(n)[i] = r
  <1> DEFINE S == Members(n)
             below == [r \in S |-> {x \in S : Ahead(x, r)}]
             size == Cardinality(S)
  <1>0. S \in SUBSET Req
    BY DEF Members
  <1>1. IsFiniteSet(S) /\ size \in Nat
    BY <1>0, RequestsFinite, FS_Subset, FS_CardinalityType
  <1>2. \A x \in S : Turn(x) \in Nat /\ TierIndex(x) \in Nat
    BY <1>0, TurnsDiffer, TierPlaces
  <1>3. \A x, y \in S : Turn(x) = Turn(y) /\ TierIndex(x) = TierIndex(y) => x = y
    BY <1>0, TurnsDiffer, TierPlaces
  <1> HIDE DEF S
  <1>4. /\ below \in [S -> SUBSET S]
        /\ \A x \in S : x \in below[x]
        /\ \A x, y \in S : x \in below[y] \/ y \in below[x]
        /\ \A x, y \in S : x \in below[y] /\ y \in below[x] => x = y
    BY <1>2, <1>3 DEF Ahead
  <1>5. \A x, y \in S : x \in below[y] => below[x] \subseteq below[y]
    BY <1>2 DEF Ahead
  <1> HIDE DEF below
  <1>6. /\ \A x \in S : Cardinality(below[x]) \in 1..size
        /\ \A i \in 1..size : \E x \in S : Cardinality(below[x]) = i
        /\ \A x, y \in S : Cardinality(below[x]) = Cardinality(below[y]) => x = y
    BY <1>1, <1>4, <1>5, Numbering
  <1>7. Group(n) = [i \in 1..size |-> CHOOSE r \in S : Cardinality({x \in S : Ahead(x, r)}) = i]
    BY DEF Group, S
  <1>8. \A r \in S : {x \in S : Ahead(x, r)} = below[r]
    BY DEF below
  <1>9. ASSUME NEW i \in 1..size
        PROVE  Group(n)[i] \in S /\ Cardinality(below[Group(n)[i]]) = i
    <2>1. PICK x \in S : Cardinality({y \in S : Ahead(y, x)}) = i
      BY <1>6, <1>8
    <2>2. Group(n)[i] = CHOOSE r \in S : Cardinality({y \in S : Ahead(y, r)}) = i
      BY <1>7
    <2>3. Group(n)[i] \in S /\ Cardinality({y \in S : Ahead(y, Group(n)[i])}) = i
      BY <2>1, <2>2
    <2> QED BY <1>8, <2>3
  <1>10. Group(n) \in Seq(Req) /\ Len(Group(n)) = size
    <2>1. \A i \in 1..size : Group(n)[i] \in Req
      BY <1>0, <1>9
    <2>2. DOMAIN Group(n) = 1..size /\ Group(n) = [i \in 1..size |-> Group(n)[i]]
      BY <1>7
    <2>3. Group(n) \in [1..size -> Req]
      BY <2>1, <2>2, Zenon
    <2> HIDE DEF size
    <2> QED BY <1>1, <2>3
  <1>11. ASSUME NEW r \in S PROVE \E i \in 1..size : Group(n)[i] = r
    BY <1>6, <1>9
  <1> QED BY <1>9, <1>10, <1>11 DEF S

\* Every group takes at least one tier.
LEMMA TiersPerGroupPositive == TiersPerGroup \in Nat \ {0}
  <1>1. Slots \div TierSize \in Int
    BY ReplayAssumption
  <1> QED BY <1>1 DEF TiersPerGroup

\* How a number of places is cut into slices of p.
LEMMA Slices ==
  ASSUME NEW p \in Nat \ {0}, NEW len \in Nat \ {0}
  PROVE  /\ (len + p - 1) \div p \in Nat \ {0}
         /\ \A m, n \in Nat : m < n => m * p <= (n - 1) * p
         /\ \A i \in 1..len : \E n \in 1..((len + p - 1) \div p) : i \in ((n - 1) * p + 1)..(n * p)
  <1> DEFINE c == (len + p - 1) \div p
  <1>1. c \in Int /\ len + p - 1 = p * c + ((len + p - 1) % p) /\ (len + p - 1) % p \in 0..(p - 1)
    OBVIOUS
  <1>2. len <= p * c
    BY <1>1
  <1>3. c \in Nat \ {0}
    BY <1>1, <1>2
  <1>4. ASSUME NEW m \in Nat, NEW n \in Nat, m < n PROVE m * p <= (n - 1) * p
    BY <1>4
  <1>5. ASSUME NEW i \in 1..len PROVE \E n \in 1..c : i \in ((n - 1) * p + 1)..(n * p)
    <2> DEFINE up == {n \in Nat : i <= n * p}
    <2>1. c \in up
      BY <1>2, <1>3
    <2>2. Min(up) \in up /\ \A n \in up : Min(up) <= n
      BY <2>1, LeastOfSet
    <2> DEFINE n == Min(up)
    <2>3. n \in Nat /\ i <= n * p /\ n <= c
      BY <2>1, <2>2
    <2>4. n # 0
      BY <2>3
    <2>5. (n - 1) * p < i
      BY <2>2, <2>3, <2>4
    <2> HIDE DEF n
    <2>6. i \in ((n - 1) * p + 1)..(n * p)
      BY <2>3, <2>4, <2>5
    <2> HIDE DEF c
    <2>7. n \in 1..c
      BY <1>3, <2>3, <2>4
    <2> QED BY <2>6, <2>7
  <1> QED BY <1>3, <1>4, <1>5

\* Every request is in one group, the requests of a tier are in the same one.
LEMMA GroupsPartition ==
  /\ GroupCount \in Nat \ {0}
  /\ \A r \in Req : \E n \in 1..GroupCount : r \in Members(n)
  /\ \A m, n \in Nat \ {0} : \A r : r \in Members(m) /\ r \in Members(n) => m = n
  /\ \A n : \A x, y \in Req : Trace[x] = Trace[y] /\ x \in Members(n) => y \in Members(n)
  <1> DEFINE p == TiersPerGroup
             len == Len(TierList)
  <1>0. p \in Nat \ {0} /\ len \in Nat \ {0}
    BY TiersPerGroupPositive, TierPlaces
  <1>1. GroupCount = (len + p - 1) \div p
    BY DEF GroupCount
  <1>2. \A r, n : r \in Members(n) <=>
            r \in Req /\ TierIndex(r) \in ((n - 1) * p + 1)..(n * p)
    BY DEF Members, InGroup
  <1>3. \A r \in Req : TierIndex(r) \in 1..len
    BY TierPlaces
  <1> HIDE DEF p, len
  <1>4. /\ (len + p - 1) \div p \in Nat \ {0}
        /\ \A m, n \in Nat : m < n => m * p <= (n - 1) * p
        /\ \A i \in 1..len : \E n \in 1..((len + p - 1) \div p) : i \in ((n - 1) * p + 1)..(n * p)
    BY <1>0, Slices
  <1>5. \A r \in Req : \E n \in 1..GroupCount : r \in Members(n)
    BY <1>1, <1>2, <1>3, <1>4
  <1>6. ASSUME NEW m \in Nat \ {0}, NEW n \in Nat \ {0}, NEW r, r \in Members(m), r \in Members(n),
               m < n
        PROVE  FALSE
    <2>1. TierIndex(r) \in Nat /\ TierIndex(r) <= m * p /\ TierIndex(r) >= (n - 1) * p + 1
      BY <1>2, <1>3, <1>6, <1>0
    <2>2. m * p <= (n - 1) * p
      BY <1>4, <1>6
    <2>3. m * p \in Int /\ (n - 1) * p \in Int
      BY <1>0
    <2> QED BY <2>1, <2>2, <2>3
  <1>7. \A m, n \in Nat \ {0} : \A r : r \in Members(m) /\ r \in Members(n) => m = n
    BY <1>6
  <1>8. \A n : \A x, y \in Req : Trace[x] = Trace[y] /\ x \in Members(n) => y \in Members(n)
    BY <1>2, TierPlaces
  <1> QED BY <1>1, <1>4, <1>5, <1>7, <1>8

-----------------------------------------------------------------------------
(* The inductive invariant of a replay. *)

ReplayRow == [req : Req, start : Nat, admitted : Nat, first : Nat, done : Nat, released : Nat,
        tokens : Nat]
SlotStates == {Free, Left} \cup (Req \X Nat)

\* The sorts of the variables, and the times of a row and of a slot.
ReplayTypes ==
  /\ rstep \in {"group", "run", "done", "overrun"} /\ nth \in 1..GroupCount
  /\ queue \in Seq(Req) /\ slot \in [Workers -> SlotStates]
  /\ clock \in 0..Deadline /\ groupStart \in 0..clock
  /\ rows \in SUBSET ReplayRow /\ IsFiniteSet(rows)
  /\ errs \in {"none", "failed"} /\ hung \in SUBSET Req
ReplayTimes ==
  /\ \A r \in rows : /\ r.start <= r.admitted /\ r.tokens \in 1..FullLength
                     /\ r.first = r.admitted + 1 /\ r.done = r.admitted + r.tokens
                     /\ r.done <= r.released /\ r.released <= clock
  /\ \A s \in Busy : /\ groupStart <= slot[s][2] /\ slot[s][2] <= clock
                     /\ slot[s][1] \notin hung => clock <= slot[s][2] + RequestTimeout
  /\ rstep \in {"group", "done"} => \A s \in Workers : slot[s] = Left
  /\ rstep = "group" => errs = "none"

\* A request waits, is under way or was recorded, at one place only.
EachOnce ==
  /\ \A i, j \in 1..Len(queue) : queue[i] = queue[j] => i = j
  /\ \A s, t \in Busy : slot[s][1] = slot[t][1] => s = t
  /\ \A r, x \in rows : r.req = x.req => r = x
  /\ \A s \in Busy : \A i \in 1..Len(queue) : slot[s][1] # queue[i]
  /\ \A r \in rows : \A i \in 1..Len(queue) : rstep = "run" => r.req # queue[i]
  /\ \A s \in Busy, r \in rows : slot[s][1] # r.req

\* What waits or is under way is of the group that runs, and the rows are of the
\* groups so far; those of one tier have one start.
ByGroup ==
  /\ rstep = "run" => \A i \in 1..Len(queue) : queue[i] \in Members(nth)
  /\ \A s \in Busy : slot[s][1] \in Members(nth)
  /\ \A r \in rows : \E m \in 1..nth : r.req \in Members(m) /\ (rstep = "group" => m # nth)
  /\ \A r \in rows : rstep = "run" /\ r.req \in Members(nth) => r.start = groupStart
  /\ \A r, x \in rows : Trace[r.req] = Trace[x.req] => r.start = x.start

\* Without an error nothing is lost.
NoneLost ==
  errs = "none" =>
    /\ rstep \in {"group", "run"} =>
         \A m \in 1..(nth - 1) : \A q \in Members(m) : \E r \in rows : r.req = q
    /\ rstep = "run" =>
         \A q \in Members(nth) : \/ \E i \in 1..Len(queue) : queue[i] = q
                                 \/ \E s \in Busy : slot[s][1] = q
                                 \/ \E r \in rows : r.req = q
    /\ rstep = "run" /\ slot[1] = Left => queue = <<>>
    /\ rstep = "done" => \A q \in Req : \E r \in rows : r.req = q

\* At every time, who holds a slot, on record or still.
OnRecord(t) == {r \in rows : r.admitted <= t /\ t < r.released}
HeldAt(t) == {s \in Busy : slot[s][2] <= t}
SeatsCounted == \A t \in Nat : Cardinality(OnRecord(t)) + Cardinality(HeldAt(t)) <= Slots

\* While nobody hangs, a thread that is free saw the clock pay for the answers so far.
ClockPaid ==
  /\ hung = {} =>
       /\ \A s \in Busy : slot[s][2] <= FullLength * Cardinality(rows)
       /\ errs = "none" /\ (Busy = {} \/ \E s \in Workers : slot[s] = Free) =>
            clock <= FullLength * Cardinality(rows)
  /\ DeadlineOnlyForHung

\* The inductive invariant.
ReplayIInv ==
  ReplayTypes /\ ReplayTimes /\ EachOnce /\ ByGroup /\ NoneLost /\ SeatsCounted /\ ClockPaid

-----------------------------------------------------------------------------
(* What the steps of a thread do to the queue and the slots. *)

\* Thread s has taken the next request.
Taking(s) ==
  /\ rstep = "run" /\ slot[s] = Free /\ errs = "none" /\ s \in Workers \ Busy
  /\ queue' \in Seq(Req) /\ Len(queue) \in Nat \ {0} /\ Len(queue') = Len(queue) - 1
  /\ queue[1] \in Req /\ \A i \in 1..Len(queue') : i + 1 \in 1..Len(queue) /\ queue'[i] = queue[i + 1]
  /\ slot' \in [Workers -> SlotStates] /\ slot'[s] = <<queue[1], clock>>
  /\ slot'[s][1] = queue[1] /\ slot'[s][2] = clock
  /\ \A t \in Workers \ {s} : slot'[t] = slot[t]
  /\ Busy' = Busy \cup {s}
  /\ UNCHANGED <<rstep, nth, clock, groupStart, rows, errs, hung>>

\* Thread s has left: there is nothing to take, or an error.
Leaving(s) ==
  /\ rstep = "run" /\ slot[s] = Free /\ s \in Workers \ Busy /\ (queue = <<>> \/ errs # "none")
  /\ slot' \in [Workers -> SlotStates] /\ slot'[s] = Left
  /\ \A t \in Workers \ {s} : slot'[t] = slot[t]
  /\ Busy' = Busy
  /\ UNCHANGED <<rstep, nth, queue, clock, groupStart, rows, errs, hung>>

\* Thread s is free again.
Freeing(s) ==
  /\ rstep = "run" /\ s \in Busy /\ slot[s][1] \notin hung
  /\ slot' \in [Workers -> SlotStates] /\ slot'[s] = Free
  /\ \A t \in Workers \ {s} : slot'[t] = slot[t]
  /\ Busy' = Busy \ {s}
  /\ UNCHANGED <<rstep, nth, queue, clock, groupStart, hung>>
Answering(s) ==
  /\ Freeing(s) /\ UNCHANGED errs
  /\ clock - slot[s][2] \in 1..FullLength
  /\ rows' = rows \cup {RowOf(s, clock - slot[s][2])}
Failing(s) == Freeing(s) /\ UNCHANGED rows /\ errs' = "failed"

\* A slot is free, left, or holds a request and the time it was taken.
LEMMA SlotKinds ==
  /\ Free # Left /\ Free \in SlotStates /\ Left \in SlotStates
  /\ \A q \in Req, c \in Nat : /\ <<q, c>> \in SlotStates /\ <<q, c>> \notin {Free, Left}
                               /\ <<q, c>>[1] = q /\ <<q, c>>[2] = c
  /\ \A x \in SlotStates \ {Free, Left} : x \in Req \X Nat /\ x[1] \in Req /\ x[2] \in Nat
                                          /\ x = <<x[1], x[2]>>
  BY DEF SlotStates, Free, Left

\* Who is busy has a request and a time.
LEMMA BusySlots ==
  ASSUME ReplayTypes
  PROVE  \A s \in Busy : s \in Workers /\ slot[s][1] \in Req /\ slot[s][2] \in Nat
                         /\ slot[s] \notin {Free, Left}
  BY SlotKinds DEF ReplayTypes, Busy

\* The steps of a thread are these.
LEMMA ThreadSteps ==
  ASSUME ReplayTypes, NEW s \in Workers
  PROVE  /\ Take(s) => Taking(s) \/ Leaving(s)
         /\ Answer(s) => Answering(s)
         /\ RequestFails(s) => Failing(s)
  <1>0. slot \in [Workers -> SlotStates] /\ clock \in Nat /\ queue \in Seq(Req)
    BY DEF ReplayTypes
  <1>1. ASSUME Take(s), MayTake, slot' = [slot EXCEPT ![s] = <<Head(queue), clock>>],
               queue' = Tail(queue)
        PROVE  Taking(s)
    <2>1. queue # <<>> /\ errs = "none" /\ rstep = "run" /\ slot[s] = Free
      BY <1>1 DEF Take, MayTake
    <2>2. /\ queue' \in Seq(Req) /\ Len(queue) \in Nat \ {0} /\ Len(queue') = Len(queue) - 1
          /\ queue[1] \in Req /\ Head(queue) = queue[1]
          /\ \A i \in 1..Len(queue') : i + 1 \in 1..Len(queue) /\ queue'[i] = queue[i + 1]
      BY <1>0, <1>1, <2>1
    <2>3. slot'[s] = <<queue[1], clock>> /\ \A t \in Workers \ {s} : slot'[t] = slot[t]
      BY <1>0, <1>1, <2>2
    <2>4. /\ <<queue[1], clock>> \in SlotStates /\ <<queue[1], clock>> \notin {Free, Left}
          /\ <<queue[1], clock>>[1] = queue[1] /\ <<queue[1], clock>>[2] = clock
      BY <1>0, <2>2, SlotKinds
    <2>5. slot' \in [Workers -> SlotStates]
      BY <1>0, <1>1, <2>2, <2>4
    <2>6. s \notin Busy /\ Busy' = Busy \cup {s}
      BY <2>1, <2>3, <2>4 DEF Busy
    <2> QED BY <1>1, <2>1, <2>2, <2>3, <2>4, <2>5, <2>6 DEF Taking, Take
  <1>2. ASSUME Take(s), ~MayTake, slot' = [slot EXCEPT ![s] = Left], UNCHANGED queue
        PROVE  Leaving(s)
    <2>1. (queue = <<>> \/ errs # "none") /\ rstep = "run" /\ slot[s] = Free
      BY <1>2 DEF Take, MayTake
    <2>2. slot'[s] = Left /\ \A t \in Workers \ {s} : slot'[t] = slot[t]
      BY <1>0, <1>2
    <2>3. slot' \in [Workers -> SlotStates]
      BY <1>0, <1>2, SlotKinds
    <2>4. s \notin Busy /\ Busy' = Busy
      BY <2>1, <2>2 DEF Busy
    <2> QED BY <1>2, <2>1, <2>2, <2>3, <2>4 DEF Leaving, Take
  <1>3. ASSUME rstep = "run", s \in Busy, slot[s][1] \notin hung, slot' = [slot EXCEPT ![s] = Free],
               UNCHANGED <<rstep, nth, queue, clock, groupStart, hung>>
        PROVE  Freeing(s)
    <2>1. slot'[s] = Free /\ \A t \in Workers \ {s} : slot'[t] = slot[t]
      BY <1>0, <1>3
    <2>2. slot' \in [Workers -> SlotStates]
      BY <1>0, <1>3, SlotKinds
    <2>3. Busy' = Busy \ {s}
      BY <2>1 DEF Busy
    <2> QED BY <1>3, <2>1, <2>2, <2>3 DEF Freeing
  <1>4. Take(s) => Taking(s) \/ Leaving(s)
    BY <1>1, <1>2 DEF Take
  <1>5. Answer(s) => Answering(s)
    BY <1>3 DEF Answer, Answering, Elapsed
  <1>6. RequestFails(s) => Failing(s)
    BY <1>3 DEF RequestFails, Failing
  <1> QED BY <1>4, <1>5, <1>6

\* A row that an answer leaves.
LEMMA AnswerRow ==
  ASSUME ReplayTypes, ReplayTimes, NEW s, Answering(s)
  PROVE  LET x == RowOf(s, clock - slot[s][2])
         IN  /\ x \in ReplayRow /\ rows' = rows \cup {x}
             /\ x.req = slot[s][1] /\ x.start = groupStart /\ x.admitted = slot[s][2]
             /\ x.tokens = clock - slot[s][2] /\ x.first = slot[s][2] + 1
             /\ x.done = clock /\ x.released = clock /\ x.tokens \in 1..FullLength
  <1>1. s \in Busy /\ slot[s][1] \in Req /\ slot[s][2] \in Nat /\ clock \in Nat /\ groupStart \in Nat
    BY BusySlots DEF Answering, Freeing, ReplayTypes
  <1>2. clock - slot[s][2] \in 1..FullLength /\ rows' = rows \cup {RowOf(s, clock - slot[s][2])}
    BY DEF Answering
  <1>3. clock - slot[s][2] \in Nat /\ slot[s][2] + (clock - slot[s][2]) = clock
    BY <1>1, <1>2, ReplayAssumption
  <1> DEFINE k == clock - slot[s][2]
  <1>4. k \in Nat /\ slot[s][2] + k = clock
    BY <1>3
  <1>5. RowOf(s, k) = [req |-> slot[s][1], start |-> groupStart, admitted |-> slot[s][2],
                       first |-> slot[s][2] + 1, done |-> clock, released |-> clock, tokens |-> k]
    BY <1>4 DEF RowOf
  <1> HIDE DEF k
  <1>6. RowOf(s, k) \in ReplayRow
    BY <1>1, <1>4, <1>5 DEF ReplayRow
  <1> QED BY <1>1, <1>2, <1>5, <1>6 DEF k

\* The deadline is a time.
LEMMA DeadlineNat ==
  /\ Deadline \in Nat /\ FullLength \in Nat \ {0} /\ RequestTimeout \in Nat /\ Slots \in Nat \ {0}
  /\ 1 \in Workers
  <1>1. Len(Trace) \in Nat /\ RequestTimeout \in Nat
    BY TierPlaces, ReplayAssumption
  <1>2. RequestTimeout * Len(Trace) \in Nat
    BY <1>1
  <1> QED BY <1>2, ReplayAssumption DEF Deadline, Workers

\* Nothing has begun.
LEMMA ReplayInit == InitReplay => ReplayIInv
  <1> SUFFICES ASSUME InitReplay PROVE ReplayIInv
    OBVIOUS
  <1> USE DEF InitReplay
  <1>1. Busy = {}
    BY DEF Busy
  <1>2. ReplayTypes
    <2>1. nth \in 1..GroupCount
      BY GroupsPartition
    <2>2. slot \in [Workers -> SlotStates]
      BY SlotKinds
    <2>3. clock \in 0..Deadline /\ groupStart \in 0..clock
      BY DeadlineNat
    <2>4. IsFiniteSet(rows)
      BY FS_EmptySet
    <2> QED BY <2>1, <2>2, <2>3, <2>4 DEF ReplayTypes
  <1>3. ReplayTimes
    BY <1>1 DEF ReplayTimes
  <1>4. EachOnce
    BY <1>1 DEF EachOnce
  <1>5. ByGroup
    BY <1>1 DEF ByGroup
  <1>6. NoneLost
    BY DEF NoneLost
  <1>7. SeatsCounted
    <2> SUFFICES ASSUME NEW t \in Nat
                 PROVE  Cardinality(OnRecord(t)) + Cardinality(HeldAt(t)) <= Slots
      BY DEF SeatsCounted
    <2>1. OnRecord(t) = {} /\ HeldAt(t) = {}
      BY <1>1 DEF OnRecord, HeldAt
    <2>2. Cardinality(OnRecord(t)) = 0 /\ Cardinality(HeldAt(t)) = 0
      BY <2>1, FS_EmptySet
    <2> QED BY <2>2, ReplayAssumption
  <1>8. ClockPaid
    <2>1. Cardinality(rows) = 0
      BY FS_EmptySet
    <2>2. FullLength * Cardinality(rows) = 0
      BY <2>1, DeadlineNat
    <2> QED BY <1>1, <2>2 DEF ClockPaid, DeadlineOnlyForHung
  <1> QED BY <1>2, <1>3, <1>4, <1>5, <1>6, <1>7, <1>8 DEF ReplayIInv

\* When the last group ends without an error, there is a row for every request.
LEMMA EndComplete ==
  ASSUME ReplayTypes, EachOnce, NoneLost, rstep = "run", errs = "none",
         \A s \in Workers : slot[s] = Left
  PROVE  /\ Busy = {}
         /\ \A m \in 1..nth : \A q \in Members(m) : \E r \in rows : r.req = q
         /\ nth = GroupCount => \A q \in Req : \E r \in rows : r.req = q
         /\ nth = GroupCount => Cardinality(rows) = Len(Trace)
  <1>1. Busy = {}
    BY DEF Busy
  <1>2. queue = <<>>
    BY DeadlineNat DEF NoneLost
  <1>3. \A q \in Members(nth) : \E r \in rows : r.req = q
    BY <1>1, <1>2 DEF NoneLost
  <1>4. ASSUME NEW m \in 1..nth PROVE \A q \in Members(m) : \E r \in rows : r.req = q
    <2>1. nth \in Nat
      BY GroupsPartition DEF ReplayTypes
    <2>2. m = nth \/ m \in 1..(nth - 1)
      BY <2>1
    <2> QED BY <1>3, <2>2 DEF NoneLost
  <1>5. ASSUME nth = GroupCount PROVE \A q \in Req : \E r \in rows : r.req = q
    BY <1>4, <1>5, GroupsPartition
  <1>6. ASSUME nth = GroupCount PROVE Cardinality(rows) = Len(Trace)
    <2> DEFINE f == [r \in rows |-> r.req]
    <2>1. f \in [rows -> Req]
      BY DEF ReplayTypes, ReplayRow
    <2>2. \A r, x \in rows : f[r] = f[x] => r = x
      BY DEF EachOnce
    <2>3. \A q \in Req : \E r \in rows : f[r] = q
      BY <1>5, <1>6
    <2> HIDE DEF f
    <2>4. f \in Injection(rows, Req)
      BY <2>1, <2>2, Zenon DEF Injection, IsInjective
    <2>5. f \in Surjection(rows, Req)
      BY <2>1, <2>3, Zenon DEF Surjection
    <2> QED BY <2>4, <2>5, RequestsFinite, FS_Injection
  <1> QED BY <1>1, <1>4, <1>5, <1>6

\* Types are kept.
LEMMA ReplayTypesNext == ReplayIInv /\ NextReplay => ReplayTypes'
  <1> SUFFICES ASSUME ReplayIInv, NextReplay PROVE ReplayTypes'
    OBVIOUS
  <1> USE DEF ReplayTypes
  <1>0. ReplayTypes /\ ReplayTimes /\ EachOnce /\ NoneLost
    BY DEF ReplayIInv
  <1>1. CASE BeginGroup
    <2>1. queue' \in Seq(Req)
      BY <1>1, GroupHoldsMembers DEF BeginGroup
    <2>2. slot' \in [Workers -> SlotStates]
      BY <1>1, SlotKinds DEF BeginGroup
    <2>3. groupStart' \in 0..clock'
      BY <1>0, <1>1, DeadlineNat DEF BeginGroup
    <2> QED BY <1>0, <1>1, <2>1, <2>2, <2>3 DEF BeginGroup
  <1>2. ASSUME NEW s \in Workers, Taking(s) PROVE ReplayTypes'
    BY <1>0, <1>2 DEF Taking
  <1>3. ASSUME NEW s \in Workers, Leaving(s) PROVE ReplayTypes'
    BY <1>0, <1>3 DEF Leaving
  <1>4. ASSUME NEW s \in Workers, Answering(s) PROVE ReplayTypes'
    <2>1. rows' \in SUBSET ReplayRow
      BY <1>0, <1>4, AnswerRow
    <2>2. IsFiniteSet(rows')
      BY <1>0, <1>4, FS_AddElement DEF Answering
    <2> QED BY <1>0, <1>4, <2>1, <2>2 DEF Answering, Freeing
  <1>5. ASSUME NEW s \in Workers, Failing(s) PROVE ReplayTypes'
    BY <1>0, <1>5 DEF Failing, Freeing
  <1>6. CASE Tick
    <2>1. clock' \in 0..Deadline' /\ groupStart' \in 0..clock'
      BY <1>0, <1>6, DeadlineNat DEF Tick, Deadline
    <2> QED BY <1>0, <1>6, <2>1 DEF Tick
  <1>7. CASE Overrun
    BY <1>0, <1>7 DEF Overrun
  <1>8. CASE EndGroup
    <2>1. errs' = errs
      <3>1. ASSUME errs = "none", nth = GroupCount PROVE Cardinality(rows) = Len(Trace)
        BY <1>0, <1>8, <3>1, EndComplete DEF EndGroup
      <3> QED BY <1>8, <3>1 DEF EndGroup
    <2>2. rstep' \in {"done", "group"} /\ nth' \in 1..GroupCount
      BY <1>0, <1>8, GroupsPartition DEF EndGroup
    <2> QED BY <1>0, <1>8, <2>1, <2>2 DEF EndGroup
  <1>9. ASSUME NEW s \in Workers, Hang(s) PROVE ReplayTypes'
    <2>1. slot[s][1] \in Req
      BY <1>0, <1>9, BusySlots DEF Hang
    <2> QED BY <1>0, <1>9, <2>1 DEF Hang
  <1> QED BY <1>0, <1>1, <1>2, <1>3, <1>4, <1>5, <1>6, <1>7, <1>8, <1>9, ThreadSteps
          DEF NextReplay, ReplayStep

\* Times are in order.
LEMMA ReplayTimesNext == ReplayIInv /\ NextReplay => ReplayTimes'
  <1> SUFFICES ASSUME ReplayIInv, NextReplay PROVE ReplayTimes'
    OBVIOUS
  <1> USE DEF ReplayTimes
  <1>0. ReplayTypes /\ ReplayTimes
    BY DEF ReplayIInv
  <1>a. clock \in Nat /\ groupStart \in Nat /\ groupStart <= clock /\ FullLength \in Nat
        /\ RequestTimeout \in Nat
    BY <1>0, DeadlineNat DEF ReplayTypes
  <1>b. \A s \in Busy : slot[s][1] \in Req /\ slot[s][2] \in Nat
    BY <1>0, BusySlots
  <1>c. \A r \in rows : r \in ReplayRow /\ r.released \in Nat
    BY <1>0 DEF ReplayTypes, ReplayRow
  <1>1. CASE BeginGroup
    <2>1. Busy' = {}
      BY <1>1 DEF BeginGroup, Busy
    <2> QED BY <1>0, <1>1, <2>1 DEF BeginGroup
  <1>2. ASSUME NEW s \in Workers, Taking(s) PROVE ReplayTimes'
    <2>1. \A t \in Busy' : groupStart' <= slot'[t][2] /\ slot'[t][2] <= clock'
                           /\ (slot'[t][1] \notin hung' => clock' <= slot'[t][2] + RequestTimeout)
      BY <1>0, <1>2, <1>a DEF Taking, Busy
    <2> QED BY <1>0, <1>2, <2>1 DEF Taking
  <1>3. ASSUME NEW s \in Workers, Leaving(s) PROVE ReplayTimes'
    <2>1. \A t \in Busy' : t \in Busy /\ slot'[t] = slot[t]
      BY <1>3 DEF Leaving, Busy
    <2> QED BY <1>0, <1>3, <2>1 DEF Leaving
  <1>4. ASSUME NEW s \in Workers, Answering(s) PROVE ReplayTimes'
    <2>1. \A t \in Busy' : t \in Busy /\ slot'[t] = slot[t]
      BY <1>4 DEF Answering, Freeing, Busy
    <2>2. PICK x : /\ rows' = rows \cup {x} /\ x.start = groupStart /\ x.admitted = slot[s][2]
                   /\ x.tokens = clock - slot[s][2] /\ x.first = slot[s][2] + 1
                   /\ x.done = clock /\ x.released = clock /\ x.tokens \in 1..FullLength
      BY <1>0, <1>4, AnswerRow
    <2>3. s \in Busy /\ slot[s][2] \in Nat /\ groupStart <= slot[s][2]
      BY <1>0, <1>4, <1>b DEF Answering, Freeing
    <2>4. \A r \in rows' : /\ r.start <= r.admitted /\ r.tokens \in 1..FullLength
                           /\ r.first = r.admitted + 1 /\ r.done = r.admitted + r.tokens
                           /\ r.done <= r.released /\ r.released <= clock
      BY <1>0, <1>a, <2>2, <2>3
    <2> QED BY <1>0, <1>4, <2>1, <2>4 DEF Answering, Freeing
  <1>5. ASSUME NEW s \in Workers, Failing(s) PROVE ReplayTimes'
    <2>1. \A t \in Busy' : t \in Busy /\ slot'[t] = slot[t]
      BY <1>5 DEF Failing, Freeing, Busy
    <2> QED BY <1>0, <1>5, <2>1 DEF Failing, Freeing
  <1>6. CASE Tick
    <2>1. Busy' = Busy /\ rows' = rows /\ clock' = clock + 1 /\ slot' = slot /\ hung' = hung
          /\ groupStart' = groupStart /\ rstep' = "run" /\ rstep = "run"
      BY <1>6 DEF Tick, Busy
    <2>2. \A s \in Busy : slot[s][1] \in hung \/ clock - slot[s][2] < RequestTimeout
      BY <1>6 DEF Tick, Elapsed
    <2>3. \A s \in Busy : /\ groupStart <= slot[s][2] /\ slot[s][2] <= clock + 1
                          /\ slot[s][1] \notin hung => clock + 1 <= slot[s][2] + RequestTimeout
      BY <1>0, <1>a, <1>b, <2>2
    <2>4. \A r \in rows : r.released <= clock + 1
      BY <1>0, <1>a, <1>c
    <2> QED BY <1>0, <2>1, <2>3, <2>4
  <1>7. CASE Overrun
    BY <1>0, <1>7 DEF Overrun, Busy
  <1>8. CASE EndGroup
    <2>1. Busy' = {} /\ Busy = {}
      BY <1>8 DEF EndGroup, Busy
    <2>2. rstep' = "group" => errs' = "none"
      BY <1>8 DEF EndGroup
    <2> QED BY <1>0, <1>8, <2>1, <2>2 DEF EndGroup
  <1>9. ASSUME NEW s \in Workers, Hang(s) PROVE ReplayTimes'
    BY <1>0, <1>9 DEF Hang, Busy
  <1> QED BY <1>0, <1>1, <1>2, <1>3, <1>4, <1>5, <1>6, <1>7, <1>8, <1>9, ThreadSteps
          DEF NextReplay, ReplayStep

\* A request stays at one place.
LEMMA EachOnceNext == ReplayIInv /\ NextReplay => EachOnce'
  <1> SUFFICES ASSUME ReplayIInv, NextReplay PROVE EachOnce'
    OBVIOUS
  <1> USE DEF EachOnce
  <1>0. ReplayTypes /\ ReplayTimes /\ EachOnce /\ ByGroup
    BY DEF ReplayIInv
  <1>1. CASE BeginGroup
    <2>1. Busy' = {}
      BY <1>1 DEF BeginGroup, Busy
    <2>2. rstep = "group" /\ queue' = Group(nth) /\ rows' = rows
      BY <1>1 DEF BeginGroup
    <2>3. \A i, j \in 1..Len(queue') : queue'[i] = queue'[j] => i = j
      BY <2>2, GroupHoldsMembers
    <2>4. \A i \in 1..Len(queue') : queue'[i] \in Members(nth)
      BY <2>2, GroupHoldsMembers
    <2>5. \A r \in rows : r.req \notin Members(nth)
      <3>1. nth \in Nat \ {0}
        BY <1>0, GroupsPartition DEF ReplayTypes
      <3> QED BY <1>0, <2>2, <3>1, GroupsPartition DEF ByGroup
    <2> QED BY <1>0, <2>1, <2>2, <2>3, <2>4, <2>5
  <1>2. ASSUME NEW s \in Workers, Taking(s) PROVE EachOnce'
    <2>1. /\ rows' = rows /\ rstep' = rstep /\ Busy' = Busy \cup {s} /\ s \notin Busy
          /\ slot'[s][1] = queue[1] /\ \A t \in Busy : slot'[t] = slot[t]
          /\ 1 \in 1..Len(queue) /\ Len(queue) \in Nat /\ Len(queue') = Len(queue) - 1
          /\ \A i \in 1..Len(queue') : i + 1 \in 1..Len(queue) /\ i + 1 # 1 /\ queue'[i] = queue[i + 1]
          /\ rstep = "run"
      BY <1>2 DEF Taking, Busy
    <2>2. \A i, j \in 1..Len(queue') : queue'[i] = queue'[j] => i = j
      BY <1>0, <2>1
    <2>3. \A t, u \in Busy' : slot'[t][1] = slot'[u][1] => t = u
      BY <1>0, <2>1
    <2>4. \A t \in Busy' : \A i \in 1..Len(queue') : slot'[t][1] # queue'[i]
      BY <1>0, <2>1
    <2>5. \A r \in rows : \A i \in 1..Len(queue') : r.req # queue'[i]
      BY <1>0, <2>1
    <2>6. \A t \in Busy', r \in rows : slot'[t][1] # r.req
      BY <1>0, <2>1
    <2> QED BY <1>0, <2>1, <2>2, <2>3, <2>4, <2>5, <2>6
  <1>3. ASSUME NEW s \in Workers, Leaving(s) PROVE EachOnce'
    <2>1. \A t \in Busy' : t \in Busy /\ slot'[t] = slot[t]
      BY <1>3 DEF Leaving, Busy
    <2>2. UNCHANGED <<queue, rows, rstep>>
      BY <1>3 DEF Leaving
    <2> QED BY <1>0, <2>1, <2>2
  <1>4. ASSUME NEW s \in Workers, Answering(s) PROVE EachOnce'
    <2>1. \A t \in Busy' : t \in Busy /\ t # s /\ slot'[t] = slot[t]
      BY <1>4 DEF Answering, Freeing, Busy
    <2>2. s \in Busy /\ UNCHANGED <<queue, rstep>>
      BY <1>4 DEF Answering, Freeing
    <2>3. PICK x : rows' = rows \cup {x} /\ x.req = slot[s][1]
      BY <1>0, <1>4, AnswerRow
    <2>4. \A r, y \in rows' : r.req = y.req => r = y
      BY <1>0, <2>2, <2>3
    <2>5. \A t \in Busy', r \in rows' : slot'[t][1] # r.req
      BY <1>0, <2>1, <2>2, <2>3
    <2>6. \A r \in rows' : \A i \in 1..Len(queue) : rstep = "run" => r.req # queue[i]
      BY <1>0, <2>2, <2>3
    <2>7. \A t, u \in Busy' : slot'[t][1] = slot'[u][1] => t = u
      BY <1>0, <2>1
    <2>8. \A t \in Busy' : \A i \in 1..Len(queue) : slot'[t][1] # queue[i]
      BY <1>0, <2>1
    <2> QED BY <1>0, <2>2, <2>4, <2>5, <2>6, <2>7, <2>8
  <1>5. ASSUME NEW s \in Workers, Failing(s) PROVE EachOnce'
    <2>1. \A t \in Busy' : t \in Busy /\ slot'[t] = slot[t]
      BY <1>5 DEF Failing, Freeing, Busy
    <2>2. UNCHANGED <<queue, rows, rstep>>
      BY <1>5 DEF Failing, Freeing
    <2> QED BY <1>0, <2>1, <2>2
  <1>6. CASE Tick
    BY <1>0, <1>6 DEF Tick, Busy
  <1>7. CASE Overrun
    BY <1>0, <1>7 DEF Overrun, Busy
  <1>8. CASE EndGroup
    <2>1. Busy' = {} /\ rstep' # "run" /\ UNCHANGED <<queue, rows>>
      BY <1>8 DEF EndGroup, Busy
    <2> QED BY <1>0, <2>1
  <1>9. ASSUME NEW s \in Workers, Hang(s) PROVE EachOnce'
    BY <1>0, <1>9 DEF Hang, Busy
  <1> QED BY <1>0, <1>1, <1>2, <1>3, <1>4, <1>5, <1>6, <1>7, <1>8, <1>9, ThreadSteps
          DEF NextReplay, ReplayStep

\* Groups run one after another.
LEMMA ByGroupNext == ReplayIInv /\ NextReplay => ByGroup'
  <1> SUFFICES ASSUME ReplayIInv, NextReplay PROVE ByGroup'
    OBVIOUS
  <1> USE DEF ByGroup
  <1>0. ReplayTypes /\ ReplayTimes /\ EachOnce /\ ByGroup
    BY DEF ReplayIInv
  <1>a. nth \in Nat \ {0}
    BY <1>0, GroupsPartition DEF ReplayTypes
  <1>b. \A r \in rows : r.req \in Req
    BY <1>0 DEF ReplayTypes, ReplayRow
  <1>1. CASE BeginGroup
    <2>1. Busy' = {}
      BY <1>1 DEF BeginGroup, Busy
    <2>2. /\ rstep = "group" /\ rstep' = "run" /\ queue' = Group(nth) /\ rows' = rows /\ nth' = nth
      BY <1>1 DEF BeginGroup
    <2>3. \A i \in 1..Len(queue') : queue'[i] \in Members(nth)
      BY <2>2, GroupHoldsMembers
    <2>4. \A r \in rows : r.req \notin Members(nth)
      BY <1>0, <1>a, <2>2, GroupsPartition
    <2> QED BY <1>0, <2>1, <2>2, <2>3, <2>4
  <1>2. ASSUME NEW s \in Workers, Taking(s) PROVE ByGroup'
    <2>1. /\ rows' = rows /\ rstep' = rstep /\ nth' = nth /\ Busy' = Busy \cup {s}
          /\ groupStart' = groupStart /\ rstep = "run"
          /\ slot'[s][1] = queue[1] /\ \A t \in Busy : slot'[t] = slot[t]
          /\ 1 \in 1..Len(queue)
          /\ \A i \in 1..Len(queue') : i + 1 \in 1..Len(queue) /\ queue'[i] = queue[i + 1]
      BY <1>2 DEF Taking, Busy
    <2> QED BY <1>0, <2>1
  <1>3. ASSUME NEW s \in Workers, Leaving(s) PROVE ByGroup'
    <2>1. \A t \in Busy' : t \in Busy /\ slot'[t] = slot[t]
      BY <1>3 DEF Leaving, Busy
    <2>2. UNCHANGED <<queue, rows, rstep, nth, groupStart>>
      BY <1>3 DEF Leaving
    <2> QED BY <1>0, <2>1, <2>2
  <1>4. ASSUME NEW s \in Workers, Answering(s) PROVE ByGroup'
    <2>1. \A t \in Busy' : t \in Busy /\ slot'[t] = slot[t]
      BY <1>4 DEF Answering, Freeing, Busy
    <2>2. s \in Busy /\ rstep = "run" /\ UNCHANGED <<queue, rstep, nth, groupStart>>
      BY <1>4 DEF Answering, Freeing
    <2>3. PICK x : rows' = rows \cup {x} /\ x.req = slot[s][1] /\ x.start = groupStart
      BY <1>0, <1>4, AnswerRow
    <2>4. x.req \in Members(nth) /\ x.req \in Req
      BY <1>0, <2>2, <2>3, BusySlots
    <2>5. \A r \in rows' : \E m \in 1..nth : r.req \in Members(m)
      BY <1>0, <1>a, <2>3, <2>4
    <2>6. \A r \in rows' : r.req \in Members(nth) => r.start = groupStart
      BY <1>0, <2>2, <2>3
    <2>7. \A r, y \in rows' : Trace[r.req] = Trace[y.req] => r.start = y.start
      <3>1. ASSUME NEW r \in rows, Trace[r.req] = Trace[x.req] PROVE r.start = groupStart
        <4>1. r.req \in Members(nth)
          BY <1>b, <2>4, <3>1, GroupsPartition
        <4> QED BY <1>0, <2>2, <4>1
      <3> QED BY <1>0, <2>3, <3>1
    <2> QED BY <1>0, <2>1, <2>2, <2>5, <2>6, <2>7
  <1>5. ASSUME NEW s \in Workers, Failing(s) PROVE ByGroup'
    <2>1. \A t \in Busy' : t \in Busy /\ slot'[t] = slot[t]
      BY <1>5 DEF Failing, Freeing, Busy
    <2>2. UNCHANGED <<queue, rows, rstep, nth, groupStart>>
      BY <1>5 DEF Failing, Freeing
    <2> QED BY <1>0, <2>1, <2>2
  <1>6. CASE Tick
    BY <1>0, <1>6 DEF Tick, Busy
  <1>7. CASE Overrun
    BY <1>0, <1>7 DEF Overrun, Busy
  <1>8. CASE EndGroup
    <2>1. Busy' = {} /\ rstep' # "run" /\ UNCHANGED <<queue, rows>>
      BY <1>8 DEF EndGroup, Busy
    <2>2. \/ rstep' = "done" /\ nth' = nth
          \/ rstep' = "group" /\ nth' = nth + 1
      BY <1>8 DEF EndGroup
    <2>3. \A r \in rows : \E m \in 1..nth' : r.req \in Members(m) /\ (rstep' = "group" => m # nth')
      BY <1>0, <1>a, <2>2
    <2> QED BY <1>0, <2>1, <2>3
  <1>9. ASSUME NEW s \in Workers, Hang(s) PROVE ByGroup'
    BY <1>0, <1>9 DEF Hang, Busy
  <1> QED BY <1>0, <1>1, <1>2, <1>3, <1>4, <1>5, <1>6, <1>7, <1>8, <1>9, ThreadSteps
          DEF NextReplay, ReplayStep

\* Without an error, what was to be measured waits, is under way or is on record.
LEMMA NoneLostNext == ReplayIInv /\ NextReplay => NoneLost'
  <1> SUFFICES ASSUME ReplayIInv, NextReplay, errs' = "none"
               PROVE  NoneLost'
    BY DEF NoneLost
  <1> USE DEF NoneLost
  <1>0. ReplayTypes /\ ReplayTimes /\ EachOnce /\ NoneLost
    BY DEF ReplayIInv
  <1>a. nth \in Nat \ {0} /\ 1 \in Workers
    BY <1>0, GroupsPartition, DeadlineNat DEF ReplayTypes
  <1>1. CASE BeginGroup
    <2>1. rstep = "group" /\ rstep' = "run" /\ queue' = Group(nth) /\ rows' = rows /\ nth' = nth
          /\ errs = "none"
      BY <1>1 DEF BeginGroup
    <2>2. \A q \in Members(nth) : \E i \in 1..Len(queue') : queue'[i] = q
      BY <2>1, GroupHoldsMembers
    <2>3. ASSUME slot'[1] = Left PROVE queue' = <<>>
      <3>2. Group(nth) \in Seq(Req) /\ Len(Group(nth)) \in Nat
        BY GroupHoldsMembers
      <3>3. ~(1 <= Effective(nth))
        BY <1>1, <1>a, <2>3, SlotKinds DEF BeginGroup
      <3>4. Min({Slots, Len(Group(nth))}) \in {Slots, Len(Group(nth))}
        BY <3>2, DeadlineNat, LeastOfSet
      <3>5. Len(Group(nth)) = 0
        BY <3>2, <3>3, <3>4, DeadlineNat DEF Effective
      <3> QED BY <2>1, <3>2, <3>5
    <2> QED BY <1>0, <2>1, <2>2, <2>3
  <1>2. ASSUME NEW s \in Workers, Taking(s) PROVE NoneLost'
    <2>1. /\ rows' = rows /\ rstep' = rstep /\ rstep = "run" /\ nth' = nth /\ errs = "none"
          /\ Busy' = Busy \cup {s} /\ slot'[s][1] = queue[1] /\ \A t \in Busy : slot'[t] = slot[t]
      BY <1>2 DEF Taking, Busy
    <2>2. /\ queue \in Seq(Req) /\ queue' \in Seq(Req) /\ Len(queue) \in Nat \ {0}
          /\ Len(queue') = Len(queue) - 1
          /\ \A i \in 1..Len(queue') : queue'[i] = queue[i + 1]
      BY <1>0, <1>2 DEF Taking, ReplayTypes
    <2>3. ASSUME NEW i \in 1..Len(queue), i # 1 PROVE \E j \in 1..Len(queue') : queue'[j] = queue[i]
      <3>1. i - 1 \in 1..Len(queue') /\ (i - 1) + 1 = i
        BY <2>2, <2>3
      <3> QED BY <2>2, <3>1
    <2>4. ASSUME NEW q \in Members(nth)
          PROVE  \/ \E i \in 1..Len(queue') : queue'[i] = q
                 \/ \E t \in Busy' : slot'[t][1] = q
                 \/ \E r \in rows : r.req = q
      <3>1. CASE \E i \in 1..Len(queue) : queue[i] = q
        BY <2>1, <2>3, <3>1
      <3>2. CASE \E t \in Busy : slot[t][1] = q
        BY <2>1, <3>2
      <3> QED BY <1>0, <2>1, <3>1, <3>2
    <2>5. slot'[1] # Left
      <3>1. slot[1] # Left
        BY <1>0, <2>1, <2>2
      <3>2. slot'[s] # Left /\ \A t \in Workers \ {s} : slot'[t] = slot[t]
        BY <1>0, <1>2, <2>2, SlotKinds DEF Taking, ReplayTypes
      <3> QED BY <1>a, <3>1, <3>2
    <2> QED BY <1>0, <2>1, <2>4, <2>5
  <1>3. ASSUME NEW s \in Workers, Leaving(s) PROVE NoneLost'
    <2>1. Busy' = Busy /\ \A t \in Busy : slot'[t] = slot[t]
      BY <1>3 DEF Leaving, Busy
    <2>2. UNCHANGED <<queue, rows, rstep, nth, errs>> /\ queue = <<>> /\ rstep = "run"
      BY <1>3 DEF Leaving
    <2> QED BY <1>0, <2>1, <2>2
  <1>4. ASSUME NEW s \in Workers, Answering(s) PROVE NoneLost'
    <2>1. Busy' = Busy \ {s} /\ \A t \in Busy \ {s} : slot'[t] = slot[t]
      BY <1>4 DEF Answering, Freeing, Busy
    <2>2. s \in Busy /\ rstep = "run" /\ UNCHANGED <<queue, rstep, nth, errs>>
      BY <1>4 DEF Answering, Freeing
    <2>3. PICK x : rows' = rows \cup {x} /\ x.req = slot[s][1]
      BY <1>0, <1>4, AnswerRow
    <2>4. ASSUME NEW q \in Members(nth)
          PROVE  \/ \E i \in 1..Len(queue) : queue[i] = q
                 \/ \E t \in Busy' : slot'[t][1] = q
                 \/ \E r \in rows' : r.req = q
      BY <1>0, <2>1, <2>2, <2>3
    <2>5. slot'[1] = Left => slot[1] = Left
      BY <1>4, <1>a, SlotKinds DEF Answering, Freeing
    <2>6. \A m \in 1..(nth - 1) : \A q \in Members(m) : \E r \in rows' : r.req = q
      BY <1>0, <2>2, <2>3
    <2> QED BY <1>0, <2>2, <2>4, <2>5, <2>6
  <1>5. ASSUME NEW s \in Workers, Failing(s) PROVE FALSE
    BY <1>5 DEF Failing
  <1>6. CASE Tick
    BY <1>0, <1>6 DEF Tick, Busy
  <1>7. CASE Overrun
    BY <1>7 DEF Overrun
  <1>8. CASE EndGroup
    <2>1. rstep = "run" /\ rows' = rows /\ errs = "none" /\ \A s \in Workers : slot[s] = Left
      BY <1>0, <1>8 DEF EndGroup, ReplayTypes
    <2>2. /\ \A m \in 1..nth : \A q \in Members(m) : \E r \in rows : r.req = q
          /\ nth = GroupCount => \A q \in Req : \E r \in rows : r.req = q
      BY <1>0, <2>1, EndComplete
    <2>3. \/ rstep' = "done" /\ nth' = nth /\ nth = GroupCount
          \/ rstep' = "group" /\ nth' = nth + 1
      BY <1>8, <2>1 DEF EndGroup
    <2>4. nth' = nth + 1 => 1..(nth' - 1) = 1..nth
      BY <1>a
    <2> QED BY <2>1, <2>2, <2>3, <2>4
  <1>9. ASSUME NEW s \in Workers, Hang(s) PROVE NoneLost'
    BY <1>0, <1>9 DEF Hang, Busy
  <1> QED BY <1>0, <1>1, <1>2, <1>3, <1>4, <1>5, <1>6, <1>7, <1>8, <1>9, ThreadSteps
          DEF NextReplay, ReplayStep

\* The threads are as many as the slots.
LEMMA SeatsFinite == IsFiniteSet(Workers) /\ Cardinality(Workers) = Slots
  <1>1. 1 \in Int /\ Slots \in Int /\ Slots >= 1
    BY DeadlineNat
  <1>2. IsFiniteSet(1..Slots)
        /\ Cardinality(1..Slots) = IF 1 > Slots THEN 0 ELSE Slots - 1 + 1
    BY <1>1, FS_Interval
  <1> QED BY <1>1, <1>2 DEF Workers

\* Fewer of both are within the slots too.
LEMMA FewerSeats ==
  ASSUME NEW A, NEW B, IsFiniteSet(A), IsFiniteSet(B), NEW A1 \in SUBSET A, NEW B1 \in SUBSET B,
         Cardinality(A) + Cardinality(B) <= Slots
  PROVE  Cardinality(A1) + Cardinality(B1) <= Slots
  <1>1. /\ Cardinality(A1) <= Cardinality(A) /\ Cardinality(B1) <= Cardinality(B)
        /\ IsFiniteSet(A1) /\ IsFiniteSet(B1)
    BY FS_Subset
  <1>2. /\ Cardinality(A1) \in Nat /\ Cardinality(B1) \in Nat
        /\ Cardinality(A) \in Nat /\ Cardinality(B) \in Nat
    BY <1>1, FS_CardinalityType
  <1> QED BY <1>1, <1>2, DeadlineNat

\* At no time do more requests hold a slot than there are: a request is admitted when
\* its thread holds no other, and its slot is released after its row is written.
LEMMA SeatsCountedNext == ReplayIInv /\ NextReplay => SeatsCounted'
  <1> SUFFICES ASSUME ReplayIInv, NextReplay, NEW t \in Nat
               PROVE  Cardinality(OnRecord(t)') + Cardinality(HeldAt(t)') <= Slots
    BY DEF SeatsCounted
  <1>0. ReplayTypes /\ ReplayTimes
    BY DEF ReplayIInv
  <1>a. ReplayTypes' /\ ReplayTimes'
    BY ReplayTypesNext, ReplayTimesNext
  <1>b. clock \in Nat /\ clock' \in Nat /\ Slots \in Nat
    BY <1>0, <1>a, DeadlineNat DEF ReplayTypes
  <1>f. IsFiniteSet(OnRecord(t)) /\ IsFiniteSet(HeldAt(t))
    <2>1. OnRecord(t) \in SUBSET rows /\ HeldAt(t) \in SUBSET Workers
      BY DEF OnRecord, HeldAt, Busy
    <2> QED BY <1>0, <2>1, SeatsFinite, FS_Subset DEF ReplayTypes
  <1>c. Cardinality(OnRecord(t)) + Cardinality(HeldAt(t)) <= Slots
    BY DEF ReplayIInv, SeatsCounted
  <1>d. ASSUME clock' <= t
        PROVE  Cardinality(OnRecord(t)') + Cardinality(HeldAt(t)') <= Slots
    <2>1. \A r \in rows' : r.released \in Nat /\ r.released <= clock'
      BY <1>a DEF ReplayTypes, ReplayTimes, ReplayRow
    <2>2. OnRecord(t)' = {}
      BY <1>b, <1>d, <2>1 DEF OnRecord
    <2>3. HeldAt(t)' \in SUBSET Workers
      BY DEF HeldAt, Busy, Workers
    <2>4. Cardinality(OnRecord(t)') = 0 /\ Cardinality(HeldAt(t)') <= Slots
          /\ IsFiniteSet(HeldAt(t)')
      BY <2>2, <2>3, SeatsFinite, FS_Subset, FS_EmptySet
    <2>5. Cardinality(HeldAt(t)') \in Nat
      BY <2>4, FS_CardinalityType
    <2> QED BY <1>b, <2>4, <2>5
  <1>e. ASSUME OnRecord(t)' \in SUBSET OnRecord(t), HeldAt(t)' \in SUBSET HeldAt(t)
        PROVE  Cardinality(OnRecord(t)') + Cardinality(HeldAt(t)') <= Slots
    BY <1>c, <1>e, <1>f, FewerSeats
  <1>1. CASE BeginGroup
    <2>1. Busy' = {} /\ rows' = rows
      BY <1>1 DEF BeginGroup, Busy
    <2> QED BY <1>e, <2>1 DEF OnRecord, HeldAt
  <1>2. ASSUME NEW s \in Workers, Taking(s)
        PROVE  Cardinality(OnRecord(t)') + Cardinality(HeldAt(t)') <= Slots
    <2>1. rows' = rows /\ clock' = clock /\ Busy' = Busy \cup {s} /\ slot'[s][2] = clock
          /\ \A u \in Busy : slot'[u] = slot[u]
      BY <1>2 DEF Taking, Busy
    <2>2. CASE ~(clock' <= t)
      <3>1. ~(clock <= t)
        BY <2>1, <2>2
      <3> QED BY <1>e, <2>1, <3>1 DEF OnRecord, HeldAt
    <2> QED BY <1>d, <2>2
  <1>3. ASSUME NEW s \in Workers, Leaving(s)
        PROVE  Cardinality(OnRecord(t)') + Cardinality(HeldAt(t)') <= Slots
    <2>1. rows' = rows /\ \A u \in Busy' : u \in Busy /\ slot'[u] = slot[u]
      BY <1>3 DEF Leaving, Busy
    <2> QED BY <1>e, <2>1 DEF OnRecord, HeldAt
  <1>4. ASSUME NEW s \in Workers, Answering(s)
        PROVE  Cardinality(OnRecord(t)') + Cardinality(HeldAt(t)') <= Slots
    <2>1. clock' = clock /\ Busy' = Busy \ {s} /\ s \in Busy
          /\ \A u \in Busy \ {s} : slot'[u] = slot[u]
      BY <1>4 DEF Answering, Freeing, Busy
    <2>2. PICK x : rows' = rows \cup {x} /\ x.admitted = slot[s][2] /\ x.released = clock
      BY <1>0, <1>4, AnswerRow
    <2>3. CASE clock' <= t
      BY <1>d, <2>3
    <2>4. CASE slot[s][2] <= t /\ ~(clock' <= t)
      <3>1. HeldAt(t)' = HeldAt(t) \ {s} /\ s \in HeldAt(t)
        BY <2>1, <2>4 DEF HeldAt
      <3>2. OnRecord(t)' = OnRecord(t) \cup {x}
        BY <1>b, <2>1, <2>2, <2>4 DEF OnRecord
      <3>3. Cardinality(HeldAt(t) \ {s}) = Cardinality(HeldAt(t)) - 1
        BY <1>f, <3>1, FS_RemoveElement
      <3>4. Cardinality(OnRecord(t) \cup {x})
              = IF x \in OnRecord(t) THEN Cardinality(OnRecord(t)) ELSE Cardinality(OnRecord(t)) + 1
        BY <1>f, FS_AddElement
      <3>5. Cardinality(OnRecord(t)) \in Nat /\ Cardinality(HeldAt(t)) \in Nat
        BY <1>f, FS_CardinalityType
      <3> QED BY <1>b, <1>c, <3>1, <3>2, <3>3, <3>4, <3>5
    <2>5. CASE ~(slot[s][2] <= t)
      BY <1>e, <2>1, <2>2, <2>5 DEF OnRecord, HeldAt
    <2> QED BY <2>3, <2>4, <2>5
  <1>5. ASSUME NEW s \in Workers, Failing(s)
        PROVE  Cardinality(OnRecord(t)') + Cardinality(HeldAt(t)') <= Slots
    <2>1. rows' = rows /\ \A u \in Busy' : u \in Busy /\ slot'[u] = slot[u]
      BY <1>5 DEF Failing, Freeing, Busy
    <2> QED BY <1>e, <2>1 DEF OnRecord, HeldAt
  <1>6. CASE Tick \/ Overrun \/ EndGroup \/ \E s \in Workers : Hang(s)
    <2>1. rows' = rows /\ slot' = slot
      BY <1>6 DEF Tick, Overrun, EndGroup, Hang
    <2> QED BY <1>e, <2>1 DEF OnRecord, HeldAt, Busy
  <1> QED BY <1>0, <1>1, <1>2, <1>3, <1>4, <1>5, <1>6, ThreadSteps DEF NextReplay, ReplayStep

\* Who is busy is not on record yet.
LEMMA OneIsUnderWay ==
  ASSUME ReplayTypes, EachOnce, Busy # {}
  PROVE  Cardinality(rows) \in Nat /\ Cardinality(rows) <= Len(Trace) - 1
  <1>1. PICK s \in Busy : TRUE
    OBVIOUS
  <1>2. slot[s][1] \in Req
    BY BusySlots
  <1> DEFINE others == Req \ {slot[s][1]}
             f == [r \in rows |-> r.req]
  <1>3. f \in [rows -> others]
    BY <1>1 DEF ReplayTypes, ReplayRow, EachOnce
  <1>4. \A r, x \in rows : f[r] = f[x] => r = x
    BY DEF EachOnce
  <1>5. IsFiniteSet(others) /\ Cardinality(others) = Len(Trace) - 1
    BY <1>2, RequestsFinite, FS_RemoveElement
  <1> HIDE DEF f, others
  <1>6. f \in Injection(rows, others)
    BY <1>3, <1>4, Zenon DEF Injection, IsInjective
  <1> QED BY <1>5, <1>6, FS_Injection, FS_CardinalityType DEF ReplayTypes

\* One answer more pays for as many ticks as an answer takes.
LEMMA OneAnswerMore ==
  ASSUME NEW f \in Nat, NEW n \in Nat
  PROVE  f * n \in Nat /\ f * (n + 1) = f * n + f
  OBVIOUS

\* The last request is taken in time: f ticks for each answer before it.
LEMMA LastInTime ==
  ASSUME NEW f \in Nat, NEW out \in Nat, NEW n \in Nat, NEW k \in Nat, f < out, n > 1, k <= n - 1
  PROVE  f * k + out < out * n
  <1>1. f * k <= f * (n - 1)
    OBVIOUS
  <1>2. f * (n - 1) < out * (n - 1)
    <2>1. f + 1 <= out /\ n - 1 \in Nat /\ n - 1 >= 1
      OBVIOUS
    <2>2. (f + 1) * (n - 1) <= out * (n - 1)
      BY <2>1
    <2>3. (f + 1) * (n - 1) = f * (n - 1) + (n - 1)
      BY <2>1
    <2>4. f * (n - 1) \in Int /\ out * (n - 1) \in Int
      OBVIOUS
    <2> QED BY <2>1, <2>2, <2>3, <2>4
  <1>3. out * (n - 1) + out = out * n
    OBVIOUS
  <1>4. f * k \in Int /\ f * (n - 1) \in Int /\ out * (n - 1) \in Int /\ out * n \in Int
    OBVIOUS
  <1> QED BY <1>1, <1>2, <1>3, <1>4

\* The clock is paid for by answers, so that who is still waiting at the deadline hangs.
LEMMA ClockPaidNext == ReplayIInv /\ NextReplay => ClockPaid'
  <1> SUFFICES ASSUME ReplayIInv, NextReplay PROVE ClockPaid'
    OBVIOUS
  <1> USE DEF ClockPaid
  <1>0. ReplayTypes /\ ReplayTimes /\ EachOnce /\ ClockPaid
    BY DEF ReplayIInv
  <1>a. /\ clock \in Nat /\ FullLength \in Nat /\ RequestTimeout \in Nat
        /\ FullLength < RequestTimeout /\ Len(Trace) \in Nat
    BY <1>0, DeadlineNat, ReplayAssumption, TierPlaces DEF ReplayTypes
  <1>b. Cardinality(rows) \in Nat /\ FullLength * Cardinality(rows) \in Nat
    BY <1>0, <1>a, FS_CardinalityType DEF ReplayTypes
  <1>c. \A s \in Busy : slot[s][2] \in Nat
    BY <1>0, BusySlots
  <1>1. CASE BeginGroup
    <2>1. Busy' = {} /\ rows' = rows /\ hung' = hung /\ clock' = clock /\ errs' = errs
          /\ rstep' = "run"
      BY <1>1 DEF BeginGroup, Busy
    <2>2. Busy = {}
      BY <1>0, <1>1 DEF BeginGroup, ReplayTimes, Busy
    <2> QED BY <1>0, <2>1, <2>2 DEF DeadlineOnlyForHung
  <1>2. ASSUME NEW s \in Workers, Taking(s) PROVE ClockPaid'
    <2>1. /\ rows' = rows /\ hung' = hung /\ clock' = clock /\ errs' = errs /\ errs = "none"
          /\ rstep' = "run" /\ slot[s] = Free
          /\ Busy' = Busy \cup {s} /\ slot'[s][2] = clock /\ \A t \in Busy : slot'[t] = slot[t]
      BY <1>2 DEF Taking, Busy
    <2>2. hung = {} => clock <= FullLength * Cardinality(rows)
      BY <1>0, <2>1
    <2> QED BY <1>0, <2>1, <2>2 DEF DeadlineOnlyForHung
  <1>3. ASSUME NEW s \in Workers, Leaving(s) PROVE ClockPaid'
    <2>1. /\ rows' = rows /\ hung' = hung /\ clock' = clock /\ errs' = errs
          /\ rstep' = "run" /\ slot[s] = Free
          /\ Busy' = Busy /\ \A t \in Busy : slot'[t] = slot[t]
      BY <1>3 DEF Leaving, Busy
    <2> QED BY <1>0, <2>1 DEF DeadlineOnlyForHung
  <1>4. ASSUME NEW s \in Workers, Answering(s) PROVE ClockPaid'
    <2>1. /\ hung' = hung /\ clock' = clock /\ rstep' = "run" /\ s \in Busy
          /\ Busy' = Busy \ {s} /\ \A t \in Busy \ {s} : slot'[t] = slot[t]
      BY <1>4 DEF Answering, Freeing, Busy
    <2>2. clock - slot[s][2] <= FullLength
      BY <1>4, <1>a DEF Answering
    <2>3. PICK x : rows' = rows \cup {x} /\ x.req = slot[s][1]
      BY <1>0, <1>4, AnswerRow
    <2>4. x \notin rows
      BY <1>0, <2>1, <2>3 DEF EachOnce
    <2>5. Cardinality(rows') = Cardinality(rows) + 1
      BY <1>0, <2>3, <2>4, FS_AddElement DEF ReplayTypes
    <2>6. FullLength * Cardinality(rows') = FullLength * Cardinality(rows) + FullLength
      BY <1>a, <1>b, <2>5, OneAnswerMore
    <2>7. hung = {} => clock <= FullLength * Cardinality(rows')
      BY <1>0, <1>a, <1>b, <1>c, <2>1, <2>2, <2>6
    <2>8. hung = {} => \A t \in Busy' : slot'[t][2] <= FullLength * Cardinality(rows')
      BY <1>0, <1>a, <1>b, <1>c, <2>1, <2>6
    <2> QED BY <2>1, <2>7, <2>8 DEF DeadlineOnlyForHung
  <1>5. ASSUME NEW s \in Workers, Failing(s) PROVE ClockPaid'
    <2>1. /\ hung' = hung /\ rows' = rows /\ rstep' = "run" /\ errs' = "failed"
          /\ \A t \in Busy' : t \in Busy /\ slot'[t] = slot[t]
      BY <1>5 DEF Failing, Freeing, Busy
    <2> QED BY <1>0, <2>1 DEF DeadlineOnlyForHung
  <1>6. CASE Tick
    <2>1. /\ Busy' = Busy /\ Busy # {} /\ slot' = slot /\ rows' = rows /\ hung' = hung
          /\ \A s \in Workers : slot[s] # Free
          /\ rstep' = "run"
      BY <1>6 DEF Tick, Busy
    <2>2. ~(Busy' = {} \/ \E s \in Workers : slot'[s] = Free)
      BY <2>1
    <2> QED BY <1>0, <2>1, <2>2 DEF DeadlineOnlyForHung, Workers
  <1>7. CASE Overrun
    <2>1. /\ Busy' = Busy /\ Busy # {} /\ slot' = slot /\ rows' = rows /\ hung' = hung
          /\ errs' = "failed" /\ clock >= Deadline
      BY <1>7 DEF Overrun, Busy
    <2>2. ASSUME hung = {}, Len(Trace) # 1 PROVE FALSE
      <3>1. PICK s \in Busy : TRUE
        BY <2>1
      <3>2. /\ slot[s][2] <= FullLength * Cardinality(rows)
            /\ clock <= slot[s][2] + RequestTimeout
        BY <1>0, <2>2, <3>1 DEF ReplayTimes
      <3>3. Cardinality(rows) <= Len(Trace) - 1
        BY <1>0, <2>1, OneIsUnderWay
      <3>4. Len(Trace) > 1
        <4> DEFINE n == Len(Trace)
                   k == Cardinality(rows)
        <4>1. k \in Nat /\ n \in Nat /\ k <= n - 1 /\ n # 1
          BY <1>a, <1>b, <2>2, <3>3
        <4> HIDE DEF n, k
        <4>2. n > 1
          BY <4>1
        <4> QED BY <4>2 DEF n
      <3>5. FullLength * Cardinality(rows) + RequestTimeout < RequestTimeout * Len(Trace)
        BY <1>a, <1>b, <3>3, <3>4, LastInTime
      <3>6. Deadline = RequestTimeout * Len(Trace) /\ Deadline \in Nat
        BY DeadlineNat DEF Deadline
      <3> QED BY <1>a, <1>b, <1>c, <2>1, <3>1, <3>2, <3>5, <3>6
    <2> QED BY <1>0, <2>1, <2>2 DEF DeadlineOnlyForHung
  <1>8. CASE EndGroup
    <2>1. /\ Busy' = {} /\ Busy = {} /\ rows' = rows /\ hung' = hung /\ clock' = clock
          /\ rstep' # "overrun"
      BY <1>8 DEF EndGroup, Busy
    <2>2. errs' = "none" => errs = "none"
      BY <1>8 DEF EndGroup
    <2> QED BY <1>0, <2>1, <2>2 DEF DeadlineOnlyForHung
  <1>9. ASSUME NEW s \in Workers, Hang(s) PROVE ClockPaid'
    <2>1. hung' # {}
      BY <1>9 DEF Hang
    <2> QED BY <2>1 DEF DeadlineOnlyForHung
  <1> QED BY <1>0, <1>1, <1>2, <1>3, <1>4, <1>5, <1>6, <1>7, <1>8, <1>9, ThreadSteps
          DEF NextReplay, ReplayStep

\* Every step of a replay keeps its invariant.
LEMMA ReplayNext == ReplayIInv /\ [NextReplay]_replayVars => ReplayIInv'
  <1>1. ASSUME ReplayIInv, NextReplay PROVE ReplayIInv'
    BY <1>1, ReplayTypesNext, ReplayTimesNext, EachOnceNext, ByGroupNext, NoneLostNext,
       SeatsCountedNext, ClockPaidNext DEF ReplayIInv
  <1>2. ASSUME ReplayIInv, UNCHANGED replayVars PROVE ReplayIInv'
    <2>1. Busy' = Busy
      BY <1>2 DEF replayVars, Busy
    <2>2. ReplayTypes' /\ ReplayTimes' /\ EachOnce' /\ ByGroup'
      BY <1>2, <2>1 DEF replayVars, ReplayIInv, ReplayTypes, ReplayTimes, EachOnce, ByGroup
    <2>3. NoneLost' /\ ClockPaid'
      BY <1>2, <2>1 DEF replayVars, ReplayIInv, NoneLost, ClockPaid, DeadlineOnlyForHung
    <2>4. SeatsCounted'
      BY <1>2, <2>1 DEF replayVars, ReplayIInv, SeatsCounted, OnRecord, HeldAt
    <2> QED BY <2>2, <2>3, <2>4 DEF ReplayIInv
  <1> QED BY <1>1, <1>2

\* A short answer of k tokens, its decode stretched to the full length n.
LEMMA StretchedDecode ==
  ASSUME NEW n \in Nat \ {0}, NEW k \in Nat, k >= 2
  PROVE  /\ ((k - 1) * n * n) \div k \in Int
         /\ 2 * (((k - 1) * n * n) \div k) >= n * (n - 1)
  <1> DEFINE a == (k - 1) * n * n
             q == a \div k
  <1>1. a \in Int
    OBVIOUS
  <1>2. q \in Int /\ a = k * q + (a % k) /\ a % k \in 0..(k - 1)
    BY <1>1
  <1>3. a % k <= k - 1 /\ a % k \in Int
    BY <1>2
  <1>4. k * q >= a - (k - 1)
    BY <1>1, <1>2, <1>3
  <1>5. 2 * a >= k * (n * n)
    <2>1. n * n \in Int /\ n * n >= 1
      OBVIOUS
    <2> DEFINE m == n * n
    <2>2. a = (k - 1) * m
      OBVIOUS
    <2> HIDE DEF m, a
    <2>3. m \in Nat
      BY <2>1 DEF m
    <2>4. 2 * ((k - 1) * m) >= k * m
      BY <2>3
    <2> QED BY <2>2, <2>4 DEF m
  <1>6. k * (2 * q) >= k * (n * n) - 2 * (k - 1)
    <2>1. k * (2 * q) = 2 * (k * q)
      BY <1>2
    <2>2. k * q \in Int /\ k * (n * n) \in Int
      BY <1>2
    <2> HIDE DEF q, a
    <2> QED BY <1>1, <1>4, <1>5, <2>1, <2>2
  <1>7. q \in Int /\ n * n \in Int
    BY <1>2
  <1> HIDE DEF q, a
  <1>8. 2 * q >= n * n - 1
    <2> DEFINE m == n * n
    <2>1. m \in Int /\ k * (2 * q) >= k * m - 2 * (k - 1)
      BY <1>6, <1>7
    <2> HIDE DEF m
    <2>2. ASSUME 2 * q <= m - 2 PROVE FALSE
      <3>1. k * (2 * q) <= k * (m - 2)
        BY <1>7, <2>1, <2>2
      <3>2. k * (m - 2) = k * m - 2 * k
        BY <2>1
      <3>3. k * (2 * q) \in Int /\ k * m \in Int
        BY <1>7, <2>1
      <3> QED BY <2>1, <3>1, <3>2, <3>3
    <2>3. 2 * q >= m - 1
      BY <1>7, <2>1, <2>2
    <2> QED BY <2>3 DEF m
  <1>9. n * (n - 1) = n * n - n
    OBVIOUS
  <1>10. 2 * q >= n * (n - 1)
    BY <1>7, <1>8, <1>9
  <1> QED BY <1>7, <1>10 DEF q, a

\* What a row within the tolerance, or stretched to the full length, is charged.
LEMMA ChargedEnough ==
  ASSUME ReplayTypes, ReplayTimes, NEW r \in rows
  PROVE  /\ Charged(r) \in Int /\ r.start \in Nat /\ r.first \in Nat /\ r.req \in Req
         /\ r.tokens >= 2 => 2 * (Charged(r) - FullLength * r.first) >= FullLength * (FullLength - 1)
  <1> DEFINE n == FullLength
             k == r.tokens
             d == r.done - r.first
  <1>0. /\ r.start \in Nat /\ r.first \in Nat /\ r.req \in Req /\ r.done \in Nat /\ k \in Nat
        /\ r.admitted \in Nat /\ r.first = r.admitted + 1 /\ r.done = r.admitted + k
        /\ n \in Nat \ {0} /\ k \in 1..n
    BY DeadlineNat DEF ReplayTypes, ReplayTimes, ReplayRow
  <1>1. d = k - 1 /\ r.done = r.first + d /\ d \in Nat /\ k # 0
    BY <1>0
  <1>2. n * r.done = n * r.first + n * d
    <2> HIDE DEF n, d
    <2> QED BY <1>0, <1>1
  <1>3. n * r.done \in Int /\ n * r.first \in Int /\ n * d \in Int
    BY <1>0, <1>1
  <1>4. ASSUME k >= MinTokens
        PROVE  /\ Charged(r) \in Int
               /\ k >= 2 => 2 * (Charged(r) - n * r.first) >= n * (n - 1)
    <2>1. Charged(r) = n * r.done
      BY <1>4 DEF Charged
    <2>2. Charged(r) - n * r.first = n * d
      BY <1>2, <1>3, <2>1
    <2>3. ASSUME k >= 2 PROVE 2 * d >= n - 1
      <3>1. n >= 2
        BY <1>0, <2>3
      <3>2. (9 * n + 9) \div 10 \in Nat /\ 10 * ((9 * n + 9) \div 10) >= 9 * n
        BY <1>0
      <3>3. MinTokens = Max({2, (9 * n + 9) \div 10})
        BY <1>0, <3>1 DEF MinTokens
      <3>4. IsFiniteSet({2, (9 * n + 9) \div 10})
        <4>1. IsFiniteSet({2})
          BY FS_Singleton
        <4>2. IsFiniteSet({2} \cup {(9 * n + 9) \div 10})
          BY <4>1, FS_AddElement
        <4>3. {2} \cup {(9 * n + 9) \div 10} = {2, (9 * n + 9) \div 10}
          OBVIOUS
        <4> QED BY <4>2, <4>3
      <3>5. /\ {2, (9 * n + 9) \div 10} \subseteq Int
            /\ {2, (9 * n + 9) \div 10} # {}
        BY <3>2
      <3>6. /\ Max({2, (9 * n + 9) \div 10}) \in {2, (9 * n + 9) \div 10}
            /\ (9 * n + 9) \div 10 <= Max({2, (9 * n + 9) \div 10})
        BY <3>4, <3>5, GreatestOfFinite
      <3>7. MinTokens \in Int /\ (9 * n + 9) \div 10 <= MinTokens
        BY <3>2, <3>3, <3>6
      <3>8. (9 * n + 9) \div 10 <= k
        BY <1>0, <1>4, <3>2, <3>7
      <3> QED BY <1>0, <1>1, <3>1, <3>2, <3>8
    <2>4. ASSUME k >= 2 PROVE 2 * (n * d) >= n * (n - 1)
      <3>1. n * (2 * d) >= n * (n - 1)
        <4> HIDE DEF n, d, k
        <4>1. n \in Nat /\ d \in Nat /\ 2 * d >= n - 1
          BY <1>0, <1>1, <2>3, <2>4
        <4> QED BY <4>1
      <3> QED BY <1>0, <1>1, <3>1
    <2> QED BY <1>3, <2>1, <2>2, <2>4
  <1>5. ASSUME ~(k >= MinTokens)
        PROVE  /\ Charged(r) \in Int
               /\ k >= 2 => 2 * (Charged(r) - n * r.first) >= n * (n - 1)
    <2>1. Charged(r) = n * r.first + (d * n * n) \div k
      BY <1>5 DEF Charged
    <2>2. d * n * n \in Int
      BY <1>0, <1>1
    <2>3. (d * n * n) \div k \in Int
      BY <1>0, <1>1, <2>2
    <2>4. Charged(r) - n * r.first = (d * n * n) \div k
      BY <1>3, <2>1, <2>3
    <2>5. ASSUME k >= 2 PROVE 2 * ((d * n * n) \div k) >= n * (n - 1)
      <3>1. 2 * (((k - 1) * n * n) \div k) >= n * (n - 1)
        BY <1>0, <2>5, StretchedDecode
      <3> QED BY <1>1, <3>1
    <2> QED BY <1>3, <2>1, <2>3, <2>4, <2>5
  <1> QED BY <1>0, <1>4, <1>5

\* What is computed from the times on record.
LEMMA PeakOnRecord ==
  ASSUME ReplayTypes, SeatsCounted, NEW r \in rows
  PROVE  ObservedPeak(OfGroup(r.start)) <= Slots
  <1> DEFINE G == OfGroup(r.start)
             f == [x \in G |-> Occupied(G, x.admitted)]
             P == {f[x] : x \in G}
  <1>1. G \in SUBSET rows /\ r \in G
    BY DEF OfGroup
  <1>2. IsFiniteSet(G)
    BY <1>1, FS_Subset DEF ReplayTypes
  <1>3. ASSUME NEW x \in G PROVE f[x] \in Nat /\ f[x] <= Slots
    <2> DEFINE t == x.admitted
               O == {y \in G : y.admitted <= t /\ ~Before(t, y)}
    <2>1. t \in Nat /\ \A y \in G : y.released \in Nat
      BY <1>1 DEF ReplayTypes, ReplayRow
    <2>2. O \in SUBSET OnRecord(t)
      BY <1>1, <2>1 DEF OnRecord, Before
    <2>3. IsFiniteSet(OnRecord(t)) /\ IsFiniteSet(HeldAt(t))
      <3>1. OnRecord(t) \in SUBSET rows /\ HeldAt(t) \in SUBSET Workers
        BY DEF OnRecord, HeldAt, Busy
      <3> QED BY <3>1, SeatsFinite, FS_Subset DEF ReplayTypes
    <2>4. Cardinality(OnRecord(t)) + Cardinality(HeldAt(t)) <= Slots
      BY <2>1 DEF SeatsCounted
    <2>5. f[x] = Cardinality(O)
      BY DEF Occupied
    <2> HIDE DEF O, f, t
    <2>6. IsFiniteSet(O) /\ Cardinality(O) <= Cardinality(OnRecord(t))
      BY <2>2, <2>3, FS_Subset
    <2>7. /\ Cardinality(O) \in Nat /\ Cardinality(OnRecord(t)) \in Nat
          /\ Cardinality(HeldAt(t)) \in Nat
      BY <2>3, <2>6, FS_CardinalityType
    <2> QED BY <2>4, <2>5, <2>6, <2>7, DeadlineNat
  <1>4. ObservedPeak(G) = Max(P)
    <2>1. P = {Occupied(G, x.admitted) : x \in G}
      OBVIOUS
    <2> QED BY <2>1 DEF ObservedPeak
  <1>5. DOMAIN f = G
    OBVIOUS
  <1> HIDE DEF f
  <1>6. IsFiniteSet(P)
    BY <1>2, <1>5, ImageFinite
  <1>7. P # {} /\ P \subseteq Int
    BY <1>1, <1>3
  <1>8. Max(P) \in P
    BY <1>6, <1>7, GreatestOfFinite
  <1> QED BY <1>3, <1>4, <1>8

\* A tier's time is at least what any of its rows is charged.
LEMMA TierTimeCovers ==
  ASSUME ReplayTypes, ReplayTimes, NEW r \in rows
  PROVE  /\ TierTime(Trace[r.req]) \in Int
         /\ TierTime(Trace[r.req]) >= Charged(r) - FullLength * r.start
  <1> DEFINE T == TierRows(Trace[r.req])
             f == [x \in T |-> Charged(x) - FullLength * x.start]
             P == {f[x] : x \in T}
  <1>1. T \in SUBSET rows /\ r \in T
    BY DEF TierRows
  <1>2. IsFiniteSet(T)
    BY <1>1, FS_Subset DEF ReplayTypes
  <1>3. ASSUME NEW x \in T PROVE f[x] \in Int
    <2>1. x \in rows /\ Charged(x) \in Int /\ x.start \in Nat
      BY <1>1, ChargedEnough
    <2>2. FullLength * x.start \in Int
      BY <2>1, DeadlineNat
    <2> QED BY <2>1, <2>2
  <1>4. TierTime(Trace[r.req]) = Max(P) /\ f[r] = Charged(r) - FullLength * r.start
    <2>1. P = {Charged(x) - FullLength * x.start : x \in T}
      OBVIOUS
    <2> QED BY <1>1, <2>1 DEF TierTime
  <1>5. DOMAIN f = T
    OBVIOUS
  <1> HIDE DEF f, T
  <1>6. IsFiniteSet(P)
    BY <1>2, <1>5, ImageFinite
  <1>7. P # {} /\ P \subseteq Int /\ f[r] \in P
    BY <1>1, <1>3
  <1>8. Max(P) \in P /\ \A y \in P : y <= Max(P)
    BY <1>6, <1>7, GreatestOfFinite
  <1>9. Max(P) \in Int /\ f[r] \in Int /\ f[r] <= Max(P)
    BY <1>1, <1>3, <1>7, <1>8
  <1> HIDE DEF P
  <1> QED BY <1>4, <1>9

\* The invariant implies what is asked of a replay.
LEMMA ReplayImplies ==
  ReplayIInv => /\ TypeOKReplay /\ NothingOmitted /\ TiersWhole /\ PeakWithinSlots
                /\ ShortAnswersCharged /\ DeadlineOnlyForHung
  <1> SUFFICES ASSUME ReplayIInv
               PROVE  /\ TypeOKReplay /\ NothingOmitted /\ TiersWhole /\ PeakWithinSlots
                      /\ ShortAnswersCharged /\ DeadlineOnlyForHung
    OBVIOUS
  <1>0. /\ ReplayTypes /\ ReplayTimes /\ EachOnce /\ ByGroup /\ NoneLost /\ SeatsCounted
        /\ ClockPaid
    BY DEF ReplayIInv
  <1>1. TypeOKReplay
    <2>1. ASSUME NEW r \in rows
          PROVE  r.req \in Req /\ r.start <= r.admitted /\ r.admitted < r.done /\ r.done <= r.released
      <3>1. r.req \in Req /\ r.admitted \in Nat /\ r.tokens \in Nat
        BY <1>0 DEF ReplayTypes, ReplayRow
      <3>2. r.start <= r.admitted /\ r.done <= r.released /\ r.tokens >= 1
            /\ r.done = r.admitted + r.tokens
        BY <1>0, DeadlineNat DEF ReplayTimes
      <3> QED BY <3>1, <3>2
    <2>2. groupStart <= clock
      BY <1>0, DeadlineNat DEF ReplayTypes
    <2> QED BY <1>0, <2>1, <2>2 DEF TypeOKReplay, ReplayTypes
  <1>2. NothingOmitted
    <2>1. errs # "omitted"
      BY <1>0 DEF ReplayTypes
    <2>2. ASSUME Clean, NEW q \in Req PROVE Cardinality({r \in rows : r.req = q}) = 1
      <3>1. PICK r \in rows : r.req = q
        BY <1>0, <2>2 DEF NoneLost, Clean
      <3>2. {x \in rows : x.req = q} = {r}
        BY <1>0, <3>1 DEF EachOnce
      <3>3. Cardinality({r}) = 1
        BY FS_Singleton
      <3> QED BY <3>2, <3>3
    <2> QED BY <2>1, <2>2 DEF NothingOmitted
  <1>3. TiersWhole
    BY <1>0 DEF ByGroup, TiersWhole
  <1>4. PeakWithinSlots
    BY <1>0, PeakOnRecord DEF PeakWithinSlots
  <1>5. ShortAnswersCharged
    <2> SUFFICES ASSUME NEW r \in rows, r.tokens >= 2
                 PROVE  2 * (TierTime(Trace[r.req]) + FullLength * r.start - FullLength * r.first)
                          >= FullLength * (FullLength - 1)
      BY DEF ShortAnswersCharged
    <2> DEFINE c == Charged(r)
               w == TierTime(Trace[r.req])
               a == FullLength * r.start
               b == FullLength * r.first
               e == FullLength * (FullLength - 1)
    <2>1. c \in Int /\ r.start \in Nat /\ r.first \in Nat /\ 2 * (c - b) >= e
      BY <1>0, ChargedEnough
    <2>2. w \in Int /\ w >= c - a
      BY <1>0, TierTimeCovers
    <2>3. a \in Int /\ b \in Int /\ e \in Int
      BY <2>1, DeadlineNat
    <2> HIDE DEF a, b, c, w, e
    <2>4. 2 * (w + a - b) >= e
      BY <2>1, <2>2, <2>3
    <2> QED BY <2>4 DEF a, b, w, e
  <1> QED BY <1>0, <1>1, <1>2, <1>3, <1>4, <1>5 DEF ClockPaid

-----------------------------------------------------------------------------
(* Scores (Score): fractions. *)

\* A fraction has a positive denominator.
Frac == Int \X (Nat \ {0})

\* A factor keeps an order, and a positive one can be cancelled.
LEMMA Factor ==
  ASSUME NEW a \in Int, NEW b \in Int, NEW c \in Nat
  PROVE  /\ a * c \in Int /\ b * c \in Int
         /\ a <= b => a * c <= b * c
         /\ c # 0 /\ a * c <= b * c => a <= b
  OBVIOUS

\* Products of three and four factors can be regrouped.
LEMMA Regroup ==
  ASSUME NEW a \in Int, NEW b \in Int, NEW c \in Int, NEW d \in Int
  PROVE  /\ a * b \in Int /\ a * b = b * a
         /\ (a * b) * c = (a * c) * b
         /\ (a * b) * (c * d) = (a * c) * (b * d)
         /\ (a + b) * c = a * c + b * c
         /\ (a - b) * c = a * c - b * c
  OBVIOUS

\* The order of fractions is total.
LEMMA FracTotal == \A x, y \in Frac : Leq(x, x) /\ (Leq(x, y) \/ Leq(y, x))
  <1> TAKE x, y \in Frac
  <1>1. x[1] \in Int /\ x[2] \in Nat /\ y[1] \in Int /\ y[2] \in Nat
    BY DEF Frac
  <1>2. x[1] * y[2] \in Int /\ y[1] * x[2] \in Int /\ x[1] * x[2] \in Int
    BY <1>1
  <1> QED BY <1>2 DEF Leq

\* The order of fractions is transitive: the middle denominator cancels.
LEMMA FracTransitive ==
  ASSUME NEW x \in Frac, NEW y \in Frac, NEW z \in Frac, Leq(x, y), Leq(y, z)
  PROVE  Leq(x, z)
  <1> DEFINE a == x[1]  b == x[2]  c == y[1]  d == y[2]  e == z[1]  f == z[2]
  <1>1. a \in Int /\ b \in Nat \ {0} /\ c \in Int /\ d \in Nat \ {0} /\ e \in Int /\ f \in Nat \ {0}
    BY DEF Frac
  <1>2. a * d <= c * b /\ c * f <= e * d
    BY DEF Leq
  <1>3. SUFFICES a * f <= e * b
    BY DEF Leq
  <1> HIDE DEF a, b, c, d, e, f
  <1>4. a * d \in Int /\ c * b \in Int /\ c * f \in Int /\ e * d \in Int /\ a * f \in Int /\ e * b \in Int
    BY <1>1
  <1>5. (a * d) * f <= (c * b) * f
    BY <1>1, <1>2, <1>4, Factor
  <1>6. (c * f) * b <= (e * d) * b
    BY <1>1, <1>2, <1>4, Factor
  <1>7. (a * d) * f = (a * f) * d /\ (c * b) * f = (c * f) * b /\ (e * d) * b = (e * b) * d
    BY <1>1, Regroup
  <1>8. (a * f) * d \in Int /\ (c * f) * b \in Int /\ (e * b) * d \in Int
    BY <1>1, <1>4, Factor
  <1>9. (a * f) * d <= (e * b) * d
    BY <1>5, <1>6, <1>7, <1>8
  <1> QED BY <1>1, <1>4, <1>9, Factor

\* A difference and a mean are fractions.
LEMMA FracOps ==
  ASSUME NEW x \in Frac, NEW y \in Frac
  PROVE  Minus(x, y) \in Frac /\ Half(x, y) \in Frac
  <1>1. x[1] \in Int /\ x[2] \in Nat \ {0} /\ y[1] \in Int /\ y[2] \in Nat \ {0}
    BY DEF Frac
  <1>2. x[1] * y[2] \in Int /\ y[1] * x[2] \in Int /\ x[2] * y[2] \in Nat \ {0}
    BY <1>1
  <1>3. 2 * x[2] * y[2] = 2 * (x[2] * y[2])
    BY <1>1
  <1> QED BY <1>2, <1>3 DEF Minus, Half, Frac

\* What is taken off both keeps their order.
LEMMA MinusKeeps ==
  ASSUME NEW x \in Frac, NEW z \in Frac, NEW y \in Frac, Leq(x, z)
  PROVE  Leq(Minus(x, y), Minus(z, y))
  <1> DEFINE a == x[1]  b == x[2]  c == y[1]  d == y[2]  e == z[1]  f == z[2]
  <1>1. a \in Int /\ b \in Nat \ {0} /\ c \in Int /\ d \in Nat \ {0} /\ e \in Int /\ f \in Nat \ {0}
    BY DEF Frac
  <1>2. a * f <= e * b
    BY DEF Leq
  <1>3. SUFFICES (a * d - c * b) * (f * d) <= (e * d - c * f) * (b * d)
    BY DEF Leq, Minus
  <1> HIDE DEF a, b, c, d, e, f
  <1>4. /\ a * d \in Int /\ c * b \in Int /\ e * d \in Int /\ c * f \in Int
        /\ f * d \in Int /\ b * d \in Int /\ d * d \in Nat /\ a * f \in Int /\ e * b \in Int
        /\ c * d \in Int /\ b * f \in Int
    BY <1>1
  <1>5. /\ (a * d - c * b) * (f * d) = (a * d) * (f * d) - (c * b) * (f * d)
        /\ (e * d - c * f) * (b * d) = (e * d) * (b * d) - (c * f) * (b * d)
    BY <1>4, Regroup
  <1>6. /\ (a * d) * (f * d) = (a * f) * (d * d) /\ (e * d) * (b * d) = (e * b) * (d * d)
        /\ (c * b) * (f * d) = (c * f) * (b * d)
    BY <1>1, Regroup
  <1>7. (a * f) * (d * d) <= (e * b) * (d * d)
    BY <1>2, <1>4, Factor
  <1>8. (a * f) * (d * d) \in Int /\ (e * b) * (d * d) \in Int /\ (c * f) * (b * d) \in Int
    BY <1>4
  <1> QED BY <1>5, <1>6, <1>7, <1>8

\* A mean keeps the order of what it is the mean of.
LEMMA HalfKeeps ==
  ASSUME NEW x \in Frac, NEW y \in Frac, NEW u \in Frac, NEW v \in Frac, Leq(x, u), Leq(y, v)
  PROVE  Leq(Half(x, y), Half(u, v))
  <1> DEFINE a == x[1]  b == x[2]  c == y[1]  d == y[2]  e == u[1]  f == u[2]  g == v[1]  h == v[2]
  <1>1. a \in Int /\ b \in Nat \ {0} /\ c \in Int /\ d \in Nat \ {0} /\ e \in Int /\ f \in Nat \ {0}
        /\ g \in Int /\ h \in Nat \ {0}
    BY DEF Frac
  <1>2. a * f <= e * b /\ c * h <= g * d
    BY DEF Leq
  <1>3. SUFFICES (a * d + c * b) * (2 * f * h) <= (e * h + g * f) * (2 * b * d)
    BY DEF Leq, Half
  <1> HIDE DEF a, b, c, d, e, f, g, h
  <1>4. /\ a * d \in Int /\ c * b \in Int /\ e * h \in Int /\ g * f \in Int /\ f * h \in Int
        /\ b * d \in Int /\ a * f \in Int /\ e * b \in Int /\ c * h \in Int /\ g * d \in Int
        /\ d * h \in Nat /\ b * f \in Nat
    BY <1>1
  <1>5. /\ (a * d + c * b) * (2 * f * h) = 2 * ((a * d) * (f * h) + (c * b) * (f * h))
        /\ (e * h + g * f) * (2 * b * d) = 2 * ((e * h) * (b * d) + (g * f) * (b * d))
    BY <1>1, <1>4
  <1>6. /\ (a * d) * (f * h) = (a * f) * (d * h) /\ (e * h) * (b * d) = (e * b) * (d * h)
        /\ (c * b) * (f * h) = (c * h) * (b * f) /\ (g * f) * (b * d) = (g * d) * (b * f)
    BY <1>1
  <1>7. (a * f) * (d * h) <= (e * b) * (d * h) /\ (c * h) * (b * f) <= (g * d) * (b * f)
    BY <1>2, <1>4, Factor
  <1>8. /\ (a * f) * (d * h) \in Int /\ (e * b) * (d * h) \in Int
        /\ (c * h) * (b * f) \in Int /\ (g * d) * (b * f) \in Int
    BY <1>4
  <1>9. (a * f) * (d * h) + (c * h) * (b * f) <= (e * b) * (d * h) + (g * d) * (b * f)
    BY <1>7, <1>8
  <1> QED BY <1>5, <1>6, <1>8, <1>9

\* What is taken off makes a fraction less.
LEMMA MinusLess ==
  ASSUME NEW x \in Frac, NEW y \in Frac, y[1] >= 0
  PROVE  Leq(Minus(x, y), x)
  <1> DEFINE a == x[1]  b == x[2]  c == y[1]  d == y[2]
  <1>1. a \in Int /\ b \in Nat \ {0} /\ c \in Nat /\ d \in Nat \ {0}
    BY DEF Frac
  <1>2. SUFFICES (a * d - c * b) * b <= a * (b * d)
    BY DEF Leq, Minus
  <1> HIDE DEF a, b, c, d
  <1>3. a * d \in Int /\ c * b \in Nat /\ (a * d) * b \in Int
    BY <1>1
  <1>4. (c * b) * b \in Nat
    BY <1>1, <1>3
  <1>5. (a * d - c * b) * b = (a * d) * b - (c * b) * b /\ a * (b * d) = (a * d) * b
    BY <1>1, <1>3
  <1> QED BY <1>3, <1>4, <1>5

-----------------------------------------------------------------------------
(* The median. *)

\* The values are numbered by their order: there is an r-th one for every r.
LEMMA NthIs ==
  ASSUME NEW S \in SUBSET Nat, IsFiniteSet(S), NEW f \in [S -> Frac], NEW r \in 1..Cardinality(S)
  PROVE  \E i \in S : NthOf(f, r) = f[i] /\ Cardinality(UpTo(f, i)) = r
  <1> DEFINE below == [i \in S |-> UpTo(f, i)]
  <1>1. \A i \in S : UpTo(f, i) = {j \in S : Leq(f[j], f[i]) /\ (Leq(f[i], f[j]) => j <= i)}
    BY DEF UpTo
  <1>2. below \in [S -> SUBSET S] /\ \A i \in S : below[i] = UpTo(f, i)
    BY <1>1
  <1> HIDE DEF below
  <1>0. \A i \in S : f[i] \in Frac /\ i \in Nat
    OBVIOUS
  <1>3. \A i, j \in S : j \in below[i] <=> Leq(f[j], f[i]) /\ (Leq(f[i], f[j]) => j <= i)
    BY <1>1, <1>2
  <1>a. \A x \in S : x \in below[x]
    BY <1>0, <1>3, FracTotal
  <1>b. ASSUME NEW x \in S, NEW y \in S PROVE x \in below[y] \/ y \in below[x]
    <2>1. x <= y \/ y <= x
      BY <1>0
    <2>2. Leq(f[x], f[y]) \/ Leq(f[y], f[x])
      BY <1>0, FracTotal
    <2> QED BY <1>3, <2>1, <2>2
  <1>c. ASSUME NEW x \in S, NEW y \in S, x \in below[y], y \in below[x] PROVE x = y
    <2>1. x <= y /\ y <= x
      BY <1>3, <1>c
    <2> QED BY <1>0, <2>1
  <1>d. ASSUME NEW x \in S, NEW y \in S, x \in below[y] PROVE below[x] \subseteq below[y]
    <2> SUFFICES ASSUME NEW z \in below[x] PROVE z \in below[y]
      OBVIOUS
    <2>0. z \in S
      BY <1>2
    <2>1. Leq(f[x], f[y]) /\ (Leq(f[y], f[x]) => x <= y)
      BY <1>3, <1>d
    <2>2. Leq(f[z], f[x]) /\ (Leq(f[x], f[z]) => z <= x)
      BY <1>3, <2>0
    <2>3. Leq(f[z], f[y])
      BY <1>0, <2>0, <2>1, <2>2, FracTransitive
    <2>4. ASSUME Leq(f[y], f[z]) PROVE z <= y
      <3>1. Leq(f[y], f[x])
        BY <1>0, <2>0, <2>2, <2>4, FracTransitive
      <3>2. Leq(f[x], f[z])
        BY <1>0, <2>0, <2>1, <2>4, FracTransitive
      <3>3. z <= x /\ x <= y
        BY <2>1, <2>2, <3>1, <3>2
      <3> QED BY <1>0, <2>0, <3>3
    <2> QED BY <1>3, <2>0, <2>3, <2>4
  <1>e. \A x, y \in S : x \in below[y] \/ y \in below[x]
    BY <1>b
  <1>f. \A x, y \in S : x \in below[y] /\ y \in below[x] => x = y
    BY <1>c
  <1>g. \A x, y \in S : x \in below[y] => below[x] \subseteq below[y]
    BY <1>d
  <1>h. below \in [S -> SUBSET S] /\ IsFiniteSet(S)
    BY <1>2
  <1>4. \A i \in 1..Cardinality(S) : \E x \in S : Cardinality(below[x]) = i
    <2> DEFINE T == S
    <2>1. /\ below \in [T -> SUBSET T] /\ IsFiniteSet(T)
          /\ \A x \in T : x \in below[x]
          /\ \A x, y \in T : x \in below[y] \/ y \in below[x]
          /\ \A x, y \in T : x \in below[y] /\ y \in below[x] => x = y
          /\ \A x, y \in T : x \in below[y] => below[x] \subseteq below[y]
      BY <1>a, <1>e, <1>f, <1>g, <1>h
    <2> HIDE DEF T
    <2>2. \A i \in 1..Cardinality(T) : \E x \in T : Cardinality(below[x]) = i
      BY <2>1, Numbering
    <2> QED BY <2>2 DEF T
  <1>5. \E i \in S : Cardinality(UpTo(f, i)) = r
    BY <1>2, <1>4
  <1>6. DOMAIN f = S
    OBVIOUS
  <1> QED BY <1>5, <1>6 DEF NthOf

\* Where no value falls, the r-th does not: if the r-th of g were below the r-th of f,
\* the r values of g up to it would be among the r - 1 of f before its own.
LEMMA NthKeeps ==
  ASSUME NEW S \in SUBSET Nat, IsFiniteSet(S), NEW f \in [S -> Frac], NEW g \in [S -> Frac],
         \A i \in S : Leq(f[i], g[i]), NEW r \in 1..Cardinality(S)
  PROVE  Leq(NthOf(f, r), NthOf(g, r))
  <1>1. PICK i \in S : NthOf(f, r) = f[i] /\ Cardinality(UpTo(f, i)) = r
    BY NthIs
  <1>2. PICK j \in S : NthOf(g, r) = g[j] /\ Cardinality(UpTo(g, j)) = r
    BY NthIs
  <1>3. SUFFICES ASSUME ~Leq(f[i], g[j]) PROVE FALSE
    BY <1>1, <1>2
  <1>4. /\ UpTo(f, i) = {x \in S : Leq(f[x], f[i]) /\ (Leq(f[i], f[x]) => x <= i)}
        /\ UpTo(g, j) = {x \in S : Leq(g[x], g[j]) /\ (Leq(g[j], g[x]) => x <= j)}
    BY DEF UpTo
  <1>5. ASSUME NEW x \in UpTo(g, j) PROVE x \in UpTo(f, i) \ {i}
    <2>1. x \in S /\ Leq(g[x], g[j])
      BY <1>4
    <2>0. f[x] \in Frac /\ g[x] \in Frac /\ f[i] \in Frac /\ g[j] \in Frac
      BY <2>1
    <2>2. Leq(f[x], g[j])
      BY <2>0, <2>1, FracTransitive
    <2>3. ~Leq(f[i], f[x])
      BY <1>3, <2>0, <2>2, FracTransitive
    <2>4. Leq(f[x], f[i])
      BY <2>0, <2>3, FracTotal
    <2> QED BY <1>4, <2>1, <2>2, <2>3, <2>4, <1>3
  <1>6. i \in UpTo(f, i)
    BY <1>4, FracTotal
  <1>7. IsFiniteSet(UpTo(f, i))
    BY <1>4, FS_Subset
  <1>8. IsFiniteSet(UpTo(f, i) \ {i}) /\ Cardinality(UpTo(f, i) \ {i}) = r - 1
    BY <1>1, <1>6, <1>7, FS_RemoveElement
  <1>9. Cardinality(UpTo(g, j)) <= Cardinality(UpTo(f, i) \ {i})
    <2>1. UpTo(g, j) \in SUBSET (UpTo(f, i) \ {i})
      BY <1>5
    <2> QED BY <1>8, <2>1, FS_Subset
  <1> QED BY <1>2, <1>8, <1>9

\* The ranks of the middle values are ranks.
LEMMA Middle ==
  ASSUME NEW n \in Nat \ {0}
  PROVE  (n + 1) \div 2 \in 1..n /\ (n + 2) \div 2 \in 1..n
  OBVIOUS

\* The median is the mean of two of the values.
LEMMA MedianIs ==
  ASSUME NEW S \in SUBSET Nat, IsFiniteSet(S), S # {}, NEW f \in [S -> Frac]
  PROVE  \E i, j \in S : Median(f) = Half(f[i], f[j])
  <1>0. DOMAIN f = S
    OBVIOUS
  <1> DEFINE n == Cardinality(S)
  <1>1. n \in Nat \ {0}
    BY FS_CardinalityType, FS_EmptySet
  <1>2. Median(f) = Half(NthOf(f, (n + 1) \div 2), NthOf(f, (n + 2) \div 2))
    BY <1>0 DEF Median
  <1>3. (n + 1) \div 2 \in 1..n /\ (n + 2) \div 2 \in 1..n
    <2> HIDE DEF n
    <2> QED BY <1>1, Middle
  <1>4. PICK i \in S : NthOf(f, (n + 1) \div 2) = f[i]
    BY <1>3, NthIs
  <1>5. PICK j \in S : NthOf(f, (n + 2) \div 2) = f[j]
    BY <1>3, NthIs
  <1> HIDE DEF n
  <1> QED BY <1>2, <1>4, <1>5

\* Where no value falls, the median does not.
LEMMA MedianKeeps ==
  ASSUME NEW S \in SUBSET Nat, IsFiniteSet(S), S # {}, NEW f \in [S -> Frac], NEW g \in [S -> Frac],
         \A i \in S : Leq(f[i], g[i])
  PROVE  Leq(Median(f), Median(g))
  <1>0. DOMAIN f = S /\ DOMAIN g = S
    OBVIOUS
  <1> DEFINE n == Cardinality(S)
             lo == (n + 1) \div 2
             hi == (n + 2) \div 2
  <1>1. n \in Nat \ {0}
    BY FS_CardinalityType, FS_EmptySet
  <1>2. Median(f) = Half(NthOf(f, lo), NthOf(f, hi)) /\ Median(g) = Half(NthOf(g, lo), NthOf(g, hi))
    BY <1>0 DEF Median
  <1>3. lo \in 1..Cardinality(S) /\ hi \in 1..Cardinality(S)
    <2>1. lo \in 1..n /\ hi \in 1..n
      <3> HIDE DEF n
      <3> QED BY <1>1, Middle
    <2> QED BY <2>1
  <1> HIDE DEF lo, hi
  <1>4. /\ NthOf(f, lo) \in Frac /\ NthOf(f, hi) \in Frac
        /\ NthOf(g, lo) \in Frac /\ NthOf(g, hi) \in Frac
    BY <1>3, NthIs
  <1>5. Leq(NthOf(f, lo), NthOf(g, lo)) /\ Leq(NthOf(f, hi), NthOf(g, hi))
    BY <1>3, NthKeeps
  <1> QED BY <1>2, <1>4, <1>5, HalfKeeps

-----------------------------------------------------------------------------
(* One prompt. *)

\* What a replay records for an answer.
Timings == [tokens : Nat, ttft : Nat \ {0}, gap : Nat, gaps : BOOLEAN, done : BOOLEAN]

\* An answer is not a missing one.
LEMMA AnswersPresent == Timing \subseteq Timings /\ \A t \in Timings : t # Missing
  BY ScoreAssumption DEF Timings, Missing

\* The time to a token is positive, or there is none.
LEMMA E2eIs ==
  ASSUME NEW t \in Timings, NEW k \in Nat
  PROVE  /\ AlignedE2e(t, k) \in Int
         /\ AlignedE2e(t, k) = NoTime <=> (k < 1 \/ t.tokens < k \/ (k > 1 /\ ~t.gaps))
         /\ AlignedE2e(t, k) # NoTime => AlignedE2e(t, k) = t.ttft + (k - 1) * t.gap
         /\ AlignedE2e(t, k) # NoTime => AlignedE2e(t, k) > 0
  <1>1. t.ttft \in Nat \ {0} /\ t.gap \in Nat
    BY DEF Timings
  <1>2. ASSUME k >= 1 PROVE (k - 1) * t.gap \in Nat
    BY <1>1, <1>2
  <1> QED BY <1>1, <1>2 DEF AlignedE2e, NoTime

\* A slower answer has the same tokens, and its time to a token, where there is one,
\* is no less.
LEMMA SlowerIs ==
  ASSUME NEW t \in Timings, NEW s \in Slower(t), NEW k \in Nat
  PROVE  /\ s \in Timings /\ s.tokens = t.tokens /\ s.done = t.done /\ s.ttft >= t.ttft
         /\ AlignedE2e(s, k) = NoTime <=> AlignedE2e(t, k) = NoTime
         /\ AlignedE2e(t, k) <= AlignedE2e(s, k)
  <1>0. t.ttft \in Nat \ {0} /\ t.gap \in Nat /\ t.tokens \in Nat
    BY DEF Timings
  <1>1. \/ s = [t EXCEPT !.ttft = @ + 1]
        \/ s = [t EXCEPT !.gap = @ + 1]
    BY DEF Slower
  <1>2. /\ s \in Timings /\ s.tokens = t.tokens /\ s.gaps = t.gaps /\ s.done = t.done
        /\ s.ttft \in Nat /\ s.gap \in Nat /\ s.ttft >= t.ttft /\ s.gap >= t.gap
    BY <1>0, <1>1 DEF Timings
  <1>3. AlignedE2e(s, k) = NoTime <=> AlignedE2e(t, k) = NoTime
    BY <1>2, E2eIs
  <1>4. CASE AlignedE2e(t, k) = NoTime
    BY <1>2, <1>3, <1>4 DEF NoTime
  <1>5. CASE AlignedE2e(t, k) # NoTime
    <2>1. k >= 1
      BY <1>5, E2eIs
    <2>2. AlignedE2e(t, k) = t.ttft + (k - 1) * t.gap /\ AlignedE2e(s, k) = s.ttft + (k - 1) * s.gap
      BY <1>2, <1>3, <1>5, E2eIs
    <2>3. t.gap * (k - 1) <= s.gap * (k - 1) /\ t.gap * (k - 1) \in Int /\ s.gap * (k - 1) \in Int
      BY <1>0, <1>2, <2>1, Factor
    <2>4. t.gap * (k - 1) = (k - 1) * t.gap /\ s.gap * (k - 1) = (k - 1) * s.gap
      BY <1>0, <1>2, <2>1
    <2> QED BY <1>0, <1>2, <1>3, <2>2, <2>3, <2>4
  <1> QED BY <1>2, <1>3, <1>4, <1>5

\* The lesser of two numbers.
LEMMA LesserIs == \A a, b \in Nat : Min({a, b}) \in Nat /\ (Min({a, b}) = a \/ Min({a, b}) = b)
                                    /\ Min({a, b}) <= a /\ Min({a, b}) <= b
  BY LeastOfSet

\* A speedup that counts is a fraction that is at most one.
LEMMA RatioIs ==
  ASSUME NEW be \in Nat \ {0}, NEW ce \in Nat
  PROVE  Ratio(be, ce) \in Frac /\ Leq(Ratio(be, ce), <<1, 1>>)
  BY DEF Ratio, Frac, Leq

\* So is the speedup of a prompt that does not count.
LEMMA ZeroIs == Zero \in Frac /\ Leq(Zero, <<1, 1>>)
  BY DEF Zero, Frac, Leq

\* A prompt's speedup is a fraction that is at most one.
LEMMA SpeedupIs ==
  ASSUME NEW b \in Timings, NEW c \in Timings \cup {Missing}
  PROVE  LET p == PromptSpeedup(b, c)
         IN p.speedup \in Frac /\ Leq(p.speedup, <<1, 1>>) /\ p.failed \in BOOLEAN
  <1> DEFINE k == Min({b.tokens, c.tokens})
             be == AlignedE2e(b, k)
             ce == AlignedE2e(c, k)
  <1>1. ValidReference(b) \in BOOLEAN
    BY DEF ValidReference
  <1>2. CASE PromptSpeedup(b, c).speedup = Zero /\ PromptSpeedup(b, c).failed \in BOOLEAN
    BY <1>2, ZeroIs
  <1>3. CASE /\ c # Missing /\ be # NoTime /\ ce # NoTime
             /\ PromptSpeedup(b, c) = [speedup |-> Ratio(be, ce), reason |-> "none", failed |-> FALSE]
    <2>1. b.tokens \in Nat /\ c.tokens \in Nat /\ c \in Timings
      BY <1>3 DEF Timings
    <2>2. k \in Nat
      BY <2>1, LesserIs
    <2> HIDE DEF k
    <2>3. be \in Nat \ {0} /\ ce \in Nat
      BY <1>3, <2>1, <2>2, E2eIs
    <2> HIDE DEF be, ce
    <2> QED BY <1>3, <2>3, RatioIs
  <1> QED BY <1>1, <1>2, <1>3 DEF PromptSpeedup

\* A slower answer to a prompt fails no more and no less, and its speedup is not greater.
LEMMA SpeedupKeeps ==
  ASSUME NEW b \in Timings, NEW c \in Timings, NEW s \in Slower(c)
  PROVE  /\ PromptSpeedup(b, s).failed = PromptSpeedup(b, c).failed
         /\ Leq(PromptSpeedup(b, s).speedup, PromptSpeedup(b, c).speedup)
  <1> DEFINE k == Min({b.tokens, c.tokens})
             be == AlignedE2e(b, k)
             ce == AlignedE2e(c, k)
             se == AlignedE2e(s, k)
             R(e) == [speedup |-> Ratio(be, e), reason |-> "none", failed |-> FALSE]
  <1>0. b.tokens \in Nat /\ c.tokens \in Nat /\ 0 \in Nat
    BY DEF Timings
  <1>1. k \in Nat
    BY <1>0, LesserIs
  <1>2. s \in Timings /\ s.tokens = c.tokens
    BY <1>0, SlowerIs
  <1>3. c # Missing /\ s # Missing
    BY <1>2, AnswersPresent
  <1>4. (se = NoTime <=> ce = NoTime) /\ ce <= se /\ ce \in Int /\ se \in Int /\ be \in Int
    <2> HIDE DEF k
    <2> QED BY <1>1, <1>2, SlowerIs, E2eIs
  <1>5. \/ PromptSpeedup(b, s) = PromptSpeedup(b, c) /\ PromptSpeedup(b, c).speedup = Zero
        \/ /\ PromptSpeedup(b, s) = R(se) /\ PromptSpeedup(b, c) = R(ce)
           /\ be # NoTime
    BY <1>2, <1>3, <1>4 DEF PromptSpeedup
  <1>6. be # NoTime => be \in Nat \ {0}
    <2> HIDE DEF k
    <2> QED BY <1>1, E2eIs
  <1>7. ASSUME be \in Nat \ {0} PROVE Leq(Ratio(be, se), Ratio(be, ce))
    <2> HIDE DEF be, ce, se
    <2>1. be - se <= be - ce /\ be - se \in Int /\ be - ce \in Int
      BY <1>4, <1>7
    <2>2. (be - se) * be <= (be - ce) * be
      BY <1>7, <2>1, Factor
    <2> QED BY <2>2 DEF Leq, Ratio
  <1>8. Leq(Zero, Zero)
    BY DEF Leq, Zero
  <1>9. CASE PromptSpeedup(b, s) = PromptSpeedup(b, c) /\ PromptSpeedup(b, c).speedup = Zero
    BY <1>8, <1>9
  <1>10. CASE PromptSpeedup(b, s) = R(se) /\ PromptSpeedup(b, c) = R(ce) /\ be # NoTime
    <2>1. Leq(Ratio(be, se), Ratio(be, ce))
      BY <1>6, <1>7, <1>10
    <2> HIDE DEF be, ce, se
    <2>2. R(se).speedup = Ratio(be, se) /\ R(ce).speedup = Ratio(be, ce) /\ R(se).failed = R(ce).failed
      OBVIOUS
    <2> HIDE DEF R
    <2> QED BY <1>10, <2>1, <2>2
  <1> QED BY <1>5, <1>9, <1>10

\* The tolerance never asks for more tokens than there are.
LEMMA MinAlignedIs == \A n \in Nat : MinAligned(n) \in 0..n
  <1> TAKE n \in Nat
  <1>1. CASE n < 2
    BY <1>1 DEF MinAligned
  <1>2. CASE n >= 2
    <2> DEFINE m == (9 * n + 9) \div 10
    <2>1. m \in 0..n /\ {2, m} \subseteq 0..n
      BY <1>2
    <2> HIDE DEF m
    <2>2. Max({2, m}) \in {2, m}
      BY <2>1, GreatestOfSet
    <2>3. MinAligned(n) = Max({2, m})
      BY <1>2 DEF MinAligned, m
    <2> QED BY <2>1, <2>2, <2>3
  <1> QED BY <1>1, <1>2

\* An answer against itself gains nothing, does not fail, and counts where it has a time.
LEMMA SpeedupSelf ==
  ASSUME NEW b \in Timings
  PROVE  /\ PromptSpeedup(b, b).speedup[1] = 0
         /\ PromptSpeedup(b, b).failed = FALSE
         /\ ValidReference(b) => ~Zeroed(PromptSpeedup(b, b))
  <1> DEFINE k == Min({b.tokens, b.tokens})
             be == AlignedE2e(b, k)
  <1>0. b.tokens \in Nat /\ b # Missing
    BY AnswersPresent DEF Timings
  <1>1. k = b.tokens
    BY <1>0, LesserIs
  <1>2. ~(k < MinAligned(b.tokens))
    BY <1>0, <1>1, MinAlignedIs
  <1>3. be \in Int /\ (be = NoTime \/ be > 0) /\ (ValidReference(b) <=> be > 0)
        /\ (b.tokens < 1 => be = NoTime)
    BY <1>0, <1>1, E2eIs DEF ValidReference
  <1>4. \/ be > 0 /\ PromptSpeedup(b, b) = [speedup |-> Ratio(be, be), reason |-> "none", failed |-> FALSE]
        \/ ~(be > 0) /\ PromptSpeedup(b, b).speedup = Zero /\ PromptSpeedup(b, b).failed = FALSE
    BY <1>0, <1>2, <1>3 DEF PromptSpeedup, NoTime
  <1> HIDE DEF be
  <1>5. Ratio(be, be)[1] = 0 /\ Zero[1] = 0
    BY <1>3 DEF Ratio, Zero
  <1> QED BY <1>3, <1>4, <1>5 DEF Zeroed

-----------------------------------------------------------------------------
(* The median rule. *)

\* The speedups of the prompts, and what the failed ones cost.
Speedups(b, c) == [p \in DOMAIN b |-> PromptSpeedup(b[p], c[p]).speedup]
Failures(b, c) == {p \in DOMAIN b : PromptSpeedup(b[p], c[p]).failed}

\* The score is their median less that cost.
LEMMA MedianScoreOpens ==
  ASSUME NEW b, NEW c
  PROVE  MedianScore(b, c) = Minus(Median(Speedups(b, c)),
                                   <<Penalty * Cardinality(Failures(b, c)), Cardinality(DOMAIN b)>>)
  <1> DEFINE per == [p \in DOMAIN b |-> PromptSpeedup(b[p], c[p])]
  <1>1. \A p \in DOMAIN b : per[p] = PromptSpeedup(b[p], c[p])
    OBVIOUS
  <1>2. MedianScore(b, c) = Minus(Median([p \in DOMAIN b |-> per[p].speedup]),
          <<Penalty * Cardinality({p \in DOMAIN b : per[p].failed}), Cardinality(DOMAIN b)>>)
    BY DEF MedianScore
  <1> HIDE DEF per
  <1>3. [p \in DOMAIN b |-> per[p].speedup] = Speedups(b, c)
    BY <1>1 DEF Speedups
  <1>4. {p \in DOMAIN b : per[p].failed} = Failures(b, c)
    BY <1>1 DEF Failures
  <1> QED BY <1>2, <1>3, <1>4

\* The prompts are a finite set of numbers.
LEMMA PromptsAre ==
  ASSUME NEW n \in Nat \ {0}
  PROVE  1..n \in SUBSET Nat /\ IsFiniteSet(1..n) /\ 1..n # {} /\ Cardinality(1..n) = n
  <1>1. IsFiniteSet(1..n) /\ Cardinality(1..n) = n
    BY FS_Interval
  <1>2. 1 \in 1..n
    OBVIOUS
  <1> QED BY <1>1, <1>2

\* A penalty for some of the prompts is a fraction that is not negative.
LEMMA PenaltyIs ==
  ASSUME NEW n \in Nat \ {0}, NEW F \in SUBSET (1..n)
  PROVE  <<Penalty * Cardinality(F), n>> \in Frac /\ Penalty * Cardinality(F) >= 0
  <1>1. Cardinality(F) \in Nat
    BY PromptsAre, FS_Subset, FS_CardinalityType
  <1>2. Penalty * Cardinality(F) \in Nat
    BY <1>1, ScoreAssumption
  <1> QED BY <1>2 DEF Frac

\* The mean of two values that are at most one is.
LEMMA HalfOfOnes ==
  ASSUME NEW x \in Frac, NEW y \in Frac, Leq(x, <<1, 1>>), Leq(y, <<1, 1>>)
  PROVE  Leq(Half(x, y), <<1, 1>>)
  <1> DEFINE one == <<1, 1>>
  <1>1. one \in Frac /\ Half(one, one) \in Frac /\ Leq(Half(one, one), one)
    BY DEF one, Frac, Half, Leq
  <1>2. Half(x, y) \in Frac
    BY FracOps
  <1>3. Leq(x, one) /\ Leq(y, one)
    OBVIOUS
  <1> HIDE DEF one
  <1>4. Leq(Half(x, y), Half(one, one))
    BY <1>1, <1>3, HalfKeeps
  <1>5. Leq(Half(x, y), one)
    BY <1>1, <1>2, <1>4, FracTransitive
  <1> QED BY <1>5 DEF one

\* A score of the median rule is a fraction that is at most one.
LEMMA MedianScoreIs ==
  ASSUME NEW n \in Nat \ {0}, NEW b \in [1..n -> Timings], NEW c \in [1..n -> Timings \cup {Missing}]
  PROVE  MedianScore(b, c) \in Frac /\ Leq(MedianScore(b, c), <<1, 1>>)
  <1> DEFINE S == 1..n
             v == Speedups(b, c)
             m == Median(v)
             cost == <<Penalty * Cardinality(Failures(b, c)), n>>
             one == <<1, 1>>
  <1>0. S \in SUBSET Nat /\ IsFiniteSet(S) /\ S # {} /\ DOMAIN b = S /\ Cardinality(S) = n
    BY PromptsAre
  <1>1. \A p \in S : b[p] \in Timings /\ c[p] \in Timings \cup {Missing}
    OBVIOUS
  <1>2. v \in [S -> Frac] /\ \A p \in S : Leq(v[p], one)
    BY <1>0, <1>1, SpeedupIs DEF Speedups
  <1>3. Failures(b, c) \in SUBSET S
    BY <1>0 DEF Failures
  <1>4. cost \in Frac /\ cost[1] >= 0
    BY <1>3, PenaltyIs
  <1>5. MedianScore(b, c) = Minus(m, cost)
    BY <1>0, MedianScoreOpens
  <1>6. one \in Frac
    BY DEF Frac
  <1> HIDE DEF S, v, cost
  <1>7. PICK i, j \in S : m = Half(v[i], v[j])
    BY <1>0, <1>2, MedianIs
  <1>8. m \in Frac /\ Leq(m, one)
    BY <1>2, <1>7, FracOps, HalfOfOnes
  <1> HIDE DEF m, one
  <1>9. Minus(m, cost) \in Frac /\ Leq(Minus(m, cost), m)
    BY <1>4, <1>8, FracOps, MinusLess
  <1>10. Leq(Minus(m, cost), one)
    BY <1>6, <1>8, <1>9, FracTransitive
  <1> QED BY <1>5, <1>9, <1>10 DEF one

\* An answer that takes longer does not raise it.
LEMMA MedianScoreKeeps ==
  ASSUME NEW n \in Nat \ {0}, NEW b \in [1..n -> Timings], NEW c \in [1..n -> Timings \cup {Missing}],
         NEW p \in 1..n, c[p] # Missing, NEW s \in Slower(c[p])
  PROVE  Leq(MedianScore(b, [c EXCEPT ![p] = s]), MedianScore(b, c))
  <1> DEFINE S == 1..n
             d == [c EXCEPT ![p] = s]
             v == Speedups(b, c)
             w == Speedups(b, d)
             cost == <<Penalty * Cardinality(Failures(b, c)), n>>
  <1>0. S \in SUBSET Nat /\ IsFiniteSet(S) /\ S # {} /\ DOMAIN b = S /\ Cardinality(S) = n
    BY PromptsAre
  <1>1. c[p] \in Timings /\ \A q \in S : b[q] \in Timings /\ c[q] \in Timings \cup {Missing}
    OBVIOUS
  <1>2. s \in Timings
    <2>1. 0 \in Nat
      OBVIOUS
    <2> QED BY <1>1, <2>1, SlowerIs
  <1>3. d \in [S -> Timings \cup {Missing}] /\ d[p] = s /\ \A q \in S : q # p => d[q] = c[q]
    BY <1>2
  <1>4. v \in [S -> Frac] /\ w \in [S -> Frac]
    BY <1>0, <1>1, <1>3, SpeedupIs DEF Speedups
  <1> HIDE DEF d
  <1>5. ASSUME NEW q \in S
        PROVE  /\ PromptSpeedup(b[q], d[q]).failed = PromptSpeedup(b[q], c[q]).failed
               /\ Leq(PromptSpeedup(b[q], d[q]).speedup, PromptSpeedup(b[q], c[q]).speedup)
    <2>1. CASE q = p
      BY <1>1, <1>3, <2>1, SpeedupKeeps
    <2>2. CASE q # p
      <3>1. d[q] = c[q]
        BY <1>3, <2>2
      <3>2. PromptSpeedup(b[q], c[q]).speedup \in Frac
        BY <1>1, SpeedupIs
      <3> QED BY <3>1, <3>2, FracTotal
    <2> QED BY <2>1, <2>2
  <1>6. \A q \in S : Leq(w[q], v[q])
    BY <1>0, <1>5 DEF Speedups
  <1>7. Failures(b, d) = Failures(b, c) /\ Failures(b, c) \in SUBSET S
    BY <1>0, <1>5 DEF Failures
  <1>8. cost \in Frac
    BY <1>7, PenaltyIs
  <1>9. MedianScore(b, c) = Minus(Median(v), cost) /\ MedianScore(b, d) = Minus(Median(w), cost)
    BY <1>0, <1>7, MedianScoreOpens
  <1> HIDE DEF S, v, w, cost
  <1>10. Median(v) \in Frac /\ Median(w) \in Frac
    <2>1. PICK i, j \in S : Median(v) = Half(v[i], v[j])
      BY <1>0, <1>4, MedianIs
    <2>2. PICK x, y \in S : Median(w) = Half(w[x], w[y])
      BY <1>0, <1>4, MedianIs
    <2> QED BY <1>4, <2>1, <2>2, FracOps
  <1>11. Leq(Median(w), Median(v))
    BY <1>0, <1>4, <1>6, MedianKeeps
  <1>12. Leq(Minus(Median(w), cost), Minus(Median(v), cost))
    BY <1>8, <1>10, <1>11, MinusKeeps
  <1> QED BY <1>9, <1>12 DEF d

\* A baseline against itself scores nothing.
LEMMA MedianScoreSelf ==
  ASSUME NEW n \in Nat \ {0}, NEW b \in [1..n -> Timings]
  PROVE  MedianScore(b, b)[1] = 0
  <1> DEFINE S == 1..n
             v == Speedups(b, b)
  <1>0. S \in SUBSET Nat /\ IsFiniteSet(S) /\ S # {} /\ DOMAIN b = S /\ Cardinality(S) = n
    BY PromptsAre
  <1>1. \A p \in S : b[p] \in Timings
    OBVIOUS
  <1>2. v \in [S -> Frac] /\ \A p \in S : v[p][1] = 0
    BY <1>0, <1>1, SpeedupIs, SpeedupSelf DEF Speedups
  <1>3. Failures(b, b) = {}
    BY <1>0, <1>1, SpeedupSelf DEF Failures
  <1>4. MedianScore(b, b) = Minus(Median(v), <<Penalty * 0, n>>)
    BY <1>0, <1>3, MedianScoreOpens, FS_EmptySet
  <1> HIDE DEF S, v
  <1>5. PICK i, j \in S : Median(v) = Half(v[i], v[j])
    BY <1>0, <1>2, MedianIs
  <1>6. v[i][1] = 0 /\ v[j][1] = 0 /\ v[i][2] \in Nat /\ v[j][2] \in Nat
    BY <1>2 DEF Frac
  <1>7. Median(v)[1] = 0 /\ Median(v)[2] \in Nat
    <2>1. v[i][2] * v[j][2] \in Nat
      BY <1>6
    <2> QED BY <1>5, <1>6, <2>1 DEF Half
  <1>8. Penalty * 0 = 0
    BY ScoreAssumption
  <1> QED BY <1>4, <1>7, <1>8 DEF Minus

-----------------------------------------------------------------------------
(* The weighted rule. *)

\* Where an answer takes longer, a candidate that was over the cap still is.
LEMMA CappedKeeps ==
  ASSUME NEW n \in Nat \ {0}, NEW b \in [1..n -> Timings], NEW c \in [1..n -> Timings \cup {Missing}],
         NEW p \in 1..n, c[p] # Missing, NEW s \in Slower(c[p]), Capped(b, c)
  PROVE  Capped(b, [c EXCEPT ![p] = s])
  <1> DEFINE d == [c EXCEPT ![p] = s]
             U == {q \in 1..n : c[q] # Missing /\ c[q].ttft > 0}
             f == [q \in U |-> <<c[q].ttft, 1>>]
             g == [q \in U |-> <<d[q].ttft, 1>>]
  <1>0. c[p] \in Timings /\ \A q \in 1..n : c[q] \in Timings \cup {Missing}
    OBVIOUS
  <1>1. s \in Timings /\ s.ttft >= c[p].ttft /\ s # Missing
    <2>1. 0 \in Nat
      OBVIOUS
    <2> QED BY <1>0, <2>1, SlowerIs, AnswersPresent
  <1>2. /\ DOMAIN d = 1..n /\ DOMAIN c = 1..n /\ d[p] = s
        /\ \A q \in 1..n : q # p => d[q] = c[q]
    OBVIOUS
  <1> HIDE DEF d
  <1>3. {q \in 1..n : d[q] # Missing /\ d[q].ttft > 0} = U
    <2>1. \A t \in Timings : t.ttft > 0
      BY DEF Timings
    <2>2. s.ttft > 0 /\ c[p].ttft > 0
      BY <1>0, <1>1, <2>1
    <2> QED BY <1>1, <1>2, <2>2
  <1>4. \A q \in U : c[q] \in Timings /\ c[q].ttft \in Nat /\ d[q].ttft \in Nat /\ c[q].ttft <= d[q].ttft
    <2> SUFFICES ASSUME NEW q \in U
                 PROVE  c[q] \in Timings /\ c[q].ttft \in Nat /\ d[q].ttft \in Nat /\ c[q].ttft <= d[q].ttft
      OBVIOUS
    <2>1. c[q] \in Timings /\ c[q].ttft \in Nat
      BY <1>0 DEF Timings
    <2>2. s.ttft \in Nat
      BY <1>1 DEF Timings
    <2> QED BY <1>1, <1>2, <2>1, <2>2
  <1>5. MedianTtft(c) = (IF U = {} THEN <<NoTime, 1>> ELSE Median(f))
    BY <1>2 DEF MedianTtft
  <1>6. MedianTtft(d) = (IF U = {} THEN <<NoTime, 1>> ELSE Median(g))
    BY <1>2, <1>3 DEF MedianTtft
  <1>7. U \in SUBSET Nat /\ IsFiniteSet(U)
    BY PromptsAre, FS_Subset
  <1>8. U # {}
    BY <1>5 DEF Capped
  <1>9. f \in [U -> Frac] /\ g \in [U -> Frac] /\ \A q \in U : Leq(f[q], g[q])
    BY <1>4 DEF Frac, Leq
  <1>9a. \A q \in U : g[q][1] \in Nat /\ g[q][2] = 1
    BY <1>4
  <1> HIDE DEF U, f, g
  <1>10. Leq(Median(f), Median(g))
    BY <1>7, <1>8, <1>9, MedianKeeps
  <1>11. PICK i, j \in U : Median(f) = Half(f[i], f[j])
    BY <1>7, <1>8, <1>9, MedianIs
  <1>12. PICK x, y \in U : Median(g) = Half(g[x], g[y])
    BY <1>7, <1>8, <1>9, MedianIs
  <1>13. Median(f) \in Frac /\ Median(g) \in Frac
    BY <1>9, <1>11, <1>12, FracOps
  <1>14. Median(g)[1] # NoTime
    BY <1>9a, <1>12 DEF Half, NoTime
  <1> DEFINE limit == <<TtftCap * MedianTtft(b)[1], MedianTtft(b)[2]>>
  <1>15. limit \in Frac
    <2> DEFINE V == {q \in 1..n : b[q] # Missing /\ b[q].ttft > 0}
               h == [q \in V |-> <<b[q].ttft, 1>>]
    <2>1. DOMAIN b = 1..n /\ \A q \in 1..n : b[q] \in Timings
      OBVIOUS
    <2>2. MedianTtft(b) = (IF V = {} THEN <<NoTime, 1>> ELSE Median(h))
      BY <2>1 DEF MedianTtft
    <2>3. V \in SUBSET Nat /\ IsFiniteSet(V)
      BY PromptsAre, FS_Subset
    <2>4. \A q \in V : b[q].ttft \in Nat
      BY <2>1 DEF Timings
    <2>5. h \in [V -> Frac]
      BY <2>4 DEF Frac
    <2> HIDE DEF V, h
    <2>6. MedianTtft(b) \in Frac
      <3>1. CASE V = {}
        BY <2>2, <3>1 DEF Frac, NoTime
      <3>2. CASE V # {}
        <4>1. PICK q, r \in V : Median(h) = Half(h[q], h[r])
          BY <2>3, <2>5, <3>2, MedianIs
        <4> QED BY <2>2, <2>5, <3>2, <4>1, FracOps
      <3> QED BY <3>1, <3>2
    <2>7. MedianTtft(b)[1] \in Int /\ MedianTtft(b)[2] \in Nat \ {0} /\ TtftCap \in Int
      BY <2>6, ScoreAssumption DEF Frac
    <2>8. TtftCap * MedianTtft(b)[1] \in Int
      BY <2>7
    <2> QED BY <2>7, <2>8 DEF Frac
  <1>16. MedianTtft(b)[1] # NoTime /\ ~Leq(Median(f), limit)
    BY <1>5, <1>8 DEF Capped
  <1> HIDE DEF limit
  <1>17. ~Leq(Median(g), limit)
    BY <1>10, <1>13, <1>15, <1>16, FracTransitive
  <1>18. Capped(b, d)
    BY <1>6, <1>8, <1>14, <1>16, <1>17 DEF Capped, limit
  <1> QED BY <1>18 DEF d

\* The gain is a fraction.
LEMMA GainIs ==
  ASSUME NEW tb \in [Tier -> Nat \ {0}], NEW tc \in [Tier -> Nat \ {0}]
  PROVE  RawGain(tb, tc) \in Frac
  <1> DEFINE product == FoldFunction(LAMBDA x, y : x * y, 1, tb)
             term == [t \in Tier |-> TierWeight[t] * (tb[t] - tc[t]) * (product \div tb[t])]
  <1>0. IsFiniteSet(Tier) /\ \A t \in Tier : TierWeight[t] \in Nat /\ tb[t] \in Nat \ {0} /\ tc[t] \in Nat
    BY ScoreAssumption
  <1>1. product \in Nat \ {0}
    BY <1>0, ProductPositive
  <1>2. RawGain(tb, tc) = <<SumFunction(term), 4 * product>>
    BY DEF RawGain
  <1> HIDE DEF product
  <1>3. ASSUME NEW t \in Tier PROVE TierWeight[t] * (tb[t] - tc[t]) * (product \div tb[t]) \in Int
    <2>1. product \div tb[t] \in Int
      BY <1>0, <1>1
    <2>2. TierWeight[t] * (tb[t] - tc[t]) \in Int
      BY <1>0
    <2> QED BY <2>1, <2>2
  <1>4. term \in [Tier -> Int]
    BY <1>3
  <1> HIDE DEF term
  <1>5. SumFunction(term) \in Int
    BY <1>0, <1>4, SumType
  <1>6. 4 * product \in Nat \ {0}
    BY <1>1
  <1> QED BY <1>2, <1>5, <1>6 DEF Frac

\* A tier that takes longer does not raise the gain.
LEMMA GainKeeps ==
  ASSUME NEW tb \in [Tier -> Nat \ {0}], NEW tc \in [Tier -> Nat \ {0}], NEW t \in Tier
  PROVE  Leq(RawGain(tb, [tc EXCEPT ![t] = @ + 1]), RawGain(tb, tc))
  <1> DEFINE product == FoldFunction(LAMBDA x, y : x * y, 1, tb)
             td == [tc EXCEPT ![t] = @ + 1]
             F == [u \in Tier |-> TierWeight[u] * (tb[u] - tc[u]) * (product \div tb[u])]
             G == [u \in Tier |-> TierWeight[u] * (tb[u] - td[u]) * (product \div tb[u])]
             less == TierWeight[t] * (product \div tb[t])
  <1>0. IsFiniteSet(Tier) /\ \A u \in Tier : TierWeight[u] \in Nat /\ tb[u] \in Nat \ {0} /\ tc[u] \in Nat
    BY ScoreAssumption
  <1>1. product \in Nat \ {0}
    BY <1>0, ProductPositive
  <1>2. RawGain(tb, tc) = <<SumFunction(F), 4 * product>> /\ RawGain(tb, td) = <<SumFunction(G), 4 * product>>
    BY DEF RawGain
  <1> HIDE DEF product
  <1>3. \A u \in Tier : td[u] = IF u = t THEN tc[u] + 1 ELSE tc[u]
    BY <1>0
  <1> HIDE DEF td
  <1>4. ASSUME NEW u \in Tier
        PROVE  /\ product \div tb[u] \in Nat
               /\ TierWeight[u] * (tb[u] - tc[u]) * (product \div tb[u]) \in Int
               /\ TierWeight[u] * (tb[u] - td[u]) * (product \div tb[u]) \in Int
    <2>1. product \div tb[u] \in Nat
      BY <1>0, <1>1
    <2>2. TierWeight[u] * (tb[u] - tc[u]) \in Int /\ TierWeight[u] * (tb[u] - td[u]) \in Int
      BY <1>0, <1>3
    <2> QED BY <2>1, <2>2
  <1>5. F \in [Tier -> Int] /\ G \in [Tier -> Int]
    BY <1>4
  <1>6. less \in Nat
    BY <1>0, <1>4
  <1>7. G[t] = F[t] + (0 - less)
    <2> DEFINE q == product \div tb[t]  w == TierWeight[t]  x == tb[t]  y == tc[t]
    <2>1. q \in Nat /\ w \in Nat /\ x \in Nat /\ y \in Nat /\ td[t] = y + 1
      BY <1>0, <1>3, <1>4
    <2>2. G[t] = w * (x - (y + 1)) * q /\ F[t] = w * (x - y) * q /\ less = w * q
      BY <2>1
    <2> HIDE DEF q, w, x, y
    <2>3. w * (x - (y + 1)) * q = w * (x - y) * q + (0 - w * q)
      BY <2>1
    <2> QED BY <2>2, <2>3
  <1>8. \A u \in Tier : u # t => G[u] = F[u]
    BY <1>3
  <1> HIDE DEF F, G, less
  <1>9. 0 - less \in Int
    BY <1>6
  <1>10. SumFunction(G) = SumFunction(F) + (0 - less)
    BY <1>0, <1>5, <1>7, <1>8, <1>9, SumGrows
  <1>11. SumFunction(F) \in Int /\ SumFunction(G) \in Int
    BY <1>0, <1>5, SumType
  <1>12. SumFunction(G) * (4 * product) <= SumFunction(F) * (4 * product)
    <2>1. SumFunction(G) <= SumFunction(F) /\ 4 * product \in Nat
      BY <1>1, <1>6, <1>10, <1>11
    <2> QED BY <1>11, <2>1, Factor
  <1> QED BY <1>2, <1>12 DEF Leq, td

\* A gain that is not raised, or is newly over the cap, makes the eligible one no greater.
LEMMA EligibleKeeps ==
  ASSUME NEW x \in Frac, NEW y \in Frac, Leq(x, y), NEW cx \in BOOLEAN, NEW cy \in BOOLEAN, cy => cx
  PROVE  /\ Eligible(x, cx) \in Frac /\ Eligible(y, cy) \in Frac
         /\ Leq(Eligible(x, cx), Eligible(y, cy))
  <1>0. x[1] \in Int /\ x[2] \in Nat \ {0} /\ y[1] \in Int /\ y[2] \in Nat \ {0}
    BY DEF Frac
  <1>1. Eligible(x, cx) \in Frac /\ Eligible(y, cy) \in Frac
    BY ZeroIs DEF Eligible
  <1>2. \A z \in Frac : (z[1] >= 0 <=> Leq(Zero, z)) /\ (z[1] <= 0 <=> Leq(z, Zero))
    BY DEF Frac, Leq, Zero
  <1>3. CASE Eligible(x, cx) = x /\ Eligible(y, cy) = y
    BY <1>1, <1>3
  <1>4. CASE Eligible(x, cx) = Zero /\ Eligible(y, cy) = Zero
    BY <1>1, <1>4, ZeroIs, FracTotal
  <1>5. CASE cx /\ x[1] > 0 /\ ~(cy /\ y[1] > 0)
    <2>1. Leq(Zero, x)
      BY <1>0, <1>2, <1>5
    <2>2. Leq(Zero, y)
      BY <2>1, ZeroIs, FracTransitive
    <2>3. Eligible(x, cx) = Zero /\ Eligible(y, cy) = y
      BY <1>5 DEF Eligible
    <2> QED BY <1>1, <2>2, <2>3
  <1>6. CASE ~(cx /\ x[1] > 0) /\ cy /\ y[1] > 0
    <2>1. Leq(x, Zero)
      BY <1>0, <1>2, <1>6
    <2>2. Eligible(x, cx) = x /\ Eligible(y, cy) = Zero
      BY <1>6 DEF Eligible
    <2> QED BY <1>1, <2>1, <2>2
  <1> QED BY <1>3, <1>4, <1>5, <1>6 DEF Eligible

\* Neither an answer nor a tier that takes longer raises the score of the weighted rule.
LEMMA WeightedKeeps ==
  ASSUME NEW n \in Nat \ {0}, NEW b \in [1..n -> Timings], NEW c, NEW d,
         NEW x \in Frac, NEW y \in Frac, Leq(x, y), Capped(b, c) => Capped(b, d),
         \A q \in 1..n : CompletionFails(b[q], d[q]) = CompletionFails(b[q], c[q]),
         NEW tb, NEW tc, NEW td, x = RawGain(tb, td), y = RawGain(tb, tc)
  PROVE  Leq(WeightedScore(b, d, tb, td), WeightedScore(b, c, tb, tc))
  <1> DEFINE F == {p \in 1..n : CompletionFails(b[p], c[p])}
             cost == <<Penalty * Cardinality(F), n>>
  <1>0. DOMAIN b = 1..n /\ Cardinality(1..n) = n
    BY PromptsAre
  <1>1. Capped(b, c) \in BOOLEAN /\ Capped(b, d) \in BOOLEAN
    BY DEF Capped
  <1>2. /\ Eligible(x, Capped(b, d)) \in Frac /\ Eligible(y, Capped(b, c)) \in Frac
        /\ Leq(Eligible(x, Capped(b, d)), Eligible(y, Capped(b, c)))
    BY <1>1, EligibleKeeps
  <1>3. F \in SUBSET (1..n) /\ {p \in 1..n : CompletionFails(b[p], d[p])} = F
    OBVIOUS
  <1>4. cost \in Frac
    BY <1>3, PenaltyIs
  <1>5. /\ WeightedScore(b, c, tb, tc) = Minus(Eligible(y, Capped(b, c)), cost)
        /\ WeightedScore(b, d, tb, td) = Minus(Eligible(x, Capped(b, d)), cost)
    BY <1>0, <1>3 DEF WeightedScore
  <1> HIDE DEF cost
  <1> QED BY <1>2, <1>4, <1>5, MinusKeeps

\* A slower answer is complete exactly when the answer was.
LEMMA CompletionKeeps ==
  ASSUME NEW b, NEW c \in Timings, NEW s \in Slower(c)
  PROVE  CompletionFails(b, s) = CompletionFails(b, c)
  <1>1. 0 \in Nat
    OBVIOUS
  <1>2. s \in Timings /\ s.tokens = c.tokens /\ s.done = c.done
    BY <1>1, SlowerIs
  <1>3. c # Missing /\ s # Missing
    BY <1>2, AnswersPresent
  <1> QED BY <1>2, <1>3 DEF CompletionFails

-----------------------------------------------------------------------------
(* The input. *)

\* Some prompts are drawn, the same for both sides, and every tier took time.
ScoreIInv ==
  /\ \E n \in 0..NPrompts : base \in [1..n -> Timing] /\ cand \in [1..n -> Timing \cup {Missing}]
  /\ tierBase \in [Tier -> Nat \ {0}] /\ tierCand \in [Tier -> Nat \ {0}]

\* No prompt is drawn at the start.
LEMMA ScoreInit == InitScore => ScoreIInv
  <1> SUFFICES ASSUME InitScore PROVE ScoreIInv
    OBVIOUS
  <1>1. base \in [1..0 -> Timing] /\ cand \in [1..0 -> Timing \cup {Missing}] /\ 0 \in 0..NPrompts
    <2>1. 1..0 = {}
      OBVIOUS
    <2>2. base = [i \in {} |-> i] /\ cand = [i \in {} |-> i]
      BY DEF InitScore
    <2> QED BY <2>1, <2>2, ScoreAssumption
  <1>2. PICK f \in [Tier -> TierTimes] :
          tierBase = [t \in Tier |-> f[t][1]] /\ tierCand = [t \in Tier |-> f[t][2]]
    BY DEF InitScore
  <1>3. \A t \in Tier : f[t][1] \in Nat \ {0} /\ f[t][2] \in Nat \ {0}
    BY ScoreAssumption
  <1> QED BY <1>1, <1>2, <1>3 DEF ScoreIInv

\* A draw adds a prompt.
LEMMA ScoreNext == ScoreIInv /\ [NextScore]_scoreVars => ScoreIInv'
  <1> SUFFICES ASSUME ScoreIInv, [NextScore]_scoreVars PROVE ScoreIInv'
    OBVIOUS
  <1>1. CASE UNCHANGED scoreVars
    BY <1>1 DEF ScoreIInv, scoreVars
  <1>2. CASE Draw
    <2>1. PICK n \in 0..NPrompts : base \in [1..n -> Timing] /\ cand \in [1..n -> Timing \cup {Missing}]
      BY DEF ScoreIInv
    <2>2. n \in Nat /\ NPrompts \in Nat
      BY ScoreAssumption
    <2>3. Prompts = 1..n /\ Cardinality(1..n) = n
      BY <2>1, <2>2, FS_Interval DEF Prompts
    <2>4. n < NPrompts
      BY <1>2, <2>3 DEF Draw
    <2>a. PICK b \in Timing, c \in Timing \cup {Missing} :
            /\ base' = [p \in 1..Cardinality(Prompts) + 1 |-> IF p \in Prompts THEN base[p] ELSE b]
            /\ cand' = [p \in 1..Cardinality(Prompts) + 1 |-> IF p \in Prompts THEN cand[p] ELSE c]
      BY <1>2, Zenon DEF Draw
    <2>5. /\ base' = [p \in 1..(n + 1) |-> IF p \in 1..n THEN base[p] ELSE b]
          /\ cand' = [p \in 1..(n + 1) |-> IF p \in 1..n THEN cand[p] ELSE c]
      BY <2>3, <2>a
    <2>6. base' \in [1..(n + 1) -> Timing] /\ cand' \in [1..(n + 1) -> Timing \cup {Missing}]
      BY <2>1, <2>5
    <2>7. n + 1 \in 0..NPrompts
      BY <2>2, <2>4
    <2>8. tierBase' = tierBase /\ tierCand' = tierCand
      BY <1>2 DEF Draw
    <2> QED BY <2>6, <2>7, <2>8 DEF ScoreIInv
  <1> QED BY <1>1, <1>2 DEF NextScore

\* Every score is at most one; nothing that takes longer raises it; and a baseline
\* against itself scores nothing.
LEMMA ScoreImplies ==
  ASSUME ScoreIInv
  PROVE  TypeOKScore /\ SlowerNeverBetter /\ SlowerTierNeverBetter /\ SelfScoresZero
  <1>1. PICK n \in 0..NPrompts : base \in [1..n -> Timing] /\ cand \in [1..n -> Timing \cup {Missing}]
    BY DEF ScoreIInv
  <1>2. n \in Nat /\ Prompts = 1..n /\ tierBase \in [Tier -> Nat \ {0}] /\ tierCand \in [Tier -> Nat \ {0}]
    BY <1>1, ScoreAssumption DEF Prompts, ScoreIInv
  <1>3. base \in [1..n -> Timings] /\ cand \in [1..n -> Timings \cup {Missing}]
    BY <1>1, AnswersPresent
  <1>4. SUFFICES ASSUME Prompts # {}
                 PROVE  TypeOKScore /\ SlowerNeverBetter /\ SlowerTierNeverBetter /\ SelfScoresZero
    BY DEF TypeOKScore, SlowerNeverBetter, SlowerTierNeverBetter, SelfScoresZero
  <1>5. n \in Nat \ {0}
    BY <1>2, <1>4
  <1>6. TypeOKScore
    <2>1. MedianScore(base, cand) \in Frac /\ Leq(MedianScore(base, cand), <<1, 1>>)
      BY <1>3, <1>5, MedianScoreIs
    <2> QED BY <2>1 DEF TypeOKScore, Frac
  <1>7. SlowerNeverBetter
    <2> SUFFICES ASSUME NEW p \in 1..n, cand[p] # Missing, NEW s \in Slower(cand[p])
                 PROVE  /\ Leq(MedianScore(base, [cand EXCEPT ![p] = s]), MedianScore(base, cand))
                        /\ Leq(WeightedScore(base, [cand EXCEPT ![p] = s], tierBase, tierCand),
                               WeightedScore(base, cand, tierBase, tierCand))
      BY <1>2 DEF SlowerNeverBetter
    <2> DEFINE d == [cand EXCEPT ![p] = s]
               x == RawGain(tierBase, tierCand)
    <2>1. Leq(MedianScore(base, d), MedianScore(base, cand))
      BY <1>3, <1>5, MedianScoreKeeps
    <2>2. cand[p] \in Timings /\ d[p] = s /\ \A q \in 1..n : q # p => d[q] = cand[q]
      BY <1>3
    <2>3. Capped(base, cand) => Capped(base, d)
      BY <1>3, <1>5, CappedKeeps
    <2> HIDE DEF d
    <2>4. \A q \in 1..n : CompletionFails(base[q], d[q]) = CompletionFails(base[q], cand[q])
      BY <2>2, CompletionKeeps
    <2>5. x \in Frac /\ Leq(x, x)
      BY <1>2, GainIs, FracTotal
    <2>6. Leq(WeightedScore(base, d, tierBase, tierCand), WeightedScore(base, cand, tierBase, tierCand))
      BY <1>3, <1>5, <2>3, <2>4, <2>5, WeightedKeeps
    <2> QED BY <2>1, <2>6 DEF d
  <1>8. SlowerTierNeverBetter
    <2> SUFFICES ASSUME NEW t \in Tier
                 PROVE  Leq(WeightedScore(base, cand, tierBase, [tierCand EXCEPT ![t] = @ + 1]),
                            WeightedScore(base, cand, tierBase, tierCand))
      BY DEF SlowerTierNeverBetter
    <2> DEFINE td == [tierCand EXCEPT ![t] = @ + 1]
               x == RawGain(tierBase, td)
               y == RawGain(tierBase, tierCand)
    <2>1. td \in [Tier -> Nat \ {0}]
      BY <1>2
    <2>2. Leq(x, y)
      BY <1>2, GainKeeps
    <2> HIDE DEF td
    <2>3. x \in Frac /\ y \in Frac
      BY <1>2, <2>1, GainIs
    <2>4. Leq(WeightedScore(base, cand, tierBase, td), WeightedScore(base, cand, tierBase, tierCand))
      BY <1>3, <1>5, <2>2, <2>3, WeightedKeeps
    <2> QED BY <2>4 DEF td
  <1>9. SelfScoresZero
    <2>1. MedianScore(base, base)[1] = 0
      BY <1>3, <1>5, MedianScoreSelf
    <2>2. ASSUME NEW p \in 1..n, ValidReference(base[p])
          PROVE  ~Zeroed(PromptSpeedup(base[p], base[p]))
      <3>1. base[p] \in Timings
        BY <1>3
      <3> QED BY <2>2, <3>1, SpeedupSelf
    <2> QED BY <1>2, <2>1, <2>2 DEF SelfScoresZero
  <1> QED BY <1>6, <1>7, <1>8, <1>9

-----------------------------------------------------------------------------
(* Repetition (Repeats): spans of a text. *)

\* The l characters up to place a are the l characters up to place b.
Same(t, a, b, l) == l <= a /\ l <= b /\ \A i \in 0..(l - 1) : t[a - i] = t[b - i]

\* Equality of spans is an equality, of shorter ones too.
LEMMA SameEqual ==
  ASSUME NEW t, NEW a \in Nat, NEW b \in Nat, NEW c \in Nat, NEW l \in Nat
  PROVE  /\ l <= a => Same(t, a, a, l)
         /\ Same(t, a, b, 0)
         /\ Same(t, a, b, l) => Same(t, b, a, l) /\ l <= a /\ l <= b
         /\ Same(t, a, b, l) /\ Same(t, b, c, l) => Same(t, a, c, l)
  BY DEF Same

\* Spans that are equal have equal ends of every length.
LEMMA SameLess ==
  ASSUME NEW t, NEW a \in Nat, NEW b \in Nat, NEW l \in Nat, Same(t, a, b, l), NEW k \in Nat, k <= l
  PROVE  Same(t, a, b, k)
  BY DEF Same

\* A span is one character longer where the next ones are equal, and ends in equal ones.
LEMMA SameMore ==
  ASSUME NEW t, NEW a \in Nat, NEW b \in Nat, NEW l \in Nat, Same(t, a, b, l), t[a + 1] = t[b + 1]
  PROVE  Same(t, a + 1, b + 1, l + 1)
  <1> SUFFICES ASSUME NEW i \in 0..((l + 1) - 1) PROVE t[(a + 1) - i] = t[(b + 1) - i]
    BY DEF Same
  <1>1. CASE i = 0
    BY <1>1
  <1>2. CASE i # 0
    <2>1. i - 1 \in 0..(l - 1)
      BY <1>2
    <2>2. t[a - (i - 1)] = t[b - (i - 1)]
      BY <2>1 DEF Same
    <2>3. a - (i - 1) = (a + 1) - i /\ b - (i - 1) = (b + 1) - i
      OBVIOUS
    <2> QED BY <2>2, <2>3
  <1> QED BY <1>1, <1>2

\* Equal spans end in the same character, and are equal without it.
LEMMA SameCut ==
  ASSUME NEW t, NEW a \in Nat, NEW b \in Nat, NEW l \in Nat \ {0}, Same(t, a, b, l)
  PROVE  /\ a # 0 /\ b # 0 /\ t[a] = t[b]
         /\ a - 1 \in Nat /\ b - 1 \in Nat /\ l - 1 \in Nat /\ Same(t, a - 1, b - 1, l - 1)
  <1>1. l <= a /\ l <= b /\ \A i \in 0..(l - 1) : t[a - i] = t[b - i]
    BY DEF Same
  <1>2. t[a - 0] = t[b - 0]
    BY <1>1
  <1>3. ASSUME NEW i \in 0..((l - 1) - 1) PROVE t[(a - 1) - i] = t[(b - 1) - i]
    <2>1. i + 1 \in 0..(l - 1)
      OBVIOUS
    <2>2. t[a - (i + 1)] = t[b - (i + 1)]
      BY <1>1, <2>1
    <2>3. a - (i + 1) = (a - 1) - i /\ b - (i + 1) = (b - 1) - i
      OBVIOUS
    <2> QED BY <2>2, <2>3
  <1>4. l - 1 <= a - 1 /\ l - 1 <= b - 1 /\ a # 0 /\ b # 0
    BY <1>1
  <1>5. t[a] = t[b]
    BY <1>2
  <1> QED BY <1>3, <1>4, <1>5 DEF Same

\* What is appended changes no span of the text.
LEMMA SameKept ==
  ASSUME NEW m \in Nat, NEW t, NEW u, \A i \in 1..m : u[i] = t[i],
         NEW a \in 0..m, NEW b \in 0..m, NEW l \in Nat
  PROVE  Same(u, a, b, l) <=> Same(t, a, b, l)
  <1>1. ASSUME l <= a, l <= b, NEW i \in 0..(l - 1) PROVE u[a - i] = t[a - i] /\ u[b - i] = t[b - i]
    <2>1. a - i \in 1..m /\ b - i \in 1..m
      BY <1>1
    <2> QED BY <2>1
  <1> QED BY <1>1 DEF Same

-----------------------------------------------------------------------------
(* The automaton of a text: pos[q] is a place where the longest string of q ends. *)

\* A length of the strings of q.
Has(K, L, q, l) == l <= L[q] /\ (q = Root \/ L[K[q]] < l)

\* States, links, lengths and places.
Shape(m, Q, tr, K, L, pos) ==
  /\ Root \in Q /\ L[Root] = 0
  /\ K \in [Q -> Q] /\ L \in [Q -> Nat] /\ pos \in [Q -> 0..m] /\ DOMAIN tr = Q
  /\ \A q \in Q : L[q] <= pos[q] /\ (q # Root => L[K[q]] < L[q])

\* A link leads to the longest suffix that is not one of the state's strings.
Linked(t, Q, K, L, pos) ==
  \A q \in Q : q # Root => Same(t, pos[K[q]], pos[q], L[K[q]])

\* The strings of a state end at the same places.
Classes(m, t, Q, K, L, pos) ==
  \A q \in Q, a \in 0..m, l \in Nat :
    Has(K, L, q, l) /\ Same(t, pos[q], a, l) => Same(t, pos[q], a, L[q])

\* Every span of the text is a string of a state,
Covered(m, t, Q, K, L, pos) ==
  \A a \in 0..m : \A l \in 0..a : \E q \in Q : Has(K, L, q, l) /\ Same(t, pos[q], a, l)

\* and of no other.
Unique(t, Q, K, L, pos) ==
  \A q, r \in Q, l \in Nat :
    Has(K, L, q, l) /\ Has(K, L, r, l) /\ Same(t, pos[q], pos[r], l) => q = r

\* A transition leads to the state of the string that is one character longer,
Leads(m, t, q, x, s, K, L, pos) ==
  \E a \in 1..m : /\ t[a] = x /\ Same(t, pos[q], a - 1, L[q])
                  /\ Has(K, L, s, L[q] + 1) /\ Same(t, pos[s], a, L[q] + 1)
Transitions(m, t, Q, tr, K, L, pos) ==
  \A q \in Q : \A x \in DOMAIN tr[q] : tr[q][x] \in Q /\ Leads(m, t, q, x, tr[q][x], K, L, pos)

\* and there is one for every character that follows.
Followed(m, t, Q, tr, L, pos) ==
  \A q \in Q, a \in 1..m : Same(t, pos[q], a - 1, L[q]) => t[a] \in DOMAIN tr[q]

\* The suffix automaton of the text.
Automaton(m, t, Q, tr, K, L, pos) ==
  /\ Shape(m, Q, tr, K, L, pos) /\ Linked(t, Q, K, L, pos) /\ Classes(m, t, Q, K, L, pos)
  /\ Covered(m, t, Q, K, L, pos) /\ Unique(t, Q, K, L, pos)
  /\ Transitions(m, t, Q, tr, K, L, pos) /\ Followed(m, t, Q, tr, L, pos)

\* A state's strings end at fewer places than those of the state it links to.
Proper(m, t, Q, K, L, pos) ==
  \A q \in Q : q # Root => \E a \in 0..m : Same(t, pos[q], a, L[K[q]]) /\ ~Same(t, pos[q], a, L[q])

\* own says whose longest string begins the text.
Begins(t, Q, L, pos, o) ==
  o \in [Q -> {0, 1}] /\ \A q \in Q : o[q] = 1 <=> q # Root /\ Same(t, pos[q], L[q], L[q])

\* The state cur, for the text and one more character, is added below g: the longest
\* span at the end that occurred before is g's longest string.
Extends(m, t, u, Q, tr, K, L, pos, cur, g, tr2, K2, L2, pos2) ==
  /\ \A i \in 1..m : u[i] = t[i]
  /\ g \in Q /\ cur \notin Q /\ Same(u, pos[g], m + 1, L[g])
  /\ \A a \in 0..m, l \in Nat : Same(u, a, m + 1, l) => l <= L[g]
  /\ K2 \in [Q \cup {cur} -> Q] /\ K2[cur] = g /\ \A q \in Q : K2[q] = K[q]
  /\ L2 \in [Q \cup {cur} -> Nat] /\ L2[cur] = m + 1 /\ \A q \in Q : L2[q] = L[q]
  /\ pos2 \in [Q \cup {cur} -> 0..(m + 1)] /\ pos2[cur] = m + 1 /\ \A q \in Q : pos2[q] = pos[q]
  /\ DOMAIN tr2 = Q \cup {cur} /\ DOMAIN tr2[cur] = {}
  /\ \A q \in Q : IF Same(t, pos[q], m, L[q]) /\ u[m + 1] \notin DOMAIN tr[q]
                  THEN tr2[q] = With(tr[q], u[m + 1], cur) ELSE tr2[q] = tr[q]

\* It is then the automaton of the longer text.
LEMMA ExtendedAutomaton ==
  ASSUME NEW m \in Nat, NEW t, NEW u, NEW Q, NEW tr, NEW K, NEW L, NEW pos, NEW cur, NEW g,
         NEW tr2, NEW K2, NEW L2, NEW pos2,
         Automaton(m, t, Q, tr, K, L, pos),
         Extends(m, t, u, Q, tr, K, L, pos, cur, g, tr2, K2, L2, pos2)
  PROVE  Automaton(m + 1, u, Q \cup {cur}, tr2, K2, L2, pos2)
  <1> DEFINE P == Q \cup {cur}
  <1>s. /\ Root \in Q /\ L[Root] = 0
        /\ K \in [Q -> Q] /\ L \in [Q -> Nat] /\ pos \in [Q -> 0..m] /\ DOMAIN tr = Q
        /\ \A q \in Q : L[q] <= pos[q] /\ (q # Root => L[K[q]] < L[q])
    BY DEF Automaton, Shape
  <1>e. /\ g \in Q /\ cur \notin Q /\ Same(u, pos[g], m + 1, L[g])
        /\ K2 \in [P -> Q] /\ K2[cur] = g /\ \A q \in Q : K2[q] = K[q]
        /\ L2 \in [P -> Nat] /\ L2[cur] = m + 1 /\ \A q \in Q : L2[q] = L[q]
        /\ pos2 \in [P -> 0..(m + 1)] /\ pos2[cur] = m + 1 /\ \A q \in Q : pos2[q] = pos[q]
        /\ DOMAIN tr2 = P /\ DOMAIN tr2[cur] = {}
    BY DEF Extends
  <1>n. \A a \in 0..m, l \in Nat : Same(u, a, m + 1, l) => l <= L[g]
    BY DEF Extends
  <1>t. \A q \in Q : IF Same(t, pos[q], m, L[q]) /\ u[m + 1] \notin DOMAIN tr[q]
                     THEN tr2[q] = With(tr[q], u[m + 1], cur) ELSE tr2[q] = tr[q]
    BY DEF Extends
  <1>k. \A a, b \in 0..m, l \in Nat : Same(u, a, b, l) <=> Same(t, a, b, l)
    <2>1. \A i \in 1..m : u[i] = t[i]
      BY DEF Extends
    <2> QED BY <2>1, SameKept
  <1>q. \A q \in Q : pos[q] \in 0..m /\ pos[q] \in Nat /\ L[q] \in Nat /\ K[q] \in Q
    BY <1>s
  <1>h. /\ \A q \in Q, l \in Nat : Has(K2, L2, q, l) <=> Has(K, L, q, l)
        /\ \A l \in Nat : Has(K2, L2, cur, l) <=> l <= m + 1 /\ L[g] < l
    BY <1>s, <1>e, <1>q DEF Has
  <1>1. Shape(m + 1, P, tr2, K2, L2, pos2)
    <2>1. K2 \in [P -> P] /\ L2 \in [P -> Nat] /\ pos2 \in [P -> 0..(m + 1)]
      BY <1>e
    <2>2. L[g] <= m
      BY <1>s, <1>e, <1>q
    <2>3. \A q \in P : L2[q] <= pos2[q] /\ (q # Root => L2[K2[q]] < L2[q])
      BY <1>s, <1>e, <1>q, <2>2
    <2> QED BY <1>s, <1>e, <2>1, <2>3 DEF Shape
  <1>2. Linked(u, P, K2, L2, pos2)
    <2>1. ASSUME NEW q \in Q, q # Root PROVE Same(u, pos2[K2[q]], pos2[q], L2[K2[q]])
      <3>1. Same(t, pos[K[q]], pos[q], L[K[q]])
        BY <2>1 DEF Automaton, Linked
      <3> QED BY <1>e, <1>k, <1>q, <3>1
    <2>2. Same(u, pos2[K2[cur]], pos2[cur], L2[K2[cur]])
      BY <1>e
    <2> QED BY <2>1, <2>2 DEF Linked
  \* A span that ends here and is a string of an old state is a span of g's.
  <1>g. ASSUME NEW q \in Q, NEW l \in Nat, Has(K, L, q, l), Same(u, pos[q], m + 1, l)
        PROVE  l <= L[g] /\ Same(u, pos[q], pos[g], l) /\ Same(u, pos[q], m + 1, L[q])
    <2>1. l <= L[g]
      BY <1>n, <1>q, <1>g
    <2>2. Same(u, pos[g], m + 1, l)
      BY <1>e, <1>q, <2>1, SameLess
    <2>3. Same(u, m + 1, pos[g], l)
      BY <1>e, <1>q, <2>2, SameEqual
    <2>4. Same(u, pos[q], pos[g], l)
      BY <1>e, <1>q, <1>g, <2>3, SameEqual
    <2>5. Same(t, pos[q], pos[g], L[q])
      <3>1. Same(t, pos[q], pos[g], l)
        BY <1>e, <1>k, <1>q, <2>4
      <3> QED BY <1>e, <1>q, <1>g, <3>1 DEF Automaton, Classes
    <2>6. L[q] <= L[g]
      <3>1. SUFFICES ASSUME L[g] < L[q] PROVE FALSE
        BY <1>e, <1>q
      <3>2. Has(K, L, g, L[g])
        BY <1>s, <1>e, <1>q DEF Has
      <3>3. Has(K, L, q, L[g])
        BY <1>e, <1>q, <1>g, <2>1, <3>1 DEF Has
      <3>4. Same(t, pos[q], pos[g], L[g])
        BY <1>e, <1>q, <2>5, <3>1, SameLess
      <3>5. q = g
        BY <1>e, <1>q, <3>2, <3>3, <3>4 DEF Automaton, Unique
      <3> QED BY <1>q, <3>1, <3>5
    <2>7. Same(u, pos[g], m + 1, L[q])
      BY <1>e, <1>q, <2>6, SameLess
    <2>8. Same(u, pos[q], pos[g], L[q])
      BY <1>e, <1>k, <1>q, <2>5
    <2>9. Same(u, pos[q], m + 1, L[q])
      BY <1>e, <1>q, <2>7, <2>8, SameEqual
    <2> QED BY <2>1, <2>4, <2>9
  <1>3. Classes(m + 1, u, P, K2, L2, pos2)
    <2> SUFFICES ASSUME NEW q \in P, NEW a \in 0..(m + 1), NEW l \in Nat,
                        Has(K2, L2, q, l), Same(u, pos2[q], a, l)
                 PROVE  Same(u, pos2[q], a, L2[q])
      BY DEF Classes
    <2>1. CASE q = cur
      <3>1. L[g] < l
        BY <1>h, <2>1
      <3>2. a = m + 1
        <4>1. Same(u, a, m + 1, l)
          BY <1>e, <2>1, SameEqual
        <4> QED BY <1>e, <1>n, <1>q, <3>1, <4>1
      <3> QED BY <1>e, <2>1, <3>2, SameEqual
    <2>2. CASE q \in Q /\ a = m + 1
      BY <1>e, <1>g, <1>h, <2>2
    <2>3. CASE q \in Q /\ a \in 0..m
      <3>1. Same(t, pos[q], a, l) /\ Has(K, L, q, l)
        BY <1>e, <1>h, <1>k, <1>q, <2>3
      <3>2. Same(t, pos[q], a, L[q])
        BY <2>3, <3>1 DEF Automaton, Classes
      <3> QED BY <1>e, <1>k, <1>q, <2>3, <3>2
    <2> QED BY <2>1, <2>2, <2>3
  <1>4. Covered(m + 1, u, P, K2, L2, pos2)
    <2> SUFFICES ASSUME NEW a \in 0..(m + 1), NEW l \in 0..a
                 PROVE  \E q \in P : Has(K2, L2, q, l) /\ Same(u, pos2[q], a, l)
      BY DEF Covered
    <2>1. CASE a \in 0..m
      <3>1. PICK q \in Q : Has(K, L, q, l) /\ Same(t, pos[q], a, l)
        BY <2>1 DEF Automaton, Covered
      <3> QED BY <1>e, <1>h, <1>k, <1>q, <2>1, <3>1
    <2>2. CASE a = m + 1 /\ l <= L[g]
      <3>1. l \in 0..pos[g]
        BY <1>e, <1>s, <1>q, <2>2
      <3>2. PICK q \in Q : Has(K, L, q, l) /\ Same(t, pos[q], pos[g], l)
        BY <1>e, <1>q, <3>1 DEF Automaton, Covered
      <3>3. Same(u, pos[q], pos[g], l)
        BY <1>e, <1>k, <1>q, <3>2
      <3>4. Same(u, pos[g], m + 1, l)
        BY <1>e, <1>q, <2>2, SameLess
      <3>5. Same(u, pos[q], m + 1, l)
        BY <1>e, <1>q, <3>3, <3>4, SameEqual
      <3> QED BY <1>e, <1>h, <2>2, <3>2, <3>5
    <2>3. CASE a = m + 1 /\ ~(l <= L[g])
      <3>1. Has(K2, L2, cur, l)
        BY <1>e, <1>h, <1>q, <2>3
      <3>2. Same(u, pos2[cur], a, l)
        BY <1>e, <2>3, SameEqual
      <3> QED BY <3>1, <3>2
    <2> QED BY <2>1, <2>2, <2>3
  <1>5. Unique(u, P, K2, L2, pos2)
    <2>1. ASSUME NEW q \in Q, NEW l \in Nat, Has(K2, L2, q, l), Has(K2, L2, cur, l)
          PROVE  ~Same(u, pos[q], m + 1, l)
      BY <1>e, <1>h, <1>n, <1>q, <2>1
    <2> SUFFICES ASSUME NEW q \in P, NEW r \in P, NEW l \in Nat, Has(K2, L2, q, l), Has(K2, L2, r, l),
                        Same(u, pos2[q], pos2[r], l)
                 PROVE  q = r
      BY DEF Unique
    <2>2. CASE q \in Q /\ r \in Q
      <3>1. Has(K, L, q, l) /\ Has(K, L, r, l) /\ Same(t, pos[q], pos[r], l)
        BY <1>e, <1>h, <1>k, <1>q, <2>2
      <3> QED BY <2>2, <3>1 DEF Automaton, Unique
    <2>3. CASE q \in Q /\ r = cur
      BY <1>e, <2>1, <2>3
    <2>4. CASE q = cur /\ r \in Q
      <3>1. Same(u, pos[r], m + 1, l)
        BY <1>e, <1>q, <2>4, SameEqual
      <3> QED BY <2>1, <2>4, <3>1
    <2> QED BY <2>2, <2>3, <2>4
  <1>6. Transitions(m + 1, u, P, tr2, K2, L2, pos2)
    <2> SUFFICES ASSUME NEW q \in Q, NEW x \in DOMAIN tr2[q]
                 PROVE  tr2[q][x] \in P /\ Leads(m + 1, u, q, x, tr2[q][x], K2, L2, pos2)
      BY <1>e DEF Transitions
    <2>1. CASE x \in DOMAIN tr[q] /\ tr2[q][x] = tr[q][x]
      <3> DEFINE s == tr[q][x]
      <3>1. s \in Q /\ Leads(m, t, q, x, s, K, L, pos)
        BY <2>1 DEF Automaton, Transitions
      <3>2. PICK a \in 1..m : /\ t[a] = x /\ Same(t, pos[q], a - 1, L[q])
                              /\ Has(K, L, s, L[q] + 1) /\ Same(t, pos[s], a, L[q] + 1)
        BY <3>1 DEF Leads
      <3> HIDE DEF s
      <3>3. u[a] = x
        BY <3>2 DEF Extends
      <3>4. Same(u, pos[q], a - 1, L[q]) /\ Same(u, pos[s], a, L[q] + 1)
        BY <1>k, <1>q, <3>1, <3>2
      <3>5. Leads(m + 1, u, q, x, s, K2, L2, pos2)
        BY <1>e, <1>h, <1>q, <3>1, <3>2, <3>3, <3>4 DEF Leads
      <3> QED BY <2>1, <3>1, <3>5 DEF s
    <2>2. CASE /\ Same(t, pos[q], m, L[q]) /\ u[m + 1] \notin DOMAIN tr[q]
               /\ x = u[m + 1] /\ tr2[q][x] = cur
      <3>1. Same(u, pos[q], m, L[q])
        BY <1>k, <1>q, <2>2
      <3>2. L[g] <= L[q]
        <4>1. SUFFICES ASSUME L[q] < L[g] PROVE FALSE
          BY <1>e, <1>q
        <4>2. Same(u, pos[g], m + 1, L[q] + 1)
          BY <1>e, <1>q, <4>1, SameLess
        <4>a. pos[g] \in 0..m /\ pos[g] \in Nat /\ m + 1 \in Nat /\ L[q] \in Nat
          BY <1>e, <1>q
        <4> DEFINE c == pos[g]  n == m + 1  k == L[q] + 1
        <4>b. c \in Nat /\ n \in Nat /\ k \in Nat \ {0} /\ Same(u, c, n, k)
          BY <4>2, <4>a
        <4>c. n - 1 = m /\ k - 1 = L[q]
          BY <4>a
        <4> HIDE DEF c, n, k
        <4>d. c # 0 /\ u[c] = u[n] /\ Same(u, c - 1, n - 1, k - 1)
          BY <4>b, SameCut
        <4> USE DEF c, n, k
        <4>3. pos[g] \in 1..m /\ u[pos[g]] = u[m + 1] /\ pos[g] - 1 \in Nat
              /\ Same(u, pos[g] - 1, m, L[q])
          BY <4>a, <4>c, <4>d
        <4>4. Same(u, m, pos[g] - 1, L[q])
          BY <1>q, <4>3, SameEqual
        <4>5. Same(u, pos[q], pos[g] - 1, L[q])
          BY <1>q, <3>1, <4>3, <4>4, SameEqual
        <4>6. Same(t, pos[q], pos[g] - 1, L[q])
          BY <1>k, <1>q, <4>3, <4>5
        <4>7. t[pos[g]] \in DOMAIN tr[q]
          BY <4>3, <4>6 DEF Automaton, Followed
        <4>8. t[pos[g]] = u[m + 1]
          BY <4>3 DEF Extends
        <4> QED BY <2>2, <4>7, <4>8
      <3>3. L[q] <= m
        BY <1>q, <3>1, SameEqual
      <3>4. Has(K2, L2, cur, L[q] + 1)
        BY <1>e, <1>h, <1>q, <3>2, <3>3
      <3>5. Same(u, m + 1, m + 1, L[q] + 1)
        BY <1>q, <3>3, SameEqual
      <3>6. m + 1 \in 1..(m + 1) /\ u[m + 1] = x /\ (m + 1) - 1 = m
        BY <2>2
      <3>7. Leads(m + 1, u, q, x, cur, K2, L2, pos2)
        BY <1>e, <3>1, <3>4, <3>5, <3>6 DEF Leads
      <3> QED BY <2>2, <3>7
    <2> QED BY <1>t, <2>1, <2>2 DEF With
  <1>7. Followed(m + 1, u, P, tr2, L2, pos2)
    <2> SUFFICES ASSUME NEW q \in P, NEW a \in 1..(m + 1), Same(u, pos2[q], a - 1, L2[q])
                 PROVE  u[a] \in DOMAIN tr2[q]
      BY DEF Followed
    <2>0. a - 1 \in Nat /\ a - 1 \in 0..m
      OBVIOUS
    <2>1. q \in Q
      <3>1. SUFFICES ASSUME q = cur PROVE FALSE
        OBVIOUS
      <3>2. m + 1 <= a - 1
        BY <1>e, <2>0, <3>1, SameEqual
      <3> QED BY <3>2
    <2>2. Same(t, pos[q], a - 1, L[q])
      BY <1>e, <1>k, <1>q, <2>0, <2>1
    <2>3. CASE a \in 1..m
      <3>1. t[a] \in DOMAIN tr[q] /\ u[a] = t[a]
        BY <2>1, <2>2, <2>3 DEF Automaton, Followed, Extends
      <3> QED BY <1>t, <2>1, <3>1 DEF With
    <2>4. CASE a = m + 1
      <3>1. Same(t, pos[q], m, L[q]) /\ u[a] = u[m + 1]
        BY <2>2, <2>4
      <3>2. u[m + 1] \in DOMAIN tr2[q]
        BY <1>t, <2>1, <3>1 DEF With
      <3> QED BY <3>1, <3>2
    <2> QED BY <2>3, <2>4
  <1> QED BY <1>1, <1>2, <1>3, <1>4, <1>5, <1>6, <1>7 DEF Automaton

\* The strings of z up to the length b go to a state c of their own, with those
\* transitions to z that lead to one of them.
Splits(m, t, Q, tr, K, L, pos, z, b, c, tr2, K2, L2, pos2) ==
  /\ z \in Q /\ z # Root /\ c \notin Q /\ b \in Nat /\ L[K[z]] < b /\ b < L[z]
  /\ K2 \in [Q \cup {c} -> Q \cup {c}] /\ K2[c] = K[z] /\ K2[z] = c
  /\ \A q \in Q : q # z => K2[q] = K[q]
  /\ L2 \in [Q \cup {c} -> Nat] /\ L2[c] = b /\ \A q \in Q : L2[q] = L[q]
  /\ pos2 \in [Q \cup {c} -> 0..m] /\ pos2[c] = pos[z] /\ \A q \in Q : pos2[q] = pos[q]
  /\ DOMAIN tr2 = Q \cup {c} /\ tr2[c] = tr[z]
  /\ \A q \in Q : IF t[pos[z]] \in DOMAIN tr[q] /\ tr[q][t[pos[z]]] = z /\ L[q] < b
                  THEN tr2[q] = With(tr[q], t[pos[z]], c) ELSE tr2[q] = tr[q]

\* It is still an automaton of the text.
LEMMA SplitAutomaton ==
  ASSUME NEW m \in Nat, NEW t, NEW Q, NEW tr, NEW K, NEW L, NEW pos, NEW z, NEW b, NEW c,
         NEW tr2, NEW K2, NEW L2, NEW pos2,
         Automaton(m, t, Q, tr, K, L, pos), Proper(m, t, Q, K, L, pos),
         Splits(m, t, Q, tr, K, L, pos, z, b, c, tr2, K2, L2, pos2)
  PROVE  Automaton(m, t, Q \cup {c}, tr2, K2, L2, pos2)
  <1> DEFINE P == Q \cup {c}
             x0 == t[pos[z]]
  <1>s. /\ Root \in Q /\ L[Root] = 0
        /\ K \in [Q -> Q] /\ L \in [Q -> Nat] /\ pos \in [Q -> 0..m] /\ DOMAIN tr = Q
        /\ \A q \in Q : L[q] <= pos[q] /\ (q # Root => L[K[q]] < L[q])
    BY DEF Automaton, Shape
  <1>e. /\ z \in Q /\ z # Root /\ c \notin Q /\ b \in Nat /\ L[K[z]] < b /\ b < L[z]
        /\ K2 \in [P -> P] /\ K2[c] = K[z] /\ K2[z] = c /\ \A q \in Q : q # z => K2[q] = K[q]
        /\ L2 \in [P -> Nat] /\ L2[c] = b /\ \A q \in Q : L2[q] = L[q]
        /\ pos2 \in [P -> 0..m] /\ pos2[c] = pos[z] /\ \A q \in Q : pos2[q] = pos[q]
        /\ DOMAIN tr2 = P /\ tr2[c] = tr[z]
    BY DEF Splits
  <1>t. \A q \in Q : IF x0 \in DOMAIN tr[q] /\ tr[q][x0] = z /\ L[q] < b
                     THEN tr2[q] = With(tr[q], x0, c) ELSE tr2[q] = tr[q]
    BY DEF Splits
  <1>q. \A q \in Q : pos[q] \in 0..m /\ pos[q] \in Nat /\ L[q] \in Nat /\ K[q] \in Q
    BY <1>s
  <1>p. \A q \in P : pos2[q] \in 0..m /\ pos2[q] \in Nat /\ L2[q] \in Nat
    BY <1>e, <1>q
  <1>h. /\ \A q \in Q, l \in Nat : q # z => (Has(K2, L2, q, l) <=> Has(K, L, q, l))
        /\ \A l \in Nat : Has(K2, L2, z, l) <=> Has(K, L, z, l) /\ b < l
        /\ \A l \in Nat : Has(K2, L2, c, l) <=> Has(K, L, z, l) /\ l <= b
    BY <1>s, <1>e, <1>q DEF Has
  <1> HIDE DEF x0
  <1>1. Shape(m, P, tr2, K2, L2, pos2)
    <2>1. pos2 \in [P -> 0..m]
      BY <1>e
    <2>2. \A q \in P : L2[q] <= pos2[q] /\ (q # Root => L2[K2[q]] < L2[q])
      BY <1>s, <1>e, <1>q
    <2> QED BY <1>s, <1>e, <2>1, <2>2 DEF Shape
  <1>2. Linked(t, P, K2, L2, pos2)
    <2>1. ASSUME NEW q \in Q, q # Root PROVE Same(t, pos[K[q]], pos[q], L[K[q]])
      BY <2>1 DEF Automaton, Linked
    <2>2. ASSUME NEW q \in Q, q # Root, q # z PROVE Same(t, pos2[K2[q]], pos2[q], L2[K2[q]])
      BY <1>e, <1>q, <2>1, <2>2
    <2>3. Same(t, pos2[K2[c]], pos2[c], L2[K2[c]])
      BY <1>e, <1>q, <2>1
    <2>4. Same(t, pos2[K2[z]], pos2[z], L2[K2[z]])
      <3>1. b <= pos[z]
        BY <1>s, <1>e, <1>q
      <3> QED BY <1>e, <1>q, <3>1, SameEqual
    <2> QED BY <2>2, <2>3, <2>4 DEF Linked
  <1>3. Classes(m, t, P, K2, L2, pos2)
    <2>1. ASSUME NEW q \in Q, NEW a \in 0..m, NEW l \in Nat, Has(K, L, q, l), Same(t, pos[q], a, l)
          PROVE  Same(t, pos[q], a, L[q])
      BY <2>1 DEF Automaton, Classes
    <2> SUFFICES ASSUME NEW q \in P, NEW a \in 0..m, NEW l \in Nat,
                        Has(K2, L2, q, l), Same(t, pos2[q], a, l)
                 PROVE  Same(t, pos2[q], a, L2[q])
      BY DEF Classes
    <2>2. CASE q \in Q
      BY <1>e, <1>h, <2>1, <2>2
    <2>3. CASE q = c
      <3>1. Same(t, pos[z], a, L[z])
        BY <1>e, <1>h, <2>1, <2>3
      <3>2. Same(t, pos[z], a, b)
        BY <1>e, <1>q, <3>1, SameLess
      <3> QED BY <1>e, <2>3, <3>2
    <2> QED BY <2>2, <2>3
  <1>4. Covered(m, t, P, K2, L2, pos2)
    <2> SUFFICES ASSUME NEW a \in 0..m, NEW l \in 0..a
                 PROVE  \E q \in P : Has(K2, L2, q, l) /\ Same(t, pos2[q], a, l)
      BY DEF Covered
    <2>1. PICK q \in Q : Has(K, L, q, l) /\ Same(t, pos[q], a, l)
      BY DEF Automaton, Covered
    <2>2. CASE q # z
      BY <1>e, <1>h, <2>1, <2>2
    <2>3. CASE q = z /\ b < l
      BY <1>e, <1>h, <2>1, <2>3
    <2>4. CASE q = z /\ ~(b < l)
      <3>1. Has(K2, L2, c, l)
        BY <1>e, <1>h, <2>1, <2>4
      <3>2. Same(t, pos2[c], a, l)
        BY <1>e, <2>1, <2>4
      <3> QED BY <3>1, <3>2
    <2> QED BY <2>2, <2>3, <2>4
  <1>5. Unique(t, P, K2, L2, pos2)
    <2> DEFINE O(q) == IF q = c THEN z ELSE q
    <2>1. \A q \in P, l \in Nat : O(q) \in Q /\ pos2[q] = pos[O(q)]
          /\ (Has(K2, L2, q, l) => Has(K, L, O(q), l))
      BY <1>e, <1>h
    <2> SUFFICES ASSUME NEW q \in P, NEW r \in P, NEW l \in Nat, Has(K2, L2, q, l), Has(K2, L2, r, l),
                        Same(t, pos2[q], pos2[r], l)
                 PROVE  q = r
      BY DEF Unique
    <2>2. /\ O(q) \in Q /\ O(r) \in Q /\ Has(K, L, O(q), l) /\ Has(K, L, O(r), l)
          /\ Same(t, pos[O(q)], pos[O(r)], l)
      BY <2>1
    <2>3. O(q) = O(r)
      <3> HIDE DEF O
      <3> QED BY <2>2 DEF Automaton, Unique
    <2> QED BY <1>e, <1>h, <2>3
  <1>6. Transitions(m, t, P, tr2, K2, L2, pos2)
    <2>1. ASSUME NEW q \in Q, NEW x \in DOMAIN tr[q]
          PROVE  /\ tr[q][x] \in Q
                 /\ \E a \in 1..m : /\ t[a] = x /\ Same(t, pos[q], a - 1, L[q])
                                    /\ Has(K, L, tr[q][x], L[q] + 1)
                                    /\ Same(t, pos[tr[q][x]], a, L[q] + 1)
      BY <2>1 DEF Automaton, Transitions, Leads
    <2>2. ASSUME NEW q \in Q, NEW x \in DOMAIN tr2[q]
          PROVE  tr2[q][x] \in P /\ Leads(m, t, q, x, tr2[q][x], K2, L2, pos2)
      <3>1. x \in DOMAIN tr[q]
        BY <1>t DEF With
      <3>2. PICK a \in 1..m : /\ t[a] = x /\ Same(t, pos[q], a - 1, L[q])
                              /\ Has(K, L, tr[q][x], L[q] + 1) /\ Same(t, pos[tr[q][x]], a, L[q] + 1)
        BY <2>1, <3>1
      <3>3. tr[q][x] \in Q
        BY <2>1, <3>1
      <3>4. CASE tr[q][x] # z
        <4>1. tr2[q][x] = tr[q][x]
          BY <1>t, <3>1, <3>4 DEF With
        <4>2. Has(K2, L2, tr[q][x], L[q] + 1)
          BY <1>h, <1>q, <3>2, <3>3, <3>4
        <4> QED BY <1>e, <3>2, <3>3, <4>1, <4>2 DEF Leads
      <3>5. CASE tr[q][x] = z
        <4>1. x = x0
          <5>1. Same(t, pos[z], a, L[q] + 1)
            BY <3>2, <3>5
          <5> DEFINE k == L[q] + 1
          <5>2. k \in Nat \ {0} /\ Same(t, pos[z], a, k) /\ pos[z] \in Nat /\ a \in Nat
            BY <1>e, <1>q, <5>1
          <5> HIDE DEF k
          <5>3. t[pos[z]] = t[a]
            BY <5>2, SameCut
          <5> QED BY <3>2, <5>3 DEF x0
        <4>2. CASE L[q] < b
          <5>1. tr2[q][x] = c
            BY <1>t, <3>1, <3>5, <4>1, <4>2 DEF With
          <5>2. Has(K2, L2, c, L[q] + 1)
            BY <1>e, <1>h, <1>q, <3>2, <3>5, <4>2
          <5>3. Same(t, pos2[c], a, L2[q] + 1) /\ Same(t, pos2[q], a - 1, L2[q])
            BY <1>e, <3>2, <3>5
          <5> QED BY <1>e, <3>2, <5>1, <5>2, <5>3 DEF Leads
        <4>3. CASE ~(L[q] < b)
          <5>1. tr2[q][x] = z
            BY <1>t, <3>1, <3>5, <4>3
          <5>2. Has(K2, L2, z, L[q] + 1)
            BY <1>e, <1>h, <1>q, <3>2, <3>5, <4>3
          <5>3. Same(t, pos2[z], a, L2[q] + 1) /\ Same(t, pos2[q], a - 1, L2[q])
            BY <1>e, <3>2, <3>5
          <5> QED BY <1>e, <3>2, <5>1, <5>2, <5>3 DEF Leads
        <4> QED BY <4>2, <4>3
      <3> QED BY <3>4, <3>5
    <2>3. ASSUME NEW x \in DOMAIN tr2[c]
          PROVE  tr2[c][x] \in P /\ Leads(m, t, c, x, tr2[c][x], K2, L2, pos2)
      <3> DEFINE y == tr[z][x]
      <3>1. x \in DOMAIN tr[z] /\ tr2[c][x] = y
        BY <1>e
      <3>2. PICK a \in 1..m : /\ t[a] = x /\ Same(t, pos[z], a - 1, L[z])
                              /\ Has(K, L, y, L[z] + 1) /\ Same(t, pos[y], a, L[z] + 1)
        BY <1>e, <2>1, <3>1
      <3>3. y \in Q
        BY <1>e, <2>1, <3>1
      <3> HIDE DEF y
      <3>4. y # z /\ y # Root /\ L[z] + 1 <= L[y]
        BY <1>s, <1>e, <1>q, <3>2, <3>3 DEF Has
      <3>5. L[K[y]] < b + 1
        <4>1. SUFFICES ASSUME b + 1 <= L[K[y]] PROVE FALSE
          BY <1>e, <1>q, <3>3
        <4>2. PICK d \in 0..m : Same(t, pos[y], d, L[K[y]]) /\ ~Same(t, pos[y], d, L[y])
          BY <3>3, <3>4 DEF Proper
        <4>3. Same(t, pos[y], d, b + 1)
          BY <1>e, <1>q, <3>3, <4>1, <4>2, SameLess
        <4>4. Same(t, pos[y], a, b + 1)
          BY <1>e, <1>q, <3>2, <3>3, SameLess
        <4> DEFINE k == b + 1
        <4>5. k \in Nat \ {0} /\ k - 1 = b /\ Same(t, pos[y], d, k) /\ Same(t, pos[y], a, k)
              /\ pos[y] \in Nat /\ a \in Nat /\ d \in Nat
          BY <1>e, <1>q, <3>3, <4>3, <4>4
        <4> HIDE DEF k
        <4>6. Same(t, a, d, k)
          BY <4>5, SameEqual
        <4>7. t[a] = t[d] /\ d # 0 /\ a - 1 \in Nat /\ d - 1 \in Nat /\ Same(t, a - 1, d - 1, b)
          BY <4>5, <4>6, SameCut
        <4>8. Same(t, pos[z], a - 1, b)
          BY <1>e, <1>q, <3>2, <4>7, SameLess
        <4>9. Same(t, pos[z], d - 1, b)
          BY <1>e, <1>q, <4>7, <4>8, SameEqual
        <4>10. Has(K, L, z, b) /\ d - 1 \in 0..m
          BY <1>e, <1>q, <4>7 DEF Has
        <4>11. Same(t, pos[z], d - 1, L[z])
          BY <1>e, <4>9, <4>10 DEF Automaton, Classes
        <4>12. Same(t, d - 1, pos[z], L[z])
          BY <1>e, <1>q, <4>7, <4>11, SameEqual
        <4>13. Same(t, d - 1, a - 1, L[z])
          BY <1>e, <1>q, <3>2, <4>7, <4>12, SameEqual
        <4>14. Same(t, a - 1, d - 1, L[z])
          BY <1>e, <1>q, <4>7, <4>13, SameEqual
        <4>15. Same(t, a, d, L[z] + 1)
          <5> DEFINE i == a - 1  j == d - 1
          <5>1. i \in Nat /\ j \in Nat /\ i + 1 = a /\ j + 1 = d /\ L[z] \in Nat
            BY <1>e, <1>q, <4>5, <4>7
          <5>2. Same(t, i, j, L[z]) /\ t[i + 1] = t[j + 1]
            BY <4>7, <4>14, <5>1
          <5> HIDE DEF i, j
          <5>3. Same(t, i + 1, j + 1, L[z] + 1)
            BY <5>1, <5>2, SameMore
          <5> QED BY <5>1, <5>3
        <4>16. Same(t, pos[y], d, L[z] + 1)
          <5>1. L[z] + 1 \in Nat
            BY <1>e, <1>q
          <5> QED BY <3>2, <4>5, <4>15, <5>1, SameEqual
        <4>17. Same(t, pos[y], d, L[y])
          <5>1. L[z] + 1 \in Nat
            BY <1>e, <1>q
          <5> QED BY <3>2, <3>3, <4>2, <4>16, <5>1 DEF Automaton, Classes
        <4> QED BY <4>2, <4>17
      <3>6. Has(K2, L2, y, b + 1)
        <4>1. Has(K, L, y, b + 1) /\ b + 1 \in Nat
          BY <1>e, <1>q, <3>3, <3>4, <3>5 DEF Has
        <4> QED BY <1>h, <3>3, <3>4, <4>1
      <3>7. Same(t, pos[z], a - 1, b) /\ Same(t, pos[y], a, b + 1)
        <4>1. a \in Nat /\ a - 1 \in Nat /\ b + 1 \in Nat /\ L[z] + 1 \in Nat /\ b + 1 <= L[z] + 1
          BY <1>e, <1>q
        <4>2. Same(t, pos[z], a - 1, b)
          BY <1>e, <1>q, <3>2, <4>1, SameLess
        <4>3. Same(t, pos[y], a, b + 1)
          BY <1>q, <3>2, <3>3, <4>1, SameLess
        <4> QED BY <4>2, <4>3
      <3>8. Leads(m, t, c, x, y, K2, L2, pos2)
        BY <1>e, <3>2, <3>3, <3>6, <3>7 DEF Leads
      <3> QED BY <3>1, <3>3, <3>8
    <2> QED BY <2>2, <2>3 DEF Transitions
  <1>7. Followed(m, t, P, tr2, L2, pos2)
    <2> SUFFICES ASSUME NEW q \in P, NEW a \in 1..m, Same(t, pos2[q], a - 1, L2[q])
                 PROVE  t[a] \in DOMAIN tr2[q]
      BY DEF Followed
    <2>0. a - 1 \in Nat /\ a - 1 \in 0..m
      OBVIOUS
    <2>f. ASSUME NEW r \in Q, Same(t, pos[r], a - 1, L[r]) PROVE t[a] \in DOMAIN tr[r]
      BY <2>f DEF Automaton, Followed
    <2>1. CASE q \in Q
      <3>1. t[a] \in DOMAIN tr[q]
        BY <1>e, <2>1, <2>f
      <3> QED BY <1>t, <2>1, <3>1 DEF With
    <2>2. CASE q = c
      <3>1. Same(t, pos[z], a - 1, b) /\ Has(K, L, z, b)
        BY <1>e, <1>q, <2>2 DEF Has
      <3>2. Same(t, pos[z], a - 1, L[z])
        BY <1>e, <2>0, <3>1 DEF Automaton, Classes
      <3> QED BY <1>e, <2>2, <2>f, <3>2
    <2> QED BY <2>1, <2>2
  <1> QED BY <1>1, <1>2, <1>3, <1>4, <1>5, <1>6, <1>7 DEF Automaton

\* Every state's strings end at fewer places than those of the state it links to, but
\* for states linked to g that share its place.
NearlyProper(m, t, Q, K, L, pos, g) ==
  \A q \in Q : q # Root =>
    \/ \E a \in 0..m : Same(t, pos[q], a, L[K[q]]) /\ ~Same(t, pos[q], a, L[q])
    \/ K[q] = g /\ pos[q] = pos[g]

\* The text has gone on behind g's longest string, and not behind the longer ones.
LEMMA ExtendedProper ==
  ASSUME NEW m \in Nat, NEW t, NEW u, NEW Q, NEW tr, NEW K, NEW L, NEW pos, NEW cur, NEW g,
         NEW tr2, NEW K2, NEW L2, NEW pos2,
         Shape(m, Q, tr, K, L, pos), NearlyProper(m, t, Q, K, L, pos, g),
         Extends(m, t, u, Q, tr, K, L, pos, cur, g, tr2, K2, L2, pos2)
  PROVE  Proper(m + 1, u, Q \cup {cur}, K2, L2, pos2)
  <1>s. \A q \in Q : pos[q] \in 0..m /\ pos[q] \in Nat /\ L[q] \in Nat /\ K[q] \in Q
                     /\ L[q] <= pos[q] /\ (q # Root => L[K[q]] < L[q])
    BY DEF Shape
  <1>e. /\ g \in Q /\ cur \notin Q /\ Same(u, pos[g], m + 1, L[g])
        /\ K2[cur] = g /\ \A q \in Q : K2[q] = K[q]
        /\ L2[cur] = m + 1 /\ \A q \in Q : L2[q] = L[q]
        /\ pos2[cur] = m + 1 /\ \A q \in Q : pos2[q] = pos[q]
    BY DEF Extends
  <1>n. \A a \in 0..m, l \in Nat : Same(u, a, m + 1, l) => l <= L[g]
    BY DEF Extends
  <1>k. \A a, b \in 0..m, l \in Nat : Same(u, a, b, l) <=> Same(t, a, b, l)
    <2>1. \A i \in 1..m : u[i] = t[i]
      BY DEF Extends
    <2> QED BY <2>1, SameKept
  <1>1. ASSUME NEW q \in Q, q # Root
        PROVE  \E a \in 0..(m + 1) : Same(u, pos2[q], a, L2[K2[q]]) /\ ~Same(u, pos2[q], a, L2[q])
    <2>1. CASE \E a \in 0..m : Same(t, pos[q], a, L[K[q]]) /\ ~Same(t, pos[q], a, L[q])
      <3>1. PICK a \in 0..m : Same(t, pos[q], a, L[K[q]]) /\ ~Same(t, pos[q], a, L[q])
        BY <2>1
      <3>2. Same(u, pos[q], a, L[K[q]]) /\ ~Same(u, pos[q], a, L[q])
        BY <1>k, <1>s, <3>1
      <3>3. a \in 0..(m + 1)
        OBVIOUS
      <3> QED BY <1>e, <1>s, <3>2, <3>3
    <2>2. CASE K[q] = g /\ pos[q] = pos[g]
      <3>1. Same(u, pos[q], m + 1, L[g]) /\ ~Same(u, pos[q], m + 1, L[q])
        BY <1>e, <1>n, <1>s, <1>1, <2>2
      <3>2. m + 1 \in 0..(m + 1)
        OBVIOUS
      <3> QED BY <1>e, <1>s, <2>2, <3>1, <3>2
    <2> QED BY <1>1, <2>1, <2>2 DEF NearlyProper
  <1>2. \E a \in 0..(m + 1) : Same(u, pos2[cur], a, L2[K2[cur]]) /\ ~Same(u, pos2[cur], a, L2[cur])
    <2>1. Same(u, m + 1, pos[g], L[g])
      BY <1>e, <1>s, SameEqual
    <2>2. ~Same(u, m + 1, pos[g], m + 1)
      BY <1>e, <1>s DEF Same
    <2>3. pos[g] \in 0..(m + 1)
      BY <1>e, <1>s
    <2> QED BY <1>e, <2>1, <2>2, <2>3
  <1> QED BY <1>1, <1>2 DEF Proper

\* Once z is split only its upper part is still to be told apart from the lower one.
LEMMA SplitProper ==
  ASSUME NEW m \in Nat, NEW t, NEW Q, NEW tr, NEW K, NEW L, NEW pos, NEW z, NEW b, NEW c,
         NEW tr2, NEW K2, NEW L2, NEW pos2,
         Automaton(m, t, Q, tr, K, L, pos), Proper(m, t, Q, K, L, pos),
         Splits(m, t, Q, tr, K, L, pos, z, b, c, tr2, K2, L2, pos2)
  PROVE  NearlyProper(m, t, Q \cup {c}, K2, L2, pos2, c)
  <1>s. \A q \in Q : pos[q] \in 0..m /\ pos[q] \in Nat /\ L[q] \in Nat /\ K[q] \in Q
    BY DEF Automaton, Shape
  <1>e. /\ z \in Q /\ z # Root /\ c \notin Q /\ b \in Nat /\ L[K[z]] < b /\ b < L[z]
        /\ K2[c] = K[z] /\ K2[z] = c /\ \A q \in Q : q # z => K2[q] = K[q]
        /\ L2[c] = b /\ \A q \in Q : L2[q] = L[q]
        /\ pos2[c] = pos[z] /\ \A q \in Q : pos2[q] = pos[q]
    BY DEF Splits
  <1>1. ASSUME NEW q \in Q, q # Root, q # z
        PROVE  \E a \in 0..m : Same(t, pos2[q], a, L2[K2[q]]) /\ ~Same(t, pos2[q], a, L2[q])
    <2>1. PICK a \in 0..m : Same(t, pos[q], a, L[K[q]]) /\ ~Same(t, pos[q], a, L[q])
      BY <1>1 DEF Proper
    <2> QED BY <1>e, <1>s, <1>1, <2>1
  <1>2. \E a \in 0..m : Same(t, pos2[c], a, L2[K2[c]]) /\ ~Same(t, pos2[c], a, L2[c])
    <2>1. PICK a \in 0..m : Same(t, pos[z], a, L[K[z]]) /\ ~Same(t, pos[z], a, L[z])
      BY <1>e DEF Proper
    <2>2. Has(K, L, z, b)
      BY <1>e, <1>s DEF Has
    <2>3. ~Same(t, pos[z], a, b)
      BY <1>e, <2>1, <2>2 DEF Automaton, Classes
    <2> QED BY <1>e, <1>s, <2>1, <2>3
  <1>3. K2[z] = c /\ pos2[z] = pos2[c]
    BY <1>e
  <1> QED BY <1>1, <1>2, <1>3 DEF NearlyProper

\* A new longest string begins the text,
LEMMA ExtendedBegins ==
  ASSUME NEW m \in Nat, NEW t, NEW u, NEW Q, NEW tr, NEW K, NEW L, NEW pos, NEW cur, NEW g,
         NEW tr2, NEW K2, NEW L2, NEW pos2, NEW o, NEW o2,
         Shape(m, Q, tr, K, L, pos), Begins(t, Q, L, pos, o),
         Extends(m, t, u, Q, tr, K, L, pos, cur, g, tr2, K2, L2, pos2),
         o2 \in [Q \cup {cur} -> {0, 1}], o2[cur] = 1, \A q \in Q : o2[q] = o[q]
  PROVE  Begins(u, Q \cup {cur}, L2, pos2, o2)
  <1>s. \A q \in Q : pos[q] \in 0..m /\ L[q] \in Nat /\ L[q] \in 0..m
    BY DEF Shape
  <1>e. /\ cur \notin Q /\ Root \in Q
        /\ L2[cur] = m + 1 /\ \A q \in Q : L2[q] = L[q]
        /\ pos2[cur] = m + 1 /\ \A q \in Q : pos2[q] = pos[q]
    BY DEF Extends, Shape
  <1>k. \A a, b \in 0..m, l \in Nat : Same(u, a, b, l) <=> Same(t, a, b, l)
    <2>1. \A i \in 1..m : u[i] = t[i]
      BY DEF Extends
    <2> QED BY <2>1, SameKept
  <1>1. \A q \in Q : o2[q] = 1 <=> q # Root /\ Same(u, pos2[q], L2[q], L2[q])
    BY <1>e, <1>k, <1>s DEF Begins
  <1>2. Same(u, m + 1, m + 1, m + 1)
    BY SameEqual
  <1>3. o2[cur] = 1 /\ cur # Root /\ Same(u, pos2[cur], L2[cur], L2[cur])
    BY <1>e, <1>2
  <1> QED BY <1>1, <1>3 DEF Begins

\* and the longest string of a lower part does not: z's longer one would.
LEMMA SplitBegins ==
  ASSUME NEW m \in Nat, NEW t, NEW Q, NEW tr, NEW K, NEW L, NEW pos, NEW z, NEW b, NEW c,
         NEW tr2, NEW K2, NEW L2, NEW pos2, NEW o, NEW o2,
         Automaton(m, t, Q, tr, K, L, pos), Begins(t, Q, L, pos, o),
         Splits(m, t, Q, tr, K, L, pos, z, b, c, tr2, K2, L2, pos2),
         o2 \in [Q \cup {c} -> {0, 1}], o2[c] = 0, \A q \in Q : o2[q] = o[q]
  PROVE  Begins(t, Q \cup {c}, L2, pos2, o2)
  <1>s. \A q \in Q : pos[q] \in 0..m /\ pos[q] \in Nat /\ L[q] \in Nat /\ L[q] <= pos[q]
    BY DEF Automaton, Shape
  <1>e. /\ z \in Q /\ c \notin Q /\ b \in Nat /\ L[K[z]] < b /\ b < L[z]
        /\ L2[c] = b /\ \A q \in Q : L2[q] = L[q]
        /\ pos2[c] = pos[z] /\ \A q \in Q : pos2[q] = pos[q]
    BY DEF Splits
  <1>1. \A q \in Q : o2[q] = 1 <=> q # Root /\ Same(t, pos2[q], L2[q], L2[q])
    BY <1>e DEF Begins
  <1>2. ~Same(t, pos[z], b, b)
    <2>1. SUFFICES ASSUME Same(t, pos[z], b, b) PROVE FALSE
      OBVIOUS
    <2>2. Has(K, L, z, b) /\ b \in 0..m
      BY <1>e, <1>s DEF Has
    <2>3. Same(t, pos[z], b, L[z])
      BY <1>e, <2>1, <2>2 DEF Automaton, Classes
    <2> QED BY <1>e, <1>s, <2>3 DEF Same
  <1>3. ~(o2[c] = 1) /\ ~Same(t, pos2[c], L2[c], L2[c])
    BY <1>e, <1>2
  <1> QED BY <1>1, <1>3 DEF Begins
-----------------------------------------------------------------------------
(* Following the links. *)

\* SameMore and SameCut, with names for the places and lengths.
LEMMA SameUp ==
  ASSUME NEW t, NEW a \in Nat, NEW b \in Nat, NEW l \in Nat, NEW i \in Nat, NEW j \in Nat,
         NEW k \in Nat,
         i = a + 1, j = b + 1, k = l + 1, Same(t, a, b, l), t[i] = t[j]
  PROVE  Same(t, i, j, k)
  BY SameMore

\* Likewise for the spans without their last character.
LEMMA SameDown ==
  ASSUME NEW t, NEW a \in Nat, NEW b \in Nat, NEW l \in Nat, NEW i \in Nat, NEW j \in Nat,
         NEW k \in Nat,
         i = a + 1, j = b + 1, k = l + 1, Same(t, i, j, k)
  PROVE  Same(t, a, b, l) /\ t[i] = t[j]
  <1>1. k \in Nat \ {0} /\ i - 1 = a /\ j - 1 = b /\ k - 1 = l
    OBVIOUS
  <1>2. Same(t, i - 1, j - 1, k - 1) /\ t[i] = t[j]
    BY <1>1, SameCut
  <1> QED BY <1>1, <1>2

\* The states that the links lead to from q, and q: those whose strings are suffixes.
SuffixStates(t, Q, L, pos, q) == {p \in Q : L[p] <= L[q] /\ Same(t, pos[p], pos[q], L[p])}

\* The facts about the shape, in the form the steps below use.
LEMMA ShapeFacts ==
  ASSUME NEW m \in Nat, NEW Q, NEW tr, NEW K, NEW L, NEW pos, Shape(m, Q, tr, K, L, pos)
  PROVE  /\ Root \in Q /\ L[Root] = 0
         /\ \A q \in Q : /\ pos[q] \in 0..m /\ pos[q] \in Nat /\ L[q] \in Nat /\ K[q] \in Q
                         /\ L[q] <= pos[q] /\ (q # Root => L[K[q]] < L[q]) /\ Has(K, L, q, L[q])
  BY DEF Shape, Has

\* Of the suffixes of q, only q is as long.
LEMMA LongestSuffix ==
  ASSUME NEW m \in Nat, NEW t, NEW Q, NEW tr, NEW K, NEW L, NEW pos, Automaton(m, t, Q, tr, K, L, pos),
         NEW q \in Q
  PROVE  /\ q \in SuffixStates(t, Q, L, pos, q)
         /\ \A p \in SuffixStates(t, Q, L, pos, q) : L[p] >= L[q] => p = q
  <1>s. \A r \in Q : pos[r] \in Nat /\ L[r] \in Nat /\ L[r] <= pos[r] /\ Has(K, L, r, L[r])
    BY ShapeFacts DEF Automaton
  <1>1. q \in SuffixStates(t, Q, L, pos, q)
    BY <1>s, SameEqual DEF SuffixStates
  <1>2. ASSUME NEW p \in SuffixStates(t, Q, L, pos, q), L[p] >= L[q] PROVE p = q
    <2>1. p \in Q /\ L[p] = L[q] /\ Same(t, pos[p], pos[q], L[p])
      BY <1>s, <1>2 DEF SuffixStates
    <2>2. Has(K, L, p, L[p]) /\ Has(K, L, q, L[p]) /\ L[p] \in Nat
      BY <1>s, <2>1
    <2> QED BY <2>1, <2>2 DEF Automaton, Unique
  <1> QED BY <1>1, <1>2

\* The suffixes are reached through the link.
LEMMA SuffixesByLink ==
  ASSUME NEW m \in Nat, NEW t, NEW Q, NEW tr, NEW K, NEW L, NEW pos, Automaton(m, t, Q, tr, K, L, pos)
  PROVE  /\ SuffixStates(t, Q, L, pos, Root) = {Root}
         /\ \A q \in Q : q # Root => SuffixStates(t, Q, L, pos, q) = {q} \cup SuffixStates(t, Q, L, pos, K[q])
  <1>s. /\ Root \in Q /\ L[Root] = 0
        /\ \A r \in Q : /\ pos[r] \in Nat /\ L[r] \in Nat /\ K[r] \in Q /\ L[r] <= pos[r]
                        /\ (r # Root => L[K[r]] < L[r]) /\ Has(K, L, r, L[r])
    BY ShapeFacts DEF Automaton
  <1>1. SuffixStates(t, Q, L, pos, Root) = {Root}
    <2>1. Root \in SuffixStates(t, Q, L, pos, Root)
      BY <1>s, LongestSuffix
    <2>2. ASSUME NEW p \in SuffixStates(t, Q, L, pos, Root) PROVE p = Root
      <3>1. p \in Q /\ L[p] <= 0
        BY <1>s DEF SuffixStates
      <3>2. p # Root => L[K[p]] < L[p] /\ L[K[p]] \in Nat
        BY <1>s, <3>1
      <3> QED BY <1>s, <3>1, <3>2
    <2> QED BY <2>1, <2>2
  <1>2. ASSUME NEW q \in Q, q # Root
        PROVE  SuffixStates(t, Q, L, pos, q) = {q} \cup SuffixStates(t, Q, L, pos, K[q])
    <2>0. K[q] \in Q /\ L[K[q]] < L[q] /\ Same(t, pos[K[q]], pos[q], L[K[q]])
      BY <1>s, <1>2 DEF Automaton, Linked
    <2>1. ASSUME NEW p \in SuffixStates(t, Q, L, pos, q), p # q
          PROVE  p \in SuffixStates(t, Q, L, pos, K[q])
      <3>1. p \in Q /\ L[p] <= L[q] /\ Same(t, pos[p], pos[q], L[p])
        BY DEF SuffixStates
      <3>2. L[p] <= L[K[q]]
        <4>1. SUFFICES ASSUME L[K[q]] < L[p] PROVE FALSE
          BY <1>s, <2>0, <3>1
        <4>2. Has(K, L, q, L[p]) /\ Has(K, L, p, L[p]) /\ L[p] \in Nat
          BY <1>s, <3>1, <4>1 DEF Has
        <4> QED BY <2>1, <3>1, <4>2 DEF Automaton, Unique
      <3>3. Same(t, pos[K[q]], pos[q], L[p])
        BY <1>s, <2>0, <3>1, <3>2, SameLess
      <3>4. Same(t, pos[q], pos[K[q]], L[p])
        BY <1>s, <2>0, <3>1, <3>3, SameEqual
      <3>5. Same(t, pos[p], pos[K[q]], L[p])
        BY <1>s, <2>0, <3>1, <3>4, SameEqual
      <3> QED BY <3>1, <3>2, <3>5 DEF SuffixStates
    <2>2. ASSUME NEW p \in SuffixStates(t, Q, L, pos, K[q]) PROVE p \in SuffixStates(t, Q, L, pos, q)
      <3>1. p \in Q /\ L[p] <= L[K[q]] /\ Same(t, pos[p], pos[K[q]], L[p])
        BY DEF SuffixStates
      <3>2. Same(t, pos[K[q]], pos[q], L[p])
        BY <1>s, <2>0, <3>1, SameLess
      <3>3. Same(t, pos[p], pos[q], L[p])
        BY <1>s, <2>0, <3>1, <3>2, SameEqual
      <3>4. L[p] <= L[q]
        BY <1>s, <2>0, <3>1
      <3> QED BY <3>1, <3>3, <3>4 DEF SuffixStates
    <2>3. q \in SuffixStates(t, Q, L, pos, q)
      BY LongestSuffix
    <2> QED BY <2>1, <2>2, <2>3
  <1> QED BY <1>1, <1>2

\* A character that follows a string follows its suffixes.
LEMMA SuffixesFollowed ==
  ASSUME NEW m \in Nat, NEW t, NEW Q, NEW tr, NEW K, NEW L, NEW pos, Automaton(m, t, Q, tr, K, L, pos),
         NEW q \in Q, NEW x \in DOMAIN tr[q], NEW p \in SuffixStates(t, Q, L, pos, q)
  PROVE  x \in DOMAIN tr[p]
  <1>s. \A r \in Q : pos[r] \in Nat /\ L[r] \in Nat
    BY ShapeFacts DEF Automaton
  <1>1. PICK a \in 1..m : t[a] = x /\ Same(t, pos[q], a - 1, L[q])
    BY DEF Automaton, Transitions, Leads
  <1>2. p \in Q /\ L[p] <= L[q] /\ Same(t, pos[p], pos[q], L[p])
    BY DEF SuffixStates
  <1> DEFINE d == a - 1
  <1>3. d \in Nat /\ Same(t, pos[q], d, L[q])
    BY <1>1
  <1> HIDE DEF d
  <1>4. Same(t, pos[q], d, L[p])
    BY <1>s, <1>2, <1>3, SameLess
  <1>5. Same(t, pos[p], d, L[p])
    BY <1>s, <1>2, <1>3, <1>4, SameEqual
  <1>6. Same(t, pos[p], a - 1, L[p])
    BY <1>5 DEF d
  <1>7. t[a] \in DOMAIN tr[p]
    BY <1>2, <1>6 DEF Automaton, Followed
  <1> QED BY <1>1, <1>7

\* What holds of the root, and of a state when of the one it links to, holds of all.
LEMMA LinksInduct ==
  ASSUME NEW m \in Nat, NEW Q, NEW tr, NEW K, NEW L, NEW pos, Shape(m, Q, tr, K, L, pos), NEW P,
         \A q \in Q : q = Root \/ K[q] \in P => q \in P
  PROVE  Q \subseteq P
  <1> DEFINE bad == {q \in Q : q \notin P}
             lengths == {L[q] : q \in bad}
  <1>s. \A r \in Q : L[r] \in Nat /\ K[r] \in Q /\ (r # Root => L[K[r]] < L[r])
    BY ShapeFacts
  <1>1. SUFFICES ASSUME bad # {} PROVE FALSE
    OBVIOUS
  <1>2. lengths \subseteq Nat /\ lengths # {}
    BY <1>s, <1>1
  <1>3. PICK n \in lengths : \A k \in lengths : n <= k
    <2> HIDE DEF lengths
    <2> QED BY <1>2, LeastOfSet
  <1>4. PICK q \in bad : n = L[q]
    OBVIOUS
  <1>5. q \in Q /\ q \notin P /\ q # Root /\ K[q] \notin P
    BY <1>4
  <1>6. L[K[q]] \in lengths
    BY <1>s, <1>5
  <1>7. n <= L[K[q]]
    BY <1>3, <1>6
  <1> QED BY <1>s, <1>4, <1>5, <1>7

\* f holds what Unlinked returns from every state.
Walks(f, Q, tr, K, x) ==
  f = [q \in Q |-> IF x \in DOMAIN tr[q] THEN [passed |-> {}, stop |-> {q}]
                   ELSE IF q = Root THEN [passed |-> {q}, stop |-> {}]
                   ELSE LET rest == f[K[q]]
                        IN  [passed |-> rest.passed \cup {q}, stop |-> rest.stop]]

\* The suffixes of q that x does not follow, and the longest that it follows.
Passed(t, Q, tr, L, pos, q, x) == {p \in SuffixStates(t, Q, L, pos, q) : x \notin DOMAIN tr[p]}
Stop(t, Q, tr, L, pos, q, x) ==
  {p \in SuffixStates(t, Q, L, pos, q) :
     x \in DOMAIN tr[p] /\ \A r \in SuffixStates(t, Q, L, pos, q) : x \in DOMAIN tr[r] => L[r] <= L[p]}

\* Unlinked finds them.
LEMMA UnlinkedIs ==
  ASSUME NEW m \in Nat, NEW t, NEW pos, Automaton(m, t, Sized, trans, link, length, pos),
         NEW s \in Sized, NEW x
  PROVE  Unlinked(s, x) = [passed |-> Passed(t, Sized, trans, length, pos, s, x),
                           stop |-> Stop(t, Sized, trans, length, pos, s, x)]
  <1> DEFINE Q == Sized
             A(q) == SuffixStates(t, Q, length, pos, q)
             W(q) == [passed |-> Passed(t, Q, trans, length, pos, q, x),
                      stop |-> Stop(t, Q, trans, length, pos, q, x)]
             h == [q \in Q |-> W(q)]
             c == CHOOSE f : Walks(f, Q, trans, link, x)
  <1>s. \A r \in Q : length[r] \in Nat /\ link[r] \in Q
    BY ShapeFacts DEF Automaton
  <1>a. \A q \in Q : q \in A(q) /\ \A p \in A(q) : p \in Q /\ length[p] <= length[q]
    BY LongestSuffix DEF SuffixStates
  <1>b. \A q \in Q : \A p \in A(q) : length[p] >= length[q] => p = q
    BY LongestSuffix
  <1>c. A(Root) = {Root} /\ \A q \in Q : q # Root => A(q) = {q} \cup A(link[q])
    BY SuffixesByLink
  <1>1. ASSUME NEW q \in Q, x \in DOMAIN trans[q] PROVE W(q) = [passed |-> {}, stop |-> {q}]
    <2>1. \A p \in A(q) : x \in DOMAIN trans[p]
      BY <1>1, SuffixesFollowed
    <2>2. Passed(t, Q, trans, length, pos, q, x) = {}
      BY <2>1 DEF Passed
    <2>3. Stop(t, Q, trans, length, pos, q, x) = {q}
      BY <1>s, <1>a, <1>b, <1>1 DEF Stop
    <2> QED BY <2>2, <2>3
  <1>2. ASSUME Root \in Q, x \notin DOMAIN trans[Root] PROVE W(Root) = [passed |-> {Root}, stop |-> {}]
    BY <1>c, <1>2 DEF Passed, Stop
  <1>3. ASSUME NEW q \in Q, x \notin DOMAIN trans[q], q # Root
        PROVE  W(q) = [passed |-> W(link[q]).passed \cup {q}, stop |-> W(link[q]).stop]
    <2>0. A(q) = {q} \cup A(link[q])
      BY <1>c, <1>3
    <2>1. Passed(t, Q, trans, length, pos, q, x) = Passed(t, Q, trans, length, pos, link[q], x) \cup {q}
      BY <1>3, <2>0 DEF Passed
    <2>2. Stop(t, Q, trans, length, pos, q, x) = Stop(t, Q, trans, length, pos, link[q], x)
      BY <1>3, <2>0 DEF Stop
    <2> QED BY <2>1, <2>2
  <1> HIDE DEF W, Q
  <1>4. Walks(h, Q, trans, link, x)
    <2>1. ASSUME NEW q \in Q
          PROVE  h[q] = IF x \in DOMAIN trans[q] THEN [passed |-> {}, stop |-> {q}]
                        ELSE IF q = Root THEN [passed |-> {q}, stop |-> {}]
                        ELSE [passed |-> h[link[q]].passed \cup {q}, stop |-> h[link[q]].stop]
      <3>1. h[q] = W(q) /\ h[link[q]] = W(link[q])
        BY <1>s
      <3> QED BY <1>1, <1>2, <1>3, <3>1
    <2> QED BY <2>1 DEF Walks
  <1>5. Walks(c, Q, trans, link, x)
    BY <1>4
  <1>6. Unlinked(s, x) = c[s]
    BY DEF Unlinked, Walks, Q
  <1> HIDE DEF c
  <1> DEFINE same == {q \in Q : c[q] = h[q]}
  <1>7. \A q \in Q : q = Root \/ link[q] \in same => q \in same
    <2> HIDE DEF h
    <2>1. ASSUME NEW q \in Q, q = Root \/ c[link[q]] = h[link[q]] PROVE c[q] = h[q]
      <3>1. CASE x \in DOMAIN trans[q] \/ q = Root
        BY <1>4, <1>5, <3>1 DEF Walks
      <3>2. CASE ~(x \in DOMAIN trans[q]) /\ q # Root
        <4>1. c[q] = [passed |-> c[link[q]].passed \cup {q}, stop |-> c[link[q]].stop]
          BY <1>5, <3>2 DEF Walks
        <4>2. h[q] = [passed |-> h[link[q]].passed \cup {q}, stop |-> h[link[q]].stop]
          BY <1>4, <3>2 DEF Walks
        <4> QED BY <2>1, <3>2, <4>1, <4>2
      <3> QED BY <3>1, <3>2
    <2> QED BY <2>1
  <1>8. Q \subseteq same
    <2> HIDE DEF same, h
    <2>1. Shape(m, Q, trans, link, length, pos)
      BY DEF Automaton, Q
    <2> QED BY <1>7, <2>1, LinksInduct
  <1>9. s \in Q
    BY DEF Q
  <1>10. c[s] = W(s)
    BY <1>8, <1>9
  <1> QED BY <1>6, <1>10 DEF W, Q

\* f holds what Redirected returns from every state.
Redirects(f, Q, tr, K, x, z) ==
  f = [q \in Q |-> IF x \in DOMAIN tr[q] /\ tr[q][x] = z
                   THEN {q} \cup (IF q = Root THEN {} ELSE f[K[q]])
                   ELSE {}]

\* The suffixes of q such that x leads to z from them and from the longer ones.
Led(t, Q, tr, L, pos, q, x, z) ==
  {p \in SuffixStates(t, Q, L, pos, q) :
     \A r \in SuffixStates(t, Q, L, pos, q) : L[r] >= L[p] => x \in DOMAIN tr[r] /\ tr[r][x] = z}

\* Redirected finds those.
LEMMA RedirectedIs ==
  ASSUME NEW m \in Nat, NEW t, NEW pos, Automaton(m, t, Sized, trans, link, length, pos),
         NEW s \in Sized, NEW x, NEW z
  PROVE  Redirected(s, x, z) = Led(t, Sized, trans, length, pos, s, x, z)
  <1> DEFINE Q == Sized
             A(q) == SuffixStates(t, Q, length, pos, q)
             W(q) == Led(t, Q, trans, length, pos, q, x, z)
             h == [q \in Q |-> W(q)]
             c == CHOOSE f : Redirects(f, Q, trans, link, x, z)
             To(q) == x \in DOMAIN trans[q] /\ trans[q][x] = z
  <1>s. \A r \in Q : length[r] \in Nat /\ link[r] \in Q
    BY ShapeFacts DEF Automaton
  <1>a. \A q \in Q : q \in A(q) /\ \A p \in A(q) : p \in Q /\ length[p] <= length[q]
    BY LongestSuffix DEF SuffixStates
  <1>b. \A q \in Q : \A p \in A(q) : length[p] >= length[q] => p = q
    BY LongestSuffix
  <1>c. A(Root) = {Root} /\ \A q \in Q : q # Root => A(q) = {q} \cup A(link[q])
    BY SuffixesByLink
  <1>w. \A q \in Q : W(q) = {p \in A(q) : \A r \in A(q) : length[r] >= length[p] => To(r)}
    BY DEF Led
  <1>1. ASSUME NEW q \in Q, ~To(q) PROVE W(q) = {}
    <2> HIDE DEF A, W, To
    <2> QED BY <1>s, <1>a, <1>w, <1>1
  <1>2. ASSUME Root \in Q, To(Root) PROVE W(Root) = {Root}
    <2> HIDE DEF A, W, To
    <2> QED BY <1>c, <1>w, <1>2
  <1>3. ASSUME NEW q \in Q, To(q), q # Root PROVE W(q) = {q} \cup W(link[q])
    <2>0. A(q) = {q} \cup A(link[q]) /\ link[q] \in Q
      BY <1>s, <1>c, <1>3
    <2> HIDE DEF A, W, To
    <2>1. q \in W(q)
      BY <1>a, <1>b, <1>w, <1>3
    <2>2. \A p \in W(q) : p = q \/ p \in W(link[q])
      BY <1>w, <2>0
    <2>3. \A p \in W(link[q]) : p \in W(q)
      BY <1>w, <1>3, <2>0
    <2> QED BY <2>1, <2>2, <2>3
  <1> HIDE DEF W, Q
  <1>4. Redirects(h, Q, trans, link, x, z)
    <2>1. ASSUME NEW q \in Q
          PROVE  h[q] = IF To(q) THEN {q} \cup (IF q = Root THEN {} ELSE h[link[q]]) ELSE {}
      <3>1. h[q] = W(q) /\ h[link[q]] = W(link[q])
        BY <1>s
      <3> HIDE DEF h, To
      <3> QED BY <1>1, <1>2, <1>3, <3>1
    <2> QED BY <2>1 DEF Redirects
  <1>5. Redirects(c, Q, trans, link, x, z)
    BY <1>4
  <1>6. Redirected(s, x, z) = c[s]
    BY DEF Redirected, Redirects, Q
  <1> HIDE DEF c
  <1> DEFINE same == {q \in Q : c[q] = h[q]}
  <1>7. \A q \in Q : q = Root \/ link[q] \in same => q \in same
    BY <1>4, <1>5 DEF Redirects
  <1>8. Q \subseteq same
    <2> HIDE DEF same, h
    <2>1. Shape(m, Q, trans, link, length, pos)
      BY DEF Automaton, Q
    <2> QED BY <1>7, <2>1, LinksInduct
  <1>9. s \in Q
    BY DEF Q
  <1>10. c[s] = W(s)
    BY <1>8, <1>9
  <1> QED BY <1>6, <1>10 DEF W, Q

\* Where x leads from q, with the place one before: the form the steps below use.
LEMMA LeadsTo ==
  ASSUME NEW m \in Nat, NEW t, NEW Q, NEW tr, NEW K, NEW L, NEW pos, Automaton(m, t, Q, tr, K, L, pos),
         NEW q \in Q, NEW x \in DOMAIN tr[q]
  PROVE  \E a \in 1..m, d \in 0..m, k \in Nat :
           /\ a = d + 1 /\ k = L[q] + 1 /\ t[a] = x /\ Same(t, pos[q], d, L[q])
           /\ tr[q][x] \in Q /\ Has(K, L, tr[q][x], k) /\ Same(t, pos[tr[q][x]], a, k)
  <1>s. L[q] \in Nat
    BY ShapeFacts DEF Automaton
  <1>1. tr[q][x] \in Q /\ Leads(m, t, q, x, tr[q][x], K, L, pos)
    BY DEF Automaton, Transitions
  <1>2. PICK a \in 1..m : /\ t[a] = x /\ Same(t, pos[q], a - 1, L[q])
                          /\ Has(K, L, tr[q][x], L[q] + 1) /\ Same(t, pos[tr[q][x]], a, L[q] + 1)
    BY <1>1 DEF Leads
  <1> DEFINE d == a - 1
             k == L[q] + 1
  <1>3. d \in 0..m /\ k \in Nat /\ a = d + 1 /\ k = L[q] + 1
    BY <1>s
  <1>4. /\ t[a] = x /\ Same(t, pos[q], d, L[q])
        /\ Has(K, L, tr[q][x], k) /\ Same(t, pos[tr[q][x]], a, k)
    BY <1>2
  <1> HIDE DEF d, k
  <1> QED BY <1>1, <1>3, <1>4

\* The states of strings shorter than b from which x leads to z.
Into(Q, tr, L, x, z, b) == {q \in Q : x \in DOMAIN tr[q] /\ tr[q][x] = z /\ L[q] < b}

\* From s on, x leads to the same state from all that are no longer and lead there.
LEMMA LedByLength ==
  ASSUME NEW m \in Nat, NEW t, NEW Q, NEW tr, NEW K, NEW L, NEW pos, Automaton(m, t, Q, tr, K, L, pos),
         NEW s \in Q, NEW x \in DOMAIN tr[s], NEW z, tr[s][x] = z, NEW b, b = L[s] + 1
  PROVE  Led(t, Q, tr, L, pos, s, x, z) = Into(Q, tr, L, x, z, b)
  <1>s. \A r \in Q : pos[r] \in Nat /\ L[r] \in Nat /\ pos[r] \in 0..m
    BY ShapeFacts DEF Automaton
  <1>1. PICK a \in 1..m, d \in 0..m, k \in Nat :
          /\ a = d + 1 /\ k = L[s] + 1 /\ t[a] = x /\ Same(t, pos[s], d, L[s])
          /\ z \in Q /\ Has(K, L, z, k) /\ Same(t, pos[z], a, k)
    BY LeadsTo
  <1>2. ASSUME NEW p \in Led(t, Q, tr, L, pos, s, x, z)
        PROVE  p \in Q /\ x \in DOMAIN tr[p] /\ tr[p][x] = z /\ L[p] < L[s] + 1
    <2>1. p \in SuffixStates(t, Q, L, pos, s)
      BY DEF Led
    <2>2. p \in Q /\ L[p] <= L[s]
      BY <2>1 DEF SuffixStates
    <2>3. L[p] >= L[p]
      BY <1>s, <2>2
    <2>4. x \in DOMAIN tr[p] /\ tr[p][x] = z
      BY <2>1, <2>3 DEF Led
    <2> QED BY <1>s, <2>2, <2>4
  <1>3. ASSUME NEW p \in Q, x \in DOMAIN tr[p], tr[p][x] = z, L[p] < L[s] + 1
        PROVE  p \in Led(t, Q, tr, L, pos, s, x, z)
    <2>0. L[p] <= L[s] /\ L[p] \in Nat
      BY <1>s, <1>3
    <2>1. PICK e \in 1..m, f \in 0..m, l \in Nat :
            /\ e = f + 1 /\ l = L[p] + 1 /\ t[e] = x /\ Same(t, pos[p], f, L[p])
            /\ Has(K, L, z, l) /\ Same(t, pos[z], e, l)
      BY <1>3, LeadsTo
    <2>2. Same(t, pos[z], a, l)
      <3>1. l <= k
        BY <1>s, <1>1, <2>0, <2>1
      <3> QED BY <1>s, <1>1, <3>1, SameLess
    <2>3. Same(t, e, a, l)
      <3>1. Same(t, e, pos[z], l)
        BY <1>s, <1>1, <2>1, SameEqual
      <3> QED BY <1>s, <1>1, <2>2, <3>1, SameEqual
    <2>4. Same(t, f, d, L[p])
      <3> DEFINE v == L[p]
      <3>1. /\ f \in Nat /\ d \in Nat /\ v \in Nat /\ e \in Nat /\ a \in Nat /\ l \in Nat
            /\ e = f + 1 /\ a = d + 1 /\ l = v + 1
        BY <1>s, <1>1, <2>1
      <3> HIDE DEF v
      <3>2. Same(t, f, d, v)
        BY <2>3, <3>1, SameDown
      <3> QED BY <3>2 DEF v
    <2>5. Same(t, pos[p], d, L[p])
      BY <1>s, <2>1, <2>4, SameEqual
    <2>6. Same(t, d, pos[s], L[p])
      <3>1. Same(t, pos[s], d, L[p])
        BY <1>s, <1>1, <2>0, SameLess
      <3> QED BY <1>s, <3>1, SameEqual
    <2>7. Same(t, pos[p], pos[s], L[p])
      BY <1>s, <2>5, <2>6, SameEqual
    <2>8. p \in SuffixStates(t, Q, L, pos, s)
      BY <2>0, <2>7 DEF SuffixStates
    <2>9. ASSUME NEW r \in SuffixStates(t, Q, L, pos, s), L[r] >= L[p]
          PROVE  x \in DOMAIN tr[r] /\ tr[r][x] = z
      <3>0. r \in Q /\ L[r] \in Nat /\ L[r] <= L[s] /\ Same(t, pos[r], pos[s], L[r])
        BY <1>s DEF SuffixStates
      <3>1. x \in DOMAIN tr[r]
        BY SuffixesFollowed
      <3> DEFINE w == tr[r][x]
      <3>2. PICK e2 \in 1..m, f2 \in 0..m, l2 \in Nat :
              /\ e2 = f2 + 1 /\ l2 = L[r] + 1 /\ t[e2] = x /\ Same(t, pos[r], f2, L[r])
              /\ w \in Q /\ Has(K, L, w, l2) /\ Same(t, pos[w], e2, l2)
        BY <3>0, <3>1, LeadsTo
      <3> HIDE DEF w
      <3>3. l2 <= k /\ l <= l2
        BY <1>s, <1>1, <2>1, <2>9, <3>0, <3>2
      <3>4. Has(K, L, z, l2)
        BY <1>s, <1>1, <2>1, <3>2, <3>3 DEF Has, Automaton, Shape
      <3>5. Same(t, f2, d, L[r])
        <4>1. Same(t, f2, pos[r], L[r])
          BY <1>s, <3>0, <3>2, SameEqual
        <4>2. Same(t, pos[s], d, L[r])
          BY <1>s, <1>1, <3>0, SameLess
        <4>3. Same(t, f2, pos[s], L[r])
          BY <1>s, <3>0, <3>2, <4>1, SameEqual
        <4> QED BY <1>s, <3>0, <3>2, <4>2, <4>3, SameEqual
      <3>6. Same(t, e2, a, l2)
        BY <1>1, <3>0, <3>2, <3>5, SameUp
      <3>7. Same(t, a, pos[z], l2)
        <4>1. Same(t, pos[z], a, l2)
          BY <1>s, <1>1, <3>2, <3>3, SameLess
        <4> QED BY <1>s, <1>1, <3>2, <4>1, SameEqual
      <3>8. Same(t, pos[w], pos[z], l2)
        <4>1. Same(t, pos[w], a, l2)
          BY <1>s, <3>2, <3>6, SameEqual
        <4> QED BY <1>s, <1>1, <3>2, <3>7, <4>1, SameEqual
      <3>9. w = z
        BY <1>1, <3>2, <3>4, <3>8 DEF Automaton, Unique
      <3> QED BY <3>1, <3>9 DEF w
    <2> QED BY <2>8, <2>9 DEF Led
  <1> QED BY <1>2, <1>3 DEF Into

\* A span before the end of the text and x that recurs is a string of a suffix that x
\* follows, and x.
LEMMA RecursBehind ==
  ASSUME NEW m \in Nat, NEW t, NEW Q, NEW tr, NEW K, NEW L, NEW pos, Automaton(m, t, Q, tr, K, L, pos),
         NEW u, \A i \in 1..m : u[i] = t[i], NEW a \in 0..m, NEW l \in Nat \ {0}, Same(u, a, m + 1, l)
  PROVE  \E p \in Q : Same(t, pos[p], m, L[p]) /\ u[m + 1] \in DOMAIN tr[p] /\ l <= L[p] + 1
  <1>s. \A r \in Q : pos[r] \in Nat /\ L[r] \in Nat /\ pos[r] \in 0..m
    BY ShapeFacts DEF Automaton
  <1> DEFINE n == m + 1
             d == a - 1
             k == l - 1
  <1>1. a # 0
    BY DEF Same
  <1>2. n \in Nat /\ d \in Nat /\ k \in Nat /\ a = d + 1 /\ n = m + 1 /\ l = k + 1 /\ d \in 0..m
        /\ Same(u, a, n, l) /\ a \in 1..m /\ a \in Nat
    BY <1>1
  <1> HIDE DEF n, d, k
  <1>3. Same(u, d, m, k) /\ u[a] = u[n]
    BY <1>2, SameDown
  <1>4. m \in 0..m
    OBVIOUS
  <1>5. Same(t, d, m, k)
    BY <1>2, <1>3, <1>4, SameKept
  <1>6. k \in 0..m
    BY <1>2, <1>5, SameEqual
  <1>7. PICK p \in Q : Has(K, L, p, k) /\ Same(t, pos[p], m, k)
    BY <1>4, <1>6 DEF Automaton, Covered
  <1>8. Same(t, pos[p], m, L[p])
    BY <1>2, <1>4, <1>7 DEF Automaton, Classes
  <1>9. Same(t, pos[p], d, L[p])
    <2>1. Same(t, m, d, k)
      BY <1>2, <1>5, SameEqual
    <2>2. Same(t, pos[p], d, k)
      BY <1>s, <1>2, <1>7, <2>1, SameEqual
    <2> QED BY <1>2, <1>7, <2>2 DEF Automaton, Classes
  <1>10. t[a] \in DOMAIN tr[p]
    <2>1. a - 1 = d
      BY <1>2
    <2>2. Same(t, pos[p], a - 1, L[p])
      BY <1>9, <2>1
    <2> QED BY <1>2, <2>2 DEF Automaton, Followed
  <1>11. u[n] = t[a]
    BY <1>2, <1>3
  <1>12. l <= L[p] + 1
    BY <1>s, <1>2, <1>7 DEF Has
  <1> QED BY <1>2, <1>8, <1>10, <1>11, <1>12

-----------------------------------------------------------------------------
(* Reading a character. *)

\* The automaton of a text, and what is known of its links and of own.
Held(m, t, Q, tr, K, L, o, pos) ==
  Automaton(m, t, Q, tr, K, L, pos) /\ Proper(m, t, Q, K, L, pos) /\ Begins(t, Q, L, pos, o)

\* The new state cur is to be added below g, for the text u of length n.
Grows(m, t, u, n, Q, tr, L, pos, cur, g, tr2) ==
  /\ n = m + 1 /\ \A i \in 1..m : u[i] = t[i]
  /\ g \in Q /\ cur \notin Q /\ Same(u, pos[g], n, L[g])
  /\ \A a \in 0..m, l \in Nat : Same(u, a, n, l) => l <= L[g]
  /\ DOMAIN tr2 = Q \cup {cur} /\ DOMAIN tr2[cur] = {}
  /\ \A q \in Q : IF Same(t, pos[q], m, L[q]) /\ u[n] \notin DOMAIN tr[q]
                  THEN tr2[q] = With(tr[q], u[n], cur) ELSE tr2[q] = tr[q]

\* A state is added for the longer text.
LEMMA Extended ==
  ASSUME NEW m \in Nat, NEW t, NEW u, NEW n, NEW Q, NEW tr, NEW K, NEW L, NEW o, NEW pos, NEW cur,
         NEW g,
         NEW tr2, Automaton(m, t, Q, tr, K, L, pos), NearlyProper(m, t, Q, K, L, pos, g),
         Begins(t, Q, L, pos, o), Grows(m, t, u, n, Q, tr, L, pos, cur, g, tr2)
  PROVE  Held(n, u, Q \cup {cur}, tr2, Grow(K, cur, g), Grow(L, cur, n), Grow(o, cur, 1),
              Grow(pos, cur, n))
  <1> DEFINE P == Q \cup {cur}
             K2 == Grow(K, cur, g)
             L2 == Grow(L, cur, n)
             o2 == Grow(o, cur, 1)
             pos2 == Grow(pos, cur, n)
  <1>n. n = m + 1 /\ g \in Q
    BY DEF Grows
  <1>s. K \in [Q -> Q] /\ L \in [Q -> Nat] /\ pos \in [Q -> 0..m] /\ Shape(m, Q, tr, K, L, pos)
    BY DEF Automaton, Shape
  <1>0. cur \notin Q
    BY DEF Grows
  <1>1. K2 \in [P -> Q] /\ K2[cur] = g /\ \A q \in Q : K2[q] = K[q]
    BY <1>n, <1>s, <1>0 DEF Grow
  <1>2. L2 \in [P -> Nat] /\ L2[cur] = m + 1 /\ \A q \in Q : L2[q] = L[q]
    BY <1>n, <1>s, <1>0 DEF Grow
  <1>3. pos2 \in [P -> 0..(m + 1)] /\ pos2[cur] = m + 1 /\ \A q \in Q : pos2[q] = pos[q]
    BY <1>n, <1>s, <1>0 DEF Grow
  <1>4. o2 \in [P -> {0, 1}] /\ o2[cur] = 1 /\ \A q \in Q : o2[q] = o[q]
    BY <1>0 DEF Grow, Begins
  <1> HIDE DEF K2, L2, pos2, o2
  <1>5. Extends(m, t, u, Q, tr, K, L, pos, cur, g, tr2, K2, L2, pos2)
    BY <1>n, <1>1, <1>2, <1>3 DEF Extends, Grows
  <1>6. Automaton(m + 1, u, P, tr2, K2, L2, pos2)
    BY <1>5, ExtendedAutomaton
  <1>7. Proper(m + 1, u, P, K2, L2, pos2)
    BY <1>s, <1>5, ExtendedProper
  <1>8. Begins(u, P, L2, pos2, o2)
    BY <1>s, <1>4, <1>5, ExtendedBegins
  <1>9. Held(n, u, P, tr2, K2, L2, o2, pos2)
    BY <1>n, <1>6, <1>7, <1>8 DEF Held
  <1> QED BY <1>9 DEF K2, L2, o2, pos2

\* The links, lengths and transitions of a state that was split.
SplitLinks(Q, K, z, c) == [q \in Q \cup {c} |-> IF q = c THEN K[z] ELSE IF q = z THEN c ELSE K[q]]
SplitTrans(Q, tr, R, x, z, c) ==
  [q \in Q \cup {c} |-> IF q = c THEN tr[z] ELSE IF q \in R THEN With(tr[q], x, c) ELSE tr[q]]

\* z is to be split at the length b.
SplitsAt(t, Q, tr, K, L, pos, z, b, c, x, R) ==
  /\ z \in Q /\ b \in Nat /\ c \notin Q /\ z # Root /\ L[K[z]] < b /\ b < L[z] /\ x = t[pos[z]]
  /\ R = Into(Q, tr, L, x, z, b)

\* A state that is split leaves an automaton of the same text.
LEMMA Split ==
  ASSUME NEW m \in Nat, NEW t, NEW Q, NEW tr, NEW K, NEW L, NEW o, NEW pos, NEW z, NEW b, NEW c,
         NEW R, NEW x, Held(m, t, Q, tr, K, L, o, pos), SplitsAt(t, Q, tr, K, L, pos, z, b, c, x, R)
  PROVE  LET K2 == SplitLinks(Q, K, z, c)
             L2 == Grow(L, c, b)
             pos2 == Grow(pos, c, pos[z])
         IN  /\ Automaton(m, t, Q \cup {c}, SplitTrans(Q, tr, R, x, z, c), K2, L2, pos2)
             /\ NearlyProper(m, t, Q \cup {c}, K2, L2, pos2, c)
             /\ Begins(t, Q \cup {c}, L2, pos2, Grow(o, c, 0))
  <1> DEFINE P == Q \cup {c}
             K2 == SplitLinks(Q, K, z, c)
             L2 == Grow(L, c, b)
             o2 == Grow(o, c, 0)
             pos2 == Grow(pos, c, pos[z])
             tr2 == SplitTrans(Q, tr, R, x, z, c)
  <1>0. /\ z \in Q /\ b \in Nat /\ c \notin Q /\ z # Root /\ L[K[z]] < b /\ b < L[z] /\ x = t[pos[z]]
        /\ R = {q \in Q : x \in DOMAIN tr[q] /\ tr[q][x] = z /\ L[q] < b}
    BY DEF SplitsAt, Into
  <1>a. Automaton(m, t, Q, tr, K, L, pos) /\ Proper(m, t, Q, K, L, pos) /\ Begins(t, Q, L, pos, o)
    BY DEF Held
  <1>s. K \in [Q -> Q] /\ L \in [Q -> Nat] /\ pos \in [Q -> 0..m]
    BY <1>a DEF Automaton, Shape
  <1>1. K2 \in [P -> P] /\ K2[c] = K[z] /\ K2[z] = c /\ \A q \in Q : q # z => K2[q] = K[q]
    BY <1>0, <1>s DEF SplitLinks
  <1>2. L2 \in [P -> Nat] /\ L2[c] = b /\ \A q \in Q : L2[q] = L[q]
    BY <1>0, <1>s DEF Grow
  <1>3. pos2 \in [P -> 0..m] /\ pos2[c] = pos[z] /\ \A q \in Q : pos2[q] = pos[q]
    BY <1>0, <1>s DEF Grow
  <1>4. o2 \in [P -> {0, 1}] /\ o2[c] = 0 /\ \A q \in Q : o2[q] = o[q]
    BY <1>0, <1>a DEF Grow, Begins
  <1>5. /\ DOMAIN tr2 = P /\ tr2[c] = tr[z]
        /\ \A q \in Q : IF x \in DOMAIN tr[q] /\ tr[q][x] = z /\ L[q] < b
                        THEN tr2[q] = With(tr[q], x, c) ELSE tr2[q] = tr[q]
    BY <1>0 DEF SplitTrans
  <1> HIDE DEF K2, L2, pos2, o2, tr2
  <1>6. Splits(m, t, Q, tr, K, L, pos, z, b, c, tr2, K2, L2, pos2)
    BY <1>0, <1>1, <1>2, <1>3, <1>5 DEF Splits
  <1>7. Automaton(m, t, P, tr2, K2, L2, pos2)
    BY <1>a, <1>6, SplitAutomaton
  <1>8. NearlyProper(m, t, P, K2, L2, pos2, c)
    BY <1>a, <1>6, SplitProper
  <1>9. Begins(t, P, L2, pos2, o2)
    BY <1>a, <1>4, <1>6, SplitBegins
  <1> QED BY <1>7, <1>8, <1>9 DEF K2, L2, pos2, o2, tr2

\* From the state of the whole text, the suffixes are those that end with it.
LEMMA TextSuffixes ==
  ASSUME NEW m \in Nat, NEW t, NEW Q, NEW tr, NEW K, NEW L, NEW pos, Automaton(m, t, Q, tr, K, L, pos),
         NEW s \in Q, L[s] = m, pos[s] = m
  PROVE  SuffixStates(t, Q, L, pos, s) = {p \in Q : Same(t, pos[p], m, L[p])}
  <1>1. \A p \in Q : L[p] \in Nat /\ pos[p] \in 0..m /\ L[p] <= m
    BY ShapeFacts DEF Automaton
  <1> QED BY <1>1 DEF SuffixStates

\* When x follows one of the suffixes, there is a longest that it follows.
LEMMA StopFound ==
  ASSUME NEW m \in Nat, NEW t, NEW Q, NEW tr, NEW K, NEW L, NEW pos, Automaton(m, t, Q, tr, K, L, pos),
         NEW s \in Q, NEW x, NEW p \in SuffixStates(t, Q, L, pos, s), x \in DOMAIN tr[p]
  PROVE  Stop(t, Q, tr, L, pos, s, x) # {}
  <1>s. \A r \in Q : L[r] \in Nat /\ L[r] \in 0..m
    BY ShapeFacts DEF Automaton
  <1> DEFINE B == {r \in SuffixStates(t, Q, L, pos, s) : x \in DOMAIN tr[r]}
             Z == {L[r] : r \in B}
  <1>1. Z \subseteq 0..m /\ Z # {}
    BY <1>s DEF SuffixStates
  <1>2. Max(Z) \in Z /\ \A y \in Z : y <= Max(Z)
    <2> HIDE DEF Z
    <2> QED BY <1>1, GreatestOfSet
  <1>3. PICK r \in B : L[r] = Max(Z)
    BY <1>2
  <1>4. \A v \in B : L[v] <= L[r]
    BY <1>2, <1>3
  <1>5. r \in Stop(t, Q, tr, L, pos, s, x)
    BY <1>3, <1>4 DEF Stop
  <1> QED BY <1>5

\* The state x leads to from the longest suffix that it follows has the longest span at
\* the new end that occurred before.
LEMMA TargetFound ==
  ASSUME NEW m \in Nat, NEW t, NEW Q, NEW tr, NEW K, NEW L, NEW pos, Automaton(m, t, Q, tr, K, L, pos),
         NEW u, \A i \in 1..m : u[i] = t[i], NEW x, x = u[m + 1],
         NEW s \in Q, Same(t, pos[s], m, L[s]), x \in DOMAIN tr[s],
         \A p \in Q : Same(t, pos[p], m, L[p]) /\ x \in DOMAIN tr[p] => L[p] <= L[s],
         NEW z, z = tr[s][x], NEW b, b = L[s] + 1
  PROVE  /\ z \in Q /\ b \in Nat \ {0} /\ Has(K, L, z, b) /\ Same(u, pos[z], m + 1, b) /\ x = t[pos[z]]
         /\ \A a \in 0..m, l \in Nat : Same(u, a, m + 1, l) => l <= b
  <1>s. \A r \in Q : pos[r] \in Nat /\ L[r] \in Nat /\ pos[r] \in 0..m
    BY ShapeFacts DEF Automaton
  <1>k. \A a, d \in 0..m, l \in Nat : Same(u, a, d, l) <=> Same(t, a, d, l)
    BY SameKept
  <1> DEFINE v == L[s]
             n == m + 1
  <1>1. PICK a \in 1..m, d \in 0..m, k \in Nat :
          /\ a = d + 1 /\ k = v + 1 /\ t[a] = x /\ Same(t, pos[s], d, v)
          /\ z \in Q /\ Has(K, L, z, k) /\ Same(t, pos[z], a, k)
    BY LeadsTo
  <1>2. v \in Nat /\ k = b /\ n \in Nat /\ n = m + 1 /\ Same(t, pos[s], m, v) /\ x = u[n]
        /\ b \in Nat \ {0}
        /\ a \in Nat /\ d \in Nat /\ a \in 0..m /\ m \in 0..m /\ k \in Nat \ {0}
    BY <1>s, <1>1
  <1> HIDE DEF v, n
  <1>3. Same(t, d, m, v)
    <2>1. Same(t, d, pos[s], v)
      BY <1>s, <1>1, <1>2, SameEqual
    <2> QED BY <1>s, <1>2, <2>1, SameEqual
  <1>4. Same(u, d, m, v) /\ u[a] = u[n]
    BY <1>k, <1>1, <1>2, <1>3
  <1>5. Same(u, a, n, k)
    BY <1>1, <1>2, <1>4, SameUp
  <1>6. Same(u, pos[z], a, k)
    BY <1>k, <1>s, <1>1, <1>2
  <1>7. Same(u, pos[z], n, k)
    BY <1>s, <1>1, <1>2, <1>5, <1>6, SameEqual
  <1>8. t[pos[z]] = t[a]
    BY <1>s, <1>1, <1>2, SameCut
  <1>9. ASSUME NEW e \in 0..m, NEW l \in Nat, Same(u, e, m + 1, l) PROVE l <= b
    <2>1. CASE l = 0
      BY <1>2, <2>1
    <2>2. CASE l # 0
      <3>1. PICK p \in Q : Same(t, pos[p], m, L[p]) /\ u[m + 1] \in DOMAIN tr[p] /\ l <= L[p] + 1
        BY <1>9, <2>2, RecursBehind
      <3>2. L[p] <= L[s]
        BY <3>1
      <3> QED BY <1>s, <3>1, <3>2
    <2> QED BY <2>1, <2>2
  <1> QED BY <1>1, <1>2, <1>7, <1>8, <1>9 DEF n

\* What is known of the automaton that has been grown: there are places where the
\* longest strings of its states end.
RepeatsHeld(pos) ==
  /\ Held(Len(chars), chars, Sized, trans, link, length, own, pos)
  /\ last \in Sized /\ length[last] = Len(chars) /\ pos[last] = Len(chars)
\* States are numbered, and are the suffix automaton of what was read.
RepeatsIInv ==
  /\ chars \in Seq(Char)
  /\ \E n \in Nat \ {0} : Sized = 0..(n - 1)
  /\ \E pos : RepeatsHeld(pos)

\* The root alone is the automaton of the empty text.
LEMMA RepeatsInit == InitRepeats => RepeatsIInv
  <1> SUFFICES ASSUME InitRepeats PROVE RepeatsIInv
    OBVIOUS
  <1> DEFINE pos == [q \in {Root} |-> 0]
  <1>1. /\ chars = <<>> /\ Len(chars) = 0 /\ last = Root
        /\ Sized = {Root} /\ trans[Root] = <<>> /\ link = [q \in {Root} |-> Root]
        /\ length = [q \in {Root} |-> 0] /\ own = [q \in {Root} |-> 0]
    <2>1. /\ chars = <<>> /\ last = Root /\ trans = [q \in {Root} |-> <<>>]
          /\ link = [q \in {Root} |-> Root]
          /\ length = [q \in {Root} |-> 0] /\ own = [q \in {Root} |-> 0]
      BY DEF InitRepeats
    <2>2. DOMAIN trans = {Root} /\ trans[Root] = <<>>
      BY <2>1
    <2> QED BY <2>1, <2>2 DEF Sized
  <1>2. /\ link[Root] = Root /\ length[Root] = 0 /\ own[Root] = 0 /\ DOMAIN trans[Root] = {}
        /\ link \in [{Root} -> {Root}] /\ length \in [{Root} -> Nat] /\ own \in [{Root} -> {0, 1}]
        /\ pos \in [{Root} -> 0..0] /\ pos[Root] = 0
    BY <1>1
  <1> HIDE DEF pos
  <1>3. \A q \in {Root}, l \in Nat : Has(link, length, q, l) => l = 0
    BY <1>2 DEF Has
  <1>4. Shape(0, {Root}, trans, link, length, pos)
    BY <1>1, <1>2 DEF Shape, Sized
  <1>5. Linked(chars, {Root}, link, length, pos) /\ Proper(0, chars, {Root}, link, length, pos)
    BY DEF Linked, Proper
  <1>6. Classes(0, chars, {Root}, link, length, pos)
    BY <1>2, <1>3 DEF Classes
  <1>7. Covered(0, chars, {Root}, link, length, pos)
    <2>1. Same(chars, 0, 0, 0) /\ Has(link, length, Root, 0)
      BY <1>2 DEF Same, Has
    <2> QED BY <1>2, <2>1 DEF Covered
  <1>8. Unique(chars, {Root}, link, length, pos)
    BY DEF Unique
  <1>9. Transitions(0, chars, {Root}, trans, link, length, pos)
    BY <1>2 DEF Transitions
  <1>10. Followed(0, chars, {Root}, trans, length, pos)
    BY DEF Followed
  <1>11. Begins(chars, {Root}, length, pos, own)
    BY <1>2 DEF Begins
  <1>12. RepeatsHeld(pos)
    BY <1>1, <1>2, <1>4, <1>5, <1>6, <1>7, <1>8, <1>9, <1>10, <1>11 DEF RepeatsHeld, Held, Automaton
  <1>13. 1 \in Nat \ {0} /\ Sized = 0..(1 - 1)
    BY <1>1 DEF Root
  <1>14. \E n \in Nat \ {0} : Sized = 0..(n - 1)
    BY <1>13
  <1> QED BY <1>1, <1>12, <1>14 DEF RepeatsIInv

\* Transitions on x to the new state, from those that x did not follow.
Grown(Q, tr, W, x, cur) ==
  [s \in Q \cup {cur} |-> IF s \in W THEN With(tr[s], x, cur) ELSE IF s = cur THEN <<>> ELSE tr[s]]

\* The character x makes the text u of length n, and cur is the state to be added; s is
\* the state of the whole text so far.
Reads(m, t, u, n, x, Q, L, pos, s, cur) ==
  /\ n = m + 1 /\ (\A i \in 1..m : u[i] = t[i]) /\ x = u[n]
  /\ s \in Q /\ L[s] = m /\ pos[s] = m /\ cur \notin Q

\* b is the length of the longest span at the end that occurred before.
Longest(m, u, n, b) == \A a \in 0..m, l \in Nat : Same(u, a, n, l) => l <= b

\* A character is read, and the new state is linked to g.
LEMMA ReadLinked ==
  ASSUME NEW m \in Nat, NEW t, NEW u, NEW x, NEW Q, NEW tr, NEW K, NEW L, NEW o, NEW pos, NEW s,
         NEW cur,
         NEW n, Held(m, t, Q, tr, K, L, o, pos), Reads(m, t, u, n, x, Q, L, pos, s, cur),
         NEW g \in Q, Same(u, pos[g], n, L[g]), Longest(m, u, n, L[g]),
         NEW W, W = Passed(t, Q, tr, L, pos, s, x),
         NEW tr2, tr2 = Grown(Q, tr, W, x, cur)
  PROVE  /\ Held(n, u, Q \cup {cur}, tr2, Grow(K, cur, g), Grow(L, cur, n), Grow(o, cur, 1),
                 Grow(pos, cur, n))
         /\ Grow(pos, cur, n)[cur] = n
  <1>0. /\ n = m + 1 /\ (\A i \in 1..m : u[i] = t[i]) /\ x = u[n]
        /\ s \in Q /\ L[s] = m /\ pos[s] = m /\ cur \notin Q
    BY DEF Reads
  <1>1. Automaton(m, t, Q, tr, K, L, pos) /\ Proper(m, t, Q, K, L, pos) /\ Begins(t, Q, L, pos, o)
    BY DEF Held
  <1>2. NearlyProper(m, t, Q, K, L, pos, g)
    BY <1>1 DEF Proper, NearlyProper
  <1>3. W = {p \in Q : Same(t, pos[p], m, L[p]) /\ x \notin DOMAIN tr[p]}
    <2>1. SuffixStates(t, Q, L, pos, s) = {p \in Q : Same(t, pos[p], m, L[p])}
      BY <1>0, <1>1, TextSuffixes
    <2> QED BY <2>1 DEF Passed
  <1>4. DOMAIN tr2 = Q \cup {cur} /\ tr2[cur] = <<>>
    BY <1>0, <1>3 DEF Grown
  <1>5. \A q \in Q : IF Same(t, pos[q], m, L[q]) /\ x \notin DOMAIN tr[q]
                     THEN tr2[q] = With(tr[q], x, cur) ELSE tr2[q] = tr[q]
    BY <1>0, <1>3 DEF Grown
  <1>6. DOMAIN tr2[cur] = {}
    BY <1>4
  <1>7. Grows(m, t, u, n, Q, tr, L, pos, cur, g, tr2)
    BY <1>0, <1>4, <1>5, <1>6 DEF Grows, Longest
  <1>8. Held(n, u, Q \cup {cur}, tr2, Grow(K, cur, g), Grow(L, cur, n), Grow(o, cur, 1),
             Grow(pos, cur, n))
    BY <1>1, <1>2, <1>7, Extended
  <1>9. Grow(pos, cur, n)[cur] = n
    BY <1>0 DEF Grow
  <1> QED BY <1>8, <1>9

\* Transitions and links with a clone c of z.
Cloned(Q, tr, W, R, x, z, cur, c) ==
  [q \in Q \cup {cur, c} |-> IF q = c THEN Grown(Q, tr, W, x, cur)[z]
                             ELSE IF q \in R THEN With(tr[q], x, c) ELSE Grown(Q, tr, W, x, cur)[q]]
Relinked(Q, K, z, cur, c) ==
  [q \in Q \cup {cur, c} |-> IF q = c THEN K[z] ELSE IF q \in {cur, z} THEN c ELSE K[q]]

\* What ReadChar assigns when it clones z.
Clones(Q, tr, K, L, o, W, R, x, n, z, b, cur, c, tr3, K3, L3, o3) ==
  /\ tr3 = Cloned(Q, tr, W, R, x, z, cur, c) /\ K3 = Relinked(Q, K, z, cur, c)
  /\ L3 = Grow(Grow(L, cur, n), c, b) /\ o3 = Grow(Grow(o, cur, 1), c, 0)

\* A character is read, and the new state is linked to a clone that z is split into.
LEMMA ReadSplit ==
  ASSUME NEW m \in Nat, NEW t, NEW u, NEW x, NEW Q, NEW tr, NEW K, NEW L, NEW o, NEW pos, NEW s,
         NEW cur,
         NEW n, Held(m, t, Q, tr, K, L, o, pos), Reads(m, t, u, n, x, Q, L, pos, s, cur),
         NEW z, NEW b, NEW c, NEW R, SplitsAt(t, Q, tr, K, L, pos, z, b, c, x, R), c # cur,
         Has(K, L, z, b), Same(u, pos[z], n, b), Longest(m, u, n, b),
         NEW W, W = Passed(t, Q, tr, L, pos, s, x),
         NEW tr3, NEW K3, NEW L3, NEW o3,
         Clones(Q, tr, K, L, o, W, R, x, n, z, b, cur, c, tr3, K3, L3, o3)
  PROVE  Held(n, u, Q \cup {cur, c}, tr3, K3, L3, o3, Grow(Grow(pos, c, pos[z]), cur, n))
  <1> DEFINE P == Q \cup {c}
             tr2 == SplitTrans(Q, tr, R, x, z, c)
             K2 == SplitLinks(Q, K, z, c)
             L2 == Grow(L, c, b)
             o2 == Grow(o, c, 0)
             pos2 == Grow(pos, c, pos[z])
  <1>0. /\ n = m + 1 /\ (\A i \in 1..m : u[i] = t[i]) /\ x = u[n]
        /\ s \in Q /\ L[s] = m /\ pos[s] = m /\ cur \notin Q
    BY DEF Reads
  <1>a. /\ tr3 = Cloned(Q, tr, W, R, x, z, cur, c) /\ K3 = Relinked(Q, K, z, cur, c)
        /\ L3 = Grow(Grow(L, cur, n), c, b) /\ o3 = Grow(Grow(o, cur, 1), c, 0)
    BY DEF Clones
  <1>5. /\ z \in Q /\ b \in Nat /\ c \notin Q /\ z # Root /\ L[K[z]] < b /\ b < L[z] /\ x = t[pos[z]]
        /\ R = Into(Q, tr, L, x, z, b)
    BY DEF SplitsAt
  <1>1. Automaton(m, t, Q, tr, K, L, pos) /\ Begins(t, Q, L, pos, o)
    BY DEF Held
  <1>s. /\ L[Root] = 0 /\ \A q \in Q : L[q] \in Nat /\ pos[q] \in 0..m /\ pos[q] \in Nat
    BY <1>1, ShapeFacts DEF Automaton
  <1>d. DOMAIN tr = Q /\ DOMAIN K = Q /\ DOMAIN L = Q /\ DOMAIN o = Q
    BY <1>1 DEF Automaton, Shape, Begins
  <1>4. cur \notin P /\ Q \cup {cur, c} = P \cup {cur} /\ z # cur /\ z # c
    BY <1>0, <1>5
  <1>u. /\ tr3 = [q \in P \cup {cur} |->
                    IF q = c THEN Grown(Q, tr, W, x, cur)[z]
                    ELSE IF q \in R THEN With(tr[q], x, c) ELSE Grown(Q, tr, W, x, cur)[q]]
        /\ K3 = [q \in P \cup {cur} |->
                   IF q = c THEN K[z] ELSE IF q \in {cur, z} THEN c ELSE K[q]]
        /\ R \subseteq Q
    BY <1>4, <1>5, <1>a DEF Cloned, Relinked, Into
  <1>6. W = {p \in Q : Same(t, pos[p], m, L[p]) /\ x \notin DOMAIN tr[p]}
    <2>1. SuffixStates(t, Q, L, pos, s) = {p \in Q : Same(t, pos[p], m, L[p])}
      BY <1>0, <1>1, TextSuffixes
    <2> QED BY <2>1 DEF Passed
  <1>7. /\ Automaton(m, t, P, tr2, K2, L2, pos2) /\ NearlyProper(m, t, P, K2, L2, pos2, c)
        /\ Begins(t, P, L2, pos2, o2)
    BY Split
  <1>8. /\ DOMAIN tr2 = P /\ tr2[c] = tr[z] /\ L2[c] = b /\ pos2[c] = pos[z]
        /\ \A q \in Q : tr2[q] = IF q \in R THEN With(tr[q], x, c) ELSE tr[q]
        /\ \A q \in Q : L2[q] = L[q] /\ pos2[q] = pos[q]
    <2>1. DOMAIN pos = Q
      BY <1>1 DEF Automaton, Shape
    <2> QED BY <1>5, <1>d, <2>1 DEF SplitTrans, Grow
  <1>9. K3 = Grow(K2, cur, c)
    <2>1. DOMAIN K2 = P
      BY DEF SplitLinks
    <2>2. DOMAIN K3 = P \cup {cur} /\ DOMAIN Grow(K2, cur, c) = P \cup {cur}
      BY <1>4, <1>5, <1>u, <2>1 DEF Grow
    <2>3. ASSUME NEW q \in P \cup {cur} PROVE K3[q] = Grow(K2, cur, c)[q]
      BY <1>4, <1>5, <1>u, <2>1 DEF Grow, SplitLinks
    <2>4. K3 = [q \in P \cup {cur} |-> K3[q]]
          /\ Grow(K2, cur, c) = [q \in P \cup {cur} |-> Grow(K2, cur, c)[q]]
      BY <1>4, <1>5, <1>u, <2>1 DEF Grow
    <2> HIDE DEF K2, P
    <2> QED BY <2>3, <2>4
  <1>10. L3 = Grow(L2, cur, n)
    BY <1>0, <1>a, <1>5, <1>d, <1>4 DEF Grow
  <1>11. o3 = Grow(o2, cur, 1)
    BY <1>0, <1>a, <1>5, <1>d, <1>4 DEF Grow
  <1>12. Same(t, pos[z], m, b) <=> Same(t, pos[z], m, L[z])
    <2>1. m \in 0..m
      OBVIOUS
    <2>2. Same(t, pos[z], m, b) => Same(t, pos[z], m, L[z])
      BY <1>1, <1>5, <2>1 DEF Automaton, Classes
    <2>3. Same(t, pos[z], m, L[z]) => Same(t, pos[z], m, b)
      BY <1>0, <1>s, <1>5, SameLess
    <2> QED BY <2>2, <2>3
  <1> HIDE DEF tr2, K2, L2, o2, pos2
  <1>13. /\ DOMAIN tr3 = P \cup {cur} /\ DOMAIN tr3[cur] = {}
         /\ \A q \in P : IF Same(t, pos2[q], m, L2[q]) /\ x \notin DOMAIN tr2[q]
                         THEN tr3[q] = With(tr2[q], x, cur) ELSE tr3[q] = tr2[q]
    <2>0. cur \notin R /\ cur \notin W
      BY <1>0, <1>6, <1>u
    <2>g. \A q \in Q : Grown(Q, tr, W, x, cur)[q] = IF q \in W THEN With(tr[q], x, cur) ELSE tr[q]
      BY <1>0 DEF Grown
    <2>1. DOMAIN tr3 = P \cup {cur}
      BY <1>u
    <2>2. DOMAIN tr3[cur] = {}
      <3>1. Grown(Q, tr, W, x, cur)[cur] = <<>>
        BY <2>0 DEF Grown
      <3>2. tr3[cur] = <<>>
        BY <1>0, <1>4, <1>5, <1>u, <2>0, <3>1
      <3> QED BY <3>2
    <2>3. IF Same(t, pos2[c], m, L2[c]) /\ x \notin DOMAIN tr2[c]
          THEN tr3[c] = With(tr2[c], x, cur) ELSE tr3[c] = tr2[c]
      <3>1. tr3[c] = IF z \in W THEN With(tr[z], x, cur) ELSE tr[z]
        BY <1>5, <1>u, <2>g
      <3>2. z \in W <=> Same(t, pos[z], m, b) /\ x \notin DOMAIN tr[z]
        BY <1>5, <1>6, <1>12
      <3> QED BY <1>0, <1>8, <3>1, <3>2
    <2>4. ASSUME NEW q \in Q
          PROVE  IF Same(t, pos2[q], m, L2[q]) /\ x \notin DOMAIN tr2[q]
                 THEN tr3[q] = With(tr2[q], x, cur) ELSE tr3[q] = tr2[q]
      <3>1. CASE q \in R
        <4>1. tr3[q] = With(tr[q], x, c) /\ tr2[q] = With(tr[q], x, c)
          BY <1>5, <1>u, <1>8, <3>1
        <4>2. x \in DOMAIN tr2[q]
          BY <4>1 DEF With
        <4> QED BY <1>0, <4>1, <4>2
      <3>2. CASE q \notin R
        <4>1. tr3[q] = Grown(Q, tr, W, x, cur)[q] /\ tr2[q] = tr[q]
          BY <1>5, <1>u, <1>8, <3>2
        <4>2. q \in W <=> Same(t, pos2[q], m, L2[q]) /\ x \notin DOMAIN tr[q]
          BY <1>0, <1>6, <1>8
        <4> QED BY <1>0, <2>g, <4>1, <4>2
      <3> QED BY <3>1, <3>2
    <2> QED BY <2>1, <2>2, <2>3, <2>4
  <1>14. c \in P /\ Same(u, pos2[c], n, L2[c])
         /\ \A a \in 0..m, l \in Nat : Same(u, a, n, l) => l <= L2[c]
    BY <1>5, <1>8 DEF Longest
  <1> HIDE DEF P
  <1>15. Held(n, u, P \cup {cur}, tr3, Grow(K2, cur, c), Grow(L2, cur, n), Grow(o2, cur, 1),
              Grow(pos2, cur, n))
    <2>1. Grows(m, t, u, n, P, tr2, L2, pos2, cur, c, tr3)
      BY <1>0, <1>4, <1>13, <1>14 DEF Grows
    <2> QED BY <1>7, <2>1, Extended
  <1> QED BY <1>4, <1>9, <1>10, <1>11, <1>15 DEF pos2

\* What ReadChar assigns, when W was passed and the walk ended in Z.
Assigns(ch, W, Z, cur, n) ==
  LET grown == [s \in Sized \cup {cur} |->
                  IF s \in W THEN With(trans[s], ch, cur) ELSE IF s = cur THEN <<>> ELSE trans[s]]
  IN  /\ chars' = Append(chars, ch) /\ last' = cur
      /\ \/ /\ Z = {} /\ trans' = grown /\ link' = Grow(link, cur, Root)
            /\ length' = Grow(length, cur, n) /\ own' = Grow(own, cur, 1)
         \/ \E s \in Z :
              LET target == trans[s][ch]
                  clone == cur + 1
              IN  IF length[s] + 1 = length[target]
                  THEN /\ trans' = grown /\ link' = Grow(link, cur, target)
                       /\ length' = Grow(length, cur, n) /\ own' = Grow(own, cur, 1)
                  ELSE /\ trans' = [q \in Sized \cup {cur, clone} |->
                              IF q = clone THEN grown[target]
                              ELSE IF q \in Redirected(s, ch, target) THEN With(trans[q], ch, clone)
                              ELSE grown[q]]
                       /\ link' = [q \in Sized \cup {cur, clone} |->
                              IF q = clone THEN link[target]
                              ELSE IF q \in {cur, target} THEN clone ELSE link[q]]
                       /\ length' = Grow(Grow(length, cur, n), clone, length[s] + 1)
                       /\ own' = Grow(Grow(own, cur, 1), clone, 0)

\* ReadChar assigns what it finds along the links.
LEMMA ReadAssigns ==
  ASSUME NEW ch, ReadChar(ch), NEW W, NEW Z, NEW cur, NEW n,
         Unlinked(last, ch).passed = W, Unlinked(last, ch).stop = Z, NextState = cur,
         length[last] + 1 = n
  PROVE  Assigns(ch, W, Z, cur, n)
  <1>1. Assigns(ch, Unlinked(last, ch).passed, Unlinked(last, ch).stop, NextState, length[last] + 1)
    BY Zenon DEF ReadChar, Assigns
  <1> QED BY <1>1

\* What is known after the character, once the automaton of the longer text is.
LEMMA ReadHeld ==
  ASSUME chars' \in Seq(Char), NEW n \in Nat \ {0}, Sized' = 0..(n - 1), NEW pos2,
         Held(Len(chars'), chars', Sized', trans', link', length', own', pos2),
         last' \in Sized', length'[last'] = Len(chars'), pos2[last'] = Len(chars')
  PROVE  RepeatsIInv'
  <1>1. RepeatsHeld(pos2)'
    BY DEF RepeatsHeld
  <1>2. \E pos : RepeatsHeld(pos)'
    BY <1>1
  <1> QED BY <1>2 DEF RepeatsIInv

\* Reading a character keeps what is known.
LEMMA RepeatsRead == ASSUME RepeatsIInv, NEW ch \in Char, ReadChar(ch) PROVE RepeatsIInv'
  <1>1. PICK n \in Nat \ {0} : Sized = 0..(n - 1)
    BY DEF RepeatsIInv
  <1>2. NextState = n
    <2>1. Cardinality(0..(n - 1)) = (n - 1) - 0 + 1
      BY FS_Interval
    <2> QED BY <1>1, <2>1 DEF NextState
  <1>3. PICK pos : RepeatsHeld(pos)
    BY DEF RepeatsIInv
  <1> DEFINE m == Len(chars)
             t == chars
             u == Append(chars, ch)
             k == m + 1
             Q == Sized
             W == Passed(t, Q, trans, length, pos, last, ch)
             Z == Stop(t, Q, trans, length, pos, last, ch)
             grown == Grown(Q, trans, W, ch, n)
  <1>4. /\ Held(m, t, Q, trans, link, length, own, pos)
        /\ last \in Q /\ length[last] = m /\ pos[last] = m
    BY <1>3 DEF RepeatsHeld
  <1>5. Automaton(m, t, Q, trans, link, length, pos)
    BY <1>4 DEF Held
  <1>6. /\ m \in Nat /\ (\A i \in 1..m : u[i] = t[i]) /\ u[k] = ch /\ Len(u) = k /\ u \in Seq(Char)
        /\ k = m + 1 /\ k \in Nat
    BY DEF RepeatsIInv
  <1>7. n \notin Q /\ n + 1 \notin Q /\ n + 1 # n /\ Root \in Q /\ Q \cup {n} = 0..((n + 1) - 1)
        /\ Q \cup {n, n + 1} = 0..((n + 2) - 1) /\ n + 1 \in Nat \ {0} /\ n + 2 \in Nat \ {0}
    BY <1>1 DEF Root
  <1>8. Unlinked(last, ch) = [passed |-> W, stop |-> Z]
    BY <1>4, <1>5, UnlinkedIs
  <1>9. SuffixStates(t, Q, length, pos, last) = {p \in Q : Same(t, pos[p], m, length[p])}
    BY <1>4, <1>5, <1>6, TextSuffixes
  <1> HIDE DEF W, Z
  <1>10. /\ chars' = u /\ last' = n
         /\ \/ /\ Z = {} /\ trans' = grown /\ link' = Grow(link, n, Root)
               /\ length' = Grow(length, n, k) /\ own' = Grow(own, n, 1)
            \/ \E s \in Z :
                 IF length[s] + 1 = length[trans[s][ch]]
                 THEN /\ trans' = grown /\ link' = Grow(link, n, trans[s][ch])
                      /\ length' = Grow(length, n, k) /\ own' = Grow(own, n, 1)
                 ELSE /\ trans' = Cloned(Q, trans, W, Redirected(s, ch, trans[s][ch]), ch, trans[s][ch],
                                        n, n + 1)
                      /\ link' = Relinked(Q, link, trans[s][ch], n, n + 1)
                      /\ length' = Grow(Grow(length, n, k), n + 1, length[s] + 1)
                      /\ own' = Grow(Grow(own, n, 1), n + 1, 0)
    <2>1. Unlinked(last, ch).passed = W /\ Unlinked(last, ch).stop = Z /\ length[last] + 1 = k
      BY <1>4, <1>8
    <2>2. Assigns(ch, W, Z, n, k)
      BY <1>2, <2>1, ReadAssigns
    <2> QED BY <2>2 DEF Assigns, Cloned, Relinked, Grown
  <1>w. W = Passed(t, Q, trans, length, pos, last, ch) /\ grown = Grown(Q, trans, W, ch, n)
    BY DEF W
  <1> HIDE DEF m, t, u, k, Q, grown
  <1>s. /\ length[Root] = 0
        /\ \A r \in Q : pos[r] \in 0..m /\ pos[r] \in Nat /\ length[r] \in Nat /\ length[r] <= m
    BY <1>5, <1>6, ShapeFacts DEF Automaton
  <1>11. Reads(m, t, u, k, ch, Q, length, pos, last, n)
    BY <1>4, <1>6, <1>7 DEF Reads
  <1>a. \A a \in 0..m, l \in Nat : l # 0 /\ Same(u, a, k, l) =>
          \E p \in Q : Same(t, pos[p], m, length[p]) /\ ch \in DOMAIN trans[p] /\ l <= length[p] + 1
    <2> SUFFICES ASSUME NEW a \in 0..m, NEW l \in Nat, l # 0, Same(u, a, k, l)
                 PROVE  \E p \in Q : /\ Same(t, pos[p], m, length[p]) /\ ch \in DOMAIN trans[p]
                                     /\ l <= length[p] + 1
      OBVIOUS
    <2>1. l \in Nat \ {0} /\ Same(u, a, m + 1, l) /\ u[m + 1] = ch
      BY <1>6
    <2>2. \E p \in Q : Same(t, pos[p], m, length[p]) /\ u[m + 1] \in DOMAIN trans[p]
          /\ l <= length[p] + 1
      BY <1>5, <1>6, <2>1, RecursBehind
    <2> QED BY <2>1, <2>2
  \* Linked to g, without a clone.
  <1>b. ASSUME NEW g \in Q, Same(u, pos[g], k, length[g]), Longest(m, u, k, length[g]),
               trans' = grown, link' = Grow(link, n, g),
               length' = Grow(length, n, k), own' = Grow(own, n, 1)
        PROVE  RepeatsIInv'
    <2> DEFINE pos2 == Grow(pos, n, k)
    <2>1. Held(k, u, Q \cup {n}, grown, Grow(link, n, g), Grow(length, n, k), Grow(own, n, 1), pos2)
          /\ pos2[n] = k
      BY <1>4, <1>6, <1>11, <1>b, <1>w, ReadLinked
    <2> HIDE DEF pos2
    <2>2. Sized' = Q \cup {n}
      BY <1>b DEF Sized, grown, Grown
    <2>3. length'[n] = k
      BY <1>b DEF Grow
    <2>4. Held(Len(chars'), chars', Sized', trans', link', length', own', pos2)
      BY <1>6, <1>10, <1>b, <2>1, <2>2
    <2> QED BY <1>6, <1>7, <1>10, <2>1, <2>2, <2>3, <2>4, ReadHeld
  <1>12. CASE /\ Z = {} /\ trans' = grown /\ link' = Grow(link, n, Root)
              /\ length' = Grow(length, n, k) /\ own' = Grow(own, n, 1)
    <2>1. \A p \in Q : Same(t, pos[p], m, length[p]) => ch \notin DOMAIN trans[p]
      <3>1. SUFFICES ASSUME NEW p \in Q, Same(t, pos[p], m, length[p]), ch \in DOMAIN trans[p]
                     PROVE  FALSE
        OBVIOUS
      <3>2. p \in SuffixStates(t, Q, length, pos, last)
        BY <1>9, <3>1
      <3> QED BY <1>4, <1>5, <1>6, <1>12, <3>1, <3>2, StopFound DEF Z
    <2>2. Longest(m, u, k, length[Root])
      BY <1>s, <1>a, <2>1 DEF Longest
    <2>3. Same(u, pos[Root], k, length[Root])
      BY <1>s, <1>6, <1>7, SameEqual
    <2> QED BY <1>7, <1>b, <1>12, <2>2, <2>3
  <1>13. ASSUME NEW s \in Z
         PROVE  LET z == trans[s][ch]
                    b == length[s] + 1
                IN  /\ s \in Q /\ ch \in DOMAIN trans[s]
                    /\ z \in Q /\ b \in Nat \ {0} /\ Has(link, length, z, b) /\ Same(u, pos[z], k, b)
                    /\ ch = t[pos[z]] /\ Longest(m, u, k, b)
    <2> DEFINE z == trans[s][ch]
               b == length[s] + 1
    <2>1. /\ s \in Q /\ Same(t, pos[s], m, length[s]) /\ ch \in DOMAIN trans[s]
          /\ \A p \in Q : Same(t, pos[p], m, length[p]) /\ ch \in DOMAIN trans[p]
             => length[p] <= length[s]
      BY <1>9 DEF Z, Stop
    <2>2. ch = u[m + 1] /\ z = trans[s][ch] /\ b = length[s] + 1
      BY <1>6
    <2> HIDE DEF z, b
    <2>3. /\ z \in Q /\ b \in Nat \ {0} /\ Has(link, length, z, b) /\ Same(u, pos[z], m + 1, b)
             /\ ch = t[pos[z]]
          /\ \A a \in 0..m, l \in Nat : Same(u, a, m + 1, l) => l <= b
      BY <1>5, <1>6, <2>1, <2>2, TargetFound
    <2>4. /\ s \in Q /\ ch \in DOMAIN trans[s]
          /\ z \in Q /\ b \in Nat \ {0} /\ Has(link, length, z, b) /\ Same(u, pos[z], k, b)
          /\ ch = t[pos[z]] /\ Longest(m, u, k, b)
      BY <1>6, <2>1, <2>3 DEF Longest
    <2> QED BY <2>4 DEF z, b
  <1>14. ASSUME NEW s \in Z, length[s] + 1 = length[trans[s][ch]],
                trans' = grown, link' = Grow(link, n, trans[s][ch]),
                length' = Grow(length, n, k), own' = Grow(own, n, 1)
         PROVE  RepeatsIInv'
    BY <1>13, <1>14, <1>b
  <1>15. ASSUME NEW s \in Z, NEW z, z = trans[s][ch], NEW b, b = length[s] + 1, b # length[z],
                trans' = Cloned(Q, trans, W, Redirected(s, ch, z), ch, z, n, n + 1),
                link' = Relinked(Q, link, z, n, n + 1),
                length' = Grow(Grow(length, n, k), n + 1, b),
                own' = Grow(Grow(own, n, 1), n + 1, 0)
         PROVE  RepeatsIInv'
    <2> DEFINE R == Redirected(s, ch, z)
               c == n + 1
               tr3 == trans'
               K3 == link'
               L3 == length'
               o3 == own'
    <2>1. /\ s \in Q /\ ch \in DOMAIN trans[s]
          /\ z \in Q /\ b \in Nat \ {0} /\ Has(link, length, z, b) /\ Same(u, pos[z], k, b)
          /\ ch = t[pos[z]] /\ Longest(m, u, k, b)
      BY <1>13, <1>15
    <2>2. R = Into(Q, trans, length, ch, z, b)
      <3>1. R = Led(t, Q, trans, length, pos, s, ch, z)
        BY <1>5, <1>6, <2>1, RedirectedIs DEF Q
      <3>2. Led(t, Q, trans, length, pos, s, ch, z) = Into(Q, trans, length, ch, z, b)
        <4>1. m \in Nat /\ s \in Q /\ ch \in DOMAIN trans[s] /\ trans[s][ch] = z /\ b = length[s] + 1
          BY <1>6, <1>15, <2>1
        <4> HIDE DEF R
        <4> QED BY <1>5, <4>1, LedByLength
      <3> QED BY <3>1, <3>2
    <2>3. /\ tr3 = Cloned(Q, trans, W, R, ch, z, n, c) /\ K3 = Relinked(Q, link, z, n, c)
          /\ L3 = Grow(Grow(length, n, k), c, b)
          /\ o3 = Grow(Grow(own, n, 1), c, 0)
      BY <1>15
    <2>4. Sized' = Q \cup {n, c} /\ c \notin Q /\ c # n
      BY <1>7, <2>3 DEF Sized, Cloned
    <2>5. length'[n] = k
      BY <2>3, <2>4 DEF Grow
    <2>6. Sized' = 0..((n + 2) - 1) /\ n \in Q \cup {n, c}
      BY <1>7, <2>4
    <2> HIDE DEF R, c, tr3, K3, L3, o3
    <2>s. SplitsAt(t, Q, trans, link, length, pos, z, b, c, ch, R)
      <3>1. z # Root
        BY <1>s, <2>1 DEF Has
      <3>0. b # length[z]
        BY <1>15
      <3>4. b <= length[z] /\ length[link[z]] < b
        BY <2>1, <3>1 DEF Has
      <3>5. b \in Nat /\ length[z] \in Nat
        BY <1>s, <2>1
      <3>2. length[link[z]] < b /\ b < length[z]
        BY <3>0, <3>4, <3>5
      <3>3. b \in Nat /\ ch = t[pos[z]] /\ c \notin Q
        BY <2>1, <2>4
      <3> QED BY <2>1, <2>2, <3>1, <3>2, <3>3 DEF SplitsAt
    <2> DEFINE pos3 == Grow(Grow(pos, c, pos[z]), n, k)
    <2>7. Held(k, u, Q \cup {n, c}, tr3, K3, L3, o3, pos3)
      <3>1. m \in Nat /\ Has(link, length, z, b) /\ Same(u, pos[z], k, b) /\ Longest(m, u, k, b)
            /\ c # n
        BY <1>6, <2>1, <2>4
      <3>2. Held(m, t, Q, trans, link, length, own, pos)
        BY <1>4
      <3>3. Clones(Q, trans, link, length, own, W, R, ch, k, z, b, n, c, tr3, K3, L3, o3)
        BY <2>3 DEF Clones
      <3> QED BY <1>11, <1>w, <2>s, <3>1, <3>2, <3>3, ReadSplit
    <2>8. pos3[n] = k
      BY DEF Grow
    <2> HIDE DEF pos3
    <2>9. Held(Len(chars'), chars', Sized', trans', link', length', own', pos3)
      BY <1>6, <1>10, <2>4, <2>7 DEF tr3, K3, L3, o3
    <2> QED BY <1>6, <1>7, <1>10, <2>4, <2>5, <2>6, <2>8, <2>9, ReadHeld
  <1> QED BY <1>10, <1>12, <1>14, <1>15, Zenon

-----------------------------------------------------------------------------
(* Occurrences. *)

\* The places where the longest string of q ends.
Ends(m, t, L, pos, q) == {a \in 1..m : Same(t, pos[q], a, L[q])}
Children(Q, K, q) == {c \in Q \ {Root} : K[c] = q}

\* A string of q that ends at a is the text's beginning, or goes on to the left into
\* exactly one child of q.
LEMMA EndsSplit ==
  ASSUME NEW m \in Nat, NEW t, NEW Q, NEW tr, NEW K, NEW L, NEW o, NEW pos,
         Held(m, t, Q, tr, K, L, o, pos), NEW q \in Q, q # Root
  PROVE  /\ o[q] \in {0, 1}
         /\ o[q] = 1 => L[q] \in Ends(m, t, L, pos, q)
         /\ \A c \in Children(Q, K, q) : Ends(m, t, L, pos, c) \subseteq Ends(m, t, L, pos, q) \ {L[q]}
         /\ \A c, d \in Children(Q, K, q) : c # d
            => Ends(m, t, L, pos, c) \cap Ends(m, t, L, pos, d) = {}
         /\ \A a \in Ends(m, t, L, pos, q) : \/ a = L[q] /\ o[q] = 1
                                             \/ \E c \in Children(Q, K, q) : a \in Ends(m, t, L, pos, c)
  <1>0. Automaton(m, t, Q, tr, K, L, pos) /\ Begins(t, Q, L, pos, o)
    BY DEF Held
  <1>s. \A r \in Q : /\ pos[r] \in 0..m /\ pos[r] \in Nat /\ L[r] \in Nat /\ K[r] \in Q
                     /\ L[r] <= pos[r] /\ (r # Root => L[K[r]] < L[r]) /\ Has(K, L, r, L[r])
    BY <1>0, ShapeFacts DEF Automaton
  <1>1. o[q] \in {0, 1} /\ (o[q] = 1 <=> Same(t, pos[q], L[q], L[q]))
    BY <1>0 DEF Begins
  <1>2. L[q] \in 1..m
    BY <1>s
  <1>3. ASSUME NEW c \in Children(Q, K, q), NEW a \in Ends(m, t, L, pos, c)
        PROVE  a \in Ends(m, t, L, pos, q) /\ a # L[q]
    <2>1. c \in Q /\ c # Root /\ K[c] = q /\ L[q] < L[c] /\ a \in 1..m /\ a \in Nat
          /\ Same(t, pos[c], a, L[c])
      BY <1>s DEF Children, Ends
    <2>2. Same(t, pos[q], pos[c], L[q])
      BY <1>0, <2>1 DEF Automaton, Linked
    <2>3. Same(t, pos[c], a, L[q])
      BY <1>s, <2>1, SameLess
    <2>4. Same(t, pos[q], a, L[q])
      BY <1>s, <2>1, <2>2, <2>3, SameEqual
    <2>5. L[c] <= a
      BY <1>s, <2>1, SameEqual
    <2> QED BY <1>s, <2>1, <2>4, <2>5 DEF Ends
  <1>4. ASSUME NEW c \in Children(Q, K, q), NEW d \in Children(Q, K, q),
               NEW a, a \in Ends(m, t, L, pos, c), a \in Ends(m, t, L, pos, d)
        PROVE  c = d
    <2> DEFINE l == L[q] + 1
    <2>1. /\ c \in Q /\ c # Root /\ K[c] = q /\ L[q] < L[c] /\ Same(t, pos[c], a, L[c])
          /\ d \in Q /\ d # Root /\ K[d] = q /\ L[q] < L[d] /\ Same(t, pos[d], a, L[d]) /\ a \in Nat
      BY <1>s, <1>4 DEF Children, Ends
    <2>2. l \in Nat /\ l <= L[c] /\ l <= L[d] /\ Has(K, L, c, l) /\ Has(K, L, d, l)
      BY <1>s, <2>1 DEF Has
    <2> HIDE DEF l
    <2>3. Same(t, pos[c], a, l) /\ Same(t, pos[d], a, l)
      BY <1>s, <2>1, <2>2, SameLess
    <2>4. Same(t, a, pos[d], l)
      BY <1>s, <2>1, <2>2, <2>3, SameEqual
    <2>5. Same(t, pos[c], pos[d], l)
      BY <1>s, <2>1, <2>2, <2>3, <2>4, SameEqual
    <2> QED BY <1>0, <2>1, <2>2, <2>5 DEF Automaton, Unique
  <1>5. ASSUME NEW a \in Ends(m, t, L, pos, q)
        PROVE  \/ a = L[q] /\ o[q] = 1
               \/ \E c \in Children(Q, K, q) : a \in Ends(m, t, L, pos, c)
    <2>1. a \in 1..m /\ a \in Nat /\ a \in 0..m /\ Same(t, pos[q], a, L[q]) /\ L[q] <= a
      BY <1>s, SameEqual DEF Ends
    <2>2. CASE a = L[q]
      BY <1>1, <2>1, <2>2
    <2>3. CASE a # L[q]
      <3> DEFINE l == L[q] + 1
      <3>1. l \in 0..a /\ l \in Nat /\ L[q] < l /\ L[q] <= l
        BY <1>s, <2>1, <2>3
      <3> HIDE DEF l
      <3>3. PICK c \in Q : Has(K, L, c, l) /\ Same(t, pos[c], a, l)
        BY <1>0, <2>1, <3>1 DEF Automaton, Covered
      <3>4. Same(t, pos[c], a, L[c])
        BY <1>0, <2>1, <3>1, <3>3 DEF Automaton, Classes
      <3>5. l <= L[c] /\ c # Root /\ L[K[c]] < l
        <4>1. L[Root] = 0
          BY <1>0 DEF Automaton, Shape
        <4> QED BY <1>s, <3>1, <3>3, <4>1 DEF Has
      <3>6. Same(t, pos[c], pos[q], L[q])
        <4>1. Same(t, a, pos[q], L[q])
          BY <1>s, <2>1, SameEqual
        <4>2. Same(t, pos[c], a, L[q])
          BY <1>s, <2>1, <3>1, <3>3, SameLess
        <4> QED BY <1>s, <2>1, <4>1, <4>2, SameEqual
      <3>7. K[c] = q
        <4>1. CASE L[K[c]] < L[q]
          <5>1. Has(K, L, c, L[q]) /\ Has(K, L, q, L[q])
            BY <1>s, <3>1, <3>5, <4>1 DEF Has
          <5>2. c = q
            BY <1>0, <1>s, <3>6, <5>1 DEF Automaton, Unique
          <5> QED BY <1>s, <3>1, <3>5, <5>2
        <4>2. CASE L[K[c]] = L[q]
          <5>1. Same(t, pos[K[c]], pos[c], L[q])
            BY <1>0, <3>5, <4>2 DEF Automaton, Linked
          <5>2. Same(t, pos[K[c]], pos[q], L[q])
            BY <1>s, <3>6, <5>1, SameEqual
          <5>3. Has(K, L, K[c], L[q]) /\ Has(K, L, q, L[q]) /\ K[c] \in Q /\ L[q] \in Nat
            BY <1>s, <4>2
          <5> QED BY <1>0, <5>2, <5>3 DEF Automaton, Unique
        <4>3. L[K[c]] <= L[q] /\ L[K[c]] \in Nat /\ L[q] \in Nat
          <5>1. L[K[c]] \in Nat /\ L[q] \in Nat
            BY <1>s
          <5>2. L[K[c]] < L[q] + 1
            BY <3>5 DEF l
          <5> QED BY <5>1, <5>2
        <4> QED BY <4>1, <4>2, <4>3
      <3>8. c \in Children(Q, K, q) /\ a \in Ends(m, t, L, pos, c)
        BY <2>1, <3>4, <3>5, <3>7 DEF Children, Ends
      <3> QED BY <3>8
    <2> QED BY <2>2, <2>3
  <1>6. o[q] = 1 => L[q] \in Ends(m, t, L, pos, q)
    BY <1>1, <1>2 DEF Ends
  <1>7. \A c \in Children(Q, K, q) : Ends(m, t, L, pos, c) \subseteq Ends(m, t, L, pos, q) \ {L[q]}
    BY <1>3
  <1>8. \A c, d \in Children(Q, K, q) : c # d => Ends(m, t, L, pos, c) \cap Ends(m, t, L, pos, d) = {}
    BY <1>4
  <1> QED BY <1>1, <1>5, <1>6, <1>7, <1>8

\* What holds of a state when of all that link to it holds of all.
LEMMA ChildrenInduct ==
  ASSUME NEW m \in Nat, NEW Q, NEW tr, NEW K, NEW L, NEW pos, Shape(m, Q, tr, K, L, pos), NEW P,
         \A q \in Q : Children(Q, K, q) \subseteq P => q \in P
  PROVE  Q \subseteq P
  <1> DEFINE bad == {q \in Q : q \notin P}
             lengths == {L[q] : q \in bad}
  <1>s. \A r \in Q : L[r] \in 0..m /\ L[r] \in Nat /\ (r # Root => L[K[r]] < L[r])
    BY ShapeFacts
  <1>1. SUFFICES ASSUME bad # {} PROVE FALSE
    OBVIOUS
  <1>2. lengths \subseteq 0..m /\ lengths # {}
    BY <1>s, <1>1
  <1>3. Max(lengths) \in lengths /\ \A k \in lengths : k <= Max(lengths)
    <2> HIDE DEF lengths
    <2> QED BY <1>2, GreatestOfSet
  <1>4. PICK q \in bad : Max(lengths) = L[q]
    BY <1>3
  <1>5. PICK c \in Children(Q, K, q) : c \notin P
    BY <1>4
  <1>6. c \in bad /\ c # Root /\ K[c] = q
    BY <1>5 DEF Children
  <1>7. L[c] <= L[q]
    BY <1>3, <1>4, <1>6
  <1> QED BY <1>s, <1>4, <1>6, <1>7

\* The number of places where a state's strings end is its own and its children's.
LEMMA EndsAdd ==
  ASSUME NEW m \in Nat, NEW t, NEW Q, NEW tr, NEW K, NEW L, NEW o, NEW pos,
         Held(m, t, Q, tr, K, L, o, pos), IsFiniteSet(Q), NEW q \in Q, q # Root
  PROVE  /\ IsFiniteSet(Ends(m, t, L, pos, q))
         /\ Cardinality(Ends(m, t, L, pos, q)) =
              o[q] + SumFunction([c \in Children(Q, K, q) |-> Cardinality(Ends(m, t, L, pos, c))])
  <1> DEFINE A(c) == Ends(m, t, L, pos, c)
             S == Children(Q, K, q)
             F == [c \in S |-> A(c)]
             C == [c \in S |-> Cardinality(A(c))]
             U == UNION {F[c] : c \in S}
  <1>1. /\ o[q] \in {0, 1}
        /\ o[q] = 1 => L[q] \in A(q)
        /\ \A c \in S : A(c) \subseteq A(q) \ {L[q]}
        /\ \A c, d \in S : c # d => A(c) \cap A(d) = {}
        /\ \A a \in A(q) : \/ a = L[q] /\ o[q] = 1
                           \/ \E c \in S : a \in A(c)
    BY EndsSplit
  <1>2. \A c : IsFiniteSet(A(c)) /\ Cardinality(A(c)) \in Int
    <2> TAKE c
    <2>1. A(c) \in SUBSET (1..m) /\ IsFiniteSet(1..m)
      BY FS_Interval DEF Ends
    <2> HIDE DEF A
    <2>2. IsFiniteSet(A(c))
      BY <2>1, FS_Subset
    <2> QED BY <2>2, FS_CardinalityType
  <1>3. IsFiniteSet(S)
    BY FS_Subset DEF Children
  <1> HIDE DEF A, S
  <1>4. C \in [S -> Int] /\ \A x \in S : IsFiniteSet(F[x]) /\ C[x] = Cardinality(F[x])
    BY <1>2
  <1>5. \A x, y \in S : x # y => F[x] \cap F[y] = {}
    BY <1>1
  <1>u. \A a : a \in U <=> \E c \in S : a \in A(c)
    OBVIOUS
  <1> HIDE DEF F, C
  <1>6. IsFiniteSet(U) /\ SumFunction(C) = Cardinality(U)
    BY <1>3, <1>4, <1>5, SumOfSizes
  <1> HIDE DEF U
  <1>7. L[q] \notin U
    BY <1>1, <1>u
  <1>8. CASE o[q] = 1
    <2>1. A(q) = U \cup {L[q]}
      BY <1>1, <1>8, <1>u
    <2>2. Cardinality(A(q)) = Cardinality(U) + 1
      BY <1>6, <1>7, <2>1, FS_AddElement
    <2>3. Cardinality(U) \in Nat
      BY <1>6, FS_CardinalityType
    <2>4. Cardinality(A(q)) = o[q] + SumFunction(C)
      BY <1>6, <1>8, <2>2, <2>3
    <2> QED BY <1>2, <2>4 DEF A, C, S
  <1>9. CASE o[q] = 0
    <2>1. A(q) = U
      <3>1. \A a \in A(q) : a \in U
        <4>1. o[q] # 1
          BY <1>9
        <4> QED BY <1>1, <1>u, <4>1
      <3>2. \A a \in U : a \in A(q)
        BY <1>1, <1>u
      <3> QED BY <3>1, <3>2
    <2>2. Cardinality(U) \in Nat
      BY <1>6, FS_CardinalityType
    <2>3. Cardinality(A(q)) = o[q] + SumFunction(C)
      BY <1>6, <1>9, <2>1, <2>2
    <2> QED BY <1>2, <2>3 DEF A, C, S
  <1> QED BY <1>1, <1>8, <1>9

\* f holds what Occurrences returns.
Totals(f, Q, K, o) ==
  f = [q \in Q |-> o[q] + SumFunction([t \in Children(Q, K, q) |-> f[t]])]

\* Occurrences counts the places where a state's strings end.
LEMMA OccurrencesAre ==
  ASSUME NEW m \in Nat, NEW t, NEW pos, Held(m, t, Sized, trans, link, length, own, pos),
         IsFiniteSet(Sized), NEW s \in Sized, s # Root
  PROVE  Occurrences(s) = Cardinality(Ends(m, t, length, pos, s))
  <1> DEFINE Q == Sized
             A(c) == Ends(m, t, length, pos, c)
             N(q) == own[q] + SumFunction([c \in Children(Q, link, q) |-> Cardinality(A(c))])
             h == [q \in Q |-> N(q)]
             c == CHOOSE f : Totals(f, Q, link, own)
  <1>1. \A q \in Q : q # Root => Cardinality(A(q)) = N(q)
    BY EndsAdd
  <1>2. \A q : Children(Q, link, q) \subseteq Q \ {Root}
    BY DEF Children
  <1> HIDE DEF A, Q
  <1>3. Totals(h, Q, link, own)
    <2>1. ASSUME NEW q \in Q
          PROVE  h[q] = own[q] + SumFunction([d \in Children(Q, link, q) |-> h[d]])
      <3>1. \A d \in Children(Q, link, q) : h[d] = Cardinality(A(d))
        BY <1>1, <1>2
      <3>2. [d \in Children(Q, link, q) |-> h[d]] = [d \in Children(Q, link, q) |-> Cardinality(A(d))]
        <4> HIDE DEF h
        <4> QED BY <3>1
      <3> QED BY <3>2
    <2> QED BY <2>1 DEF Totals
  <1>4. Totals(c, Q, link, own)
    BY <1>3
  <1>5. Occurrences(s) = c[s]
    BY DEF Occurrences, Totals, Children, Q
  <1> HIDE DEF c, h
  <1> DEFINE same == {q \in Q : c[q] = h[q]}
  <1>6. ASSUME NEW q \in Q, Children(Q, link, q) \subseteq same PROVE q \in same
    <2>1. [d \in Children(Q, link, q) |-> c[d]] = [d \in Children(Q, link, q) |-> h[d]]
      BY <1>6
    <2>2. c[q] = own[q] + SumFunction([d \in Children(Q, link, q) |-> c[d]])
      BY <1>4 DEF Totals
    <2>3. h[q] = own[q] + SumFunction([d \in Children(Q, link, q) |-> h[d]])
      BY <1>3 DEF Totals
    <2> QED BY <2>1, <2>2, <2>3
  <1>7. Q \subseteq same
    <2> HIDE DEF same
    <2>1. Shape(m, Q, trans, link, length, pos)
      BY DEF Held, Automaton, Q
    <2> QED BY <1>6, <2>1, ChildrenInduct
  <1>8. s \in Q
    BY DEF Q
  <1>9. c[s] = h[s]
    BY <1>7, <1>8
  <1>10. h[s] = N(s)
    BY <1>8 DEF h
  <1> HIDE DEF N
  <1> QED BY <1>1, <1>5, <1>8, <1>9, <1>10 DEF A

-----------------------------------------------------------------------------
(* The definitions that the measures are compared with. *)

\* Two spans of n characters are the same sequence exactly when they are equal up to
\* their ends.
LEMMA SpanEquality ==
  ASSUME NEW V, NEW t \in Seq(V), NEW n \in Nat, NEW i \in 1..(Len(t) - n + 1),
         NEW j \in 1..(Len(t) - n + 1)
  PROVE  SubSeq(t, i, i + n - 1) = SubSeq(t, j, j + n - 1) <=> Same(t, i + n - 1, j + n - 1, n)
  <1> DEFINE f == SubSeq(t, i, i + n - 1)
             g == SubSeq(t, j, j + n - 1)
  <1>0. Len(t) \in Nat
    OBVIOUS
  <1>1. /\ f \in Seq(V) /\ Len(f) = n /\ \A k \in 1..n : f[k] = t[i + k - 1]
        /\ g \in Seq(V) /\ Len(g) = n /\ \A k \in 1..n : g[k] = t[j + k - 1]
    BY <1>0
  <1> HIDE DEF f, g
  <1>2. ASSUME f = g PROVE Same(t, i + n - 1, j + n - 1, n)
    <2>1. ASSUME NEW d \in 0..(n - 1) PROVE t[(i + n - 1) - d] = t[(j + n - 1) - d]
      <3>1. n - d \in 1..n
        OBVIOUS
      <3>2. t[i + (n - d) - 1] = t[j + (n - d) - 1]
        BY <1>1, <1>2, <3>1
      <3>3. i + (n - d) - 1 = (i + n - 1) - d /\ j + (n - d) - 1 = (j + n - 1) - d
        BY <1>0
      <3> QED BY <3>2, <3>3
    <2> QED BY <1>0, <2>1 DEF Same
  <1>3. ASSUME Same(t, i + n - 1, j + n - 1, n) PROVE f = g
    <2>1. ASSUME NEW k \in 1..n PROVE f[k] = g[k]
      <3>1. n - k \in 0..(n - 1)
        OBVIOUS
      <3>2. t[(i + n - 1) - (n - k)] = t[(j + n - 1) - (n - k)]
        BY <1>3, <3>1 DEF Same
      <3>3. (i + n - 1) - (n - k) = i + k - 1 /\ (j + n - 1) - (n - k) = j + k - 1
        BY <1>0
      <3> QED BY <1>1, <3>2, <3>3
    <2> QED BY <1>1, <2>1
  <1> QED BY <1>2, <1>3 DEF f, g

\* What is known implies the type invariant,
LEMMA RepeatsTyped == RepeatsIInv => TypeOKRepeats
  <1> SUFFICES ASSUME RepeatsIInv PROVE TypeOKRepeats
    OBVIOUS
  <1>1. PICK pos : RepeatsHeld(pos)
    BY DEF RepeatsIInv
  <1> DEFINE m == Len(chars)
             Q == Sized
  <1>2. /\ Automaton(m, chars, Q, trans, link, length, pos) /\ last \in Q /\ length[last] = m
        /\ chars \in Seq(Char) /\ m \in Nat
    BY <1>1 DEF RepeatsHeld, Held, RepeatsIInv
  <1> HIDE DEF m, Q
  <1>3. \A q \in Q : length[q] \in Nat /\ link[q] \in Q /\ (q # Root => length[link[q]] < length[q])
    BY <1>2, ShapeFacts DEF Automaton
  <1>4. ASSUME NEW s \in Q, NEW ch \in DOMAIN trans[s] PROVE length[trans[s][ch]] > length[s]
    <2>1. PICK k \in Nat : k = length[s] + 1 /\ trans[s][ch] \in Q /\ Has(link, length, trans[s][ch], k)
      BY <1>2, LeadsTo
    <2>2. k <= length[trans[s][ch]]
      BY <2>1 DEF Has
    <2>3. length[s] \in Nat /\ length[trans[s][ch]] \in Nat
      BY <1>3, <2>1
    <2> QED BY <2>1, <2>2, <2>3
  <1> QED BY <1>2, <1>3, <1>4 DEF TypeOKRepeats, m, Q

\* and that the automaton finds the longest repeated span.
LEMMA RepeatsFound == RepeatsIInv => AutomatonCorrect
  <1> SUFFICES ASSUME RepeatsIInv PROVE AutomatonCorrect
    OBVIOUS
  <1>1. PICK pos : RepeatsHeld(pos)
    BY DEF RepeatsIInv
  <1> DEFINE m == Len(chars)
             t == chars
             Q == Sized
             E(q) == Ends(m, t, length, pos, q)
             A == {0} \cup {length[s] : s \in {q \in Q \ {Root} : Occurrences(q) >= 2}}
             B == {n \in 0..m : n = 0 \/ Repeated(n)}
  <1>2. /\ Held(m, t, Q, trans, link, length, own, pos) /\ t \in Seq(Char) /\ m \in Nat
        /\ IsFiniteSet(Q)
    <2>1. PICK n \in Nat \ {0} : Sized = 0..(n - 1)
      BY DEF RepeatsIInv
    <2>2. IsFiniteSet(0..(n - 1))
      BY FS_Interval
    <2> QED BY <1>1, <2>1, <2>2 DEF RepeatsHeld, RepeatsIInv
  <1>3. Automaton(m, t, Q, trans, link, length, pos)
    BY <1>2 DEF Held
  <1> HIDE DEF m, Q
  <1>s. /\ length[Root] = 0
        /\ \A q \in Q : /\ pos[q] \in 0..m /\ pos[q] \in Nat /\ length[q] \in Nat /\ link[q] \in Q
                        /\ length[q] <= pos[q] /\ (q # Root => length[link[q]] < length[q])
    BY <1>2, <1>3, ShapeFacts DEF Automaton
  <1>4. ASSUME NEW q \in Q, q # Root PROVE Occurrences(q) >= 2 <=> \E a, b \in E(q) : a # b
    <2>1. Occurrences(q) = Cardinality(E(q))
      BY <1>2, <1>4, OccurrencesAre DEF Q
    <2>2. IsFiniteSet(E(q))
      BY <1>2, <1>4, EndsAdd
    <2> HIDE DEF E
    <2> QED BY <2>1, <2>2, TwoElements
  \* A span that occurs twice is repeated.
  <1>5. ASSUME NEW a \in 1..m, NEW b \in 1..m, a < b, NEW n \in 1..m, n <= a, Same(t, a, b, n)
        PROVE  Repeated(n)
    <2> DEFINE i == a - n + 1
               j == b - n + 1
    <2>1. /\ i \in 1..(m - n + 1) /\ j \in 1..(m - n + 1) /\ i < j /\ n \in Nat
          /\ a = i + n - 1 /\ b = j + n - 1
      BY <1>2, <1>5
    <2> HIDE DEF i, j
    <2>2. Same(t, i + n - 1, j + n - 1, n)
      BY <1>5, <2>1
    <2>3. SubSeq(t, i, i + n - 1) = SubSeq(t, j, j + n - 1)
      BY <1>2, <2>1, <2>2, SpanEquality DEF m
    <2> QED BY <2>1, <2>3 DEF Repeated, m
  <1>6. A \subseteq B
    <2>1. 0 \in B
      BY <1>2
    <2>2. ASSUME NEW q \in Q \ {Root}, Occurrences(q) >= 2 PROVE length[q] \in B
      <3>1. PICK a \in E(q), b \in E(q) : a # b
        BY <1>4, <2>2
      <3>2. a \in 1..m /\ b \in 1..m /\ Same(t, pos[q], a, length[q]) /\ Same(t, pos[q], b, length[q])
        BY DEF Ends
      <3>3. length[q] \in 1..m /\ length[q] \in Nat /\ pos[q] \in Nat
        <4> DEFINE k == length[q]
                   k0 == length[link[q]]
                   d == pos[q]
        <4>1. k \in Nat /\ d \in Nat /\ d \in 0..m /\ k <= d /\ k0 < k /\ k0 \in Nat
          BY <1>s
        <4> HIDE DEF k, k0, d
        <4>2. k \in 1..m
          BY <1>2, <4>1
        <4> QED BY <4>1, <4>2 DEF k, d
      <3>4. Same(t, a, b, length[q]) /\ Same(t, b, a, length[q])
        <4>1. a \in Nat /\ b \in Nat /\ Same(t, a, pos[q], length[q]) /\ Same(t, b, pos[q], length[q])
          BY <3>2, <3>3, SameEqual
        <4> QED BY <3>2, <3>3, <4>1, SameEqual
      <3>5. length[q] <= a /\ length[q] <= b
        BY <3>4 DEF Same
      <3>6. a < b \/ b < a
        BY <3>1, <3>2
      <3>7. Repeated(length[q])
        BY <1>5, <3>2, <3>3, <3>4, <3>5, <3>6
      <3> QED BY <3>3, <3>7
    <2> QED BY <2>1, <2>2
  \* A repeated span is part of a state's longest string, which occurs as often.
  <1>7. ASSUME NEW n \in B PROVE \E y \in A : n <= y
    <2>1. CASE n = 0
      BY <2>1
    <2>2. CASE n # 0
      <3>1. n \in 1..m /\ n \in Nat /\ Repeated(n)
        BY <1>2, <2>2
      <3>2. PICK i \in 1..(m - n + 1), j \in 1..(m - n + 1) :
              i < j /\ SubSeq(t, i, i + n - 1) = SubSeq(t, j, j + n - 1)
        BY <3>1 DEF Repeated, m
      <3>3. Same(t, i + n - 1, j + n - 1, n)
        BY <1>2, <3>1, <3>2, SpanEquality DEF m
      <3> DEFINE a == i + n - 1
                 b == j + n - 1
      <3>4. a \in 1..m /\ b \in 1..m /\ a # b /\ a \in Nat /\ b \in Nat /\ n \in 0..a
            /\ Same(t, a, b, n)
        BY <1>2, <3>1, <3>2, <3>3
      <3> HIDE DEF a, b
      <3>5. PICK q \in Q : Has(link, length, q, n) /\ Same(t, pos[q], a, n)
        <4>1. a \in 0..m
          BY <3>4
        <4> QED BY <1>3, <3>4, <4>1 DEF Automaton, Covered
      <3>6. Same(t, pos[q], b, n)
        BY <1>s, <3>1, <3>4, <3>5, SameEqual
      <3>7. Same(t, pos[q], a, length[q]) /\ Same(t, pos[q], b, length[q])
        <4>1. a \in 0..m /\ b \in 0..m
          BY <3>4
        <4> QED BY <1>3, <3>1, <3>5, <3>6, <4>1 DEF Automaton, Classes
      <3>8. q # Root /\ n <= length[q]
        BY <1>s, <3>1, <3>5 DEF Has
      <3>9. Occurrences(q) >= 2
        <4>1. a \in E(q) /\ b \in E(q)
          BY <3>4, <3>7 DEF Ends
        <4> QED BY <1>4, <3>4, <3>8, <4>1
      <3>10. length[q] \in A
        BY <3>8, <3>9
      <3> QED BY <3>8, <3>10
    <2> QED BY <2>1, <2>2
  <1>8. A # {} /\ B \subseteq 0..m
    OBVIOUS
  <1>9. LongestRepeated = Max(A) /\ LongestByDefinition = Max(B)
    BY DEF LongestRepeated, LongestByDefinition, Q, m
  <1> HIDE DEF A, B
  <1>10. Max(A) = Max(B)
    BY <1>2, <1>6, <1>7, <1>8, MaxOfPart
  <1> QED BY <1>9, <1>10 DEF AutomatonCorrect

\* The n-gram that begins at i.
GramAt(t, i) == SubSeq(t, i, i + Gram - 1)

\* A text that repeats a unit of p characters has the n-grams of its first p places,
LEMMA PeriodGrams ==
  ASSUME NEW p \in Nat \ {0}, NEW V, chars \in Seq(V), HasPeriod(p),
         NEW i \in 1..(Len(chars) - Gram + 1)
  PROVE  \E j \in 1..(Len(chars) - Gram + 1) : j <= p /\ GramAt(chars, i) = GramAt(chars, j)
  <1> DEFINE m == Len(chars)
             first(k) == \E j \in 1..(m - Gram + 1) : j <= p /\ GramAt(chars, k) = GramAt(chars, j)
             bad == {k \in 1..(m - Gram + 1) : ~first(k)}
  <1>1. Gram \in Nat /\ Gram >= 1 /\ m \in Nat
    BY RepeatsAssumption
  <1>2. ASSUME bad # {} PROVE FALSE
    <2>1. bad \subseteq Nat
      BY <1>1
    <2>2. PICK k \in bad : \A y \in bad : k <= y
      BY <1>2, <2>1, LeastOfSet
    <2>3. k \in 1..(m - Gram + 1) /\ ~first(k)
      BY <2>2
    <2>4. k > p
      BY <2>3
    <2> DEFINE h == k - p
               b == k + Gram - 1
               a == h + Gram - 1
    <2>5. h \in 1..(m - Gram + 1) /\ h < k /\ a \in Nat /\ b \in Nat /\ a <= m /\ b <= m /\ b = a + p
          /\ Gram <= a /\ k \in Nat
      BY <1>1, <2>3, <2>4
    <2>6. first(h)
      BY <2>2, <2>5
    <2>7. Same(chars, a, b, Gram)
      <3>1. ASSUME NEW d \in 0..(Gram - 1) PROVE chars[a - d] = chars[b - d]
        <4>1. a - d \in 1..(m - p) /\ b - d = (a - d) + p
          BY <1>1, <2>5
        <4> QED BY <4>1 DEF HasPeriod
      <3> QED BY <1>1, <2>5, <3>1 DEF Same
    <2>8. GramAt(chars, h) = GramAt(chars, k)
      BY <1>1, <2>3, <2>5, <2>7, SpanEquality DEF GramAt
    <2> QED BY <2>3, <2>6, <2>8
  <1> QED BY <1>2

\* so it has at most p of them.
LEMMA FewGrams ==
  ASSUME NEW p \in Nat \ {0}, NEW V, chars \in Seq(V), HasPeriod(p)
  PROVE  IsFiniteSet(Grams(chars)) /\ Cardinality(Grams(chars)) <= p
  <1> DEFINE m == Len(chars)
             I == {j \in 1..p : j \in 1..(m - Gram + 1)}
             at == [j \in I |-> GramAt(chars, j)]
             G == Grams(chars)
  <1>1. IsFiniteSet(1..p) /\ Cardinality(1..p) = p
    BY FS_Interval
  <1>2. IsFiniteSet(I) /\ Cardinality(I) <= p
    BY <1>1, FS_Subset
  <1>3. Cardinality(I) \in Nat
    BY <1>2, FS_CardinalityType
  <1>4. \A x \in G : \E j \in I : at[j] = x
    <2> SUFFICES ASSUME NEW i \in 1..(m - Gram + 1) PROVE \E j \in I : at[j] = GramAt(chars, i)
      BY DEF Grams, GramAt
    <2>1. PICK j \in 1..(m - Gram + 1) : j <= p /\ GramAt(chars, i) = GramAt(chars, j)
      BY PeriodGrams
    <2>2. j \in I
      BY <2>1
    <2> QED BY <2>1, <2>2
  <1>5. at \in Surjection(I, G)
    <2>1. at \in [I -> G]
      BY DEF Grams, GramAt
    <2> QED BY <1>4, <2>1 DEF Surjection
  <1>6. IsFiniteSet(G) /\ Cardinality(G) <= Cardinality(I)
    BY <1>2, <1>5, FS_Surjection
  <1>7. Cardinality(G) \in Nat
    BY <1>6, FS_CardinalityType
  <1> HIDE DEF I, G
  <1> QED BY <1>2, <1>3, <1>6, <1>7 DEF G

\* A text longer than an n-gram that has a single one is of one character.
LEMMA SingleGram ==
  ASSUME NEW V, chars \in Seq(V), Len(chars) > Gram, Cardinality(Grams(chars)) = 1
  PROVE  HasPeriod(1)
  <1> DEFINE m == Len(chars)
             G == Grams(chars)
             one == {GramAt(chars, 1)}
  <1>1. Gram \in Nat /\ Gram >= 1 /\ m \in Nat /\ m > Gram
    BY RepeatsAssumption
  <1>2. IsFiniteSet(G)
    <2> DEFINE I == 1..(m - Gram + 1)
               at == [i \in I |-> GramAt(chars, i)]
    <2>1. IsFiniteSet(I)
      BY <1>1, FS_Interval
    <2>2. G = {at[i] : i \in I} /\ DOMAIN at = I
      BY DEF Grams, GramAt
    <2> HIDE DEF I, at, G
    <2> QED BY <2>1, <2>2, ImageFinite
  <1>3. ASSUME NEW i \in 1..(m - Gram + 1), NEW j \in 1..(m - Gram + 1)
        PROVE  GramAt(chars, i) = GramAt(chars, j)
    <2>1. GramAt(chars, i) \in G /\ GramAt(chars, j) \in G
      BY DEF Grams, GramAt
    <2> HIDE DEF G
    <2>2. \E x : G = {x}
      BY <1>2, FS_Singleton DEF G
    <2> QED BY <2>1, <2>2
  <1>4. ASSUME NEW i \in 1..(m - 1) PROVE chars[i] = chars[i + 1]
    <2>1. CASE i <= Gram
      <3> DEFINE a == Gram
                 b == Gram + 1
                 d == Gram - i
      <3>1. Same(chars, 1 + Gram - 1, 2 + Gram - 1, Gram)
        <4>1. 1 \in 1..(m - Gram + 1) /\ 2 \in 1..(m - Gram + 1)
          BY <1>1
        <4>2. GramAt(chars, 1) = GramAt(chars, 2)
          BY <1>3, <4>1
        <4> QED BY <1>1, <4>1, <4>2, SpanEquality DEF GramAt
      <3>2. d \in 0..(Gram - 1) /\ (1 + Gram - 1) - d = i /\ (2 + Gram - 1) - d = i + 1
        BY <1>1, <2>1
      <3> HIDE DEF d
      <3> QED BY <3>1, <3>2 DEF Same
    <2>2. CASE i > Gram
      <3> DEFINE k == i - Gram + 1
                 j == k + 1
      <3>1. k \in 1..(m - Gram + 1) /\ j \in 1..(m - Gram + 1) /\ k + Gram - 1 = i
            /\ j + Gram - 1 = i + 1
        BY <1>1, <2>2
      <3>2. GramAt(chars, k) = GramAt(chars, j)
        BY <1>3, <3>1
      <3> HIDE DEF k, j
      <3>3. Same(chars, k + Gram - 1, j + Gram - 1, Gram)
        BY <1>1, <3>1, <3>2, SpanEquality DEF GramAt
      <3>4. 0 \in 0..(Gram - 1) /\ i - 0 = i /\ (i + 1) - 0 = i + 1
        BY <1>1
      <3> QED BY <3>1, <3>3, <3>4 DEF Same
    <2> QED BY <1>1, <2>1, <2>2
  <1> QED BY <1>4 DEF HasPeriod

\* The count of distinct n-grams tells a loop from a text, whatever the text.
LEMMA RepeatsFewGrams == RepeatsIInv => LoopsHaveFewGrams
  <1> SUFFICES ASSUME RepeatsIInv PROVE LoopsHaveFewGrams
    OBVIOUS
  <1>1. chars \in Seq(Char)
    BY DEF RepeatsIInv
  <1>2. ASSUME NEW p \in 1..MaxText, HasPeriod(p) PROVE Cardinality(Grams(chars)) <= p
    <2>1. p \in Nat \ {0}
      BY RepeatsAssumption
    <2> QED BY <1>1, <1>2, <2>1, FewGrams
  <1>3. ASSUME Len(chars) > Gram, HasPeriod(1) PROVE Cardinality(Grams(chars)) = 1
    <2>1. IsFiniteSet(Grams(chars)) /\ Cardinality(Grams(chars)) <= 1
      <3>1. 1 \in Nat \ {0}
        OBVIOUS
      <3> QED BY <1>1, <1>3, <3>1, FewGrams
    <2>2. Grams(chars) # {}
      <3>1. 1 \in 1..(Len(chars) - Gram + 1)
        BY <1>1, <1>3, RepeatsAssumption
      <3> QED BY <3>1 DEF Grams
    <2>3. Cardinality(Grams(chars)) # 0 /\ Cardinality(Grams(chars)) \in Nat
      BY <2>1, <2>2, FS_EmptySet, FS_CardinalityType
    <2> QED BY <2>1, <2>3
  <1>4. ASSUME Len(chars) > Gram, Cardinality(Grams(chars)) = 1 PROVE HasPeriod(1)
    BY <1>1, <1>4, SingleGram
  <1> QED BY <1>2, <1>3, <1>4 DEF LoopsHaveFewGrams

\* Every step keeps what is known of the automaton.
LEMMA RepeatsNext ==
  ASSUME RepeatsIInv, [NextRepeats]_repeatsVars
  PROVE  RepeatsIInv'
  <1>1. CASE NextRepeats
    BY <1>1, RepeatsRead DEF NextRepeats
  <1>2. CASE UNCHANGED repeatsVars
    <2>1. /\ chars' = chars /\ trans' = trans /\ link' = link /\ length' = length /\ own' = own
          /\ last' = last
      BY <1>2 DEF repeatsVars
    <2> QED BY <2>1 DEF RepeatsIInv, RepeatsHeld, Sized
  <1> QED BY <1>1, <1>2

\* What is known of the automaton is what the run checks of it, on every text.
LEMMA RepeatsImplies == RepeatsIInv => TypeOKRepeats /\ AutomatonCorrect /\ LoopsHaveFewGrams
  BY RepeatsTyped, RepeatsFound, RepeatsFewGrams
=============================================================================

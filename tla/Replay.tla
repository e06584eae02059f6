------------------------------- MODULE Replay -------------------------------
(***************************************************************************)
(* One concurrent replay of a trace against an engine (bench/sla_bench.py, *)
(* bench/concurrency.py): whole tiers are grouped, a group's requests wait *)
(* in a queue, as many threads as there are slots take them from it, and   *)
(* the recorded rows become tier times.  A token takes one tick.           *)
(***************************************************************************)
EXTENDS Naturals, Sequences, FiniteSets, SequencesExt, FiniteSetsExt

CONSTANTS
    Trace,          \* the requests: a sequence of tiers, one per request
    TierList,       \* the selected tiers, in order
    Slots,          \* request_concurrency
    TierSize,       \* planned requests per tier
    FullLength,     \* tokens the baseline wrote for every request
    RequestTimeout, \* ticks a request may take
    MaxHangs        \* bound: requests that outlive their timeout

ASSUME ReplayAssumption ==
    /\ Slots \in Nat \ {0} /\ TierSize \in Nat \ {0} /\ MaxHangs \in Nat
    /\ FullLength \in Nat \ {0} /\ RequestTimeout \in Nat /\ RequestTimeout > FullLength
    \* What input_tiers and request_groups refuse otherwise: the tiers are distinct, some
    \* are selected, and every request is of one of them.
    /\ TierList \in Seq(Range(TierList)) /\ TierList # <<>> /\ IsInjective(TierList)
    /\ Trace \in Seq(Range(TierList))

VARIABLES
    rstep,      \* "group", "run", "done" or "overrun"
    nth,        \* the group that runs
    queue,      \* its requests that were not taken yet
    slot,       \* slot -> [req, since] of its request, or Free, or Left
    clock, groupStart,
    rows,       \* what was recorded: req, group start, admitted, first, done, released, tokens
    errs,       \* "none", "failed" or "omitted"
    hung        \* requests that will not come back

replayVars == <<rstep, nth, queue, slot, clock, groupStart, rows, errs, hung>>

Req == 1..Len(Trace)

\* A request's place in its tier's queue, and the place of its tier.
Turn(r) == Cardinality({x \in Req : Trace[x] = Trace[r] /\ x <= r})
TierIndex(r) == CHOOSE i \in 1..Len(TierList) : TierList[i] = Trace[r]

TiersPerGroup == IF Slots \div TierSize > 1 THEN Slots \div TierSize ELSE 1
GroupCount == (Len(TierList) + TiersPerGroup - 1) \div TiersPerGroup

\* Whole tiers are in one group.
InGroup(r, n) == TierIndex(r) \in ((n - 1) * TiersPerGroup + 1)..(n * TiersPerGroup)

\* Mutant: the rounds go to the end of the shortest queue.
MembersShortest(n) ==
    LET all == {r \in Req : InGroup(r, n)}
    IN  {r \in all : \A x \in all : \E y \in all : Trace[y] = Trace[x] /\ Turn(y) = Turn(r)}

Members(n) == {r \in Req : InGroup(r, n)}

\* The queues of a group's tiers are taken in turn: x is taken no later than r.
Ahead(x, r) == Turn(x) < Turn(r) \/ (Turn(x) = Turn(r) /\ TierIndex(x) <= TierIndex(r))

\* request_groups: group n, in the order in which its requests are taken.
Group(n) ==
    [i \in 1..Cardinality(Members(n)) |->
        CHOOSE r \in Members(n) : Cardinality({x \in Members(n) : Ahead(x, r)}) = i]

Effective(n) == Min({Slots, Len(Group(n))})
Workers == 1..Slots
Free == <<>>
Left == <<0>>
Busy == {s \in Workers : slot[s] \notin {Free, Left}}

\* t0 + timeout_s * len(requests).
Deadline == RequestTimeout * Len(Trace)

-----------------------------------------------------------------------------
BeginGroup ==
    /\ rstep = "group"
    /\ rstep' = "run" /\ queue' = Group(nth) /\ groupStart' = clock
    /\ slot' = [s \in Workers |-> IF s <= Effective(nth) THEN Free ELSE Left]
    /\ UNCHANGED <<nth, clock, rows, errs, hung>>

\* Under the lock: nothing is taken once there is an error.
MayTake == queue # <<>> /\ errs = "none"

\* work: a thread takes the next request, or leaves.
Take(s) ==
    /\ rstep = "run" /\ slot[s] = Free
    /\ \/ /\ MayTake
          /\ slot' = [slot EXCEPT ![s] = <<Head(queue), clock>>] /\ queue' = Tail(queue)
       \/ ~MayTake /\ slot' = [slot EXCEPT ![s] = Left] /\ UNCHANGED queue
    /\ UNCHANGED <<rstep, nth, clock, groupStart, rows, errs, hung>>

Elapsed(s) == clock - slot[s][2]

\* Time passes while no thread can act; a request that is not hung has ended when
\* its timeout is over.
Tick ==
    /\ rstep = "run" /\ Busy # {} /\ \A s \in Workers : slot[s] # Free
    /\ \A s \in Busy : slot[s][1] \in hung \/ Elapsed(s) < RequestTimeout
    /\ clock < Deadline /\ clock' = clock + 1
    /\ UNCHANGED <<rstep, nth, queue, slot, groupStart, rows, errs, hung>>

\* _fire's row for an answer of k tokens.
RowOf(s, k) == [req |-> slot[s][1], start |-> groupStart, admitted |-> slot[s][2],
    first |-> slot[s][2] + 1, done |-> slot[s][2] + k, released |-> clock, tokens |-> k]

\* The answer ends, naturally or at the full length; the slot is released after the
\* row was written.
Answer(s) ==
    /\ rstep = "run" /\ s \in Busy /\ slot[s][1] \notin hung
    /\ Elapsed(s) \in 1..FullLength
    /\ rows' = rows \cup {RowOf(s, Elapsed(s))}
    /\ slot' = [slot EXCEPT ![s] = Free]
    /\ UNCHANGED <<rstep, nth, queue, clock, groupStart, errs, hung>>

\* The request fails or runs into its timeout.
RequestFails(s) ==
    /\ rstep = "run" /\ s \in Busy /\ slot[s][1] \notin hung
    /\ Elapsed(s) \in {1, RequestTimeout}
    /\ errs' = "failed" /\ slot' = [slot EXCEPT ![s] = Free]
    /\ UNCHANGED <<rstep, nth, queue, clock, groupStart, rows, hung>>

\* The connection hangs past its own timeout.
Hang(s) ==
    /\ rstep = "run" /\ s \in Busy /\ Elapsed(s) = 0 /\ Cardinality(hung) < MaxHangs
    /\ hung' = hung \cup {slot[s][1]}
    /\ UNCHANGED <<rstep, nth, queue, slot, clock, groupStart, rows, errs>>

\* The threads were joined up to the deadline and one is still there.
Overrun ==
    /\ rstep = "run" /\ clock >= Deadline /\ Busy # {}
    /\ rstep' = "overrun" /\ errs' = "failed"
    /\ UNCHANGED <<nth, queue, slot, clock, groupStart, rows, hung>>

\* All threads left: the next group, or the end, which counts the rows.
EndGroup ==
    /\ rstep = "run" /\ \A s \in Workers : slot[s] = Left
    /\ LET lastGroup == nth = GroupCount \/ errs # "none" IN
        /\ rstep' = IF lastGroup THEN "done" ELSE "group"
        /\ nth' = IF lastGroup THEN nth ELSE nth + 1
        /\ errs' = IF lastGroup /\ errs = "none" /\ Cardinality(rows) # Len(Trace) THEN "omitted" ELSE errs
    /\ UNCHANGED <<queue, slot, clock, groupStart, rows, hung>>

InitReplay ==
    /\ rstep = "group" /\ nth = 1 /\ queue = <<>> /\ slot = [s \in Workers |-> Left]
    /\ clock = 0 /\ groupStart = 0 /\ rows = {} /\ errs = "none" /\ hung = {}

ReplayStep == BeginGroup \/ (\E s \in Workers : Take(s) \/ Answer(s) \/ RequestFails(s))
              \/ Tick \/ Overrun \/ EndGroup

NextReplay == ReplayStep \/ \E s \in Workers : Hang(s)

SpecReplay == InitReplay /\ [][NextReplay]_replayVars

-----------------------------------------------------------------------------
(* What is made of the rows. *)

Clean == rstep = "done" /\ errs = "none"
OfGroup(start) == {r \in rows : r.start = start}

\* concurrency_observations sorts the events, releases first: who is out by time t.
Before(t, r) == r.released <= t

\* The occupancy it computes at an admission, and the highest.
Occupied(rs, t) == Cardinality({r \in rs : r.admitted <= t /\ ~Before(t, r)})
ObservedPeak(rs) == Max({Occupied(rs, r.admitted) : r \in rs})

\* _min_aligned_tokens with a tolerance of nine tenths.
MinTokens == IF FullLength < 2 THEN FullLength ELSE Max({2, (9 * FullLength + 9) \div 10})

\* extrapolate_short_completions: an answer below the tolerance is charged its decode
\* time, from the first token, times the baseline's length over its own (here times
\* FullLength, and the rest alike, so that the division is exact for every length
\* that divides it).
Charged(r) ==
    IF r.tokens >= MinTokens THEN FullLength * r.done
    ELSE FullLength * r.first + ((r.done - r.first) * FullLength * FullLength) \div r.tokens

\* tier_completion_metrics: the tier's time, from its group's start.
TierRows(t) == {r \in rows : Trace[r.req] = t}
TierTime(t) == Max({Charged(r) - FullLength * r.start : r \in TierRows(t)})

-----------------------------------------------------------------------------
\* Types.
TypeOKReplay ==
    /\ rstep \in {"group", "run", "done", "overrun"} /\ nth \in 1..GroupCount
    /\ clock \in 0..Deadline /\ groupStart <= clock
    /\ \A r \in rows : r.req \in Req /\ r.start <= r.admitted /\ r.admitted < r.done
                       /\ r.done <= r.released

\* A replay without a failing request measures every request, once: the groups leave
\* nobody out however the tiers differ in size, and threads that race for the queue
\* neither lose nor repeat a request.
NothingOmitted ==
    /\ errs # "omitted"
    /\ Clean => \A q \in Req : Cardinality({r \in rows : r.req = q}) = 1

\* Tier evidence shares one group start: tier_completion_metrics never refuses a
\* clean replay.
TiersWhole == Clean => \A r1, r2 \in rows : Trace[r1.req] = Trace[r2.req] => r1.start = r2.start

\* The occupancy computed from the recorded times never exceeds the group's slots.
PeakWithinSlots ==
    Clean => \A r \in rows : ObservedPeak(OfGroup(r.start)) <= Slots

\* An answer that stops below the tolerance with at least two tokens is charged at
\* least half of the decode it left out, at the speed it had: it cannot make its
\* tier look as fast as it was measured.
ShortAnswersCharged ==
    Clean => \A r \in rows : r.tokens >= 2 =>
        2 * (TierTime(Trace[r.req]) + FullLength * r.start - FullLength * r.first)
            >= FullLength * (FullLength - 1)

\* Only a request that outlives its own timeout meets the deadline of the replay, unless
\* it is the only one: its timeout is the replay's.
DeadlineOnlyForHung == rstep = "overrun" => hung # {} \/ Len(Trace) = 1
=============================================================================

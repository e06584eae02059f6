------------------------------- MODULE Pool -------------------------------
(***************************************************************************)
(* The process's database connections (src/db/connection.py): a bounded    *)
(* semaphore in front of psycopg2's ThreadedConnectionPool, and the        *)
(* context manager db_connection that every store function runs in.        *)
(*                                                                         *)
(* The pool itself is a library: `used` is the number of connections it    *)
(* believes are out and `spare` the ones it holds, each of them open or    *)
(* already dropped by the server without the process knowing.              *)
(***************************************************************************)
EXTENDS Naturals, Sequences, FiniteSets

CONSTANTS Thread,         \* request handlers of one process
          PoolMin,        \* connections the pool keeps when they come back
          PoolMax         \* PARETON_DB_POOL_MAX, the slots of the semaphore

ASSUME PoolAssumption == /\ PoolMin \in Nat /\ PoolMax \in Nat \ {0} /\ PoolMin <= PoolMax
                         /\ IsFiniteSet(Thread)

VARIABLES slots,          \* free slots of _slots
          used,           \* connections the pool has lent, as it counts them
          spare,          \* the pool's connections: "open", or "dropped" by the server
          tstep,          \* where each thread is in db_connection
          conn            \* its connection: open, dropped, closed, or in a "trans"action

poolVars == <<slots, used, spare, tstep, conn>>

ConnState == {"none", "open", "trans", "dropped", "closed"}

\* Threads that hold a slot, and threads that hold a connection.
Admitted == {t \in Thread : tstep[t] \notin {"off", "wait"}}
Lent     == {t \in Thread : tstep[t] \in {"read", "write", "close"}}

\* Every variable stays in its domain; a thread has a connection exactly while it
\* holds one of the pool's.
TypeOKPool ==
    /\ slots \in 0..PoolMax /\ used \in 0..PoolMax
    /\ spare \in Seq({"open", "dropped"}) /\ Len(spare) <= PoolMin
    /\ tstep \in [Thread -> {"off", "wait", "slot", "read", "write", "close", "put"}]
    /\ conn \in [Thread -> ConnState]
    /\ \A t \in Thread : conn[t] = "none" <=> t \notin Lent

\* ThreadedConnectionPool(_POOL_MIN, _POOL_MAX, url) opens its minimum at once.
InitPool ==
    /\ slots = PoolMax /\ used = 0
    /\ spare = [i \in 1..PoolMin |-> "open"]
    /\ tstep = [t \in Thread |-> "off"]
    /\ conn = [t \in Thread |-> "none"]

Go(t, from, to) == tstep[t] = from /\ tstep' = [tstep EXCEPT ![t] = to]
Hold(t, c)      == conn' = [conn EXCEPT ![t] = c]

Ask(t) == Go(t, "off", "wait") /\ UNCHANGED <<slots, used, spare, conn>>

\* _slots.acquire(timeout=_POOL_WAIT_S) gets a slot ...
Acquire(t) ==
    /\ Go(t, "wait", "slot") /\ slots > 0
    /\ slots' = slots - 1
    /\ UNCHANGED <<used, spare, conn>>

\* ... or times out while none is free, and the request is answered 503.
WaitTimeout(t) ==
    /\ Go(t, "wait", "off") /\ slots = 0
    /\ UNCHANGED <<slots, used, spare, conn>>

\* pool.getconn(): a spare connection, or a new one below the maximum; the
\* context manager sets autocommit for a reader and starts a transaction for a writer.
Getconn(t, mode) ==
    /\ Go(t, "slot", mode)
    /\ spare # <<>> \/ used < PoolMax
    /\ used' = used + 1
    /\ IF spare = <<>>
       THEN Hold(t, "open") /\ UNCHANGED spare
       ELSE Hold(t, spare[Len(spare)]) /\ spare' = SubSeq(spare, 1, Len(spare) - 1)
    /\ UNCHANGED slots

\* getconn raises, at the pool's limit (PoolError) or because the server refuses
\* a new connection: the slot goes back and the request is answered 503.
GetconnFails(t) ==
    /\ Go(t, "slot", "off")
    /\ spare = <<>>
    /\ slots' = slots + 1
    /\ UNCHANGED <<used, spare, conn>>

\* The body runs its first statement: a writer is in a transaction from here, and a
\* connection the server had dropped is marked closed by the error.
Execute(t) ==
    /\ tstep[t] \in {"read", "write"}
    /\ \/ conn[t] = "open" /\ tstep[t] = "write" /\ Hold(t, "trans") /\ UNCHANGED tstep
       \/ conn[t] = "dropped" /\ Hold(t, "closed") /\ tstep' = [tstep EXCEPT ![t] = "close"]
    /\ UNCHANGED <<slots, used, spare>>

\* The body ends: commit for a writer, nothing for a reader.
Succeed(t) ==
    /\ tstep[t] \in {"read", "write"} /\ conn[t] \in {"open", "trans"}
    /\ Hold(t, "open") /\ tstep' = [tstep EXCEPT ![t] = "close"]
    /\ UNCHANGED <<slots, used, spare>>

\* The body or the commit raises. A writer's rollback may fail too, which leaves
\* the transaction open, or find the connection gone.
Raise(t) ==
    /\ tstep[t] \in {"read", "write"} /\ conn[t] \in {"open", "trans"}
    /\ \E c \in IF conn[t] = "trans" THEN {"open", "trans", "closed"} ELSE {"open"} : Hold(t, c)
    /\ tstep' = [tstep EXCEPT ![t] = "close"]
    /\ UNCHANGED <<slots, used, spare>>

\* pool.putconn: a connection in a transaction is rolled back first. When that
\* fails the exception leaves the pool counting the connection as lent.
Putconn(t, close) ==
    IF ~close /\ conn[t] = "trans" THEN UNCHANGED <<used, spare>>
    ELSE /\ used' = used - 1
         /\ spare' = IF ~close /\ conn[t] = "open" /\ Len(spare) < PoolMin
                     THEN Append(spare, "open") ELSE spare

\* Mutant: the connection is put back without resetting autocommit first.
ReleaseConnBlindly(t) ==
    /\ Go(t, "close", "put")
    /\ Putconn(t, FALSE)
    /\ Hold(t, "none")
    /\ UNCHANGED slots

\* _release: a closed connection, and one whose autocommit cannot be reset
\* because it is still in a transaction, is closed rather than put back.
ReleaseConn(t) ==
    /\ Go(t, "close", "put")
    /\ Putconn(t, conn[t] \in {"closed", "trans"})
    /\ Hold(t, "none")
    /\ UNCHANGED slots

\* The finally of _putconn.
ReleaseSlot(t) ==
    /\ Go(t, "put", "off")
    /\ slots' = slots + 1
    /\ UNCHANGED <<used, spare, conn>>

\* The server drops a pooled connection (external): nothing tells the process.
ServerDrops ==
    \E i \in DOMAIN spare :
        /\ spare[i] = "open" /\ spare' = [spare EXCEPT ![i] = "dropped"]
        /\ UNCHANGED <<slots, used, tstep, conn>>

ThreadStep(t) ==
    \/ Acquire(t) \/ WaitTimeout(t) \/ GetconnFails(t)
    \/ \E mode \in {"read", "write"} : Getconn(t, mode)
    \/ Execute(t) \/ Succeed(t) \/ Raise(t) \/ ReleaseConn(t) \/ ReleaseSlot(t)

NextPool == ServerDrops \/ \E t \in Thread : Ask(t) \/ ThreadStep(t)

SpecPool == InitPool /\ [][NextPool]_poolVars

\* Slots are conserved through every error path: what is free and what is held
\* add up to the maximum, so no failure shrinks or grows the pool's admission.
SlotsConserved == slots + Cardinality(Admitted) = PoolMax

\* The pool's own count of lent connections is the number of threads that hold
\* one: no failed rollback or reset leaks a connection of the pool.
UsedAreLent == used = Cardinality(Lent)

\* Whoever has a slot finds a connection below the pool's limit: PoolError, which
\* psycopg2 raises the moment all connections are out, is never met.
NeverOverdrawn == \A t \in Thread : tstep[t] = "slot" => spare # <<>> \/ used < PoolMax

\* What every path through db_connection keeps, errors included: no slot and no
\* connection leaks, and whoever is admitted finds a connection.
PoolSafe == TypeOKPool /\ SlotsConserved /\ UsedAreLent /\ NeverOverdrawn
=============================================================================

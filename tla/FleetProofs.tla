---------------------------- MODULE FleetProofs ----------------------------
(***************************************************************************)
(* The fleet, for every number of threads, runs, clients and pods: the     *)
(* connection pool, the static GPU host and the rented machines.           *)
(*                                                                         *)
(* The pool. Slots and lent connections are counted by the sets of threads *)
(* that hold them (SlotsConserved, UsedAreLent), so a step that moves one  *)
(* thread moves one count.                                                 *)
(*                                                                         *)
(* The static host. HostSteps adds where the client is: it registers the   *)
(* candidates' images before it pulls them, so a pull never adds an image  *)
(* that is not on record; and unless the connection broke (Whole), what it *)
(* pulled is all that its harness will ever write.                         *)
(*                                                                         *)
(* The rentals. PodsIInv says of each client and of the reaper what its    *)
(* position guarantees about its locals. The registry file is read and     *)
(* written back without a lock against the reaper, so nothing can be said  *)
(* of it but that it names pods that were drawn and calls a destroy failed *)
(* only if one was (Plausible); every snapshot somebody still holds is as  *)
(* good as the file, and that is why the reaper spares a pod in use.       *)
(***************************************************************************)
EXTENDS Pool, StaticHost, Pods, FiniteSetTheorems, TLAPS

\* How the cardinality of a set of threads moves when one enters or leaves.
LEMMA OneMore ==
  ASSUME NEW S \in SUBSET Thread, NEW t \in Thread, t \notin S
  PROVE  Cardinality(S \cup {t}) = Cardinality(S) + 1 /\ Cardinality(S) \in Nat
  <1>1. IsFiniteSet(S)
    BY PoolAssumption, FS_Subset
  <1> QED BY <1>1, FS_AddElement, FS_CardinalityType

\* The same when one leaves.
LEMMA OneLess ==
  ASSUME NEW S \in SUBSET Thread, NEW t \in S
  PROVE  Cardinality(S \ {t}) = Cardinality(S) - 1 /\ Cardinality(S) \in Nat \ {0}
  <1>1. IsFiniteSet(S)
    BY PoolAssumption, FS_Subset
  <1> QED BY <1>1, FS_RemoveElement, FS_CardinalityType, FS_EmptySet

\* A thread that has its slot and no connection yet leaves one below the limit.
LEMMA SlotLeavesRoom ==
  ASSUME TypeOKPool, SlotsConserved, UsedAreLent,
         NEW t \in Thread, tstep[t] \in {"slot", "put"}
  PROVE  used < PoolMax
  <1>1. Lent \subseteq Admitted \ {t} /\ t \in Admitted /\ Admitted \in SUBSET Thread
    BY DEF Lent, Admitted
  <1>2. Cardinality(Admitted \ {t}) = Cardinality(Admitted) - 1 /\ Cardinality(Admitted) \in Nat
    BY <1>1, OneLess
  <1>3. IsFiniteSet(Admitted \ {t})
    BY <1>1, PoolAssumption, FS_Subset
  <1>4. Cardinality(Lent) <= Cardinality(Admitted \ {t}) /\ Cardinality(Lent) \in Nat
    BY <1>1, <1>3, FS_Subset, FS_CardinalityType
  <1> QED BY <1>2, <1>4, PoolAssumption DEF SlotsConserved, UsedAreLent, TypeOKPool

\* What is inductive about the pool: its types, and that slots and connections are
\* accounted for thread by thread. That nobody overdraws follows (SlotLeavesRoom).
PoolIInv == TypeOKPool /\ SlotsConserved /\ UsedAreLent

\* A pool that was just opened lends nothing.
LEMMA PoolInit == InitPool => PoolIInv
  <1> SUFFICES ASSUME InitPool PROVE PoolIInv
    OBVIOUS
  <1>1. Admitted = {} /\ Lent = {}
    BY DEF InitPool, Admitted, Lent
  <1>2. spare \in Seq({"open", "dropped"}) /\ Len(spare) = PoolMin
    BY PoolAssumption DEF InitPool
  <1>3. TypeOKPool
    BY <1>1, <1>2, PoolAssumption DEF TypeOKPool, InitPool, ConnState
  <1> QED BY <1>1, <1>3, FS_EmptySet, PoolAssumption
            DEF PoolIInv, SlotsConserved, UsedAreLent, InitPool

\* Every step of a db_connection, and a server that drops an idle connection, keeps
\* the accounts.
LEMMA PoolNext == PoolIInv /\ [NextPool]_poolVars => PoolIInv'
  <1> SUFFICES ASSUME PoolIInv, [NextPool]_poolVars PROVE PoolIInv'
    OBVIOUS
  <1> USE PoolAssumption DEF PoolIInv, TypeOKPool, SlotsConserved, UsedAreLent
  <1>u. CASE UNCHANGED poolVars
    BY <1>u DEF poolVars, Admitted, Lent
  <1>d. CASE ServerDrops
    <2>1. PICK i \in DOMAIN spare : spare' = [spare EXCEPT ![i] = "dropped"]
      BY <1>d DEF ServerDrops
    <2>2. UNCHANGED <<slots, used, tstep, conn>>
      BY <1>d DEF ServerDrops
    <2>3. spare' \in Seq({"open", "dropped"}) /\ Len(spare') = Len(spare)
      BY <2>1
    <2> QED BY <2>2, <2>3 DEF Admitted, Lent
  <1>t. ASSUME NEW t \in Thread, Ask(t) \/ ThreadStep(t) PROVE PoolIInv'
    \* Outside: no slot, no connection before and after.
    <2>1. CASE Ask(t) \/ WaitTimeout(t)
      <3>1. tstep' \in [Thread -> {"off", "wait", "slot", "read", "write", "close", "put"}]
        BY <2>1 DEF Ask, WaitTimeout, Go
      <3>2. Admitted' = Admitted /\ Lent' = Lent
        BY <2>1 DEF Ask, WaitTimeout, Go, Admitted, Lent
      <3> QED BY <2>1, <3>1, <3>2 DEF Ask, WaitTimeout
    <2>2. CASE Acquire(t)
      <3>1. tstep' \in [Thread -> {"off", "wait", "slot", "read", "write", "close", "put"}]
        BY <2>2 DEF Acquire, Go
      <3>2. Admitted' = Admitted \cup {t} /\ t \notin Admitted /\ Lent' = Lent
        BY <2>2 DEF Acquire, Go, Admitted, Lent
      <3>3. Cardinality(Admitted') = Cardinality(Admitted) + 1 /\ Cardinality(Admitted) \in Nat
        BY <3>2, OneMore DEF Admitted
      <3> QED BY <2>2, <3>1, <3>2, <3>3, SMTT(30) DEF Acquire
    <2>3. CASE GetconnFails(t) \/ ReleaseSlot(t)
      <3>1. tstep' \in [Thread -> {"off", "wait", "slot", "read", "write", "close", "put"}]
        BY <2>3 DEF GetconnFails, ReleaseSlot, Go
      <3>2. Admitted' = Admitted \ {t} /\ t \in Admitted /\ Lent' = Lent
        BY <2>3 DEF GetconnFails, ReleaseSlot, Go, Admitted, Lent
      <3>3. Cardinality(Admitted') = Cardinality(Admitted) - 1 /\ Cardinality(Admitted) \in Nat \ {0}
        BY <3>2, OneLess DEF Admitted
      <3> QED BY <2>3, <3>1, <3>2, <3>3 DEF GetconnFails, ReleaseSlot
    <2>4. ASSUME NEW mode \in {"read", "write"}, Getconn(t, mode) PROVE PoolIInv'
      <3>1. tstep' = [tstep EXCEPT ![t] = mode] /\ tstep[t] = "slot" /\ used' = used + 1 /\ slots' = slots
        BY <2>4 DEF Getconn, Go
      <3>2. used < PoolMax
        BY <3>1, SlotLeavesRoom
      <3>3. tstep' \in [Thread -> {"off", "wait", "slot", "read", "write", "close", "put"}]
        BY <3>1
      <3>4. Lent' = Lent \cup {t} /\ t \notin Lent /\ Admitted' = Admitted
        BY <3>1 DEF Admitted, Lent
      <3>5. Cardinality(Lent') = Cardinality(Lent) + 1
        BY <3>4, OneMore DEF Lent
      <3>6. \E c \in {"open", "dropped"} : conn' = [conn EXCEPT ![t] = c]
        <4>1. CASE spare = <<>>
          BY <2>4, <4>1 DEF Getconn, Hold
        <4>2. CASE spare # <<>>
          <5>1. spare[Len(spare)] \in {"open", "dropped"}
            BY <4>2
          <5> QED BY <2>4, <4>2, <5>1 DEF Getconn, Hold
        <4> QED BY <4>1, <4>2
      <3>7. spare' \in Seq({"open", "dropped"}) /\ Len(spare') <= PoolMin
        <4>1. CASE spare = <<>>
          BY <2>4, <4>1 DEF Getconn
        <4>2. CASE spare # <<>>
          <5>1. spare' = SubSeq(spare, 1, Len(spare) - 1) /\ Len(spare) \in Nat /\ Len(spare) > 0
            BY <2>4, <4>2 DEF Getconn
          <5> QED BY <5>1
        <4> QED BY <4>1, <4>2
      <3>8. conn' \in [Thread -> ConnState] /\ \A s \in Thread : conn'[s] = "none" <=> s \notin Lent'
        BY <3>4, <3>6 DEF ConnState
      <3> QED BY <3>1, <3>2, <3>3, <3>4, <3>5, <3>7, <3>8
    <2>5. CASE Execute(t) \/ Succeed(t) \/ Raise(t)
      <3>1. /\ UNCHANGED <<slots, used, spare>> /\ tstep[t] \in {"read", "write"}
            /\ tstep' = tstep \/ tstep' = [tstep EXCEPT ![t] = "close"]
        BY <2>5 DEF Execute, Succeed, Raise
      <3>2. \E c \in {"open", "trans", "closed"} : conn' = [conn EXCEPT ![t] = c]
        BY <2>5 DEF Execute, Succeed, Raise, Hold
      <3>3. tstep' \in [Thread -> {"off", "wait", "slot", "read", "write", "close", "put"}]
        BY <3>1
      <3>4. Admitted' = Admitted /\ Lent' = Lent /\ t \in Lent
        BY <3>1 DEF Admitted, Lent
      <3>5. conn' \in [Thread -> ConnState] /\ \A s \in Thread : conn'[s] = "none" <=> s \notin Lent'
        BY <3>2, <3>4 DEF ConnState
      <3> QED BY <3>1, <3>3, <3>4, <3>5
    <2>6. CASE ReleaseConn(t)
      <3>1. /\ tstep[t] = "close" /\ tstep' = [tstep EXCEPT ![t] = "put"]
            /\ slots' = slots /\ conn' = [conn EXCEPT ![t] = "none"]
        BY <2>6 DEF ReleaseConn, Go, Hold
      <3>2. /\ used' = used - 1
            /\ spare' = spare \/ (Len(spare) < PoolMin /\ spare' = Append(spare, "open"))
        BY <2>6 DEF ReleaseConn, Putconn
      <3>3. tstep' \in [Thread -> {"off", "wait", "slot", "read", "write", "close", "put"}]
        BY <3>1
      <3>4. Admitted' = Admitted /\ Lent' = Lent \ {t} /\ t \in Lent
        BY <3>1 DEF Admitted, Lent
      <3>5. Cardinality(Lent') = Cardinality(Lent) - 1 /\ Cardinality(Lent) \in Nat \ {0}
        BY <3>4, OneLess DEF Lent
      <3>6. conn' \in [Thread -> ConnState] /\ \A s \in Thread : conn'[s] = "none" <=> s \notin Lent'
        BY <3>1, <3>4 DEF ConnState
      <3>7. spare' \in Seq({"open", "dropped"}) /\ Len(spare') <= PoolMin
        BY <3>2
      <3> QED BY <3>1, <3>2, <3>3, <3>4, <3>5, <3>6, <3>7
    <2> QED BY <1>t, <2>1, <2>2, <2>3, <2>4, <2>5, <2>6 DEF ThreadStep
  <1> QED BY <1>u, <1>d, <1>t DEF NextPool

\* Whatever way a db_connection ends (src/db/connection.py: a timeout, a failed
\* getconn, an error inside the block, a failed rollback or reset), no slot and no
\* connection of the pool leaks, and whoever has a slot finds a connection.
THEOREM PoolNeverLeaks == SpecPool => []PoolSafe
  <1>1. PoolIInv => PoolSafe
    BY SlotLeavesRoom DEF PoolIInv, PoolSafe, NeverOverdrawn
  <1> QED BY <1>1, PoolInit, PoolNext, PTL DEF SpecPool

-----------------------------------------------------------------------------
\* What the client's position says: a run was made, the candidates it is about to
\* pull are in tracked.json already, and it has pulled nothing before it collects.
HostSteps ==
  /\ output \in [Runs -> {"none", "begun", "report", "gone"}]
  /\ copy \in [Runs -> {"none", "begun", "report", "gone"}]
  /\ hpc # "idle" => run >= 1
  /\ holder \in Runs => holder \in 1..run
  /\ hpc = "pull" => needs \subseteq tracked \cup {Baseline}
  /\ hpc \in {"prepare", "pull", "start", "wait", "collect"} => copy[run] = "none"

\* A client whose connection held collects when the harness is over, and then
\* its copy is what is on the machine.
Whole ==
  \A k \in Runs \ broken :
    /\ hpc = "collect" /\ k = run => Over(k)
    /\ copy[k] # "none" => Over(k) /\ output[k] \in {copy[k], "gone"}

\* The promise about the machine with what the client's position adds to it.
HostIInv == HostSafe /\ HostSteps /\ Whole

\* A machine nobody has used keeps nothing.
LEMMA HostInit == InitHost => HostIInv
  BY StaticHostAssumption DEF InitHost, HostIInv, HostSafe, HostSteps, Whole, TypeOKHost,
       UncollectedKept, ImagesTracked, Runs, NoHolder

\* A clean-up removes only what tracked.json names, and forgets only what it removed.
LEMMA CleanupTracks ==
  ASSUME HostIInv, NEW cands \in SUBSET Image, NEW keep \in SUBSET Image, Cleanup(cands, keep)
  PROVE  /\ boxes' = {} /\ images' \subseteq Image /\ tracked' \subseteq Image
         /\ cands \subseteq tracked' /\ images' \subseteq tracked' \cup {Baseline}
         /\ hostFaults' \in 0..MaxHostFaults
  <1> PICK failing \in SUBSET ((tracked \ keep) \cap images) :
        /\ boxes' = {}
        /\ images' = images \ ((tracked \ keep) \ failing)
        /\ tracked' = (tracked \cap keep) \cup failing \cup cands
        /\ IF failing = {} THEN UNCHANGED hostFaults ELSE HostFault
    BY DEF Cleanup
  <1> QED BY StaticHostAssumption DEF HostIInv, HostSafe, TypeOKHost, ImagesTracked, HostFault

\* Every step of a run, of the reaper and of a dying client keeps it.
LEMMA HostNext == HostIInv /\ [NextHost]_hostVars => HostIInv'
  <1> SUFFICES ASSUME HostIInv, [NextHost]_hostVars PROVE HostIInv'
    OBVIOUS
  <1> USE StaticHostAssumption
      DEF HostIInv, HostSafe, HostSteps, Whole, Over, TypeOKHost, UncollectedKept,
          ImagesTracked, Runs, NoHolder, Reaper, HostFault, reportVars
  <1>1. CASE UNCHANGED hostVars
    BY <1>1 DEF hostVars
  <1>2. CASE ClaimHost
    BY <1>2 DEF ClaimHost
  <1>3. CASE Prepare
    <2>1. CASE holder = NoHolder
      <3>1. Cleanup(needs \ {Baseline}, needs) /\ hpc' = "pull" /\ hpc = "prepare"
        BY <1>3, <2>1 DEF Prepare
      <3>2. /\ boxes' = {} /\ images' \subseteq Image /\ tracked' \subseteq Image
            /\ needs \ {Baseline} \subseteq tracked' /\ images' \subseteq tracked' \cup {Baseline}
            /\ hostFaults' \in 0..MaxHostFaults
        BY <3>1, CleanupTracks
      <3> QED BY <1>3, <3>1, <3>2 DEF Prepare
    <2>2. CASE holder # NoHolder
      BY <1>3, <2>2 DEF Prepare
    <2> QED BY <2>1, <2>2
  <1>4. CASE PrepareCut
    BY <1>4 DEF PrepareCut
  <1>5. CASE PullImages
    BY <1>5 DEF PullImages
  <1>6. CASE StartHarness
    BY <1>6 DEF StartHarness
  <1>7. CASE Collect
    <2>1. run \in 1..run /\ run \in Runs
      BY <1>7 DEF Collect
    <2>2. hostFaults' \in 0..MaxHostFaults
      BY <1>7 DEF Collect
    <2>3. copy' = copy \/ copy' = [copy EXCEPT ![run] = output[run]]
      BY <1>7 DEF Collect
    <2> QED BY <1>7, <2>1, <2>2, <2>3 DEF Collect
  <1>11. CASE SshReturns
    <2>1. Over(run) /\ hpc = "wait" /\ hpc' = "collect"
      BY <1>11 DEF SshReturns
    <2>2. UNCHANGED <<run, needs, holder, queued, boxes, images, tracked, output, copy, broken,
                      lostReports, hostFaults>>
      BY <1>11 DEF SshReturns
    <2>3. HostSafe' /\ HostSteps'
      BY <2>1, <2>2
    <2>4. Whole'
      BY <2>1, <2>2
    <2> QED BY <2>3, <2>4
  <1>15. CASE SshLost
    BY <1>15 DEF SshLost
  <1>14. CASE SshBreaks
    BY <1>14 DEF SshBreaks
  <1>12. CASE ClientKilled
    BY <1>12 DEF ClientKilled
  <1>8. CASE FinalCleanup
    <2>1. CASE holder = NoHolder
      <3>1. Cleanup({}, {Baseline}) /\ hpc' = "idle" /\ hpc = "final"
        BY <1>8, <2>1 DEF FinalCleanup
      <3>2. /\ boxes' = {} /\ images' \subseteq Image /\ tracked' \subseteq Image
            /\ images' \subseteq tracked' \cup {Baseline}
            /\ hostFaults' \in 0..MaxHostFaults
        BY <3>1, CleanupTracks
      <3>3. CASE ~CollectedOutput(run)
        BY <1>8, <2>1, <3>1, <3>2, <3>3 DEF FinalCleanup
      <3>4. CASE CollectedOutput(run)
        <4>1. /\ run \in Runs /\ copy[run] # "none"
              /\ output' = [output EXCEPT ![run] = "gone"]
              /\ lostReports' = IF output[run] = "report" /\ copy[run] # "report"
                         THEN lostReports \cup {run} ELSE lostReports
              /\ UNCHANGED <<run, needs, holder, queued, copy, broken>>
          BY <1>8, <2>1, <3>1, <3>4 DEF FinalCleanup, CollectedOutput
        <4>2. run \notin broken => output[run] \in {copy[run], "gone"}
          BY <4>1
        <4>3. lostReports' \subseteq broken
          BY <4>1, <4>2
        <4> QED BY <3>1, <3>2, <4>1, <4>3
      <3> QED BY <3>3, <3>4
    <2>2. CASE holder # NoHolder
      BY <1>8, <2>2 DEF FinalCleanup
    <2> QED BY <2>1, <2>2
  <1>9. CASE ReaperTakes
    BY <1>9 DEF ReaperTakes
  <1>13. CASE ReaperCleans
    BY <1>13 DEF ReaperCleans
  <1>10. ASSUME NEW k \in Runs, HarnessRuns(k) \/ HarnessBusy(k) \/ HarnessEnds(k) \/ Timeout(k)
         PROVE  HostIInv'
    <2>1. CASE HarnessRuns(k)
      <3>1. k \in 1..run /\ output' = [output EXCEPT ![k] = "begun"]
        BY <2>1 DEF HarnessRuns
      <3> QED BY <2>1, <3>1 DEF HarnessRuns
    <2>2. CASE HarnessBusy(k)
      BY <2>2 DEF HarnessBusy
    <2>3. CASE HarnessEnds(k)
      <3>1. /\ holder = k /\ holder' = NoHolder /\ boxes' = boxes \ {k}
            /\ output' = [output EXCEPT ![k] = "report"]
            /\ UNCHANGED <<run, hpc, needs, queued, images, tracked, copy, broken, lostReports,
                           hostFaults>>
        BY <2>3 DEF HarnessEnds
      <3>2. k \notin broken => copy[k] = "none"
        BY <3>1
      <3>3. HostSafe'
        BY <3>1
      <3>4. HostSteps'
        BY <3>1
      <3>5. Whole'
        BY <3>1, <3>2
      <3> QED BY <3>3, <3>4, <3>5
    <2>4. CASE Timeout(k)
      BY <2>4 DEF Timeout
    <2> QED BY <1>10, <2>1, <2>2, <2>3, <2>4
  <1> QED BY <1>11, <1>12, <1>13, <1>14, <1>15, <1>1, <1>2, <1>3, <1>4, <1>5, <1>6, <1>7, <1>8, <1>9,
     <1>10 DEF NextHost

\* On the static GPU host (src/gpu/static_host.py) the output of a run nobody pulled is
\* never deleted, a report nobody has is deleted only when the connection broke under
\* its harness, and every candidate image is on record for a later clean-up, whichever
\* run or reaper cleans up and whatever dies in between.
THEOREM HostKeepsReports == SpecHost => []HostSafe
  <1>1. HostIInv => HostSafe
    BY DEF HostIInv
  <1> QED BY <1>1, HostInit, HostNext, PTL DEF SpecHost

\* The lock of the static host protects a running harness: as long as a run holds it,
\* no clean-up of another run and no reaper removes that run's containers.
THEOREM HostLockProtects == SpecHost => HarnessUndisturbed
  <1>1. [NextHost]_hostVars =>
          [\A k \in Runs : (holder = k /\ holder' = k /\ k \in boxes) => k \in boxes']_hostVars
    <2> SUFFICES ASSUME NextHost, NEW k \in Runs, holder = k, holder' = k, k \in boxes
                 PROVE  k \in boxes'
      BY DEF hostVars
    <2> k # NoHolder /\ k # Reaper
      BY StaticHostAssumption DEF Runs, NoHolder, Reaper
    <2>1. CASE ClaimHost \/ PullImages \/ StartHarness \/ SshReturns \/ SshBreaks \/ SshLost
               \/ Collect \/ ClientKilled \/ ReaperTakes \/ ReaperCleans
      BY <2>1 DEF ClaimHost, PullImages, StartHarness, SshReturns, SshBreaks, SshLost,
                  Collect, ClientKilled, ReaperTakes, ReaperCleans
    <2>2. CASE Prepare \/ PrepareCut \/ FinalCleanup
      BY <2>2 DEF Prepare, PrepareCut, FinalCleanup
    <2>3. ASSUME NEW j \in Runs, HarnessRuns(j) \/ HarnessBusy(j) \/ HarnessEnds(j) \/ Timeout(j)
          PROVE  k \in boxes'
      BY <2>3 DEF HarnessRuns, HarnessBusy, HarnessEnds, Timeout
    <2> QED BY <2>1, <2>2, <2>3 DEF NextHost
  <1> QED BY <1>1, PTL DEF SpecHost, HarnessUndisturbed

-----------------------------------------------------------------------------
(* The rented machines (Pods). *)

\* The providers the rental order may name.
Provider == {"targon", "shadeform", "lium", "runpod"}

\* An offer that may be rented from a provider: within the terms, and no smaller.
WithinTerms(o, p) ==
  /\ o.fit /\ o.gpus >= Want /\ o.price <= Cap
  /\ p # "targon" =>
       ~\E i \in market[p] : /\ i.fit /\ i.stock /\ i.docker /\ i.price <= Cap
                             /\ i.gpus >= Want /\ i.gpus < o.gpus

\* What the search picks from a provider's market is within the terms and, except on
\* Targon, no offer that would do is smaller.
LEMMA SelectedWithinTerms ==
  ASSUME market \in Markets, NEW p \in Provider, NEW o \in SelectOffer(p)
  PROVE  WithinTerms(o, p)
  <1> USE PodsAssumption DEF Provider
  <1>0. market[p] \subseteq
          [fit : BOOLEAN, gpus : Nat, price : Nat, stock : BOOLEAN, speed : Nat, docker : BOOLEAN]
    OBVIOUS
  <1>1. CASE p = "targon"
    BY <1>1, <1>0 DEF SelectOffer, Best, TargonSearch, WithinTerms
  <1>2. CASE p = "shadeform"
    BY <1>2, <1>0 DEF SelectOffer, Best, ShadeformSearch, ShadeformBetter, WithinTerms
  <1>3. CASE p = "runpod"
    <2>1. PICK i \in market[p] : /\ i.stock /\ i.fit /\ i.price * Want <= Cap
                                 /\ o = [i EXCEPT !.gpus = Want, !.price = i.price * Want]
      BY <1>3 DEF SelectOffer, Best, RunpodSearch
    <2>2. i \in [fit : BOOLEAN, gpus : Nat, price : Nat, stock : BOOLEAN, speed : Nat, docker : BOOLEAN]
      BY <1>0
    <2>3. o.fit /\ o.gpus = Want /\ o.price = i.price * Want
      BY <2>1, <2>2
    <2> QED BY <2>1, <2>3, <1>0 DEF WithinTerms
  <1>4. CASE p = "lium"
    BY <1>4, <1>0 DEF SelectOffer, Best, LiumSearch, LiumBetter, WithinTerms
  <1> QED BY <1>1, <1>2, <1>3, <1>4

\* The locals of a client.
Fields == {"pc", "mode", "pod", "idx", "call", "known", "offer", "snap", "put", "dry", "tried", "out"}

\* A registry file somebody may have read: it names pods that were drawn, and calls a
\* destroy failed only if it did.
Plausible(f) ==
  /\ f \in [Name -> {"none", "active", "destroy_failed"}]
  /\ \A n \in Name : /\ f[n] # "none" => host[n] # "none"
                     /\ f[n] = "destroy_failed" => n \in undone

\* What a client's position says about its locals.
ClientOK(c) ==
  /\ DOMAIN client[c] = Fields
  /\ client[c].pc \in {"idle", "offer", "rent", "abort", "load", "save", "undo", "using", "destroy"}
  /\ client[c].idx \in 1..Len(providerOrder)
  /\ client[c].pc \notin {"idle", "offer"} =>
        client[c].pod \in Name /\ host[client[c].pod] # "none"
  /\ client[c].pc \in {"idle", "offer"} => client[c].offer = {}
  /\ \A o \in client[c].offer : WithinTerms(o, host[client[c].pod])
  /\ client[c].put \in {"none", "active", "destroy_failed"}
  /\ client[c].pc \notin {"load", "save", "undo"} => client[c].put = "none"
  /\ client[c].put = "destroy_failed" => client[c].pod \in undone
  /\ client[c].pc = "save" =>
        client[c].snap # {} /\ \A f \in client[c].snap : Plausible(f)
  /\ client[c].out \in {"none", "nocap", "ended"}
  /\ client[c].pc # "idle" => client[c].out = "none"
  /\ client[c].pc = "offer" /\ client[c].dry => client[c].tried = {}
  /\ client[c].pc = "idle" /\ client[c].out # "ended" => client[c].tried = {}

\* The locals of the reaper.
ReaperFields == {"pc", "idx", "todo", "pod", "snap", "put", "back"}

\* What the reaper's position says about its locals: what it is about to take has
\* expired, or a destroy of it failed before.
ReaperOK ==
  /\ DOMAIN reaper = ReaperFields
  /\ reaper.pc \in {"idle", "provider", "pods", "load", "save", "vols", "retry"}
  /\ reaper.back \in {"pods", "retry"}
  /\ reaper.todo \subseteq Name
  /\ reaper.pc \in {"load", "save"} =>
        /\ reaper.pod \in Name /\ host[reaper.pod] # "none"
        /\ reaper.put \in {"none", "destroy_failed"}
        /\ reaper.put = "destroy_failed" => reaper.pod \in undone
  /\ reaper.pc = "save" => reaper.snap # {} /\ \A f \in reaper.snap : Plausible(f)
  /\ reaper.pc \in {"pods", "vols"} \/ (reaper.pc \in {"load", "save"} /\ reaper.back = "pods")
        => reaper.todo \subseteq expired
  /\ reaper.pc = "retry" \/ (reaper.pc \in {"load", "save"} /\ reaper.back = "retry")
        => reaper.todo \subseteq undone /\ \A n \in reaper.todo : host[n] # "none"

\* What the providers hold: nothing bills that was never rented, and the registry
\* file is one somebody may have read.
CloudOK ==
  /\ providerOrder \in Orders /\ market \in Markets
  /\ cloud \in [Name -> SUBSET {"load", "vol"}]
  /\ host \in [Name -> {"none", "targon", "shadeform", "lium", "runpod"}]
  /\ expired \subseteq {n \in Name : host[n] # "none"}
  /\ \A n \in Name : cloud[n] # {} => host[n] # "none"
  /\ Plausible(file)
  /\ podFaults \in 0..MaxPodFaults

\* The acquisition lock has one holder.
OneHolder == \A c, d \in Client : HoldsLock(c) /\ HoldsLock(d) => c = d

\* The inductive invariant of the rentals.
PodsIInv ==
  /\ CloudOK /\ DOMAIN client = Client /\ (\A c \in Client : ClientOK(c))
  /\ ReaperOK /\ OneHolder

\* It says what a rental may be and what a client may claim.
LEMMA PodsSafe == PodsIInv => RentalsSafe
  <1> SUFFICES ASSUME PodsIInv PROVE RentalsSafe
    OBVIOUS
  <1>1. TypeOKPods
    <2>1. \A c \in Client : client[c].pc \in Locked => \A d \in Client \ {c} : ~HoldsLock(d)
      BY DEF PodsIInv, OneHolder, HoldsLock
    <2> QED BY <2>1 DEF PodsIInv, CloudOK, ClientOK, ReaperOK, Plausible, TypeOKPods
  <1>2. NoCapacityMeansUnrented
    BY DEF PodsIInv, ClientOK, NoCapacityMeansUnrented
  <1>3. OfferWithinTerms
    BY DEF PodsIInv, ClientOK, OfferWithinTerms, WithinTerms
  <1> QED BY <1>1, <1>2, <1>3 DEF RentalsSafe

\* Nothing is rented at the start.
LEMMA PodsInit == InitPods => PodsIInv
  <1> SUFFICES ASSUME InitPods PROVE PodsIInv
    OBVIOUS
  <1>1. CloudOK
    BY PodsAssumption DEF InitPods, CloudOK, Plausible
  <1>2. Len(providerOrder) \in Nat /\ Len(providerOrder) > 0
    BY PodsAssumption DEF InitPods
  <1>3. \A c \in Client : ClientOK(c)
    BY <1>2 DEF InitPods, ClientOK, NoClient, NoPod, Fields
  <1>4. ReaperOK
    BY DEF InitPods, ReaperOK, IdleReaper, ReaperFields
  <1>5. OneHolder
    BY DEF InitPods, OneHolder, HoldsLock, Locked, NoClient
  <1> QED BY <1>1, <1>3, <1>4, <1>5 DEF PodsIInv, InitPods

\* What no step undoes: the configuration, the names drawn, the destroys that failed
\* and the TTLs that passed.
Grows ==
  /\ providerOrder' = providerOrder /\ market' = market
  /\ \A n \in Name : host[n] # "none" => host'[n] = host[n]
  /\ undone \subseteq undone' /\ expired \subseteq expired'

\* A file somebody may have read stays one: pods are not forgotten, and a failed
\* destroy stays failed.
LEMMA PlausibleStays == ASSUME NEW f, Plausible(f), Grows PROVE Plausible(f)'
  BY DEF Plausible, Grows

\* What is said of a client survives the steps of everybody else.
LEMMA ClientStays ==
  ASSUME NEW c \in Client, ClientOK(c), Grows, client'[c] = client[c]
  PROVE  ClientOK(c)'
  <1>1. \A f : Plausible(f) => Plausible(f)'
    BY PlausibleStays
  <1>2. \A o \in client[c].offer : WithinTerms(o, host[client[c].pod])'
    BY DEF ClientOK, WithinTerms, Grows
  <1> QED BY <1>1, <1>2 DEF ClientOK, Grows

\* So does what is said of the reaper.
LEMMA ReaperStays == ASSUME ReaperOK, Grows, reaper' = reaper PROVE ReaperOK'
  <1>1. \A f : Plausible(f) => Plausible(f)'
    BY PlausibleStays
  <1> QED BY <1>1 DEF ReaperOK, Grows

\* A client's step keeps the invariant if it keeps what is said of that client and of
\* the cloud, and comes by the lock only when it is free.
LEMMA ClientMoves ==
  ASSUME PodsIInv, NEW c \in Client, Grows, reaper' = reaper,
         DOMAIN client' = Client, \A d \in Client \ {c} : client'[d] = client[d],
         ClientOK(c)', CloudOK', HoldsLock(c)' => HoldsLock(c) \/ LockFree
  PROVE  PodsIInv'
  <1>1. \A d \in Client : ClientOK(d)'
    BY ClientStays DEF PodsIInv
  <1>2. ReaperOK'
    BY ReaperStays DEF PodsIInv
  <1>3. \A d \in Client \ {c} : HoldsLock(d)' <=> HoldsLock(d)
    BY DEF HoldsLock
  <1>4. OneHolder'
    BY <1>3 DEF OneHolder, PodsIInv, LockFree
  <1> QED BY <1>1, <1>2, <1>4 DEF PodsIInv

\* One client's record changes, in the fields named.
LEMMA BecomeOne ==
  ASSUME PodsIInv, NEW c \in Client, NEW ch, Become(c, ch)
  PROVE  /\ DOMAIN client' = Client /\ (\A d \in Client \ {c} : client'[d] = client[d])
         /\ DOMAIN client'[c] = Fields
         /\ \A f \in Fields : client'[c][f] = IF f \in DOMAIN ch THEN ch[f] ELSE client[c][f]
  BY DEF Become, PodsIInv, ClientOK

\* One client's record is replaced, and no other.
LEMMA ReplaceOne ==
  ASSUME PodsIInv, NEW c \in Client, NEW r, client' = [client EXCEPT ![c] = r]
  PROVE  /\ DOMAIN client' = Client /\ (\A d \in Client \ {c} : client'[d] = client[d])
         /\ client'[c] = r
  BY DEF PodsIInv

\* The record a process leaves behind holds no lock and claims nothing.
LEMMA EndedOK ==
  ASSUME PodsIInv, NEW c \in Client, Grows, NEW out, client'[c] = Ended(c, out),
         out = "nocap" => client[c].tried = {}
  PROVE  ClientOK(c)' /\ ~HoldsLock(c)'
  <1>1. client[c].idx \in 1..Len(providerOrder)
    BY DEF PodsIInv, ClientOK
  <1>2. providerOrder \in Orders
    BY DEF PodsIInv, CloudOK
  <1>3. 1 \in 1..Len(providerOrder)
    BY <1>2, PodsAssumption
  <1> DEFINE r == client'[c]
  <1>4. /\ DOMAIN r = Fields /\ r.pc = "idle" /\ r.idx = 1 /\ r.offer = {} /\ r.put = "none"
        /\ r.out \in {"nocap", "ended"} /\ (r.out = "nocap" => r.tried = {})
    BY DEF Ended, NoClient, Fields
  <1> QED BY <1>3, <1>4 DEF ClientOK, HoldsLock, Locked, Grows

\* A teardown takes away from one pod's parts.
LEMMA TeardownTakes ==
  ASSUME CloudOK, NEW n \in Name, NEW known, NEW left, Teardown(n, known, left)
  PROVE  /\ cloud' \in [Name -> SUBSET {"load", "vol"}]
         /\ \A m \in Name : cloud'[m] \subseteq cloud[m] /\ (cloud'[m] # cloud[m] => m = n)
         /\ podFaults' \in 0..MaxPodFaults
  <1>1. /\ left \subseteq (known \cap cloud[n])
        /\ cloud' = [cloud EXCEPT ![n] = (cloud[n] \ known) \cup left]
    BY DEF Teardown
  <1>2. cloud \in [Name -> SUBSET {"load", "vol"}]
    BY DEF CloudOK
  <1>3. podFaults' \in 0..MaxPodFaults
    BY PodsAssumption DEF CloudOK, Teardown, Fault
  <1>4. (cloud[n] \ known) \cup left \subseteq cloud[n]
    BY <1>1
  <1>5. \A m \in Name : cloud'[m] \subseteq cloud[m] /\ (cloud'[m] # cloud[m] => m = n)
    BY <1>1, <1>2, <1>4
  <1>6. cloud' \in [Name -> SUBSET {"load", "vol"}]
    BY <1>1, <1>2, <1>4
  <1> QED BY <1>3, <1>5, <1>6

\* A step that leaves the providers alone.
LEMMA CloudSame ==
  ASSUME CloudOK, UNCHANGED <<providerOrder, market, cloud, host, expired, file, podFaults>>,
         undone \subseteq undone'
  PROVE  CloudOK' /\ Grows
  BY DEF CloudOK, Plausible, Grows

\* A step whose only effect on the providers is a fault that is counted.
LEMMA CloudFault ==
  ASSUME CloudOK, UNCHANGED <<providerOrder, market, cloud, host, expired, file, undone>>, Fault
  PROVE  CloudOK' /\ Grows
  BY PodsAssumption DEF CloudOK, Plausible, Grows, Fault

\* A destroy takes what it takes from one pod, and from no other.
LEMMA CloudShrinks ==
  ASSUME CloudOK, UNCHANGED <<providerOrder, market, host, expired, file>>, undone \subseteq undone',
         NEW n \in Name, NEW known, NEW left, Teardown(n, known, left)
  PROVE  CloudOK' /\ Grows
  <1>1. /\ cloud' \in [Name -> SUBSET {"load", "vol"}]
        /\ \A m \in Name : cloud'[m] \subseteq cloud[m]
        /\ podFaults' \in 0..MaxPodFaults
    BY TeardownTakes
  <1> QED BY <1>1 DEF CloudOK, Plausible, Grows

\* The next provider, or the end of the walk.
LEMMA NextProviderOK ==
  ASSUME PodsIInv, NEW c \in Client, NEW dry, NextProvider(c, dry), Grows,
         client[c].pc \in {"offer", "abort"}, dry => client[c].pc = "offer" /\ client[c].dry
  PROVE  /\ DOMAIN client' = Client /\ (\A d \in Client \ {c} : client'[d] = client[d])
         /\ ClientOK(c)' /\ (HoldsLock(c)' => HoldsLock(c))
  <1>1. CASE client[c].idx < Len(providerOrder)
    <2> DEFINE ch == [pc |-> "offer", idx |-> client[c].idx + 1, dry |-> dry,
                      pod |-> NoPod, call |-> 1, known |-> {}, offer |-> {}]
    <2>1. Become(c, ch)
      BY <1>1 DEF NextProvider
    <2> HIDE DEF ch
    <2>2. /\ DOMAIN client' = Client /\ (\A d \in Client \ {c} : client'[d] = client[d])
          /\ DOMAIN client'[c] = Fields
          /\ \A f \in Fields : client'[c][f] = IF f \in DOMAIN ch THEN ch[f] ELSE client[c][f]
      BY <2>1, BecomeOne
    <2>3. /\ client'[c].pc = "offer" /\ client'[c].idx = client[c].idx + 1
          /\ client'[c].dry = dry /\ client'[c].offer = {}
          /\ client'[c].put = client[c].put /\ client'[c].tried = client[c].tried
          /\ client'[c].out = client[c].out
      BY <2>2 DEF ch, Fields
    <2>4. client[c].put = "none" /\ client[c].out = "none"
      BY DEF PodsIInv, ClientOK
    <2>5. client'[c].idx \in 1..Len(providerOrder')
      <3>1. providerOrder' = providerOrder /\ Len(providerOrder) \in Nat
        BY PodsAssumption DEF Grows, PodsIInv, CloudOK
      <3> QED BY <1>1, <2>3, <3>1 DEF PodsIInv, ClientOK
    <2>6. dry => client'[c].tried = {}
      BY <2>3 DEF PodsIInv, ClientOK
    <2>7. ClientOK(c)'
      BY <2>2, <2>3, <2>4, <2>5, <2>6 DEF ClientOK
    <2>8. HoldsLock(c)
      BY DEF HoldsLock, Locked
    <2> QED BY <2>2, <2>7, <2>8
  <1>2. CASE ~(client[c].idx < Len(providerOrder))
    <2> DEFINE out == IF dry THEN "nocap" ELSE "failed"
    <2>1. client' = [client EXCEPT ![c] = Ended(c, out)]
      BY <1>2 DEF NextProvider
    <2>2. out = "nocap" => client[c].tried = {}
      BY DEF PodsIInv, ClientOK
    <2> HIDE DEF out
    <2>3. /\ DOMAIN client' = Client /\ (\A d \in Client \ {c} : client'[d] = client[d])
          /\ client'[c] = Ended(c, out)
      BY <2>1, ReplaceOne
    <2> QED BY <2>2, <2>3, EndedOK
  <1> QED BY <1>1, <1>2

\* A client that ends, without calling the market exhausted, keeps the invariant.
LEMMA EndMoves ==
  ASSUME PodsIInv, NEW c \in Client, NEW out, out # "nocap", Grows, CloudOK', reaper' = reaper,
         client' = [client EXCEPT ![c] = Ended(c, out)]
  PROVE  PodsIInv'
  <1>1. /\ DOMAIN client' = Client /\ (\A d \in Client \ {c} : client'[d] = client[d])
        /\ client'[c] = Ended(c, out)
    BY ReplaceOne
  <1>2. ClientOK(c)' /\ ~HoldsLock(c)'
    BY <1>1, EndedOK
  <1> QED BY <1>1, <1>2, ClientMoves

\* A client waits for, and gets, the acquisition lock.
LEMMA TakeLockOK == ASSUME PodsIInv, NEW c \in Client, TakeLock(c) PROVE PodsIInv'
  <1>1. /\ client[c].pc = "idle" /\ client[c].out = "none" /\ LockFree /\ reaper' = reaper
    BY DEF TakeLock
  <1>2. CloudOK' /\ Grows
    BY CloudSame DEF TakeLock, PodsIInv
  <1>3. PICK m \in Modes :
          IF Blocking /\ m # "force"
          THEN client' = [client EXCEPT ![c] = Ended(c, "refused")]
          ELSE Become(c, [pc |-> "offer", mode |-> m])
    BY DEF TakeLock
  <1>4. CASE client' = [client EXCEPT ![c] = Ended(c, "refused")]
    BY <1>1, <1>2, <1>4, EndMoves
  <1>5. CASE Become(c, [pc |-> "offer", mode |-> m])
    <2> DEFINE ch == [pc |-> "offer", mode |-> m]
    <2>1. Become(c, ch)
      BY <1>5
    <2> HIDE DEF ch
    <2>2. /\ DOMAIN client' = Client /\ (\A d \in Client \ {c} : client'[d] = client[d])
          /\ DOMAIN client'[c] = Fields
          /\ \A f \in Fields : client'[c][f] = IF f \in DOMAIN ch THEN ch[f] ELSE client[c][f]
      BY <2>1, BecomeOne
    <2>3. /\ client'[c].pc = "offer" /\ client'[c].idx = client[c].idx
          /\ client'[c].dry = client[c].dry /\ client'[c].offer = client[c].offer
          /\ client'[c].put = client[c].put /\ client'[c].tried = client[c].tried
          /\ client'[c].out = client[c].out
      BY <2>2 DEF ch, Fields
    <2>4. client[c].tried = {}
      BY <1>1 DEF PodsIInv, ClientOK
    <2>5. ClientOK(c)'
      BY <1>1, <1>2, <2>2, <2>3, <2>4 DEF ClientOK, PodsIInv, Grows
    <2> QED BY <1>1, <1>2, <2>2, <2>5, ClientMoves
  <1> QED BY <1>3, <1>4, <1>5

\* A client reads one provider's market.
LEMMA SearchOK == ASSUME PodsIInv, NEW c \in Client, Search(c) PROVE PodsIInv'
  <1> DEFINE p == providerOrder[client[c].idx]
  <1>1. /\ client[c].pc = "offer" /\ reaper' = reaper
        /\ UNCHANGED <<providerOrder, market, undone, cloud, expired, file>>
    BY DEF Search
  <1>2. \/ NextProvider(c, client[c].dry) /\ UNCHANGED <<host, podFaults>>
        \/ Fault /\ NextProvider(c, client[c].dry) /\ UNCHANGED host
        \/ Fault /\ Fails(c) /\ UNCHANGED host
        \/ NextProvider(c, FALSE) /\ UNCHANGED <<host, podFaults>>
        \/ \E o \in SelectOffer(p) : \E n \in Fresh :
             /\ Become(c, [pc |-> "rent", pod |-> n, call |-> 1, offer |-> {o},
                           tried |-> client[c].tried \cup {n}])
             /\ host' = [host EXCEPT ![n] = p]
             /\ UNCHANGED podFaults
    BY DEF Search
  <1>3. CASE \E dry \in {client[c].dry, FALSE} :
               NextProvider(c, dry) /\ UNCHANGED host /\ (UNCHANGED podFaults \/ Fault)
    <2>1. PICK dry \in {client[c].dry, FALSE} :
               NextProvider(c, dry) /\ UNCHANGED host /\ (UNCHANGED podFaults \/ Fault)
      BY <1>3
    <2>2. CloudOK' /\ Grows
      BY <1>1, <2>1, CloudSame, CloudFault DEF PodsIInv
    <2>3. /\ DOMAIN client' = Client /\ (\A d \in Client \ {c} : client'[d] = client[d])
          /\ ClientOK(c)' /\ (HoldsLock(c)' => HoldsLock(c))
      BY <1>1, <2>1, <2>2, NextProviderOK
    <2> QED BY <1>1, <2>2, <2>3, ClientMoves
  <1>4. ASSUME NEW o \in SelectOffer(p), NEW n \in Fresh,
               Become(c, [pc |-> "rent", pod |-> n, call |-> 1, offer |-> {o},
                          tried |-> client[c].tried \cup {n}]),
               host' = [host EXCEPT ![n] = p], UNCHANGED podFaults
        PROVE  PodsIInv'
    <2>a. p \in Provider
      <3>1. providerOrder \in Seq(Provider)
        BY PodsAssumption DEF PodsIInv, CloudOK, Provider
      <3>2. client[c].idx \in 1..Len(providerOrder)
        BY DEF PodsIInv, ClientOK
      <3> QED BY <3>1, <3>2
    <2>b. WithinTerms(o, p)
      BY <2>a, SelectedWithinTerms DEF PodsIInv, CloudOK
    <2> HIDE DEF p
    <2>c. n \in Name /\ host[n] = "none" /\ host \in [Name -> Provider \cup {"none"}]
      BY DEF Fresh, PodsIInv, CloudOK, Provider
    <2>d. host' \in [Name -> Provider \cup {"none"}] /\ host'[n] = p
          /\ \A m \in Name : host[m] # "none" => host'[m] = host[m]
      BY <1>4, <2>a, <2>c DEF Provider
    <2>e. Grows
      BY <1>1, <2>d DEF Grows
    <2>f. CloudOK'
      <3>1. Plausible(file)'
        BY <2>e, PlausibleStays, <1>1 DEF PodsIInv, CloudOK
      <3> QED BY <1>1, <1>4, <2>d, <3>1 DEF PodsIInv, CloudOK, Provider
    <2> DEFINE ch == [pc |-> "rent", pod |-> n, call |-> 1, offer |-> {o},
                      tried |-> client[c].tried \cup {n}]
    <2>1. Become(c, ch)
      BY <1>4
    <2> HIDE DEF ch
    <2>2. /\ DOMAIN client' = Client /\ (\A d \in Client \ {c} : client'[d] = client[d])
          /\ DOMAIN client'[c] = Fields
          /\ \A f \in Fields : client'[c][f] = IF f \in DOMAIN ch THEN ch[f] ELSE client[c][f]
      BY <2>1, BecomeOne
    <2>3. /\ client'[c].pc = "rent" /\ client'[c].idx = client[c].idx
          /\ client'[c].pod = n /\ client'[c].offer = {o}
          /\ client'[c].put = client[c].put /\ client'[c].out = client[c].out
      BY <2>2 DEF ch, Fields
    <2>4. client[c].put = "none" /\ client[c].out = "none" /\ client[c].idx \in 1..Len(providerOrder)
      BY <1>1 DEF PodsIInv, ClientOK
    <2>5. \A x \in client'[c].offer : WithinTerms(x, host[client[c].pod])'
      BY <1>1, <2>b, <2>d, <2>3 DEF WithinTerms
    <2>6. p # "none"
      BY <2>a DEF Provider
    <2>7. ClientOK(c)'
      BY <1>1, <2>2, <2>3, <2>4, <2>5, <2>6, <2>c, <2>d DEF ClientOK
    <2>8. HoldsLock(c)
      BY <1>1 DEF HoldsLock, Locked
    <2> QED BY <1>1, <2>e, <2>f, <2>2, <2>7, <2>8, ClientMoves
  <1>5. CASE Fault /\ Fails(c) /\ UNCHANGED host
    <2>1. CloudOK' /\ Grows
      BY <1>1, <1>5, CloudFault DEF PodsIInv
    <2>2. client' = [client EXCEPT ![c] = Ended(c, "failed")]
      BY <1>5 DEF Fails
    <2> QED BY <1>1, <2>1, <2>2, EndMoves
  <1> QED BY <1>2, <1>3, <1>4, <1>5

\* A client that keeps its pod, its place in the order and its offer.
LEMMA KeepsPod ==
  ASSUME PodsIInv, NEW c \in Client, Grows, DOMAIN client'[c] = Fields,
         client[c].pc \notin {"idle", "offer"},
         client'[c].pc \in {"rent", "abort", "load", "save", "undo", "using", "destroy"},
         client'[c].pod = client[c].pod, client'[c].idx = client[c].idx,
         client'[c].offer \subseteq client[c].offer, client'[c].out = client[c].out,
         client'[c].put \in {"none", "active", "destroy_failed"},
         client'[c].pc \notin {"load", "save", "undo"} => client'[c].put = "none",
         client'[c].put = "destroy_failed" => client[c].pod \in undone',
         client'[c].pc = "save" => client'[c].snap # {} /\ \A f \in client'[c].snap : Plausible(f)'
  PROVE  ClientOK(c)'
  <1>1. client[c].pod \in Name /\ host'[client[c].pod] = host[client[c].pod]
        /\ host[client[c].pod] # "none" /\ client[c].out = "none"
        /\ client[c].idx \in 1..Len(providerOrder)
    BY DEF PodsIInv, ClientOK, Grows
  <1>2. \A o \in client'[c].offer : WithinTerms(o, host[client[c].pod])'
    BY <1>1 DEF PodsIInv, ClientOK, WithinTerms, Grows
  <1> QED BY <1>1, <1>2 DEF ClientOK, Grows

\* A rental call adds a machine or a volume to a pod whose name was drawn.
LEMMA CloudPays ==
  ASSUME CloudOK, UNCHANGED <<providerOrder, market, undone, host, expired, file>>,
         UNCHANGED podFaults \/ Fault,
         NEW n \in Name, host[n] # "none", NEW got \in SUBSET {"load", "vol"},
         cloud' = [cloud EXCEPT ![n] = cloud[n] \cup got]
  PROVE  CloudOK' /\ Grows
  <1>1. cloud \in [Name -> SUBSET {"load", "vol"}]
    BY DEF CloudOK
  <1>2. cloud[n] \cup got \in SUBSET {"load", "vol"}
    BY <1>1
  <1>3. cloud' \in [Name -> SUBSET {"load", "vol"}] /\ \A m \in Name \ {n} : cloud'[m] = cloud[m]
    BY <1>1, <1>2
  <1>4. podFaults' \in 0..MaxPodFaults
    BY PodsAssumption DEF CloudOK, Fault
  <1> QED BY <1>3, <1>4 DEF CloudOK, Plausible, Grows

\* The rental call: answered, refused, or with its answer lost.
LEMMA RentCallOK == ASSUME PodsIInv, NEW c \in Client, RentCall(c) PROVE PodsIInv'
  <1>1. client[c].pc = "rent" /\ reaper' = reaper
    BY DEF RentCall
  <1>2. client[c].pod \in Name /\ host[client[c].pod] # "none"
    BY <1>1 DEF PodsIInv, ClientOK
  <1>3. \E got \in SUBSET {"load", "vol"} : \E x \in {<<"load", "active">>, <<"rent", "none">>} :
          /\ cloud' = [cloud EXCEPT ![client[c].pod] = @ \cup got]
          /\ Become(c, [pc |-> x[1], put |-> x[2], call |-> client[c].call + 1,
                        known |-> client[c].known \cup got])
    <2> DEFINE calls == Calls(c, host[client[c].pod])
               call == calls[client[c].call]
               next == IF client[c].call = Len(calls)
                       THEN [pc |-> "load", put |-> "active"]
                       ELSE [pc |-> "rent", put |-> "none"]
               made == IF call \in {"vol", "load"} THEN {call} ELSE {}
               maybe == \/ host[client[c].pod] = "shadeform" /\ call = "vol"
                        \/ client[c].mode = "manual" /\ call = "load"
    <2>1. PICK got \in {made} \cup (IF ~maybe THEN {} ELSE IF call = "vol" THEN {{}} ELSE {{"load", "vol"}}) :
             /\ cloud' = [cloud EXCEPT ![client[c].pod] = @ \cup got]
             /\ Become(c, [pc |-> next.pc, put |-> next.put, call |-> client[c].call + 1,
                           known |-> client[c].known \cup got])
      BY DEF RentCall
    <2> HIDE DEF call, calls, maybe
    <2>2. got \in SUBSET {"load", "vol"}
      BY <2>1
    <2>3. \E x \in {<<"load", "active">>, <<"rent", "none">>} : next.pc = x[1] /\ next.put = x[2]
      OBVIOUS
    <2> QED BY <2>1, <2>2, <2>3
  <1>4. PICK got \in SUBSET {"load", "vol"}, x \in {<<"load", "active">>, <<"rent", "none">>} :
          /\ cloud' = [cloud EXCEPT ![client[c].pod] = @ \cup got]
          /\ Become(c, [pc |-> x[1], put |-> x[2], call |-> client[c].call + 1,
                        known |-> client[c].known \cup got])
    BY <1>3
  <1>5. CloudOK' /\ Grows
    BY <1>2, <1>4, CloudPays DEF RentCall, PodsIInv
  <1> DEFINE ch == [pc |-> x[1], put |-> x[2], call |-> client[c].call + 1,
                    known |-> client[c].known \cup got]
  <1>6. Become(c, ch)
    BY <1>4
  <1> HIDE DEF ch
  <1>7. /\ DOMAIN client' = Client /\ (\A d \in Client \ {c} : client'[d] = client[d])
        /\ DOMAIN client'[c] = Fields
        /\ \A f \in Fields : client'[c][f] = IF f \in DOMAIN ch THEN ch[f] ELSE client[c][f]
    BY <1>6, BecomeOne
  <1>8. /\ client'[c].pc \in {"rent", "load"} /\ client'[c].put \in {"none", "active"}
        /\ client'[c].pc = "rent" => client'[c].put = "none"
        /\ client'[c].pc = "load" => client'[c].put = "active"
        /\ client'[c].pod = client[c].pod /\ client'[c].idx = client[c].idx
        /\ client'[c].offer = client[c].offer /\ client'[c].out = client[c].out
    BY <1>7 DEF ch, Fields
  <1>9. ClientOK(c)'
    BY <1>1, <1>5, <1>7, <1>8, KeepsPod
  <1>10. HoldsLock(c)
    BY <1>1 DEF HoldsLock, Locked
  <1> QED BY <1>1, <1>5, <1>7, <1>9, <1>10, ClientMoves

\* The machine never becomes ready, or the call fails.
LEMMA RentEndsOK == ASSUME PodsIInv, NEW c \in Client, NotReady(c) \/ RentFails(c) PROVE PodsIInv'
  <1>1. client[c].pc = "rent" /\ reaper' = reaper /\ Become(c, [pc |-> "abort"])
    BY DEF NotReady, RentFails
  <1>2. client[c].pod \in Name /\ host[client[c].pod] # "none" /\ client[c].put = "none"
    BY <1>1 DEF PodsIInv, ClientOK
  <1>3. CloudOK' /\ Grows
    <2>1. CASE NotReady(c)
      BY <2>1, CloudFault DEF NotReady, PodsIInv
    <2>2. CASE RentFails(c)
      <3>1. PICK call : /\ call \in {"vol", "load"} /\ Fault
                        /\ \E lost \in {{}, {call}} :
                             cloud' = [cloud EXCEPT ![client[c].pod] = @ \cup lost]
        BY <2>2 DEF RentFails
      <3>2. PICK lost \in SUBSET {"load", "vol"} :
               cloud' = [cloud EXCEPT ![client[c].pod] = @ \cup lost]
        BY <3>1
      <3> QED BY <1>2, <2>2, <3>1, <3>2, CloudPays DEF RentFails, PodsIInv
    <2> QED BY <2>1, <2>2
  <1> DEFINE ch == [pc |-> "abort"]
  <1>6. Become(c, ch)
    BY <1>1
  <1> HIDE DEF ch
  <1>7. /\ DOMAIN client' = Client /\ (\A d \in Client \ {c} : client'[d] = client[d])
        /\ DOMAIN client'[c] = Fields
        /\ \A f \in Fields : client'[c][f] = IF f \in DOMAIN ch THEN ch[f] ELSE client[c][f]
    BY <1>6, BecomeOne
  <1>8. /\ client'[c].pc = "abort" /\ client'[c].put = client[c].put
        /\ client'[c].pod = client[c].pod /\ client'[c].idx = client[c].idx
        /\ client'[c].offer = client[c].offer /\ client'[c].out = client[c].out
    BY <1>7 DEF ch, Fields
  <1>9. ClientOK(c)'
    BY <1>1, <1>2, <1>3, <1>7, <1>8, KeepsPod
  <1>10. HoldsLock(c)
    BY <1>1 DEF HoldsLock, Locked
  <1> QED BY <1>1, <1>3, <1>7, <1>9, <1>10, ClientMoves

\* What a failed rental left behind is destroyed.
LEMMA AbortRentOK == ASSUME PodsIInv, NEW c \in Client, AbortRent(c) PROVE PodsIInv'
  <1>1. client[c].pc = "abort" /\ reaper' = reaper /\ (NextProvider(c, FALSE) \/ Fails(c))
    BY DEF AbortRent
  <1>2. client[c].pod \in Name
    BY <1>1 DEF PodsIInv, ClientOK
  <1>3. CloudOK' /\ Grows
    BY <1>2, CloudShrinks DEF AbortRent, PodsIInv
  <1>4. CASE NextProvider(c, FALSE)
    <2>1. /\ DOMAIN client' = Client /\ (\A d \in Client \ {c} : client'[d] = client[d])
          /\ ClientOK(c)' /\ (HoldsLock(c)' => HoldsLock(c))
      BY <1>1, <1>3, <1>4, NextProviderOK
    <2> QED BY <1>1, <1>3, <2>1, ClientMoves
  <1>5. CASE Fails(c)
    <2>1. client' = [client EXCEPT ![c] = Ended(c, "failed")]
      BY <1>5 DEF Fails
    <2> QED BY <1>1, <1>3, <2>1, EndMoves
  <1> QED BY <1>1, <1>4, <1>5

\* The registry is read before it is written back.
LEMMA RegistryLoadOK == ASSUME PodsIInv, NEW c \in Client, RegistryLoad(c) PROVE PodsIInv'
  <1>1. client[c].pc = "load" /\ reaper' = reaper /\ Become(c, [pc |-> "save", snap |-> {file}])
    BY DEF RegistryLoad
  <1>2. CloudOK' /\ Grows
    BY CloudSame DEF RegistryLoad, PodsIInv
  <1>3. \A f \in {file} : Plausible(f)'
    BY <1>2, PlausibleStays DEF PodsIInv, CloudOK
  <1> DEFINE ch == [pc |-> "save", snap |-> {file}]
  <1>4. Become(c, ch)
    BY <1>1
  <1> HIDE DEF ch
  <1>5. /\ DOMAIN client' = Client /\ (\A d \in Client \ {c} : client'[d] = client[d])
        /\ DOMAIN client'[c] = Fields
        /\ \A f \in Fields : client'[c][f] = IF f \in DOMAIN ch THEN ch[f] ELSE client[c][f]
    BY <1>4, BecomeOne
  <1>6. /\ client'[c].pc = "save" /\ client'[c].put = client[c].put /\ client'[c].snap = {file}
        /\ client'[c].pod = client[c].pod /\ client'[c].idx = client[c].idx
        /\ client'[c].offer = client[c].offer /\ client'[c].out = client[c].out
    BY <1>5 DEF ch, Fields
  <1>7. client[c].put \in {"none", "active", "destroy_failed"}
        /\ (client[c].put = "destroy_failed" => client[c].pod \in undone')
    BY <1>2 DEF PodsIInv, ClientOK, Grows
  <1>8. ClientOK(c)'
    BY <1>1, <1>2, <1>3, <1>5, <1>6, <1>7, KeepsPod
  <1>9. HoldsLock(c)' => HoldsLock(c)
    BY <1>1, <1>6 DEF HoldsLock, Locked
  <1> QED BY <1>1, <1>2, <1>5, <1>8, <1>9, ClientMoves

\* What is saved is plausible, because what was loaded and what is put are.
LEMMA ChangedPlausible ==
  ASSUME NEW snap, snap # {}, \A f \in snap : Plausible(f),
         NEW n \in Name, host[n] # "none", NEW put \in {"none", "active", "destroy_failed"},
         put = "destroy_failed" => n \in undone
  PROVE  Plausible(Changed(snap, n, put))
  <1> DEFINE f == CHOOSE f \in snap : TRUE
  <1>1. f \in snap
    OBVIOUS
  <1>2. Plausible(f)
    BY <1>1
  <1>3. Changed(snap, n, put) = [f EXCEPT ![n] = put]
    BY DEF Changed
  <1> HIDE DEF f
  <1> QED BY <1>2, <1>3 DEF Plausible

\* A plausible registry file is written.
LEMMA CloudSaved ==
  ASSUME CloudOK, UNCHANGED <<providerOrder, market, undone, cloud, host, expired, podFaults>>,
         NEW f, Plausible(f), file' = f
  PROVE  CloudOK' /\ Grows
  <1>1. Plausible(file)'
    BY DEF Plausible
  <1> QED BY <1>1 DEF CloudOK, Grows

\* The registry is written back, over whatever was saved in between.
LEMMA RegistrySaveOK == ASSUME PodsIInv, NEW c \in Client, RegistrySave(c) PROVE PodsIInv'
  <1>1. client[c].pc = "save" /\ reaper' = reaper
        /\ file' = Changed(client[c].snap, client[c].pod, client[c].put)
    BY DEF RegistrySave
  <1>2. Plausible(Changed(client[c].snap, client[c].pod, client[c].put))
    BY <1>1, ChangedPlausible DEF PodsIInv, ClientOK
  <1>3. CloudOK' /\ Grows
    BY <1>1, <1>2, CloudSaved DEF RegistrySave, PodsIInv
  <1>4. CASE client[c].put = "active"
    <2> DEFINE r == [NoClient EXCEPT !.pc = "using", !.pod = client[c].pod, !.known = client[c].known]
    <2>1. client' = [client EXCEPT ![c] = r]
      BY <1>4 DEF RegistrySave
    <2>2. /\ DOMAIN client' = Client /\ (\A d \in Client \ {c} : client'[d] = client[d])
          /\ client'[c] = r
      BY <2>1, ReplaceOne
    <2>3. /\ DOMAIN r = Fields /\ r.pc = "using" /\ r.idx = 1 /\ r.offer = {} /\ r.put = "none"
          /\ r.out = "none" /\ r.pod = client[c].pod
      BY DEF NoClient, Fields
    <2> HIDE DEF r
    <2>4. 1 \in 1..Len(providerOrder')
      BY <1>3, PodsAssumption DEF PodsIInv, CloudOK, Grows
    <2>5. client[c].pod \in Name /\ host'[client[c].pod] # "none"
      BY <1>1, <1>3 DEF PodsIInv, ClientOK, Grows
    <2>6. ClientOK(c)' /\ ~HoldsLock(c)'
      BY <2>2, <2>3, <2>4, <2>5 DEF ClientOK, HoldsLock, Locked
    <2> QED BY <1>1, <1>3, <2>2, <2>6, ClientMoves
  <1>5. CASE client[c].put # "active"
    <2> DEFINE out == IF client[c].put = "none" THEN "done" ELSE "destroy_failed"
    <2>1. client' = [client EXCEPT ![c] = Ended(c, out)]
      BY <1>5 DEF RegistrySave
    <2> QED BY <1>1, <1>3, <2>1, EndMoves
  <1> QED BY <1>4, <1>5

\* The registry cannot be read or written.
LEMMA RegistryFailsOK == ASSUME PodsIInv, NEW c \in Client, RegistryFails(c) PROVE PodsIInv'
  <1>1. client[c].pc \in {"load", "save"} /\ reaper' = reaper
    BY DEF RegistryFails
  <1>2. CloudOK' /\ Grows
    BY CloudFault DEF RegistryFails, PodsIInv
  <1>3. CASE client[c].put = "active"
    <2> DEFINE ch == [pc |-> "undo", snap |-> {}, offer |-> {}]
    <2>1. Become(c, ch)
      BY <1>3 DEF RegistryFails
    <2> HIDE DEF ch
    <2>2. /\ DOMAIN client' = Client /\ (\A d \in Client \ {c} : client'[d] = client[d])
          /\ DOMAIN client'[c] = Fields
          /\ \A f \in Fields : client'[c][f] = IF f \in DOMAIN ch THEN ch[f] ELSE client[c][f]
      BY <2>1, BecomeOne
    <2>3. /\ client'[c].pc = "undo" /\ client'[c].put = client[c].put
          /\ client'[c].pod = client[c].pod /\ client'[c].idx = client[c].idx
          /\ client'[c].offer = {} /\ client'[c].out = client[c].out
      BY <2>2 DEF ch, Fields
    <2>4. ClientOK(c)'
      BY <1>1, <1>2, <1>3, <2>2, <2>3, KeepsPod
    <2>5. HoldsLock(c)
      BY <1>1, <1>3 DEF HoldsLock
    <2> QED BY <1>1, <1>2, <2>2, <2>4, <2>5, ClientMoves
  <1>4. CASE client[c].put # "active"
    <2>1. client' = [client EXCEPT ![c] = Ended(c, "failed")]
      BY <1>4 DEF RegistryFails
    <2> QED BY <1>1, <1>2, <2>1, EndMoves
  <1> QED BY <1>3, <1>4

\* A rental that could not be recorded is undone.
LEMMA UndoOK == ASSUME PodsIInv, NEW c \in Client, Undo(c) PROVE PodsIInv'
  <1>1. client[c].pod \in Name
    BY DEF PodsIInv, ClientOK, Undo
  <1>2. CloudOK' /\ Grows
    BY <1>1, CloudShrinks DEF Undo, PodsIInv
  <1> QED BY <1>2, EndMoves DEF Undo

\* A client dies where it stands.
LEMMA KilledOK == ASSUME PodsIInv, NEW c \in Client, Killed(c) PROVE PodsIInv'
  <1>1. CloudOK' /\ Grows
    BY CloudFault DEF Killed, PodsIInv
  <1> QED BY <1>1, EndMoves DEF Killed

\* A client is done with its pod: it destroys or keeps it.
LEMMA GiveBackOK ==
  ASSUME PodsIInv, NEW c \in Client, NEW keep \in BOOLEAN, GiveBack(c, keep)
  PROVE  PodsIInv'
  <1>1. client[c].pc = "using" /\ reaper' = reaper
    BY DEF GiveBack
  <1>2. CloudOK' /\ Grows
    BY CloudSame DEF GiveBack, PodsIInv
  <1>3. CASE keep
    <2>1. client' = [client EXCEPT ![c] = Ended(c, "kept")]
      BY <1>3 DEF GiveBack
    <2> QED BY <1>1, <1>2, <2>1, EndMoves
  <1>4. CASE ~keep
    <2> DEFINE ch == [pc |-> "destroy"]
    <2>1. Become(c, ch)
      BY <1>4 DEF GiveBack
    <2> HIDE DEF ch
    <2>2. /\ DOMAIN client' = Client /\ (\A d \in Client \ {c} : client'[d] = client[d])
          /\ DOMAIN client'[c] = Fields
          /\ \A f \in Fields : client'[c][f] = IF f \in DOMAIN ch THEN ch[f] ELSE client[c][f]
      BY <2>1, BecomeOne
    <2>3. /\ client'[c].pc = "destroy" /\ client'[c].put = client[c].put
          /\ client'[c].pod = client[c].pod /\ client'[c].idx = client[c].idx
          /\ client'[c].offer = client[c].offer /\ client'[c].out = client[c].out
      BY <2>2 DEF ch, Fields
    <2>4. client[c].put = "none"
      BY <1>1 DEF PodsIInv, ClientOK
    <2>5. ClientOK(c)'
      BY <1>1, <1>2, <2>2, <2>3, <2>4, KeepsPod
    <2>6. ~HoldsLock(c)'
      BY <2>3 DEF HoldsLock, Locked
    <2> QED BY <1>1, <1>2, <2>2, <2>5, <2>6, ClientMoves
  <1> QED BY <1>3, <1>4

\* A client attaches to, or destroys, a pod the registry names.
LEMMA TakeByNameOK ==
  ASSUME PodsIInv, NEW c \in Client, NEW n \in Name, NEW pc \in {"using", "destroy"},
         TakeByName(c, n, pc)
  PROVE  PodsIInv'
  <1>1. client[c].pc = "idle" /\ client[c].out = "none" /\ file[n] # "none" /\ reaper' = reaper
    BY DEF TakeByName
  <1>2. CloudOK' /\ Grows
    BY CloudSame DEF TakeByName, PodsIInv
  <1> DEFINE ch == [pc |-> pc, pod |-> n, known |-> Destroys(n)]
  <1>3. Become(c, ch)
    BY DEF TakeByName
  <1> HIDE DEF ch
  <1>4. /\ DOMAIN client' = Client /\ (\A d \in Client \ {c} : client'[d] = client[d])
        /\ DOMAIN client'[c] = Fields
        /\ \A f \in Fields : client'[c][f] = IF f \in DOMAIN ch THEN ch[f] ELSE client[c][f]
    BY <1>3, BecomeOne
  <1>5. /\ client'[c].pc = pc /\ client'[c].put = client[c].put
        /\ client'[c].pod = n /\ client'[c].idx = client[c].idx
        /\ client'[c].offer = client[c].offer /\ client'[c].out = client[c].out
    BY <1>4 DEF ch, Fields
  <1>6. client[c].put = "none" /\ client[c].offer = {} /\ client[c].idx \in 1..Len(providerOrder)
    BY <1>1 DEF PodsIInv, ClientOK
  <1>7. host'[n] # "none"
    BY <1>1, <1>2 DEF PodsIInv, CloudOK, Plausible, Grows
  <1>8. ClientOK(c)' /\ ~HoldsLock(c)'
    BY <1>1, <1>2, <1>4, <1>5, <1>6, <1>7 DEF ClientOK, HoldsLock, Locked, Grows
  <1> QED BY <1>1, <1>2, <1>4, <1>8, ClientMoves

\* A client destroys its pod.
LEMMA DestroyOK == ASSUME PodsIInv, NEW c \in Client, Destroy(c) PROVE PodsIInv'
  <1>1. client[c].pc = "destroy" /\ reaper' = reaper
    BY DEF Destroy
  <1>2. client[c].pod \in Name
    BY <1>1 DEF PodsIInv, ClientOK
  <1>3. PICK left \in SUBSET client[c].known :
          /\ Teardown(client[c].pod, client[c].known, left)
          /\ Become(c, [pc |-> "load", put |-> IF left = {} THEN "none" ELSE "destroy_failed"])
          /\ Noted(client[c].pod, left)
    BY DEF Destroy
  <1>4. undone \subseteq undone' /\ (left # {} => client[c].pod \in undone')
    BY <1>3 DEF Noted
  <1>5. CloudOK' /\ Grows
    BY <1>2, <1>3, <1>4, CloudShrinks DEF Destroy, PodsIInv
  <1> DEFINE ch == [pc |-> "load", put |-> IF left = {} THEN "none" ELSE "destroy_failed"]
  <1>6. Become(c, ch)
    BY <1>3
  <1> HIDE DEF ch
  <1>7. /\ DOMAIN client' = Client /\ (\A d \in Client \ {c} : client'[d] = client[d])
        /\ DOMAIN client'[c] = Fields
        /\ \A f \in Fields : client'[c][f] = IF f \in DOMAIN ch THEN ch[f] ELSE client[c][f]
    BY <1>6, BecomeOne
  <1>8. /\ client'[c].pc = "load" /\ client'[c].put = IF left = {} THEN "none" ELSE "destroy_failed"
        /\ client'[c].pod = client[c].pod /\ client'[c].idx = client[c].idx
        /\ client'[c].offer = client[c].offer /\ client'[c].out = client[c].out
    BY <1>7 DEF ch, Fields
  <1>9. ClientOK(c)'
    BY <1>1, <1>4, <1>5, <1>7, <1>8, KeepsPod
  <1>10. ~HoldsLock(c)'
    BY <1>8 DEF HoldsLock, Locked
  <1> QED BY <1>1, <1>5, <1>7, <1>9, <1>10, ClientMoves

\* A client starts over.
LEMMA AgainOK == ASSUME PodsIInv, NEW c \in Client, Again(c) PROVE PodsIInv'
  <1>1. CloudOK' /\ Grows
    BY CloudSame DEF Again, PodsIInv
  <1> DEFINE r == [NoClient EXCEPT !.tried = {}]
  <1>2. /\ DOMAIN client' = Client /\ (\A d \in Client \ {c} : client'[d] = client[d])
        /\ client'[c] = r
    BY ReplaceOne DEF Again
  <1>3. /\ DOMAIN r = Fields /\ r.pc = "idle" /\ r.idx = 1 /\ r.offer = {} /\ r.put = "none"
        /\ r.out = "none" /\ r.tried = {}
    BY DEF NoClient, Fields
  <1> HIDE DEF r
  <1>4. 1 \in 1..Len(providerOrder')
    BY <1>1, PodsAssumption DEF PodsIInv, CloudOK, Grows
  <1>5. ClientOK(c)' /\ ~HoldsLock(c)'
    BY <1>2, <1>3, <1>4 DEF ClientOK, HoldsLock, Locked
  <1> QED BY <1>1, <1>2, <1>5, ClientMoves DEF Again

\* A step that moves no client keeps the invariant if it keeps the reaper's part.
LEMMA ReaperMoves ==
  ASSUME PodsIInv, Grows, client' = client, ReaperOK', CloudOK'
  PROVE  PodsIInv'
  <1>1. \A c \in Client : ClientOK(c)'
    BY ClientStays DEF PodsIInv
  <1>2. OneHolder'
    BY DEF PodsIInv, OneHolder, HoldsLock
  <1> QED BY <1>1, <1>2 DEF PodsIInv

\* A pod's TTL passes.
LEMMA ExpireOK == ASSUME PodsIInv, NEW n \in Name, Expire(n) PROVE PodsIInv'
  <1>1. Grows
    BY DEF Expire, Grows
  <1>2. CloudOK'
    BY DEF Expire, PodsIInv, CloudOK, Plausible
  <1>3. ReaperOK'
    BY <1>1, ReaperStays DEF Expire, PodsIInv
  <1> QED BY <1>1, <1>2, <1>3, ReaperMoves DEF Expire

\* The reaper in a position that carries no debts to the registry.
LEMMA ReaperListsOK ==
  ASSUME PodsIInv, Grows, DOMAIN reaper' = ReaperFields,
         reaper'.pc \in {"idle", "provider", "pods", "vols", "retry"},
         reaper'.back \in {"pods", "retry"}, reaper'.todo \subseteq Name,
         reaper'.pc \in {"pods", "vols"} => reaper'.todo \subseteq expired',
         reaper'.pc = "retry" =>
           reaper'.todo \subseteq undone' /\ \A n \in reaper'.todo : host'[n] # "none"
  PROVE  ReaperOK'
  BY DEF ReaperOK

\* The reaper lists a provider's expired pods.
LEMMA ListPodsOK == ASSUME PodsIInv, ListPods PROVE PodsIInv'
  <1>1. CloudOK' /\ Grows
    BY CloudSame, CloudFault DEF ListPods, PodsIInv
  <1>3. /\ DOMAIN reaper' = ReaperFields /\ reaper'.pc = "pods" /\ reaper'.back = "pods"
        /\ reaper'.todo \subseteq {n \in Name : Expired(n)}
    <2> DEFINE i == IF reaper.pc = "idle" THEN 1 ELSE reaper.idx
               due == {n \in Name : host[n] = providerOrder[i] /\ "load" \in cloud[n] /\ Expired(n)}
    <2>1. \/ reaper' = [IdleReaper EXCEPT !.pc = "pods", !.idx = i, !.todo = due]
          \/ reaper' = [IdleReaper EXCEPT !.pc = "pods", !.idx = i]
      BY DEF ListPods
    <2>2. due \subseteq {n \in Name : Expired(n)}
      OBVIOUS
    <2> HIDE DEF i, due
    <2> QED BY <2>1, <2>2 DEF IdleReaper, ReaperFields
  <1>4. ReaperOK'
    BY <1>1, <1>3, ReaperListsOK DEF Expired, ListPods
  <1> QED BY <1>1, <1>4, ReaperMoves DEF ListPods

\* The reaper lists the volumes left over.
LEMMA ListVolumesOK == ASSUME PodsIInv, ListVolumes PROVE PodsIInv'
  <1>1. CloudOK' /\ Grows
    BY CloudSame, CloudFault DEF ListVolumes, PodsIInv
  <1>3. /\ DOMAIN reaper' = ReaperFields /\ reaper'.pc = "vols" /\ reaper'.back = reaper.back
        /\ reaper'.todo \subseteq {n \in Name : Expired(n)}
    <2> DEFINE due == {n \in Name : host[n] = providerOrder[reaper.idx] /\ "vol" \in cloud[n] /\ Expired(n)}
    <2>1. \/ reaper' = [reaper EXCEPT !.pc = "vols", !.todo = due]
          \/ reaper' = [reaper EXCEPT !.pc = "vols"]
      BY DEF ListVolumes
    <2>2. reaper.todo = {} /\ DOMAIN reaper = ReaperFields
      BY DEF ListVolumes, PodsIInv, ReaperOK
    <2>3. due \subseteq {n \in Name : Expired(n)}
      OBVIOUS
    <2> HIDE DEF due
    <2> QED BY <2>1, <2>2, <2>3 DEF ReaperFields
  <1>4. ReaperOK'
    BY <1>1, <1>3, ReaperListsOK DEF Expired, ListVolumes, PodsIInv, ReaperOK
  <1> QED BY <1>1, <1>4, ReaperMoves DEF ListVolumes

\* The reaper goes to the next provider.
LEMMA ProviderDoneOK == ASSUME PodsIInv, ProviderDone PROVE PodsIInv'
  <1>1. CloudOK' /\ Grows
    BY CloudSame DEF ProviderDone, PodsIInv
  <1> DEFINE due == {n \in Name : file[n] = "destroy_failed"}
  <1>2. reaper.todo = {} /\ DOMAIN reaper = ReaperFields
    BY DEF ProviderDone, PodsIInv, ReaperOK
  <1>3. \/ reaper' = [reaper EXCEPT !.pc = "provider", !.idx = reaper.idx + 1]
        \/ reaper' = [reaper EXCEPT !.pc = "retry", !.todo = due]
    BY DEF ProviderDone
  <1>4. due \subseteq Name /\ due \subseteq undone' /\ \A n \in due : host'[n] # "none"
    BY <1>1 DEF PodsIInv, CloudOK, Plausible, Grows
  <1> HIDE DEF due
  <1>5. /\ DOMAIN reaper' = ReaperFields /\ reaper'.pc \in {"provider", "retry"}
        /\ reaper'.back = reaper.back /\ reaper'.todo \subseteq due
    BY <1>2, <1>3 DEF ReaperFields
  <1>6. ReaperOK'
    BY <1>1, <1>4, <1>5, ReaperListsOK DEF PodsIInv, ReaperOK
  <1> QED BY <1>1, <1>6, ReaperMoves DEF ProviderDone

\* The reaper ends its pass, or dies in it.
LEMMA IdleOK == ASSUME PodsIInv, ReapDone \/ ReaperDies PROVE PodsIInv'
  <1>1. CloudOK' /\ Grows
    BY CloudSame, CloudFault DEF ReapDone, ReaperDies, PodsIInv
  <1>2. reaper' = IdleReaper /\ client' = client
    BY DEF ReapDone, ReaperDies
  <1>3. /\ DOMAIN reaper' = ReaperFields /\ reaper'.pc = "idle" /\ reaper'.back = "pods"
        /\ reaper'.todo = {}
    BY <1>2 DEF IdleReaper, ReaperFields
  <1>4. ReaperOK'
    BY <1>1, <1>3, ReaperListsOK
  <1> QED BY <1>1, <1>2, <1>4, ReaperMoves

\* The reaper reads the registry.
LEMMA ReaperLoadOK == ASSUME PodsIInv, ReaperLoad PROVE PodsIInv'
  <1>1. CloudOK' /\ Grows
    BY CloudSame DEF ReaperLoad, PodsIInv
  <1>2. reaper' = [reaper EXCEPT !.pc = "save", !.snap = {file}] /\ reaper.pc = "load"
        /\ client' = client
    BY DEF ReaperLoad
  <1>3. /\ DOMAIN reaper' = ReaperFields /\ reaper'.pc = "save" /\ reaper'.snap = {file}
        /\ reaper'.back = reaper.back /\ reaper'.todo = reaper.todo
        /\ reaper'.pod = reaper.pod /\ reaper'.put = reaper.put
    BY <1>2 DEF ReaperFields, PodsIInv, ReaperOK
  <1>4. \A f \in {file} : Plausible(f)'
    BY <1>1, PlausibleStays DEF PodsIInv, CloudOK
  <1>5. ReaperOK'
    BY <1>1, <1>2, <1>3, <1>4 DEF ReaperOK, PodsIInv, Grows
  <1> QED BY <1>1, <1>2, <1>5, ReaperMoves

\* The reaper writes the registry back.
LEMMA ReaperSaveOK == ASSUME PodsIInv, ReaperSave PROVE PodsIInv'
  <1>1. /\ reaper.pc = "save" /\ client' = client
        /\ file' = Changed(reaper.snap, reaper.pod, reaper.put)
        /\ reaper' = [reaper EXCEPT !.pc = reaper.back, !.snap = {}, !.pod = NoPod, !.put = "none"]
    BY DEF ReaperSave
  <1>2. Plausible(Changed(reaper.snap, reaper.pod, reaper.put))
    BY <1>1, ChangedPlausible DEF PodsIInv, ReaperOK
  <1>3. CloudOK' /\ Grows
    BY <1>1, <1>2, CloudSaved DEF ReaperSave, PodsIInv
  <1>4. /\ DOMAIN reaper' = ReaperFields /\ reaper'.pc = reaper.back
        /\ reaper'.back = reaper.back /\ reaper'.todo = reaper.todo
    BY <1>1 DEF ReaperFields, PodsIInv, ReaperOK
  <1>5. ReaperOK'
    BY <1>1, <1>3, <1>4, ReaperListsOK DEF ReaperOK, PodsIInv, Grows
  <1> QED BY <1>1, <1>3, <1>5, ReaperMoves

\* The reaper destroys an expired pod.
LEMMA ReapPodOK == ASSUME PodsIInv, NEW n \in Name, ReapPod(n) PROVE PodsIInv'
  <1>1. reaper.pc = "pods" /\ n \in reaper.todo /\ client' = client
    BY DEF ReapPod
  <1>2. PICK known, left :
          /\ Teardown(n, known, left)
          /\ reaper' = IF left # {} /\ file[n] = "none"
                       THEN [reaper EXCEPT !.todo = @ \ {n}]
                       ELSE [reaper EXCEPT !.pc = "load", !.pod = n, !.back = "pods",
                                !.todo = @ \ {n},
                                !.put = IF left = {} THEN "none" ELSE "destroy_failed"]
          /\ Noted(n, left)
    BY DEF ReapPod
  <1>3. undone \subseteq undone' /\ (left # {} => n \in undone')
    BY <1>2 DEF Noted
  <1>4. CloudOK' /\ Grows
    BY <1>2, <1>3, CloudShrinks DEF ReapPod, PodsIInv
  <1>5. DOMAIN reaper = ReaperFields /\ reaper.todo \subseteq expired /\ host'[n] # "none"
        /\ reaper.todo \subseteq Name /\ expired \subseteq expired' /\ reaper.back \in {"pods", "retry"}
    BY <1>1, <1>4 DEF PodsIInv, ReaperOK, CloudOK, Grows
  <1>6. CASE reaper' = [reaper EXCEPT !.todo = @ \ {n}]
    <2>1. /\ DOMAIN reaper' = ReaperFields /\ reaper'.pc = "pods"
          /\ reaper'.back = reaper.back /\ reaper'.todo \subseteq reaper.todo
      BY <1>1, <1>5, <1>6 DEF ReaperFields
    <2>2. ReaperOK'
      BY <1>4, <1>5, <2>1, ReaperListsOK
    <2> QED BY <1>1, <1>4, <2>2, ReaperMoves
  <1>7. CASE reaper' = [reaper EXCEPT !.pc = "load", !.pod = n, !.back = "pods", !.todo = @ \ {n},
                                !.put = IF left = {} THEN "none" ELSE "destroy_failed"]
    <2>1. /\ DOMAIN reaper' = ReaperFields /\ reaper'.pc = "load" /\ reaper'.pod = n
          /\ reaper'.back = "pods" /\ reaper'.todo \subseteq reaper.todo
          /\ reaper'.put = IF left = {} THEN "none" ELSE "destroy_failed"
      BY <1>5, <1>7 DEF ReaperFields
    <2>2. ReaperOK'
      BY <1>3, <1>5, <2>1 DEF ReaperOK
    <2> QED BY <1>1, <1>4, <2>2, ReaperMoves
  <1> QED BY <1>2, <1>6, <1>7

\* The reaper removes an expired volume.
LEMMA ReapVolumeOK == ASSUME PodsIInv, NEW n \in Name, ReapVolume(n) PROVE PodsIInv'
  <1>1. reaper.pc = "vols" /\ reaper' = [reaper EXCEPT !.todo = @ \ {n}] /\ client' = client
    BY DEF ReapVolume
  <1>2. CloudOK' /\ Grows
    BY CloudShrinks DEF ReapVolume, PodsIInv
  <1>3. DOMAIN reaper = ReaperFields /\ reaper.todo \subseteq expired
        /\ reaper.todo \subseteq Name /\ expired \subseteq expired' /\ reaper.back \in {"pods", "retry"}
    BY <1>1, <1>2 DEF PodsIInv, ReaperOK, Grows
  <1>4. /\ DOMAIN reaper' = ReaperFields /\ reaper'.pc = "vols"
        /\ reaper'.back = reaper.back /\ reaper'.todo \subseteq reaper.todo
    BY <1>1, <1>3 DEF ReaperFields
  <1>5. ReaperOK'
    BY <1>2, <1>3, <1>4, ReaperListsOK
  <1> QED BY <1>1, <1>2, <1>5, ReaperMoves

\* The reaper repeats a destroy that failed.
LEMMA RetryDestroyOK == ASSUME PodsIInv, NEW n \in Name, RetryDestroy(n) PROVE PodsIInv'
  <1>1. reaper.pc = "retry" /\ n \in reaper.todo /\ client' = client /\ undone' = undone
    BY DEF RetryDestroy
  <1>2. PICK left :
          /\ Teardown(n, Destroys(n), left)
          /\ reaper' = IF left = {}
                       THEN [reaper EXCEPT !.pc = "load", !.pod = n, !.back = "retry",
                                !.todo = @ \ {n}, !.put = "none"]
                       ELSE [reaper EXCEPT !.todo = @ \ {n}]
    BY DEF RetryDestroy
  <1>3. CloudOK' /\ Grows
    BY <1>2, CloudShrinks DEF RetryDestroy, PodsIInv
  <1>4. /\ DOMAIN reaper = ReaperFields /\ reaper.todo \subseteq undone'
        /\ (\A m \in reaper.todo : host'[m] # "none")
        /\ reaper.todo \subseteq Name /\ reaper.back \in {"pods", "retry"}
    BY <1>1, <1>3 DEF PodsIInv, ReaperOK, Grows
  <1>5. CASE reaper' = [reaper EXCEPT !.todo = @ \ {n}]
    <2>1. /\ DOMAIN reaper' = ReaperFields /\ reaper'.pc = "retry"
          /\ reaper'.back = reaper.back /\ reaper'.todo \subseteq reaper.todo
      BY <1>1, <1>4, <1>5 DEF ReaperFields
    <2>2. ReaperOK'
      BY <1>3, <1>4, <2>1, ReaperListsOK
    <2> QED BY <1>1, <1>3, <2>2, ReaperMoves
  <1>6. CASE reaper' = [reaper EXCEPT !.pc = "load", !.pod = n, !.back = "retry",
                                !.todo = @ \ {n}, !.put = "none"]
    <2>1. /\ DOMAIN reaper' = ReaperFields /\ reaper'.pc = "load" /\ reaper'.pod = n
          /\ reaper'.back = "retry" /\ reaper'.todo \subseteq reaper.todo /\ reaper'.put = "none"
      BY <1>4, <1>6 DEF ReaperFields
    <2>2. ReaperOK'
      BY <1>1, <1>4, <2>1 DEF ReaperOK
    <2> QED BY <1>1, <1>3, <2>2, ReaperMoves
  <1> QED BY <1>2, <1>5, <1>6

\* Every step of every client, of the reaper and of the clock keeps the invariant.
LEMMA PodsNext == PodsIInv /\ [NextPods]_podVars => PodsIInv'
  <1> SUFFICES ASSUME PodsIInv, [NextPods]_podVars PROVE PodsIInv'
    OBVIOUS
  <1>1. CASE UNCHANGED podVars
    <2>1. CloudOK' /\ Grows
      BY <1>1, CloudSame DEF podVars, PodsIInv
    <2>2. ReaperOK'
      BY <1>1, <2>1, ReaperStays DEF podVars, PodsIInv
    <2> QED BY <1>1, <2>1, <2>2, ReaperMoves DEF podVars
  <1>2. ASSUME NEW c \in Client,
               \/ TakeLock(c) \/ Search(c) \/ RentCall(c) \/ RentFails(c) \/ NotReady(c) \/ AbortRent(c)
               \/ RegistryLoad(c) \/ RegistrySave(c) \/ RegistryFails(c) \/ Undo(c)
               \/ GiveBack(c, TRUE) \/ GiveBack(c, FALSE) \/ Destroy(c) \/ Killed(c) \/ Again(c)
               \/ \E n \in Name : TakeByName(c, n, "using") \/ TakeByName(c, n, "destroy")
        PROVE  PodsIInv'
    BY <1>2, TakeLockOK, SearchOK, RentCallOK, RentEndsOK, AbortRentOK, RegistryLoadOK,
       RegistrySaveOK, RegistryFailsOK, UndoOK, GiveBackOK, DestroyOK, KilledOK, AgainOK, TakeByNameOK
  <1>3. ASSUME NEW n \in Name, Expire(n) \/ ReapPod(n) \/ ReapVolume(n) \/ RetryDestroy(n)
        PROVE  PodsIInv'
    BY <1>3, ExpireOK, ReapPodOK, ReapVolumeOK, RetryDestroyOK
  <1>4. CASE ListPods \/ ReaperLoad \/ ReaperSave \/ ListVolumes \/ ProviderDone \/ ReapDone \/ ReaperDies
    BY <1>4, ListPodsOK, ReaperLoadOK, ReaperSaveOK, ListVolumesOK, ProviderDoneOK, IdleOK
  <1> QED BY <1>1, <1>2, <1>3, <1>4 DEF NextPods, ReaperNext

\* Renting a machine (src/gpu/orchestrate.py, src/gpu/providers/): with several
\* clients, a reaper, lost answers and failing registry writes, a machine that is
\* rented is of the type, large enough and within the hourly cap, and a client that
\* reports no capacity has asked no provider to create anything.
THEOREM RentalsKeepTerms == SpecPods => []RentalsSafe
  BY PodsInit, PodsNext, PodsSafe, PTL DEF SpecPods

\* The reaper (src/gpu/reap.py) takes nothing from a pod before its TTL has passed
\* unless a destroy of that pod was tried and failed: the registry file it read may
\* be old, or be overwritten by a client's save, and still no pod in use is reaped.
THEOREM ReaperSpares == SpecPods => ReaperSparesLive
  <1>1. PodsIInv /\ [NextPods]_podVars =>
          [\A n \in Name :
             (cloud'[n] # cloud[n] /\ cloud'[n] \subseteq cloud[n] /\ reaper' # reaper /\ ~Expired(n))
             => n \in undone]_podVars
    <2> SUFFICES ASSUME PodsIInv, NextPods, NEW n \in Name,
                        cloud'[n] # cloud[n], reaper' # reaper, ~Expired(n)
                 PROVE  n \in undone
      BY DEF podVars
    <2>0. CloudOK
      BY DEF PodsIInv
    <2>1. ASSUME NEW m \in Name, ReapPod(m) PROVE n \in undone
      <3>1. PICK known, left : Teardown(m, known, left)
        BY <2>1 DEF ReapPod
      <3>2. n = m
        BY <2>0, <3>1, TeardownTakes
      <3> QED BY <2>1, <3>2 DEF ReapPod, PodsIInv, ReaperOK, Expired
    <2>2. ASSUME NEW m \in Name, ReapVolume(m) PROVE n \in undone
      <3>1. PICK left : Teardown(m, {"vol"}, left)
        BY <2>2 DEF ReapVolume
      <3>2. n = m
        BY <2>0, <3>1, TeardownTakes
      <3> QED BY <2>2, <3>2 DEF ReapVolume, PodsIInv, ReaperOK, Expired
    <2>3. ASSUME NEW m \in Name, RetryDestroy(m) PROVE n \in undone
      <3>1. PICK left : Teardown(m, Destroys(m), left)
        BY <2>3 DEF RetryDestroy
      <3>2. n = m
        BY <2>0, <3>1, TeardownTakes
      <3> QED BY <2>3, <3>2 DEF RetryDestroy, PodsIInv, ReaperOK
    <2>4. ReaperNext \/ ReaperDies
      BY DEF NextPods, TakeLock, Search, RentCall, RentFails, NotReady, AbortRent, RegistryLoad,
             RegistrySave, RegistryFails, Undo, GiveBack, Destroy, Killed, Again, TakeByName, Expire
    <2>5. cloud' = cloud \/ \E m \in Name : ReapPod(m) \/ ReapVolume(m) \/ RetryDestroy(m)
      BY <2>4 DEF ReaperNext, ReaperDies, ListPods, ReaperLoad, ReaperSave, ListVolumes,
                  ProviderDone, ReapDone
    <2> QED BY <2>1, <2>2, <2>3, <2>5
  <1> QED BY <1>1, PodsInit, PodsNext, PTL DEF SpecPods, ReaperSparesLive
=============================================================================

-------------------------------- MODULE Pods --------------------------------
(***************************************************************************)
(* Renting, using and giving back cloud GPU pods (gpu/orchestrate.py,      *)
(* gpu/registry.py, gpu/reap.py, gpu/providers/ and gpu/cli.py).           *)
(*                                                                         *)
(* A client (the round worker or an operator's command) walks the          *)
(* configured providers under the provision lock, rents a pod and its      *)
(* volume in several calls, writes it into the registry file, uses it and  *)
(* destroys it.  The reaper runs from a timer in another process.  The     *)
(* registry file is read, changed and replaced; only renting holds the     *)
(* lock, so a save may overwrite what another process saved in between.    *)
(* The one handle that is never lost is the pod's name, which carries its  *)
(* expiry.                                                                 *)
(***************************************************************************)
EXTENDS Integers, Sequences, FiniteSets

CONSTANTS
    Client,         \* processes that rent: the worker, an operator's command
    Modes,          \* how clients rent: "auto", "force" (--force), "manual" (--manual)
    MaxNames,       \* bound: pod names drawn
    Orders,         \* settings of PARETON_GPU_PROVIDERS: sequences of providers
    Markets,        \* what the providers may have on offer: provider -> items
    Want,           \* spec.gpu_count
    Cap,            \* spec.max_hourly_cents
    MaxPodFaults    \* bound: failed or unanswered calls and killed processes

ASSUME PodsAssumption ==
    /\ Modes \subseteq {"auto", "force", "manual"}
    /\ \A s \in Orders : s \in Seq({"targon", "shadeform", "lium", "runpod"}) /\ Len(s) > 0
    /\ Want \in Nat \ {0} /\ Cap \in Nat /\ MaxPodFaults \in Nat
    /\ MaxNames \in Nat
    /\ \A m \in Markets : \A p \in {"targon", "shadeform", "lium", "runpod"} : m[p] \subseteq
          [fit : BOOLEAN, gpus : Nat, price : Nat, stock : BOOLEAN, speed : Nat, docker : BOOLEAN]

Name == 1..MaxNames
NoPod == 0

VARIABLES
    providerOrder,  \* the providers to try, fixed in a behaviour
    market,     \* the providers' stock, fixed in a behaviour
    cloud,      \* name -> what bills under that name: "load", "vol"
    host,       \* name -> the provider it was rented from
    expired,    \* the names whose TTL has passed
    file,       \* registry file: name -> "none", "active", "destroy_failed"
    client,     \* client -> its program counter and locals
    reaper,     \* the reaper's
    undone,     \* history: the names of which a destroy was tried and failed
    podFaults   \* faults so far (bound)

podVars == <<providerOrder, market, undone, cloud, host, expired, file, client, reaper, podFaults>>

-----------------------------------------------------------------------------
(* Offers.  An item is [fit |-> the GPU type asked for, gpus, price (cents  *)
(* an hour, of one GPU for runpod), stock, speed, docker].                  *)

\* TargonProvider.search: in stock, of the type, large enough, under the cap;
\* cheapest first.
TargonSearch(items) ==
    {o \in items : o.stock /\ o.fit /\ o.gpus >= Want /\ o.price <= Cap}
TargonBetter(a, b) == a.price < b.price

\* ShadeformProvider.search: only machines that can run Docker; smallest that
\* is large enough first, then cheapest.
ShadeformSearch(items) ==
    {o \in items : o.stock /\ o.fit /\ o.docker /\ o.gpus >= Want /\ o.price <= Cap}
ShadeformBetter(a, b) ==
    a.gpus < b.gpus \/ (a.gpus = b.gpus /\ a.price < b.price)

\* RunpodProvider.search: the catalog's price is per GPU and exactly Want GPUs
\* are rented; a zero maximum count means unknown.
RunpodSearch(items) ==
    {[o EXCEPT !.gpus = Want, !.price = o.price * Want] :
        o \in {i \in items : /\ i.stock /\ i.fit /\ i.price > 0
                             /\ i.gpus = 0 \/ i.gpus >= Want
                             /\ i.price * Want <= Cap}}
RunpodBetter(a, b) == a.price < b.price

\* LiumProvider.search: smallest that is large enough, then the fastest
\* download, then the cheapest.
LiumSearch(items) ==
    {o \in items : o.docker /\ o.fit /\ o.gpus >= Want /\ o.price <= Cap}
LiumBetter(a, b) ==
    \/ a.gpus < b.gpus
    \/ a.gpus = b.gpus /\ a.speed > b.speed
    \/ a.gpus = b.gpus /\ a.speed = b.speed /\ a.price < b.price

Best(S, Better(_, _)) == {o \in S : \A p \in S : ~Better(p, o)}

\* _select_offer: the first of the provider's sorted offers.
SelectOffer(p) ==
    CASE p = "targon"    -> Best(TargonSearch(market[p]), TargonBetter)
      [] p = "shadeform" -> Best(ShadeformSearch(market[p]), ShadeformBetter)
      [] p = "runpod"    -> Best(RunpodSearch(market[p]), RunpodBetter)
      [] p = "lium"      -> Best(LiumSearch(market[p]), LiumBetter)

-----------------------------------------------------------------------------
(* Renting, provider by provider: the calls of provision(), in order.       *)
(* "vol" and "load" create something that bills; "ready" waits.             *)

\* Targon waits for the volume before it creates the workload, and deploys the
\* workload after: a failure there is a failure before or after "load".
TargonProvision == <<"vol", "load", "ready">>
ShadeformProvision == <<"vol", "load", "ready">>
LiumProvision == <<"vol", "load", "ready">>
RunpodProvision == <<"load", "ready", "docker">>

\* With --manual a human creates the pod and its volume in Targon's dashboard
\* under the drawn name, and provision_manual waits for it to run.
TargonManual == <<"load", "ready">>

Calls(c, p) ==
    CASE client[c].mode = "manual" -> TargonManual
      [] p = "targon"    -> TargonProvision
      [] p = "shadeform" -> ShadeformProvision
      [] p = "lium"      -> LiumProvision
      [] p = "runpod"    -> RunpodProvision

NoClient == [pc |-> "idle", mode |-> "auto", pod |-> NoPod, idx |-> 1, call |-> 1, known |-> {},
             offer |-> {}, snap |-> {}, put |-> "none", dry |-> TRUE,
             tried |-> {}, out |-> "none"]

\* encode_pod_name draws a name nobody has used: they are numbered as drawn.
Fresh == {n \in Name : host[n] = "none" /\ \A m \in 1..(n - 1) : host[m] # "none"}

Become(c, changes) ==
    client' = [client EXCEPT ![c] = [f \in DOMAIN @ |->
                  IF f \in DOMAIN changes THEN changes[f] ELSE @[f]]]

Fault == podFaults < MaxPodFaults /\ podFaults' = podFaults + 1

Locked == {"offer", "rent", "abort", "undo"}
HoldsLock(c) ==
    \/ client[c].pc \in Locked
    \/ client[c].pc \in {"load", "save"} /\ client[c].put = "active"

LockFree == \A c \in Client : ~HoldsLock(c)

\* PodRegistry.has_blocking_managed.
Blocking == \E n \in Name : file[n] \in {"active", "destroy_failed"}

\* A process ends.  What its caller tells apart is an empty market, after which
\* the round is deferred, from every other end.
Ended(c, out) ==
    IF out = "nocap" THEN [NoClient EXCEPT !.out = out, !.tried = client[c].tried]
                     ELSE [NoClient EXCEPT !.out = "ended"]

\* provision_pod enters the lock and makes the single-flight check.
TakeLock(c) ==
    /\ client[c].pc = "idle" /\ client[c].out = "none" /\ LockFree
    /\ \E m \in Modes :
          IF Blocking /\ m # "force"
          THEN client' = [client EXCEPT ![c] = Ended(c, "refused")]
          ELSE Become(c, [pc |-> "offer", mode |-> m])
    /\ UNCHANGED <<providerOrder, market, undone, cloud, host, expired, file, reaper, podFaults>>

\* Mutant: only the last provider's failure decides.
NextProviderForgets(c, dry) ==
    IF client[c].idx < Len(providerOrder)
    THEN Become(c, [pc |-> "offer", idx |-> client[c].idx + 1, dry |-> TRUE,
                    pod |-> NoPod, call |-> 1, known |-> {}, offer |-> {}])
    ELSE client' = [client EXCEPT ![c] = Ended(c, IF dry THEN "nocap" ELSE "failed")]

\* The next provider of the order, or the end of it: the market was empty only
\* when every provider found no offer.
NextProvider(c, dry) ==
    IF client[c].idx < Len(providerOrder)
    THEN Become(c, [pc |-> "offer", idx |-> client[c].idx + 1, dry |-> dry,
                    pod |-> NoPod, call |-> 1, known |-> {}, offer |-> {}])
    ELSE client' = [client EXCEPT ![c] = Ended(c, IF dry THEN "nocap" ELSE "failed")]

\* An error that is not a ProvisionError, whatever call of the provider raises
\* it, ends the attempt: no other provider is tried.
Fails(c) == client' = [client EXCEPT ![c] = Ended(c, "failed")]

\* _do_provision: no offer, or an inventory that does not answer, is an empty
\* market; otherwise a name with the TTL is drawn and renting begins.
Search(c) ==
    LET p == providerOrder[client[c].idx] IN
    /\ client[c].pc = "offer"
    /\ \/ SelectOffer(p) = {} /\ NextProvider(c, client[c].dry)
          /\ UNCHANGED <<host, podFaults>>
       \/ Fault /\ NextProvider(c, client[c].dry) /\ UNCHANGED host
       \/ Fault /\ Fails(c) /\ UNCHANGED host
       \/ /\ SelectOffer(p) # {} /\ client[c].mode = "manual" /\ p # "targon"
          /\ NextProvider(c, FALSE)
          /\ UNCHANGED <<host, podFaults>>
       \/ \E o \in SelectOffer(p) : \E n \in Fresh :
             /\ client[c].mode = "manual" => p = "targon"
             /\ Become(c, [pc |-> "rent", pod |-> n, call |-> 1, offer |-> {o},
                           tried |-> client[c].tried \cup {n}])
             /\ host' = [host EXCEPT ![n] = p]
             /\ UNCHANGED podFaults
    /\ UNCHANGED <<providerOrder, market, undone, cloud, expired, file, reaper>>

\* One call of provision() succeeds.  Shadeform's volume call may answer that
\* the cloud has no volumes: the pod then uses its local disk.  The human of
\* --manual may or may not have made a volume.
RentCall(c) ==
    LET n == client[c].pod
        calls == Calls(c, host[n])
        call == calls[client[c].call]
        next == IF client[c].call = Len(calls)
                THEN [pc |-> "load", put |-> "active"]
                ELSE [pc |-> "rent", put |-> "none"]
        made == IF call \in {"vol", "load"} THEN {call} ELSE {}
        maybe == \/ host[n] = "shadeform" /\ call = "vol"
                 \/ client[c].mode = "manual" /\ call = "load"
    IN /\ client[c].pc = "rent"
       /\ \E got \in {made} \cup (IF ~maybe THEN {} ELSE IF call = "vol" THEN {{}} ELSE {{"load", "vol"}}) :
             /\ cloud' = [cloud EXCEPT ![n] = @ \cup got]
             /\ Become(c, [pc |-> next.pc, put |-> next.put, call |-> client[c].call + 1,
                           known |-> client[c].known \cup got])
       /\ UNCHANGED <<providerOrder, market, undone, host, expired, file, reaper, podFaults>>

\* _wait_ready ends: the machine died, never came up, never mounted its disk or
\* cannot run Docker.
NotReady(c) ==
    /\ client[c].pc = "rent" /\ Fault
    /\ Calls(c, host[client[c].pod])[client[c].call] \in {"ready", "docker"}
    /\ Become(c, [pc |-> "abort"])
    /\ UNCHANGED <<providerOrder, market, undone, cloud, host, expired, file, reaper>>

\* A create call fails or its answer is lost: what it made may bill all the same, and
\* its id is not known.  A failed create of the first resource has nothing to
\* abort.
RentFails(c) ==
    LET n == client[c].pod
        call == Calls(c, host[n])[client[c].call]
    IN /\ client[c].pc = "rent" /\ Fault /\ call \in {"vol", "load"}
       /\ \E lost \in {{}, {call}} :
             cloud' = [cloud EXCEPT ![n] = @ \cup lost]
       /\ Become(c, [pc |-> "abort"])
       /\ UNCHANGED <<providerOrder, market, undone, host, expired, file, reaper>>

\* What destroy() of a provider tears down, each part tried whatever happened to
\* the other; Runpod's disk dies with its pod.
TargonDestroys == {"load", "vol"}
ShadeformDestroys == {"load", "vol"}
LiumDestroys == {"load", "vol"}
RunpodDestroys == {"load"}

Destroys(n) ==
    CASE host[n] = "targon"    -> TargonDestroys
      [] host[n] = "shadeform" -> ShadeformDestroys
      [] host[n] = "lium"      -> LiumDestroys
      [] host[n] = "runpod"    -> RunpodDestroys

\* What a teardown of the parts in known leaves: each may fail (a fault); an
\* answer of 404 counts as done.
Teardown(n, known, left) ==
    /\ left \subseteq (known \cap cloud[n])
    /\ cloud' = [cloud EXCEPT ![n] = (@ \ known) \cup left]
    /\ IF left = {} THEN UNCHANGED podFaults ELSE Fault

\* provision_manual tears nothing down: the human's pod is left to its TTL.
AbortKnown(c) == IF client[c].mode = "manual" THEN {} ELSE client[c].known

\* _abort_rent: best effort; the failure is then a provider failure (not an
\* empty market) and the next provider is tried, unless it was none of the
\* errors the provider knows.
AbortRent(c) ==
    /\ client[c].pc = "abort"
    /\ \E left \in SUBSET AbortKnown(c) : Teardown(client[c].pod, AbortKnown(c), left)
    /\ NextProvider(c, FALSE) \/ Fails(c)
    /\ UNCHANGED <<providerOrder, market, undone, host, expired, file, reaper>>

-----------------------------------------------------------------------------
(* The registry file: load, change, replace.                                *)

\* _load.
RegistryLoad(c) ==
    /\ client[c].pc = "load"
    /\ Become(c, [pc |-> "save", snap |-> {file}])
    /\ UNCHANGED <<providerOrder, market, undone, cloud, host, expired, file, reaper, podFaults>>

Changed(snap, n, put) == [(CHOOSE f \in snap : TRUE) EXCEPT ![n] = put]

\* _save replaces the file with the loaded entries and the change.
RegistrySave(c) ==
    /\ client[c].pc = "save"
    /\ file' = Changed(client[c].snap, client[c].pod, client[c].put)
    /\ IF client[c].put = "active"
       THEN client' = [client EXCEPT ![c] = [NoClient EXCEPT !.pc = "using",
                          !.pod = client[c].pod, !.known = client[c].known]]
       ELSE client' = [client EXCEPT ![c] =
                Ended(c, IF client[c].put = "none" THEN "done" ELSE "destroy_failed")]
    /\ UNCHANGED <<providerOrder, market, undone, cloud, host, expired, reaper, podFaults>>

\* registry.add fails after the rent: the pod is destroyed and no other
\* provider is tried.  A failed remove or update is only logged or raised.
RegistryFails(c) ==
    /\ client[c].pc \in {"load", "save"} /\ Fault
    /\ IF client[c].put = "active"
       THEN Become(c, [pc |-> "undo", snap |-> {}, offer |-> {}])
       ELSE client' = [client EXCEPT ![c] = Ended(c, "failed")]
    /\ UNCHANGED <<providerOrder, market, undone, cloud, host, expired, file, reaper>>

Undo(c) ==
    /\ client[c].pc = "undo"
    /\ \E left \in SUBSET client[c].known : Teardown(client[c].pod, client[c].known, left)
    /\ client' = [client EXCEPT ![c] = Ended(c, "failed")]
    /\ UNCHANGED <<providerOrder, market, undone, host, expired, file, reaper>>

-----------------------------------------------------------------------------
(* Using and destroying.                                                    *)

\* run_bench_on_pod ends, or the command keeps the pod (cmd_provision, --keep).
GiveBack(c, keep) ==
    /\ client[c].pc = "using"
    /\ IF keep THEN client' = [client EXCEPT ![c] = Ended(c, "kept")]
               ELSE Become(c, [pc |-> "destroy"])
    /\ UNCHANGED <<providerOrder, market, undone, cloud, host, expired, file, reaper, podFaults>>

\* cmd_destroy and --pod take the pod from its registry entry, which holds the
\* volume's id.
TakeByName(c, n, pc) ==
    /\ client[c].pc = "idle" /\ client[c].out = "none" /\ file[n] # "none"
    /\ Become(c, [pc |-> pc, pod |-> n, known |-> Destroys(n)])
    /\ UNCHANGED <<providerOrder, market, undone, cloud, host, expired, file, reaper, podFaults>>

\* The history of failed destroys.
Noted(n, left) == undone' = IF left = {} THEN undone ELSE undone \cup {n}

\* destroy_pod: success removes the entry, a DestroyError marks it.
Destroy(c) ==
    /\ client[c].pc = "destroy"
    /\ \E left \in SUBSET client[c].known :
          /\ Teardown(client[c].pod, client[c].known, left)
          /\ Become(c, [pc |-> "load",
                        put |-> IF left = {} THEN "none" ELSE "destroy_failed"])
          /\ Noted(client[c].pod, left)
    /\ UNCHANGED <<providerOrder, market, host, expired, file, reaper>>

\* The process is killed wherever it is: the flock goes with it, the pod stays.
Killed(c) ==
    /\ client[c].pc # "idle" /\ Fault
    /\ client' = [client EXCEPT ![c] = Ended(c, "killed")]
    /\ UNCHANGED <<providerOrder, market, undone, cloud, host, expired, file, reaper>>

\* The next round, or the next command.
Again(c) ==
    /\ client[c].pc = "idle" /\ client[c].out # "none"
    /\ client' = [client EXCEPT ![c] = [NoClient EXCEPT !.tried = {}]]
    /\ UNCHANGED <<providerOrder, market, undone, cloud, host, expired, file, reaper, podFaults>>

-----------------------------------------------------------------------------
(* The reaper.                                                              *)

IdleReaper == [pc |-> "idle", idx |-> 1, todo |-> {}, pod |-> NoPod,
               snap |-> {}, put |-> "none", back |-> "pods"]

\* is_expired on the name, which list_pods and list_volumes return.
Expired(n) == n \in expired

Expire(n) ==
    /\ host[n] # "none" /\ n \notin expired
    /\ expired' = expired \cup {n}
    /\ UNCHANGED <<providerOrder, market, undone, cloud, host, file, client, reaper, podFaults>>

\* Mutant: only the pods the registry knows are reaped.
ListPodsTracked ==
    /\ reaper.pc \in {"idle", "provider"}
    /\ LET i == IF reaper.pc = "idle" THEN 1 ELSE reaper.idx
           due == {n \in Name : /\ host[n] = providerOrder[i] /\ "load" \in cloud[n]
                                /\ Expired(n) /\ file[n] # "none"}
       IN reaper' = [IdleReaper EXCEPT !.pc = "pods", !.idx = i, !.todo = due]
    /\ UNCHANGED <<providerOrder, market, undone, cloud, host, expired, file, client, podFaults>>

\* The timer fires, and the first provider's pods are listed.
ListPods ==
    /\ reaper.pc \in {"idle", "provider"}
    /\ LET i == IF reaper.pc = "idle" THEN 1 ELSE reaper.idx
           due == {n \in Name : host[n] = providerOrder[i] /\ "load" \in cloud[n] /\ Expired(n)}
       IN \/ reaper' = [IdleReaper EXCEPT !.pc = "pods", !.idx = i, !.todo = due]
             /\ UNCHANGED podFaults
          \/ Fault /\ reaper' = [IdleReaper EXCEPT !.pc = "pods", !.idx = i]
    /\ UNCHANGED <<providerOrder, market, undone, cloud, host, expired, file, client>>

\* One expired pod: its volume's id comes from the registry, if it has the pod.
ReapPod(n) ==
    LET known == IF file[n] = "none" THEN {"load"} ELSE Destroys(n) IN
    /\ reaper.pc = "pods" /\ n \in reaper.todo
    /\ \E left \in SUBSET known :
          /\ Teardown(n, known, left)
          /\ reaper' = IF left # {} /\ file[n] = "none"
                       THEN [reaper EXCEPT !.todo = @ \ {n}]
                       ELSE [reaper EXCEPT !.pc = "load", !.pod = n, !.back = "pods",
                                !.todo = @ \ {n},
                                !.put = IF left = {} THEN "none" ELSE "destroy_failed"]
          /\ Noted(n, left)
    /\ UNCHANGED <<providerOrder, market, host, expired, file, client>>

ReaperLoad ==
    /\ reaper.pc = "load"
    /\ reaper' = [reaper EXCEPT !.pc = "save", !.snap = {file}]
    /\ UNCHANGED <<providerOrder, market, undone, cloud, host, expired, file, client, podFaults>>

ReaperSave ==
    /\ reaper.pc = "save"
    /\ file' = Changed(reaper.snap, reaper.pod, reaper.put)
    /\ reaper' = [reaper EXCEPT !.pc = reaper.back, !.snap = {}, !.pod = NoPod, !.put = "none"]
    /\ UNCHANGED <<providerOrder, market, undone, cloud, host, expired, client, podFaults>>

\* Then the provider's volumes, which may outlive their pods.
ListVolumes ==
    /\ reaper.pc = "pods" /\ reaper.todo = {}
    /\ \/ reaper' = [reaper EXCEPT !.pc = "vols", !.todo =
             {n \in Name : host[n] = providerOrder[reaper.idx] /\ "vol" \in cloud[n] /\ Expired(n)}]
          /\ UNCHANGED podFaults
       \/ Fault /\ reaper' = [reaper EXCEPT !.pc = "vols"]
    /\ UNCHANGED <<providerOrder, market, undone, cloud, host, expired, file, client>>

ReapVolume(n) ==
    /\ reaper.pc = "vols" /\ n \in reaper.todo
    /\ \E left \in SUBSET {"vol"} : Teardown(n, {"vol"}, left)
    /\ reaper' = [reaper EXCEPT !.todo = @ \ {n}]
    /\ UNCHANGED <<providerOrder, market, undone, host, expired, file, client>>

\* Mutant: every registry entry is retried, not only the failed destroys.
ProviderDoneRetryAll ==
    /\ reaper.pc = "vols" /\ reaper.todo = {}
    /\ reaper' = IF reaper.idx < Len(providerOrder)
                 THEN [reaper EXCEPT !.pc = "provider", !.idx = @ + 1]
                 ELSE [reaper EXCEPT !.pc = "retry", !.todo = {n \in Name : file[n] # "none"}]
    /\ UNCHANGED <<providerOrder, market, undone, cloud, host, expired, file, client, podFaults>>

\* The next provider, or the registry's failed destroys.
ProviderDone ==
    /\ reaper.pc = "vols" /\ reaper.todo = {}
    /\ reaper' = IF reaper.idx < Len(providerOrder)
                 THEN [reaper EXCEPT !.pc = "provider", !.idx = @ + 1]
                 ELSE [reaper EXCEPT !.pc = "retry",
                          !.todo = {n \in Name : file[n] = "destroy_failed"}]
    /\ UNCHANGED <<providerOrder, market, undone, cloud, host, expired, file, client, podFaults>>

RetryDestroy(n) ==
    /\ reaper.pc = "retry" /\ n \in reaper.todo
    /\ \E left \in SUBSET Destroys(n) :
          /\ Teardown(n, Destroys(n), left)
          /\ reaper' = IF left = {}
                       THEN [reaper EXCEPT !.pc = "load", !.pod = n, !.back = "retry",
                                !.todo = @ \ {n}, !.put = "none"]
                       ELSE [reaper EXCEPT !.todo = @ \ {n}]
    /\ UNCHANGED <<providerOrder, market, undone, host, expired, file, client>>

ReapDone ==
    /\ reaper.pc = "retry" /\ reaper.todo = {}
    /\ reaper' = IdleReaper
    /\ UNCHANGED <<providerOrder, market, undone, cloud, host, expired, file, client, podFaults>>

\* A killed reaper, or a registry error that ends reap().
ReaperDies ==
    /\ reaper.pc # "idle" /\ Fault
    /\ reaper' = IdleReaper
    /\ UNCHANGED <<providerOrder, market, undone, cloud, host, expired, file, client>>

-----------------------------------------------------------------------------
InitPods ==
    /\ providerOrder \in Orders
    /\ market \in Markets
    /\ cloud = [n \in Name |-> {}]
    /\ host = [n \in Name |-> "none"]
    /\ expired = {}
    /\ file = [n \in Name |-> "none"]
    /\ client = [c \in Client |-> NoClient]
    /\ reaper = IdleReaper
    /\ undone = {}
    /\ podFaults = 0

ReaperNext ==
    \/ ListPods \/ ReaperLoad \/ ReaperSave \/ ListVolumes \/ ProviderDone \/ ReapDone
    \/ \E n \in Name : ReapPod(n) \/ ReapVolume(n) \/ RetryDestroy(n)

NextPods ==
    \/ \E c \in Client :
          \/ TakeLock(c) \/ Search(c) \/ RentCall(c) \/ RentFails(c) \/ NotReady(c) \/ AbortRent(c)
          \/ RegistryLoad(c) \/ RegistrySave(c) \/ RegistryFails(c) \/ Undo(c)
          \/ GiveBack(c, TRUE) \/ GiveBack(c, FALSE) \/ Destroy(c) \/ Killed(c) \/ Again(c)
          \/ \E n \in Name : TakeByName(c, n, "using") \/ TakeByName(c, n, "destroy")
    \/ \E n \in Name : Expire(n)
    \/ ReaperNext \/ ReaperDies

\* The timer fires every ten minutes and reap() runs to its end unless killed.
FairPods == WF_podVars(ReaperNext)

SpecPods == InitPods /\ [][NextPods]_podVars

-----------------------------------------------------------------------------
\* What is known of a pod was created, its price and size are the ones asked
\* for, and the registry knows only names that were drawn.
TypeOKPods ==
    /\ cloud \in [Name -> SUBSET {"load", "vol"}]
    /\ host \in [Name -> {"none", "targon", "shadeform", "lium", "runpod"}]
    /\ expired \subseteq {n \in Name : host[n] # "none"}
    /\ file \in [Name -> {"none", "active", "destroy_failed"}]
    /\ \A n \in Name : (file[n] # "none" \/ cloud[n] # {}) => host[n] # "none"
    /\ \A c \in Client :
          /\ client[c].pc \in {"idle", "offer", "rent", "abort", "load", "save",
                               "undo", "using", "destroy"}
          /\ client[c].idx \in 1..Len(providerOrder)
          /\ client[c].pc \in Locked => \A d \in Client \ {c} : ~HoldsLock(d)
    /\ reaper.pc \in {"idle", "provider", "pods", "load", "save", "vols", "retry"}
    /\ podFaults \in 0..MaxPodFaults

\* "Raises NoCapacityError only when every provider was out of stock": a round
\* is deferred, to be run again unchanged, only when this attempt asked no
\* provider to create anything, whatever the order in which providers failed
\* and ran dry.
NoCapacityMeansUnrented ==
    \A c \in Client : client[c].out = "nocap" => client[c].tried = {}

\* The node being rented is of the type, large enough and within the hourly cap
\* for the whole pod, and (except on Targon, which sorts by price) the provider
\* had no smaller one that qualifies: an oversized node bills every GPU.
OfferWithinTerms ==
    \A c \in Client : \A o \in client[c].offer :
        /\ o.fit /\ o.gpus >= Want /\ o.price <= Cap
        /\ LET p == host[client[c].pod] IN
           p # "targon" =>
              ~\E i \in market[p] : /\ i.fit /\ i.stock /\ i.docker /\ i.price <= Cap
                                    /\ i.gpus >= Want /\ i.gpus < o.gpus

\* What a rental may be, and what a client may say of one it did not get.
RentalsSafe == TypeOKPods /\ NoCapacityMeansUnrented /\ OfferWithinTerms

\* The reaper takes nothing from a pod before its TTL has passed, unless a
\* destroy of it was tried and failed: a pod in use is never reaped because a
\* registry file was read before, or replaced by, somebody else's save.
ReaperSparesLive ==
    [][\A n \in Name :
          (cloud'[n] # cloud[n] /\ cloud'[n] \subseteq cloud[n] /\ reaper' # reaper /\ ~Expired(n))
          => n \in undone]_podVars

\* Everything that bills ends with its TTL, for good: whether its client was
\* killed, an answer was lost, its registry entry was never written or was
\* overwritten by a concurrent save, or a destroy failed half way.
RentalsEnd == <>[](\A n \in Name : Expired(n) => cloud[n] = {})
=============================================================================

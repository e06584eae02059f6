------------------------------ MODULE MCFleet ------------------------------
(***************************************************************************)
(* Where submissions get their machines: the gate queue, the rented pods   *)
(* and the static bench host, checked in one run as their disjoint union.  *)
(* Every behaviour picks one part and runs it alone, with the others       *)
(* standing in an initial state; the parts share no variable, so the union *)
(* reaches the states of each part, and a property of a part holds in the  *)
(* union exactly when it holds of the part.                                *)
(***************************************************************************)
EXTENDS GateJobs, Pods, StaticHost, TLC

Item(f, g, p) == [fit |-> f, gpus |-> g, price |-> p, stock |-> TRUE, speed |-> 1, docker |-> TRUE]
MCOrders == {<<"lium", "targon">>, <<"shadeform", "runpod">>}
\* A larger node that is cheaper, a wrong type, one above the cap; and a market
\* in which the second provider of either order has nothing.
Stocked == ("lium" :> {Item(TRUE, 2, 6), Item(TRUE, 1, 9)})
        @@ ("targon" :> {Item(TRUE, 1, 5)})
        @@ ("shadeform" :> {Item(TRUE, 2, 5), Item(FALSE, 1, 5), Item(TRUE, 1, 20)})
        @@ ("runpod" :> {Item(TRUE, 0, 5)})
MCMarkets == {Stocked, [Stocked EXCEPT !["targon"] = {}, !["runpod"] = {}]}

VARIABLE part      \* the part this behaviour runs

fleetVars == <<vars, podVars, hostVars, part>>

InitFleet ==
    /\ part \in {"jobs", "pods", "host"}
    /\ Init /\ InitPods /\ InitHost
    \* A part that does not run stands in one initial state.
    /\ part # "pods" => /\ providerOrder = (CHOOSE o \in Orders : TRUE)
                        /\ market = Stocked

Only(p) == part = p /\ part' = part

NextFleet ==
    \/ Only("jobs") /\ Next /\ UNCHANGED <<podVars, hostVars>>
    \/ Only("pods") /\ NextPods /\ UNCHANGED <<vars, hostVars>>
    \/ Only("host") /\ NextHost /\ UNCHANGED <<vars, podVars>>

\* Fairness of GateJobs, FairPods and FairHost, asked of the behaviours that run
\* the part.
FairFleet ==
    /\ \A w \in Worker : /\ WF_vars(Only("jobs") /\ Work(w))
                         /\ SF_vars(Only("jobs") /\ ReadGate(w))
                         /\ SF_vars(Only("jobs") /\ ClaimNextJob(w))
    /\ \A j \in Job : WF_vars(Only("jobs") /\ RetryElapsed(j))
    /\ WF_vars(Only("jobs") /\ StartWorkers) /\ WF_vars(Only("jobs") /\ OpenGate)
    /\ WF_podVars(Only("pods") /\ ReaperNext)
    /\ \A k \in Runs : WF_hostVars(Only("host") /\ Timeout(k))
    /\ WF_hostVars(Only("host") /\ ReaperCleans)

SpecFleet == InitFleet /\ [][NextFleet]_fleetVars /\ FairFleet

\* In a behaviour that runs the gate queue, a queued job
\* is settled, unless its worker dies with it or a release keeps the gate closed.
PendingJobSettles ==
    \A j \in Job :
        part = "jobs" /\ status[j] = "pending" ~>
            status[j] \in {"done", "failed"} \/ Stranded(j) \/ phase # "open"
=============================================================================

------------------------- MODULE OperatorReconcile -------------------------
(***************************************************************************)
(* The Kubernetes operator.  It lists five kinds of resources one after the *)
(* other, builds a plan, writes deployments to the cluster, providers,      *)
(* router and budgets to a gateway over its admin API, and the outcome to   *)
(* the status of every resource.  Users edit resources between any two      *)
(* calls, calls fail, administrators change the gateway, the gateway        *)
(* restarts without its router settings, and an error ends the operator,    *)
(* which Kubernetes starts again.  One resource of each kind is enough: the *)
(* code handles each of a kind alike.                                       *)
(***************************************************************************)
EXTENDS Integers

CONSTANTS
    SpecsOf,     \* the specs users write, by kind
    MaxObjEdits, \* edits of resources
    MaxOpFaults, \* calls that fail
    MaxMeddling  \* changes made to the gateway by others

\* The schema of the resources lets no count of replicas be negative.
ASSUME OperatorAssumption ==
    /\ MaxObjEdits \in Nat /\ MaxOpFaults \in Nat /\ MaxMeddling \in Nat
    /\ \A s \in SpecsOf["isvc"] : s.replicas \in Nat /\ s.role \in Nat
    /\ \A p \in SpecsOf["scale"] : p.min \in Int /\ p.max \in Int /\ p.up \in Int /\ p.down \in Int

ResourceKinds == {"endpoint", "route", "budget", "scale", "isvc"}

\* The calls of a reconcile, numbered in the order they are made: Load lists the kinds, the
\* plan is built and applied, and every status is written.
ListOf == [endpoint |-> 1, route |-> 2, budget |-> 3, scale |-> 4, isvc |-> 5]
PlanCall == 6
DeploymentCall == 7
ServiceCall == 8
GetOf == [endpoint |-> 9, isvc |-> 11]
PutOf == [endpoint |-> 10, isvc |-> 12]
RouterCall == 13
BudgetCall == 14
StatusOf == [endpoint |-> 15, route |-> 16, budget |-> 17, isvc |-> 18, scale |-> 19]

NoResource == [gen |-> 0, uid |-> 0]
NoProvider == [url |-> "none"]
ConfigRouter == "from_file"
Unwritten == [gen |-> 0, uid |-> 0, ok |-> FALSE]

VARIABLES
    cluster,     \* resources by kind: a uid, a generation and a spec
    status,      \* their status: observedGeneration and the Ready condition; uid is a ghost,
                 \*  that of the resource the snapshot had listed
    deployment,  \* replicas of the deployment, or -1
    gwProviders, gwRouter, gwBudget,   \* what the gateway has been told
    process,     \* "down", "first": the reconcile before the informers start, "busy", "idle"
    watch,       \* the API server has a change the informers have not delivered
    events,      \* the channel of one
    snapshot,    \* resources as listed
    signals,     \* what Collect found for the service
    todo,        \* the set of the calls of this reconcile still to make
    found,       \* the answer to SyncProvider's GET
    opErr,       \* the joined error of plan and calls, the one the status reports
    patchErr,    \* a status could not be written
    budgetOf,    \* edits, faults and meddling so far
    delivered,   \* generations the cluster or gateway has accepted, by kind, part and uid
    touched      \* others changed the gateway after this reconcile began

outside == <<cluster, status, deployment, gwProviders, gwRouter, gwBudget>>
inside == <<process, watch, events, snapshot, signals, todo, found, opErr, patchErr>>
opVars == <<outside, inside, budgetOf, delivered, touched>>

OpInit ==
    /\ cluster = [k \in ResourceKinds |-> NoResource] /\ status = [k \in ResourceKinds |-> Unwritten]
    /\ deployment = -1
    /\ gwProviders = [k \in {"endpoint", "isvc"} |-> NoProvider] /\ gwRouter = ConfigRouter /\ gwBudget = 0
    /\ process = "down" /\ watch = FALSE /\ events = FALSE
    /\ snapshot = [k \in ResourceKinds |-> NoResource] /\ signals = "none"
    /\ todo = {} /\ found = FALSE /\ opErr = FALSE /\ patchErr = FALSE
    /\ budgetOf = [edit |-> 0, fault |-> 0, meddle |-> 0]
    /\ delivered = {} /\ touched = FALSE

Present(o) == o.gen > 0
Spend(what) == budgetOf' = [budgetOf EXCEPT ![what] = @ + 1]

-----------------------------------------------------------------------------
(* The plan.                                                                *)

clamp(value, low, high) == IF value < low THEN low ELSE IF value > high THEN high ELSE value
positiveOrDefault(value, fallback) == IF value > 0 THEN value ELSE fallback
ceiling(p, n) == positiveOrDefault(p.max, IF n > 1 THEN n ELSE 1)

Evaluate(n, p, signal) ==
    LET wanted == CASE signal = "above" -> n + positiveOrDefault(p.up, 1)
                    [] signal = "below" -> n - positiveOrDefault(p.down, 1)
                    [] OTHER            -> n
    IN  clamp(wanted, IF p.min < 0 THEN 0 ELSE p.min, ceiling(p, n))

\* Without signals the policy only bounds the count; "none" leaves it where it is.
enforceReplicas(n, policy, signal) ==
    IF ~Present(policy) \/ policy.spec.mode # "enforce" THEN n ELSE Evaluate(n, policy.spec, signal)

\* A role with a count of its own is not scaled.
ToWorkloadPlan(s, policy, signal) ==
    IF s.role > 0 THEN s.role ELSE enforceReplicas(s.replicas, policy, signal)

ToProviderSync(e) == [url |-> e.url, on |-> ~e.drain, price |-> e.price]
toModelEndpoint(s) == [url |-> s.model, on |-> TRUE, price |-> 0]

BadSpec(k, o) ==
    /\ Present(o)
    /\ \/ k = "endpoint" /\ o.spec.url = ""
       \/ k = "isvc" /\ o.spec.model = ""
       \/ k = "budget" /\ o.spec.subject = ""
planErr(snap) == \E k \in ResourceKinds : BadSpec(k, snap[k])

HasWorkload(o) == Present(o) /\ ~o.spec.external
Exposes(o) == HasWorkload(o) /\ o.spec.expose

ApplyCalls(snap) ==
    UNION { IF HasWorkload(snap["isvc"]) THEN {DeploymentCall, ServiceCall} ELSE {},
            IF Present(snap["endpoint"]) THEN {GetOf["endpoint"], PutOf["endpoint"]} ELSE {},
            IF Exposes(snap["isvc"]) THEN {GetOf["isvc"], PutOf["isvc"]} ELSE {},
            IF Present(snap["route"]) THEN {RouterCall} ELSE {},
            IF Present(snap["budget"]) THEN {BudgetCall} ELSE {} }

\* A policy that scales nothing gets no status: Update looks for its decision.
HasStatus(k, snap) ==
    /\ Present(snap[k])
    /\ k = "scale" => HasWorkload(snap["isvc"]) /\ ~BadSpec("isvc", snap["isvc"])
StatusCalls(snap) == {StatusOf[k] : k \in {r \in ResourceKinds : HasStatus(r, snap)}}

-----------------------------------------------------------------------------
(* The world around the operator.                                           *)

EditResource(k, o) ==
    /\ budgetOf.edit < MaxObjEdits
    /\ Spend("edit")
    /\ cluster' = [cluster EXCEPT ![k] = o]
    /\ status' = [status EXCEPT ![k] = IF Present(o) THEN @ ELSE Unwritten]
    /\ watch' = (process # "down")
    /\ UNCHANGED <<deployment, gwProviders, gwRouter, gwBudget,
                   process, events, snapshot, signals, todo, found, opErr, patchErr, delivered, touched>>

\* The API server gives a new resource a uid never used before and generation 1, also
\* when one of that name was there before; a change of the spec is the next generation.
Apply(k, spec) ==
    IF Present(cluster[k])
    THEN /\ spec # cluster[k].spec
         /\ EditResource(k, [gen |-> cluster[k].gen + 1, uid |-> cluster[k].uid, spec |-> spec])
    ELSE EditResource(k, [gen |-> 1, uid |-> budgetOf.edit + 1, spec |-> spec])

Delete(k) == Present(cluster[k]) /\ EditResource(k, NoResource)

Meddle ==
    /\ budgetOf.meddle < MaxMeddling
    /\ Spend("meddle")
    /\ touched' = TRUE
    /\ UNCHANGED <<cluster, status, deployment, inside, delivered>>

GatewayRestarts == Meddle /\ gwRouter' = ConfigRouter /\ UNCHANGED <<gwProviders, gwBudget>>

AdminDeletesProvider(k) ==
    /\ gwProviders[k] # NoProvider
    /\ Meddle
    /\ gwProviders' = [gwProviders EXCEPT ![k] = NoProvider]
    /\ UNCHANGED <<gwRouter, gwBudget>>

-----------------------------------------------------------------------------
(* run: one reconcile, then informers, then one for each event or tick.     *)

reconcileOnce(next) ==
    /\ process' = next
    /\ todo' = {ListOf[k] : k \in ResourceKinds} \cup {PlanCall}
    /\ opErr' = FALSE /\ patchErr' = FALSE
    /\ touched' = FALSE
    /\ UNCHANGED <<outside, watch, snapshot, signals, found, budgetOf, delivered>>

\* Kubernetes starts the operator; the channel is made when the first reconcile is over.
StartOperator == process = "down" /\ reconcileOnce("first") /\ UNCHANGED events

OnEvent == process = "idle" /\ events /\ events' = FALSE /\ reconcileOnce("busy")
OnTick_Events == process = "idle" /\ events /\ reconcileOnce("busy") /\ UNCHANGED events
OnTick == process = "idle" /\ reconcileOnce("busy") /\ UNCHANGED events

notify_Idle == watch /\ process \in {"idle", "busy"} /\ events' = (events \/ process = "idle")
notify == watch /\ process \in {"idle", "busy"} /\ events' = TRUE

InformerDelivers ==
    /\ notify
    /\ watch' = FALSE
    /\ UNCHANGED <<outside, process, snapshot, signals, todo, found, opErr, patchErr, budgetOf, delivered, touched>>

\* An error anywhere in a reconcile is run's error and ends the process.
Finish ==
    /\ process \in {"first", "busy"} /\ todo = {}
    /\ IF opErr \/ patchErr
       THEN process' = "down" /\ watch' = FALSE /\ events' = FALSE
       ELSE /\ process' = "idle"
            /\ watch' = IF process = "first" THEN \E k \in ResourceKinds : Present(cluster[k]) ELSE watch
            /\ UNCHANGED events
    /\ UNCHANGED <<outside, snapshot, signals, todo, found, opErr, patchErr, budgetOf, delivered, touched>>

-----------------------------------------------------------------------------
(* The calls of a reconcile, in order.                                      *)

Doing(call) == process \in {"first", "busy"} /\ call \in todo /\ \A other \in todo : call <= other
Fails == budgetOf.fault < MaxOpFaults /\ Spend("fault")
Proceed(call) == todo' = todo \ {call}
KeepLoop == UNCHANGED <<process, watch, events, patchErr, touched>>

\* Any list that fails makes Load's error: nothing is applied and no status is written.
List(k) ==
    /\ Doing(ListOf[k]) /\ Proceed(ListOf[k])
    /\ KeepLoop
    /\ UNCHANGED <<outside, signals, found, delivered>>
    /\ \/ snapshot' = [snapshot EXCEPT ![k] = cluster[k]] /\ UNCHANGED <<opErr, budgetOf>>
       \/ Fails /\ opErr' = TRUE /\ UNCHANGED snapshot

\* Collect's errors are only reported; BuildSyncPlan's make every status a failure.
Plan ==
    /\ Doing(PlanCall)
    /\ \E s \in IF deployment > 0 THEN {"none", "above", "below", "within"} ELSE {"none"} : signals' = s
    /\ opErr' = (opErr \/ planErr(snapshot))
    /\ todo' = IF opErr THEN {}
               ELSE IF planErr(snapshot) THEN StatusCalls(snapshot)
               ELSE ApplyCalls(snapshot) \cup StatusCalls(snapshot)
    /\ KeepLoop
    /\ UNCHANGED <<outside, snapshot, found, budgetOf, delivered>>

\* A call that writes: accepted, or refused and its error joined to the others.
JoinErr(failed) == opErr' = (opErr \/ failed)

Record(kind, part) == delivered' = delivered \cup {<<kind, part, snapshot[kind].uid, snapshot[kind].gen>>}

Refused ==
    /\ Fails /\ JoinErr(TRUE)
    /\ UNCHANGED <<deployment, gwProviders, gwRouter, gwBudget, delivered>>

ApplyDeployment ==
    /\ Doing(DeploymentCall) /\ Proceed(DeploymentCall) /\ KeepLoop
    /\ UNCHANGED <<cluster, status, snapshot, signals, found>>
    /\ \/ /\ deployment' = ToWorkloadPlan(snapshot["isvc"].spec, snapshot["scale"], signals)
          /\ Record("isvc", "deployment") /\ JoinErr(FALSE)
          /\ UNCHANGED <<gwProviders, gwRouter, gwBudget, budgetOf>>
       \/ Refused

ApplyService ==
    /\ Doing(ServiceCall) /\ Proceed(ServiceCall) /\ KeepLoop
    /\ UNCHANGED <<cluster, status, snapshot, signals, found>>
    /\ \/ /\ Record("isvc", "service") /\ JoinErr(FALSE)
          /\ UNCHANGED <<deployment, gwProviders, gwRouter, gwBudget, budgetOf>>
       \/ Refused

\* SyncProvider asks whether the provider exists; with no answer it does not write.
GetProvider(k) ==
    /\ Doing(GetOf[k]) /\ KeepLoop
    /\ UNCHANGED <<cluster, status, snapshot, signals>>
    /\ \/ /\ Proceed(GetOf[k]) /\ found' = (gwProviders[k] # NoProvider)
          /\ UNCHANGED <<deployment, gwProviders, gwRouter, gwBudget, delivered, opErr, budgetOf>>
       \/ Refused /\ todo' = todo \ {GetOf[k], PutOf[k]} /\ UNCHANGED found

\* UpdateProvider is a patch: a field of value zero is not in the payload and stays.
Patched(old, new) == [new EXCEPT !.price = IF @ = 0 THEN old.price ELSE @]

WriteProvider(k) ==
    LET target == IF k = "isvc" THEN toModelEndpoint(snapshot[k].spec) ELSE ToProviderSync(snapshot[k].spec)
        exists == gwProviders[k] # NoProvider
    IN  /\ Doing(PutOf[k]) /\ Proceed(PutOf[k]) /\ KeepLoop
        /\ UNCHANGED <<cluster, status, snapshot, signals, found>>
        /\ \/ /\ ~found \/ exists
              /\ gwProviders' = [gwProviders EXCEPT ![k] = IF found THEN Patched(@, target) ELSE target]
              /\ Record(k, "provider") /\ JoinErr(FALSE)
              /\ UNCHANGED <<deployment, gwRouter, gwBudget, budgetOf>>
           \/ /\ found /\ ~exists      \* deleted after the GET: 404
              /\ JoinErr(TRUE)
              /\ UNCHANGED <<deployment, gwProviders, gwRouter, gwBudget, delivered, budgetOf>>
           \/ Refused

SyncRouter ==
    /\ Doing(RouterCall) /\ Proceed(RouterCall) /\ KeepLoop
    /\ UNCHANGED <<cluster, status, snapshot, signals, found>>
    /\ \/ /\ gwRouter' = snapshot["route"].spec.strategy
          /\ Record("route", "router") /\ JoinErr(FALSE)
          /\ UNCHANGED <<deployment, gwProviders, gwBudget, budgetOf>>
       \/ Refused

SyncBudget ==
    /\ Doing(BudgetCall) /\ Proceed(BudgetCall) /\ KeepLoop
    /\ UNCHANGED <<cluster, status, snapshot, signals, found>>
    /\ \/ /\ gwBudget' = snapshot["budget"].spec.usd
          /\ Record("budget", "budget") /\ JoinErr(FALSE)
          /\ UNCHANGED <<deployment, gwProviders, gwRouter, budgetOf>>
       \/ Refused

\* A status carries the time, so its patch is a change the informers see, unless it
\* came within a second of the last; the status of a deleted resource is no error, and
\* the patch names the resource only, so that it also meets one made anew meanwhile.
UpdateStatus(k) ==
    /\ Doing(StatusOf[k]) /\ Proceed(StatusOf[k])
    /\ UNCHANGED <<cluster, deployment, gwProviders, gwRouter, gwBudget, process, events, touched,
                   snapshot, signals, found, opErr, delivered>>
    /\ \/ /\ IF Present(cluster[k])
             THEN /\ status' = [status EXCEPT ![k] = [gen |-> snapshot[k].gen, uid |-> snapshot[k].uid, ok |-> ~opErr]]
                  /\ watch' \in {watch, TRUE}
             ELSE UNCHANGED <<status, watch>>
          /\ UNCHANGED <<patchErr, budgetOf>>
       \/ Fails /\ patchErr' = TRUE /\ UNCHANGED <<status, watch>>

OpStep ==
    \/ Finish \/ Plan \/ ApplyDeployment \/ ApplyService \/ SyncRouter \/ SyncBudget
    \/ \E k \in ResourceKinds : List(k) \/ UpdateStatus(k)
    \/ \E k \in {"endpoint", "isvc"} : GetProvider(k) \/ WriteProvider(k)

OpNext ==
    \/ \E k \in ResourceKinds : Delete(k) \/ \E spec \in SpecsOf[k] : Apply(k, spec)
    \/ GatewayRestarts
    \/ \E k \in {"endpoint", "isvc"} : AdminDeletesProvider(k)
    \/ StartOperator \/ OnEvent \/ OnTick \/ InformerDelivers
    \/ OpStep

OpSpec == OpInit /\ [][OpNext]_opVars

\* The ticker ticks, informers deliver, calls return or time out after 15 s, and
\* Kubernetes restarts a container that ended.
OpFairness ==
    /\ WF_opVars(OpStep) /\ WF_opVars(StartOperator) /\ WF_opVars(OnTick) /\ WF_opVars(InformerDelivers)

OpLiveSpec == OpSpec /\ OpFairness

-----------------------------------------------------------------------------
(* Properties.                                                              *)

\* The types of the state; the process waits for events only when it has no calls to
\* make and no error, and a resource's status never names a generation to come.
OpTypeOK ==
    /\ process \in {"down", "first", "busy", "idle"}
    /\ process = "idle" => todo = {} /\ ~opErr /\ ~patchErr
    /\ process \in {"down", "first"} => ~events
    /\ \A k \in ResourceKinds :
          /\ cluster[k].gen \in 0 .. MaxObjEdits
          /\ status[k].gen \in 0 .. budgetOf.edit
    /\ deployment >= -1
    /\ \A what \in DOMAIN budgetOf : budgetOf[what] \in Nat

PartsOf(k, spec) ==
    CASE k = "isvc" -> IF spec.external THEN {}
                       ELSE {"deployment", "service"} \cup (IF spec.expose THEN {"provider"} ELSE {})
      [] k = "endpoint" -> {"provider"}
      [] k = "route"    -> {"router"}
      [] k = "budget"   -> {"budget"}
      [] OTHER          -> {}

\* A resource that shows Ready for its present generation has had every part of that
\* generation accepted by the cluster and the gateway, unless the status was meant for
\* an earlier resource of its name: reconcileOnce joins the errors of all calls and
\* Update reports the snapshot's generation, not the resource's, although users edit
\* while calls run.  Generations tell the edits of one resource apart, not a resource
\* from the one that was deleted before it (patchStatus names no uid).
ReadyWasDelivered ==
    \A k \in ResourceKinds :
        Present(cluster[k]) /\ status[k].ok /\ status[k].gen = cluster[k].gen /\ status[k].uid = cluster[k].uid
            => \A part \in PartsOf(k, cluster[k].spec) :
                   <<k, part, cluster[k].uid, cluster[k].gen>> \in delivered

\* No edit is lost in the channel of one: when the operator waits and nothing is on its
\* way to it, the last snapshot shows every resource as it is.
NoChangeMissed ==
    process = "idle" /\ ~events /\ ~watch
        => \A k \in ResourceKinds : Present(cluster[k]) => snapshot[k] = cluster[k]

\* A status meant for an earlier resource does not last: when the operator waits and
\* nothing is on its way to it, every resource it reports on shows Ready for its present
\* generation, and it is its own status.
StatusIsOwn ==
    process = "idle" /\ ~events /\ ~watch
        => \A k \in ResourceKinds : Present(cluster[k]) /\ HasStatus(k, snapshot)
               => status[k] = [gen |-> cluster[k].gen, uid |-> cluster[k].uid, ok |-> TRUE]

InGateway(snap) ==
    /\ Present(snap["endpoint"]) => LET p == ToProviderSync(snap["endpoint"].spec)
                                         g == gwProviders["endpoint"]
                                     IN  g # NoProvider /\ g.url = p.url /\ g.on = p.on
    /\ Exposes(snap["isvc"]) => gwProviders["isvc"].url = snap["isvc"].spec.model
    /\ Present(snap["route"]) => gwRouter = snap["route"].spec.strategy
    /\ Present(snap["budget"]) => gwBudget = snap["budget"].spec.usd

\* A reconcile that ends without an error leaves the gateway as its snapshot says, unless
\* others changed the gateway while it ran or later, whatever it was before.
Converged == process = "idle" /\ ~touched => InGateway(snapshot)

\* A deployment scaled by an enforcing policy stays within the bounds of that policy,
\* with and without signals, wherever spec.replicas is.
ScaledWithinBounds ==
    LET s == snapshot["isvc"]
        p == snapshot["scale"]
    IN  process = "idle" /\ HasWorkload(s) /\ s.spec.role = 0
            /\ Present(p) /\ p.spec.mode = "enforce" /\ p.spec.max >= p.spec.min /\ p.spec.min >= 0
          => deployment \in p.spec.min .. ceiling(p.spec, s.spec.replicas)

\* When users and administrators stop, and no resource is wrong, the gateway comes to
\* what the resources say and stays there: a failed call ends the process, its restart and
\* the ticker repeat everything.
EventuallySynced ==
    <>[](InGateway(cluster) \/ \E k \in ResourceKinds : BadSpec(k, cluster[k]))

\* What reconcileOnce and the loop around it keep: Ready means delivered, no change is missed,
\* a resource at rest shows its own status, a reconcile without an error has brought the
\* gateway to its snapshot, and scaled deployments are within bounds.
OperatorSound ==
    OpTypeOK /\ ReadyWasDelivered /\ NoChangeMissed /\ StatusIsOwn /\ Converged /\ ScaledWithinBounds
=============================================================================

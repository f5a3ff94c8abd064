----------------------------- MODULE LoopProofs -----------------------------
(***************************************************************************)
(* Proofs about the two loops that watch something: the circuit breakers,   *)
(* for any number of replicas and requests and any threshold, and the       *)
(* operator's reconcile, for all resources, edits, failing calls and        *)
(* changes that others make.                                                *)
(***************************************************************************)
EXTENDS CircuitBreaker, OperatorReconcile, TLAPS

-----------------------------------------------------------------------------
(* CircuitBreaker.                                                          *)


Breaker == [known : BOOLEAN, state : States, failures : Nat,
            cooled : BOOLEAN, halfOpenRequests : Nat]

\* What one replica maintains: while closed, the counter of the breaker is the
\* number of failures since the last success, and it is below the threshold.
Sound(b, n, fromSnapshot) ==
    /\ ~b.known => b.state = "closed" /\ b.failures = 0
    /\ b.state = "closed" => b.failures = n /\ (FailureThreshold > 0 => n < FailureThreshold)
    /\ b.state # "closed" /\ ~fromSnapshot => n = FailureThreshold
    /\ b.state = "half-open" => b.cooled

IInv == TypeOK /\ \A r \in Replicas : Sound(cb[r], run[r], restored[r])

-----------------------------------------------------------------------------
(* The methods.                                                             *)

\* IsAvailable keeps a breaker sound.
LEMMA AvailableSound ==
  ASSUME NEW b \in Breaker, NEW n \in 0..FailureThreshold, NEW f \in BOOLEAN, Sound(b, n, f)
  PROVE  AfterAvailable(b) \in Breaker /\ Sound(AfterAvailable(b), n, f)
BY BreakerAssumption DEF AfterAvailable, Sound, Breaker, States

\* RecordSuccess keeps a breaker sound and ends the run of failures.
LEMMA SuccessSound ==
  ASSUME NEW b \in Breaker, NEW n \in 0..FailureThreshold, NEW f \in BOOLEAN, Sound(b, n, f)
  PROVE  AfterSuccess(b) \in Breaker /\ Sound(AfterSuccess(b), 0, f /\ ~b.known)
BY BreakerAssumption DEF AfterSuccess, Sound, Breaker, States

\* RecordFailure keeps a breaker sound and extends the run of failures.
LEMMA FailureSound ==
  ASSUME NEW b \in Breaker, NEW n \in 0..FailureThreshold, NEW f \in BOOLEAN, Sound(b, n, f)
  PROVE  /\ AfterFailure(b) \in Breaker
         /\ (IF n < FailureThreshold THEN n + 1 ELSE n) \in 0..FailureThreshold
         /\ Sound(AfterFailure(b), IF n < FailureThreshold THEN n + 1 ELSE n, f)
<1>1. FailedState(b) \in States /\ FailedCount(b) \in Nat
  BY BreakerAssumption DEF FailedState, FailedCount, Breaker, States
<1>2. AfterFailure(b) \in Breaker
  BY <1>1 DEF AfterFailure, Breaker
<1>3. /\ AfterFailure(b).known /\ ~AfterFailure(b).cooled
      /\ AfterFailure(b).state = FailedState(b)
      /\ AfterFailure(b).failures = FailedCount(b)
  BY DEF AfterFailure, Breaker
<1>4. Sound(AfterFailure(b), IF n < FailureThreshold THEN n + 1 ELSE n, f)
  BY <1>3, BreakerAssumption DEF Sound, FailedState, FailedCount, Trips, Breaker, States
<1>. QED
  BY <1>2, <1>4, BreakerAssumption

\* RestoreState yields a sound breaker that counts from zero.
LEMMA RestoredSound ==
  ASSUME NEW s \in States \cup {"absent"}
  PROVE  Restored(s) \in Breaker /\ Sound(Restored(s), 0, s # "absent")
BY BreakerAssumption DEF Restored, Unknown, Sound, Breaker, States

-----------------------------------------------------------------------------
(* The steps.                                                               *)

\* The initial states satisfy the invariant.
LEMMA InitIInv == Init => IInv
<1>. SUFFICES ASSUME Init PROVE IInv
  OBVIOUS
<1>1. Unknown \in Breaker /\ Sound(Unknown, 0, FALSE)
  BY BreakerAssumption DEF Unknown, Breaker, Sound, States
<1>2. TypeOK
  BY <1>1, BreakerAssumption DEF Init, TypeOK, Breaker
<1>3. \A r \in Replicas : cb[r] = Unknown /\ run[r] = 0 /\ restored[r] = FALSE
  BY DEF Init
<1>. QED
  BY <1>1, <1>2, <1>3 DEF IInv

\* Changing one replica to a sound one keeps all of them sound.
LEMMA OneReplica ==
  ASSUME IInv, NEW r \in Replicas, NEW b \in Breaker, NEW n \in 0..FailureThreshold,
         NEW f \in BOOLEAN, Sound(b, n, f),
         cb' = [cb EXCEPT ![r] = b], run' = [run EXCEPT ![r] = n],
         restored' = [restored EXCEPT ![r] = f],
         flight' \in [Replicas -> [Slots -> {"idle", "calling", "probing", "tools"}]],
         snap' \in States \cup {"absent"}, restarts' \in [Replicas -> Nat]
  PROVE  IInv'
<1>1. /\ cb \in [Replicas -> Breaker] /\ run \in [Replicas -> 0..FailureThreshold]
      /\ restored \in [Replicas -> BOOLEAN]
  BY DEF IInv, TypeOK, Breaker
<1>2. /\ cb' \in [Replicas -> Breaker] /\ run' \in [Replicas -> 0..FailureThreshold]
      /\ restored' \in [Replicas -> BOOLEAN]
  BY <1>1
<1>3. TypeOK'
  BY <1>2 DEF TypeOK, Breaker
<1>4. \A q \in Replicas : Sound(cb'[q], run'[q], restored'[q])
  <2>. SUFFICES ASSUME NEW q \in Replicas PROVE Sound(cb'[q], run'[q], restored'[q])
    OBVIOUS
  <2>1. CASE q = r
    <3>1. cb'[q] = b /\ run'[q] = n /\ restored'[q] = f
      BY <1>1, <2>1
    <3>. QED
      BY <3>1
  <2>2. CASE q # r
    <3>1. cb'[q] = cb[q] /\ run'[q] = run[q] /\ restored'[q] = restored[q]
      BY <1>1, <2>2
    <3>. QED
      BY <3>1 DEF IInv
  <2>. QED
    BY <2>1, <2>2
<1>5. (\A q \in Replicas : Sound(cb[q], run[q], restored[q]))'
  BY <1>4 DEF Sound
<1>. QED
  BY <1>3, <1>5 DEF IInv

\* A step that leaves the breakers alone.
LEMMA QuietStep ==
  ASSUME IInv, UNCHANGED <<cb, run, restored, restarts>>,
         flight' \in [Replicas -> [Slots -> {"idle", "calling", "probing", "tools"}]],
         snap' \in States \cup {"absent"}
  PROVE  IInv'
<1>1. TypeOK'
  BY DEF IInv, TypeOK
<1>2. (\A q \in Replicas : Sound(cb[q], run[q], restored[q]))'
  BY DEF IInv, Sound
<1>. QED
  BY <1>1, <1>2 DEF IInv

\* Every step of every replica keeps the invariant.
LEMMA StepIInv == IInv /\ [Next]_vars => IInv'
<1>. SUFFICES ASSUME IInv, [Next]_vars PROVE IInv'
  OBVIOUS
<1>0. /\ cb \in [Replicas -> Breaker] /\ run \in [Replicas -> 0..FailureThreshold]
      /\ restored \in [Replicas -> BOOLEAN]
      /\ snap \in States \cup {"absent"}
      /\ flight \in [Replicas -> [Slots -> {"idle", "calling", "probing", "tools"}]]
      /\ restarts \in [Replicas -> Nat]
      /\ \A r \in Replicas : Sound(cb[r], run[r], restored[r])
  BY DEF IInv, TypeOK, Breaker
<1>1. ASSUME NEW r \in Replicas, NEW s \in Slots, Request(r, s) PROVE IInv'
  <2>1. flight' \in [Replicas -> [Slots -> {"idle", "calling", "probing", "tools"}]]
    <3>1. \E l \in {"idle", "calling", "probing", "tools"} :
            flight' = [flight EXCEPT ![r] = [flight[r] EXCEPT ![s] = l]]
      BY <1>1, Zenon DEF Request, Admit, CallFails, CallSucceeds, ToolsFail, Leave
    <3>. QED
      BY <1>0, <3>1
  <2>2. UNCHANGED <<snap, restarts>>
    BY <1>1 DEF Request, Admit, CallFails, CallSucceeds, ToolsFail, Leave
  <2>3. CASE Failure(r)
    <3>1. DEFINE n == IF run[r] < FailureThreshold THEN run[r] + 1 ELSE run[r]
    <3>2. /\ cb' = [cb EXCEPT ![r] = AfterFailure(cb[r])]
          /\ run' = [run EXCEPT ![r] = n]
          /\ restored' = [restored EXCEPT ![r] = restored[r]]
      BY <1>0, <2>3 DEF Failure
    <3>3. /\ AfterFailure(cb[r]) \in Breaker /\ n \in 0..FailureThreshold
          /\ Sound(AfterFailure(cb[r]), n, restored[r])
      BY <1>0, FailureSound
    <3>4. restored[r] \in BOOLEAN
      BY <1>0
    <3>. HIDE DEF n
    <3>. QED
      BY <1>0, <2>1, <2>2, <3>2, <3>3, <3>4, OneReplica
  <2>4. CASE Success(r)
    <3>1. /\ cb' = [cb EXCEPT ![r] = AfterSuccess(cb[r])]
          /\ run' = [run EXCEPT ![r] = 0]
          /\ restored' = [restored EXCEPT ![r] = restored[r] /\ ~cb[r].known]
      BY <2>4 DEF Success
    <3>2. /\ AfterSuccess(cb[r]) \in Breaker
          /\ Sound(AfterSuccess(cb[r]), 0, restored[r] /\ ~cb[r].known)
      BY <1>0, SuccessSound
    <3>3. (restored[r] /\ ~cb[r].known) \in BOOLEAN /\ 0 \in 0..FailureThreshold
      BY BreakerAssumption
    <3>. QED
      BY <1>0, <2>1, <2>2, <3>1, <3>2, <3>3, OneReplica
  <2>5. CASE Admit(r, s)
    <3>1. /\ cb' = [cb EXCEPT ![r] = AfterAvailable(cb[r])]
          /\ run' = [run EXCEPT ![r] = run[r]]
          /\ restored' = [restored EXCEPT ![r] = restored[r]]
      BY <1>0, <2>5 DEF Admit
    <3>2. /\ AfterAvailable(cb[r]) \in Breaker
          /\ Sound(AfterAvailable(cb[r]), run[r], restored[r])
      BY <1>0, AvailableSound
    <3>3. run[r] \in 0..FailureThreshold /\ restored[r] \in BOOLEAN
      BY <1>0
    <3>. QED
      BY <1>0, <2>1, <2>2, <3>1, <3>2, <3>3, OneReplica
  <2>6. CASE Leave(r, s)
    BY <1>0, <2>1, <2>2, <2>6, QuietStep DEF Leave
  <2>. QED
    BY <1>1, <2>3, <2>4, <2>5, <2>6 DEF Request, CallFails, CallSucceeds, ToolsFail
<1>2. ASSUME NEW r \in Replicas, Cool(r) PROVE IInv'
  <2>1. DEFINE b == [cb[r] EXCEPT !.cooled = TRUE]
  <2>2. b \in Breaker /\ Sound(b, run[r], restored[r])
    BY <1>0 DEF Breaker, Sound
  <2>3. /\ cb' = [cb EXCEPT ![r] = b]
        /\ run' = [run EXCEPT ![r] = run[r]]
        /\ restored' = [restored EXCEPT ![r] = restored[r]]
        /\ UNCHANGED <<flight, snap, restarts>>
    BY <1>0, <1>2 DEF Cool
  <2>4. run[r] \in 0..FailureThreshold /\ restored[r] \in BOOLEAN
    BY <1>0
  <2>5. /\ flight' \in [Replicas -> [Slots -> {"idle", "calling", "probing", "tools"}]]
        /\ snap' \in States \cup {"absent"}
        /\ restarts' \in [Replicas -> Nat]
    BY <1>0, <2>3
  <2>6. /\ cb' = [cb EXCEPT ![r] = b]
        /\ run' = [run EXCEPT ![r] = run[r]]
        /\ restored' = [restored EXCEPT ![r] = restored[r]]
    BY <2>3
  <2>. HIDE DEF b
  <2>. QED
    BY <2>2, <2>4, <2>5, <2>6, OneReplica
<1>3. ASSUME NEW r \in Replicas, PersistState(r) PROVE IInv'
  <2>1. snap' \in States \cup {"absent"}
    BY <1>0, <1>3 DEF PersistState, Breaker
  <2>. QED
    BY <1>0, <1>3, <2>1, QuietStep DEF PersistState
<1>4. ASSUME NEW r \in Replicas, Restart(r) PROVE IInv'
  <2>1. /\ cb' = [cb EXCEPT ![r] = Restored(snap)]
        /\ run' = [run EXCEPT ![r] = 0]
        /\ restored' = [restored EXCEPT ![r] = (snap # "absent")]
    BY <1>4 DEF Restart
  <2>2. Restored(snap) \in Breaker /\ Sound(Restored(snap), 0, snap # "absent")
    BY <1>0, RestoredSound
  <2>3. /\ flight' \in [Replicas -> [Slots -> {"idle", "calling", "probing", "tools"}]]
        /\ snap' \in States \cup {"absent"}
        /\ restarts' \in [Replicas -> Nat]
    <3>1. flight' \in [Replicas -> [Slots -> {"idle", "calling", "probing", "tools"}]]
      BY <1>0, <1>4 DEF Restart
    <3>2. restarts' \in [Replicas -> Nat]
      BY <1>0, <1>4 DEF Restart
    <3>. QED
      BY <1>0, <1>4, <3>1, <3>2 DEF Restart
  <2>4. 0 \in 0..FailureThreshold /\ (snap # "absent") \in BOOLEAN
    BY BreakerAssumption
  <2>. QED
    BY <2>1, <2>2, <2>3, <2>4, OneReplica
<1>5. CASE SnapshotExpires
  BY <1>0, <1>5, QuietStep DEF SnapshotExpires
<1>6. CASE UNCHANGED vars
  BY <1>0, <1>6, QuietStep DEF vars
<1>. QED
  BY <1>1, <1>2, <1>3, <1>4, <1>5, <1>6 DEF Next

-----------------------------------------------------------------------------
(* The theorems.                                                            *)

\* The invariant gives the four invariants the runs check.
LEMMA Consequences ==
  IInv => TypeOK /\ OpensOnlyAfterThreshold /\ OpensAtThreshold /\ ProbesAreCooled
BY DEF IInv, Sound, OpensOnlyAfterThreshold, OpensAtThreshold, ProbesAreCooled

\* The type invariant of the breakers.
THEOREM TypeCorrect == Spec => []TypeOK
BY InitIInv, StepIInv, Consequences, PTL DEF Spec

\* A breaker opens only after FailureThreshold failures in a row, for every
\* threshold and every number of concurrent requests, replicas and restarts.
THEOREM OpensOnly == Spec => []OpensOnlyAfterThreshold
BY InitIInv, StepIInv, Consequences, PTL DEF Spec

\* And it is never closed after that many.
THEOREM OpensAlways == Spec => []OpensAtThreshold
BY InitIInv, StepIInv, Consequences, PTL DEF Spec

\* A breaker is half-open only after the recovery timeout.
THEOREM CooledProbes == Spec => []ProbesAreCooled
BY InitIInv, StepIInv, Consequences, PTL DEF Spec

\* All that the run checks of a breaker, for every number of replicas and requests.
THEOREM BreakerCorrect == Spec => []BreakerSound
<1>1. IInv => BreakerSound
  BY Consequences DEF BreakerSound
<1>. QED
  BY <1>1, InitIInv, StepIInv, PTL DEF Spec

-----------------------------------------------------------------------------
(* OperatorReconcile.                                                      *)

\* A resource as the cluster or a list has it, when n edits have been made.
ResourceGood(k, o, n) == o.gen \in 0 .. n /\ o.uid \in 0 .. n /\ (o.gen > 0 => o.spec \in SpecsOf[k])
StatusGood(s, n) == s.gen \in 0 .. n /\ s.uid \in 0 .. n

OpTypes ==
    /\ budgetOf \in [{"edit", "fault", "meddle"} -> Nat] /\ budgetOf["edit"] <= MaxObjEdits
    /\ DOMAIN cluster = ResourceKinds /\ DOMAIN snapshot = ResourceKinds /\ DOMAIN status = ResourceKinds
    /\ \A k \in ResourceKinds :
          /\ ResourceGood(k, cluster[k], budgetOf["edit"]) /\ ResourceGood(k, snapshot[k], budgetOf["edit"])
          /\ StatusGood(status[k], budgetOf["edit"])
    /\ DOMAIN gwProviders = {"endpoint", "isvc"}
    /\ deployment \in Int /\ deployment >= -1
    /\ signals \in {"none", "above", "below", "within"}
    /\ process \in {"down", "first", "busy", "idle"}
    /\ opErr \in BOOLEAN /\ patchErr \in BOOLEAN /\ watch \in BOOLEAN /\ events \in BOOLEAN /\ touched \in BOOLEAN

\* A generation of one resource is given once, so that what was listed with the present one is what is there,
\* and nobody is ahead of it.
SameGeneration ==
    \A k \in ResourceKinds : Present(cluster[k]) =>
        /\ snapshot[k].uid = cluster[k].uid /\ snapshot[k].gen = cluster[k].gen => snapshot[k] = cluster[k]
        /\ snapshot[k].uid = cluster[k].uid => snapshot[k].gen <= cluster[k].gen
        /\ status[k].uid = cluster[k].uid => status[k].gen <= cluster[k].gen

\* A reconcile lists and plans, and only then applies and reports; nothing is left to do between two, and no
\* deployment is written but a service's.
InOrder ==
    /\ PlanCall \in todo => todo \subseteq 1 .. 6
    /\ PlanCall \notin todo => todo \subseteq 7 .. 19
    /\ process \in {"down", "idle"} => todo = {}
    /\ process = "idle" => ~opErr /\ ~patchErr
    /\ process \in {"down", "first"} => ~events
    /\ DeploymentCall \in todo => HasWorkload(snapshot["isvc"])

\* What a reconcile has listed is what is there, or a change is on its way to it.
ListedOrNotified ==
    process \in {"busy", "idle"} /\ ~opErr /\ ~events /\ ~watch =>
        \A k \in ResourceKinds : ListOf[k] \notin todo /\ Present(cluster[k]) => snapshot[k] = cluster[k]

Planned == PlanCall \notin todo /\ ~opErr

\* The call that brings a part of a resource where it belongs.
PartCall(k, part) ==
    CASE part = "deployment" -> DeploymentCall [] part = "service" -> ServiceCall [] part = "provider" -> PutOf[k]
      [] part = "router" -> RouterCall [] part = "budget" -> BudgetCall

\* Once the plan is made and while nothing has failed: a part is delivered or its call is still to be made,
PartsOnTheirWay ==
    Planned => \A k \in ResourceKinds : Present(snapshot[k]) =>
        \A part \in PartsOf(k, snapshot[k].spec) : PartCall(k, part) \in todo \/ <<k, part, snapshot[k].uid, snapshot[k].gen>> \in delivered

\* the gateway has it, unless others changed it,
EndpointThere ==
    LET p == ToProviderSync(snapshot["endpoint"].spec)
        g == gwProviders["endpoint"]
    IN  g # NoProvider /\ g.url = p.url /\ g.on = p.on
GatewayOnItsWay ==
    Planned /\ ~touched =>
        /\ Present(snapshot["endpoint"]) => PutOf["endpoint"] \in todo \/ EndpointThere
        /\ Exposes(snapshot["isvc"]) => PutOf["isvc"] \in todo \/ gwProviders["isvc"].url = snapshot["isvc"].spec.model
        /\ Present(snapshot["route"]) => RouterCall \in todo \/ gwRouter = snapshot["route"].spec.strategy
        /\ Present(snapshot["budget"]) => BudgetCall \in todo \/ gwBudget = snapshot["budget"].spec.usd

\* and the deployment has the replicas that were planned.
DeploymentOnItsWay ==
    Planned /\ HasWorkload(snapshot["isvc"]) =>
        DeploymentCall \in todo \/ deployment = ToWorkloadPlan(snapshot["isvc"].spec, snapshot["scale"], signals)

\* The status of a resource that is still the one listed is written or its call is still to be made.
StatusOnItsWay ==
    Planned /\ ~patchErr => \A k \in ResourceKinds :
        HasStatus(k, snapshot) /\ Present(cluster[k]) /\ cluster[k].uid = snapshot[k].uid =>
            StatusOf[k] \in todo \/ status[k] = [gen |-> snapshot[k].gen, uid |-> snapshot[k].uid, ok |-> TRUE]

OpInv ==
    /\ OpTypes /\ SameGeneration /\ InOrder /\ ListedOrNotified /\ StatusOnItsWay
    /\ PartsOnTheirWay /\ GatewayOnItsWay /\ DeploymentOnItsWay /\ ReadyWasDelivered

LEMMA CallNumbers ==
    /\ PlanCall = 6 /\ DeploymentCall = 7 /\ ServiceCall = 8 /\ RouterCall = 13 /\ BudgetCall = 14
    /\ GetOf["endpoint"] = 9 /\ PutOf["endpoint"] = 10 /\ GetOf["isvc"] = 11 /\ PutOf["isvc"] = 12
    /\ \A k \in ResourceKinds : ListOf[k] \in 1 .. 5 /\ StatusOf[k] \in 15 .. 19
    /\ \A k, j \in ResourceKinds : (ListOf[k] = ListOf[j] => k = j) /\ (StatusOf[k] = StatusOf[j] => k = j)
BY DEF PlanCall, DeploymentCall, ServiceCall, RouterCall, BudgetCall, GetOf, PutOf, ListOf, StatusOf, ResourceKinds

LEMMA OpInitially == OpInit => OpInv
<1> SUFFICES ASSUME OpInit PROVE OpInv
  OBVIOUS
<1>0. NoResource.gen = 0 /\ Unwritten.gen = 0 /\ NoResource.uid = 0 /\ Unwritten.uid = 0
  BY DEF NoResource, Unwritten
<1>1. \A k \in ResourceKinds : cluster[k] = NoResource /\ snapshot[k] = NoResource /\ status[k] = Unwritten
  BY DEF OpInit
<1>a. \A k \in ResourceKinds : ~Present(cluster[k]) /\ ~Present(snapshot[k])
  BY <1>0, <1>1 DEF Present
<1>b. budgetOf \in [{"edit", "fault", "meddle"} -> Nat] /\ budgetOf["edit"] = 0
  BY DEF OpInit
<1>2. OpTypes
  <2>1. \A k \in ResourceKinds :
           /\ ResourceGood(k, cluster[k], budgetOf["edit"]) /\ ResourceGood(k, snapshot[k], budgetOf["edit"])
           /\ StatusGood(status[k], budgetOf["edit"])
    BY <1>0, <1>1, <1>b DEF ResourceGood, StatusGood
  <2>2. DOMAIN gwProviders = {"endpoint", "isvc"}
    BY DEF OpInit
  <2>3. deployment \in Int /\ deployment >= -1
    BY DEF OpInit
  <2>4. DOMAIN cluster = ResourceKinds /\ DOMAIN snapshot = ResourceKinds /\ DOMAIN status = ResourceKinds
    BY DEF OpInit
  <2>5. budgetOf["edit"] <= MaxObjEdits
    BY <1>b, OperatorAssumption
  <2> QED BY <1>b, <2>1, <2>2, <2>3, <2>4, <2>5 DEF OpInit, OpTypes
<1>3. InOrder
  BY DEF OpInit, InOrder
<1>4. SameGeneration /\ ListedOrNotified /\ ReadyWasDelivered /\ StatusOnItsWay
  BY <1>a DEF SameGeneration, ListedOrNotified, ReadyWasDelivered, StatusOnItsWay
<1>5. PartsOnTheirWay
  BY <1>a DEF PartsOnTheirWay
<1>6. GatewayOnItsWay /\ DeploymentOnItsWay
  BY <1>a DEF GatewayOnItsWay, DeploymentOnItsWay, HasWorkload, Exposes, ResourceKinds
<1> QED BY <1>2, <1>3, <1>4, <1>5, <1>6 DEF OpInv

\* A budget is spent one at a time.
LEMMA SpendIs ==
  ASSUME OpTypes, NEW what \in {"edit", "fault", "meddle"}, Spend(what)
  PROVE  /\ budgetOf' \in [{"edit", "fault", "meddle"} -> Nat]
         /\ budgetOf'["edit"] = IF what = "edit" THEN budgetOf["edit"] + 1 ELSE budgetOf["edit"]
BY DEF OpTypes, Spend

\* A count of replicas is none too small, and one that a policy bounds is within its bounds.
LEMMA Bounded ==
  ASSUME NEW n \in Nat, NEW min \in Int, NEW max \in Int, NEW up \in Int, NEW down \in Int, NEW signal,
         NEW p, p.min = min, p.max = max, p.up = up, p.down = down
  PROVE  /\ Evaluate(n, p, signal) \in Nat
         /\ min >= 0 /\ max >= min => Evaluate(n, p, signal) \in min .. ceiling(p, n)
<1>1. \A x \in Int, y \in Int : positiveOrDefault(x, y) \in Int /\ positiveOrDefault(x, y) = IF x > 0 THEN x ELSE y
  BY DEF positiveOrDefault
<1>2. ceiling(p, n) \in Int /\ ceiling(p, n) >= 1 /\ ceiling(p, n) = IF max > 0 THEN max ELSE IF n > 1 THEN n ELSE 1
  BY DEF ceiling, positiveOrDefault
<1> DEFINE low == IF p.min < 0 THEN 0 ELSE p.min
           wanted == CASE signal = "above" -> n + positiveOrDefault(p.up, 1)
                       [] signal = "below" -> n - positiveOrDefault(p.down, 1)
                       [] OTHER            -> n
<1>3. low \in Nat /\ (min >= 0 => low = min)
  OBVIOUS
<1>4. wanted \in Int
  BY <1>1
<1>5. Evaluate(n, p, signal) = clamp(wanted, low, ceiling(p, n))
  BY DEF Evaluate
<1> HIDE DEF low, wanted
<1>6. min >= 0 /\ max >= min => low <= ceiling(p, n)
  BY <1>2, <1>3
<1> QED BY <1>2, <1>3, <1>4, <1>5, <1>6 DEF clamp

LEMMA PlannedReplicas ==
  ASSUME OpTypes, HasWorkload(snapshot["isvc"])
  PROVE  LET s == snapshot["isvc"].spec
             p == snapshot["scale"]
         IN  /\ ToWorkloadPlan(s, p, signals) \in Nat
             /\ (/\ s.role = 0 /\ Present(p) /\ p.spec.mode = "enforce" /\ p.spec.max >= p.spec.min /\ p.spec.min >= 0)
                   => ToWorkloadPlan(s, p, signals) \in p.spec.min .. ceiling(p.spec, s.replicas)
<1> DEFINE s == snapshot["isvc"].spec
           p == snapshot["scale"]
<1>1. s.replicas \in Nat /\ s.role \in Nat
  BY OperatorAssumption DEF OpTypes, ResourceGood, HasWorkload, Present, ResourceKinds
<1>2. Present(p) => p.spec.min \in Int /\ p.spec.max \in Int /\ p.spec.up \in Int /\ p.spec.down \in Int
  BY OperatorAssumption DEF OpTypes, ResourceGood, Present, ResourceKinds
<1> HIDE DEF s, p
<1>3. Present(p) => /\ Evaluate(s.replicas, p.spec, signals) \in Nat
                    /\ p.spec.min >= 0 /\ p.spec.max >= p.spec.min =>
                         Evaluate(s.replicas, p.spec, signals) \in p.spec.min .. ceiling(p.spec, s.replicas)
  BY <1>1, <1>2, Bounded
<1>4. enforceReplicas(s.replicas, p, signals) \in Nat
  BY <1>1, <1>3 DEF enforceReplicas
<1>5. ToWorkloadPlan(s, p, signals) \in Nat
  BY <1>1, <1>4 DEF ToWorkloadPlan
<1>6. ASSUME s.role = 0, Present(p), p.spec.mode = "enforce", p.spec.max >= p.spec.min, p.spec.min >= 0
      PROVE  ToWorkloadPlan(s, p, signals) \in p.spec.min .. ceiling(p.spec, s.replicas)
  BY <1>3, <1>6 DEF ToWorkloadPlan, enforceReplicas
<1> QED BY <1>5, <1>6 DEF s, p

-----------------------------------------------------------------------------
\* Which call brings which part.
LEMMA PartCallIs ==
  ASSUME NEW k \in ResourceKinds, NEW spec, NEW part \in PartsOf(k, spec)
  PROVE  /\ PartCall(k, part) \in 7 .. 14
         /\ PartCall(k, part) = 7 => k = "isvc" /\ part = "deployment"
         /\ PartCall(k, part) = 8 => k = "isvc" /\ part = "service"
         /\ PartCall(k, part) = 10 => k = "endpoint" /\ part = "provider"
         /\ PartCall(k, part) = 12 => k = "isvc" /\ part = "provider"
         /\ PartCall(k, part) = 13 => k = "route" /\ part = "router"
         /\ PartCall(k, part) = 14 => k = "budget" /\ part = "budget"
         /\ PartCall(k, part) \notin {9, 11}
<1>1. \/ k = "isvc" /\ part \in {"deployment", "service", "provider"}
      \/ k = "endpoint" /\ part = "provider"
      \/ k = "route" /\ part = "router"
      \/ k = "budget" /\ part = "budget"
  BY DEF PartsOf, ResourceKinds
<1> QED BY <1>1, CallNumbers DEF PartCall

\* The three promises of the plan, while the snapshot and the signals stay and no error is forgotten.
LEMMA PartsStep ==
  ASSUME OpInv, UNCHANGED snapshot, Planned' => Planned,
         Planned' => \A k \in ResourceKinds : Present(snapshot[k]) => \A part \in PartsOf(k, snapshot[k].spec) :
             \/ PartCall(k, part) \in todo => PartCall(k, part) \in todo'
             \/ <<k, part, snapshot[k].uid, snapshot[k].gen>> \in delivered',
         delivered \subseteq delivered'
  PROVE  PartsOnTheirWay'
BY DEF OpInv, PartsOnTheirWay

LEMMA GatewaySame ==
  ASSUME OpInv, UNCHANGED <<snapshot, gwProviders, gwRouter, gwBudget>>, Planned' => Planned, ~touched' => ~touched,
         Planned' => todo \cap {10, 12, 13, 14} \subseteq todo'
  PROVE  GatewayOnItsWay'
<1> SUFFICES ASSUME Planned', ~touched' PROVE GatewayOnItsWay'
  BY DEF GatewayOnItsWay
<1>1. EndpointThere' <=> EndpointThere
  BY DEF EndpointThere
<1>2. \A c \in {10, 12, 13, 14} : c \in todo => c \in todo'
  OBVIOUS
<1>3. /\ Present(snapshot["endpoint"]) => PutOf["endpoint"] \in todo' \/ EndpointThere'
      /\ Exposes(snapshot["isvc"]) => PutOf["isvc"] \in todo' \/ gwProviders["isvc"].url = snapshot["isvc"].spec.model
      /\ Present(snapshot["route"]) => RouterCall \in todo' \/ gwRouter = snapshot["route"].spec.strategy
      /\ Present(snapshot["budget"]) => BudgetCall \in todo' \/ gwBudget = snapshot["budget"].spec.usd
  <2>1. /\ Present(snapshot["endpoint"]) => PutOf["endpoint"] \in todo \/ EndpointThere
        /\ Exposes(snapshot["isvc"]) => PutOf["isvc"] \in todo \/ gwProviders["isvc"].url = snapshot["isvc"].spec.model
        /\ Present(snapshot["route"]) => RouterCall \in todo \/ gwRouter = snapshot["route"].spec.strategy
        /\ Present(snapshot["budget"]) => BudgetCall \in todo \/ gwBudget = snapshot["budget"].spec.usd
    BY DEF OpInv, GatewayOnItsWay
  <2> QED BY <1>1, <1>2, <2>1, CallNumbers
<1> QED BY <1>3 DEF GatewayOnItsWay, Present, Exposes, HasWorkload

LEMMA DeploymentSame ==
  ASSUME OpInv, UNCHANGED <<snapshot, signals, deployment>>, Planned' => Planned,
         Planned' /\ 7 \in todo => 7 \in todo'
  PROVE  DeploymentOnItsWay'
BY CallNumbers DEF OpInv, DeploymentOnItsWay, HasWorkload, Present

\* What is Ready stays so while the resources and their statuses stay.
LEMMA ReadySame ==
  ASSUME OpInv, UNCHANGED <<cluster, status>>, delivered \subseteq delivered'
  PROVE  ReadyWasDelivered' /\ (UNCHANGED snapshot => SameGeneration')
BY DEF OpInv, ReadyWasDelivered, SameGeneration, Present

\* Statuses are on their way while nobody changes them or what they are for, and no error is forgotten.
LEMMA StatusSame ==
  ASSUME OpInv, UNCHANGED <<cluster, status, snapshot>>, Planned' => Planned, patchErr => patchErr',
         Planned' => \A k \in ResourceKinds : StatusOf[k] \in todo => StatusOf[k] \in todo'
  PROVE  StatusOnItsWay'
<1> SUFFICES ASSUME Planned', ~patchErr', NEW k \in ResourceKinds, HasStatus(k, snapshot), Present(cluster[k]),
                    cluster[k].uid = snapshot[k].uid
             PROVE  StatusOf[k] \in todo' \/ status[k] = [gen |-> snapshot[k].gen, uid |-> snapshot[k].uid, ok |-> TRUE]
  BY DEF StatusOnItsWay, HasStatus, Present, HasWorkload, BadSpec
<1>1. Planned /\ ~patchErr /\ (StatusOf[k] \in todo => StatusOf[k] \in todo')
  OBVIOUS
<1> QED BY <1>1 DEF OpInv, StatusOnItsWay

-----------------------------------------------------------------------------
LEMMA EditStep ==
  ASSUME OpInv, NEW k0 \in ResourceKinds, NEW o, EditResource(k0, o),
         \/ o.gen = 0 /\ o.uid = 0
         \/ o.gen = 1 /\ o.uid = budgetOf["edit"] + 1 /\ o.spec \in SpecsOf[k0]
         \/ Present(cluster[k0]) /\ o.gen = cluster[k0].gen + 1 /\ o.uid = cluster[k0].uid /\ o.spec \in SpecsOf[k0]
  PROVE  OpInv'
<1>a. OpTypes /\ SameGeneration /\ InOrder /\ ReadyWasDelivered /\ StatusOnItsWay
  BY DEF OpInv
<1>1. /\ UNCHANGED <<deployment, gwProviders, gwRouter, gwBudget,
                     process, events, snapshot, signals, todo, found, opErr, patchErr, delivered, touched>>
      /\ cluster' = [cluster EXCEPT ![k0] = o] /\ watch' = (process # "down") /\ Spend("edit")
      /\ budgetOf["edit"] < MaxObjEdits
      /\ status' = [status EXCEPT ![k0] = IF Present(o) THEN status[k0] ELSE Unwritten]
  BY <1>a DEF EditResource, OpTypes
<1>2. budgetOf' \in [{"edit", "fault", "meddle"} -> Nat] /\ budgetOf'["edit"] = budgetOf["edit"] + 1
  BY <1>1, <1>a, SpendIs
<1>3. /\ cluster'[k0] = o /\ \A k \in ResourceKinds : k # k0 => cluster'[k] = cluster[k]
      /\ DOMAIN cluster' = ResourceKinds /\ DOMAIN status' = ResourceKinds
      /\ \A k \in ResourceKinds : k # k0 => status'[k] = status[k]
      /\ status'[k0] = IF Present(o) THEN status[k0] ELSE Unwritten
  BY <1>1, <1>a DEF OpTypes
<1>4. budgetOf["edit"] \in Nat
  BY <1>a DEF OpTypes
<1>5. \A k \in ResourceKinds : ResourceGood(k, cluster'[k], budgetOf'["edit"]) /\ ResourceGood(k, snapshot[k], budgetOf'["edit"])
                               /\ StatusGood(status'[k], budgetOf'["edit"])
  <2> SUFFICES ASSUME NEW k \in ResourceKinds
               PROVE  ResourceGood(k, cluster'[k], budgetOf'["edit"]) /\ ResourceGood(k, snapshot[k], budgetOf'["edit"])
                      /\ StatusGood(status'[k], budgetOf'["edit"])
    OBVIOUS
  <2>1. ResourceGood(k, cluster[k], budgetOf["edit"]) /\ ResourceGood(k, snapshot[k], budgetOf["edit"])
        /\ StatusGood(status[k], budgetOf["edit"])
    BY <1>a DEF OpTypes
  <2>0. Unwritten.gen = 0 /\ Unwritten.uid = 0
    BY DEF Unwritten
  <2>2. CASE k = k0
    <3>1. ResourceGood(k, o, budgetOf'["edit"])
      BY <2>1, <2>2, <1>2, <1>4 DEF ResourceGood
    <3>2. StatusGood(status'[k], budgetOf'["edit"])
      BY <2>0, <2>1, <2>2, <1>2, <1>3, <1>4 DEF StatusGood
    <3> QED BY <2>1, <2>2, <3>1, <3>2, <1>2, <1>3, <1>4 DEF ResourceGood
  <2>3. CASE k # k0
    BY <2>1, <2>3, <1>2, <1>3, <1>4 DEF ResourceGood, StatusGood
  <2> QED BY <2>2, <2>3
<1>6. budgetOf'["edit"] <= MaxObjEdits
  BY <1>1, <1>2, <1>4, OperatorAssumption
<1>7. watch' \in BOOLEAN
  BY <1>1
<1>8. OpTypes'
  BY <1>1, <1>2, <1>3, <1>5, <1>6, <1>7, <1>a DEF OpTypes
<1>9. /\ \A k \in ResourceKinds :
            /\ snapshot[k].gen \in 0 .. budgetOf["edit"] /\ snapshot[k].uid \in 0 .. budgetOf["edit"]
            /\ status[k].gen \in 0 .. budgetOf["edit"] /\ status[k].uid \in 0 .. budgetOf["edit"]
            /\ cluster[k].gen \in 0 .. budgetOf["edit"] /\ cluster[k].uid \in 0 .. budgetOf["edit"]
  BY <1>a DEF OpTypes, ResourceGood, StatusGood
\* The resource that was edited: one made anew has a uid that nobody has seen, a changed one a generation.
<1>e. ASSUME Present(o)
      PROVE  /\ status'[k0] = status[k0]
             /\ snapshot[k0].uid = o.uid => /\ snapshot[k0].gen < o.gen /\ Present(cluster[k0])
                                            /\ cluster[k0].uid = o.uid
             /\ status[k0].uid = o.uid => status[k0].gen < o.gen
  <2>1. status'[k0] = status[k0]
    BY <1>e, <1>3
  <2>2. CASE o.uid = budgetOf["edit"] + 1
    BY <2>1, <2>2, <1>4, <1>9
  <2>3. CASE Present(cluster[k0]) /\ o.gen = cluster[k0].gen + 1 /\ o.uid = cluster[k0].uid
    <3>1. /\ snapshot[k0].uid = cluster[k0].uid => snapshot[k0].gen <= cluster[k0].gen
          /\ status[k0].uid = cluster[k0].uid => status[k0].gen <= cluster[k0].gen
      BY <2>3, <1>a DEF SameGeneration
    <3> QED BY <2>1, <2>3, <3>1, <1>4, <1>9
  <2> QED BY <2>2, <2>3, <1>e DEF Present
<1>10. SameGeneration'
  <2> SUFFICES ASSUME NEW k \in ResourceKinds, Present(cluster'[k])
               PROVE  /\ snapshot[k].uid = cluster'[k].uid /\ snapshot[k].gen = cluster'[k].gen => snapshot[k] = cluster'[k]
                      /\ snapshot[k].uid = cluster'[k].uid => snapshot[k].gen <= cluster'[k].gen
                      /\ status'[k].uid = cluster'[k].uid => status'[k].gen <= cluster'[k].gen
    BY <1>1 DEF SameGeneration, Present
  <2>1. CASE k = k0
    <3>1. o.gen \in Int
      BY <1>4, <1>9
    <3> QED BY <2>1, <3>1, <1>3, <1>e, <1>9
  <2>2. CASE k # k0
    BY <2>2, <1>3, <1>a DEF SameGeneration
  <2> QED BY <2>1, <2>2
<1>11. ReadyWasDelivered'
  <2> SUFFICES ASSUME NEW k \in ResourceKinds, Present(cluster'[k]), status'[k].ok, status'[k].gen = cluster'[k].gen,
                      status'[k].uid = cluster'[k].uid
               PROVE  \A part \in PartsOf(k, cluster'[k].spec) : <<k, part, cluster'[k].uid, cluster'[k].gen>> \in delivered'
    BY DEF ReadyWasDelivered, Present, PartsOf
  <2>1. k # k0
    <3>1. o.gen \in Int
      BY <1>4, <1>9
    <3> QED BY <3>1, <1>3, <1>e, <1>9
  <2> QED BY <2>1, <1>1, <1>3, <1>a DEF ReadyWasDelivered, Present
<1>12. InOrder'
  BY <1>1, <1>a DEF InOrder, HasWorkload, Present
<1>13. ListedOrNotified'
  BY <1>1 DEF ListedOrNotified
<1>14. Planned' => Planned
  BY <1>1 DEF Planned
<1>15. PartsOnTheirWay' /\ GatewayOnItsWay' /\ DeploymentOnItsWay'
  BY <1>1, <1>14, PartsStep, GatewaySame, DeploymentSame
<1>16. StatusOnItsWay'
  <2> SUFFICES ASSUME Planned, ~patchErr, NEW k \in ResourceKinds, HasStatus(k, snapshot), Present(cluster'[k]),
                      cluster'[k].uid = snapshot[k].uid
               PROVE  StatusOf[k] \in todo \/ status'[k] = [gen |-> snapshot[k].gen, uid |-> snapshot[k].uid, ok |-> TRUE]
    BY <1>1, <1>14 DEF StatusOnItsWay, HasStatus, Present, HasWorkload, BadSpec
  <2>1. Present(cluster[k]) /\ cluster[k].uid = snapshot[k].uid /\ status'[k] = status[k]
    <3>1. CASE k = k0
      BY <3>1, <1>3, <1>e
    <3>2. CASE k # k0
      BY <3>2, <1>3
    <3> QED BY <3>1, <3>2
  <2> QED BY <2>1, <1>a DEF StatusOnItsWay
<1> QED BY <1>8, <1>10, <1>11, <1>12, <1>13, <1>15, <1>16 DEF OpInv

LEMMA UsersEdit ==
  ASSUME OpInv, NEW k \in ResourceKinds, Delete(k) \/ \E spec \in SpecsOf[k] : Apply(k, spec)
  PROVE  OpInv'
<1>1. CASE Delete(k)
  <2>1. NoResource.gen = 0 /\ NoResource.uid = 0
    BY DEF NoResource
  <2> QED BY <1>1, <2>1, EditStep DEF Delete
<1>2. ASSUME NEW spec \in SpecsOf[k], Apply(k, spec) PROVE OpInv'
  <2>1. CASE Present(cluster[k])
    <3> DEFINE o == [gen |-> cluster[k].gen + 1, uid |-> cluster[k].uid, spec |-> spec]
    <3>1. o.gen = cluster[k].gen + 1 /\ o.uid = cluster[k].uid /\ o.spec \in SpecsOf[k]
      OBVIOUS
    <3>2. EditResource(k, o)
      BY <1>2, <2>1 DEF Apply
    <3> HIDE DEF o
    <3> QED BY <2>1, <3>1, <3>2, EditStep
  <2>2. CASE ~Present(cluster[k])
    <3> DEFINE o == [gen |-> 1, uid |-> budgetOf["edit"] + 1, spec |-> spec]
    <3>1. o.gen = 1 /\ o.uid = budgetOf["edit"] + 1 /\ o.spec \in SpecsOf[k]
      OBVIOUS
    <3>2. EditResource(k, o)
      BY <1>2, <2>2 DEF Apply
    <3> HIDE DEF o
    <3> QED BY <3>1, <3>2, EditStep
  <2> QED BY <2>1, <2>2
<1> QED BY <1>1, <1>2

LEMMA MeddleStep ==
  ASSUME OpInv, GatewayRestarts \/ \E k \in {"endpoint", "isvc"} : AdminDeletesProvider(k)
  PROVE  OpInv'
<1>a. OpTypes /\ InOrder /\ ListedOrNotified
  BY DEF OpInv
<1>1. /\ UNCHANGED <<cluster, status, deployment, process, watch, events, snapshot, signals, todo, found, opErr, patchErr, delivered>>
      /\ Spend("meddle") /\ touched' = TRUE /\ DOMAIN gwProviders' = {"endpoint", "isvc"}
  BY <1>a DEF GatewayRestarts, AdminDeletesProvider, Meddle, inside, OpTypes
<1>2. budgetOf' \in [{"edit", "fault", "meddle"} -> Nat] /\ budgetOf'["edit"] = budgetOf["edit"]
  BY <1>1, <1>a, SpendIs
<1>3. OpTypes'
  BY <1>1, <1>2, <1>a DEF OpTypes
<1>4. InOrder' /\ ListedOrNotified'
  BY <1>1, <1>a DEF InOrder, ListedOrNotified, Present, HasWorkload
<1>5. Planned' => Planned
  BY <1>1 DEF Planned
<1>6. PartsOnTheirWay' /\ DeploymentOnItsWay'
  BY <1>1, <1>5, PartsStep, DeploymentSame
<1>7. GatewayOnItsWay'
  BY <1>1 DEF GatewayOnItsWay
<1>8. StatusOnItsWay'
  BY <1>1, <1>5, StatusSame
<1> QED BY <1>1, <1>3, <1>4, <1>6, <1>7, <1>8, ReadySame DEF OpInv

LEMMA BeginStep ==
  ASSUME OpInv, StartOperator \/ OnEvent \/ OnTick
  PROVE  OpInv'
<1>a. OpTypes /\ InOrder
  BY DEF OpInv
<1>1. /\ UNCHANGED <<cluster, status, deployment, gwProviders, gwRouter, gwBudget, watch, snapshot, signals, budgetOf, delivered>>
      /\ opErr' = FALSE /\ patchErr' = FALSE /\ touched' = FALSE
      /\ todo' = {ListOf[k] : k \in ResourceKinds} \cup {PlanCall}
      /\ process' \in {"first", "busy"} /\ events' \in BOOLEAN /\ (process' = "first" => ~events')
  <2>1. ASSUME NEW next \in {"first", "busy"}, reconcileOnce(next)
        PROVE  /\ UNCHANGED <<cluster, status, deployment, gwProviders, gwRouter, gwBudget, watch, snapshot, signals, budgetOf, delivered>>
               /\ opErr' = FALSE /\ patchErr' = FALSE /\ touched' = FALSE
               /\ todo' = {ListOf[k] : k \in ResourceKinds} \cup {PlanCall} /\ process' = next
    BY <2>1 DEF reconcileOnce, outside
  <2>2. events \in BOOLEAN /\ (process = "down" => ~events)
    BY <1>a DEF OpTypes, InOrder
  <2>3. CASE StartOperator
    BY <2>1, <2>2, <2>3 DEF StartOperator
  <2>4. CASE OnEvent
    BY <2>1, <2>4 DEF OnEvent
  <2>5. CASE OnTick
    BY <2>1, <2>2, <2>5 DEF OnTick
  <2> QED BY <2>3, <2>4, <2>5
<1>2. PlanCall \in todo' /\ todo' \subseteq 1 .. 6
  BY <1>1, CallNumbers
<1>3. OpTypes'
  BY <1>1, <1>a DEF OpTypes
<1>4. InOrder'
  BY <1>1, <1>2, CallNumbers DEF InOrder
<1>5. ListedOrNotified'
  BY <1>1 DEF ListedOrNotified
<1>6. PartsOnTheirWay' /\ GatewayOnItsWay' /\ DeploymentOnItsWay' /\ StatusOnItsWay'
  BY <1>2 DEF PartsOnTheirWay, GatewayOnItsWay, DeploymentOnItsWay, StatusOnItsWay, Planned
<1> QED BY <1>1, <1>3, <1>4, <1>5, <1>6, ReadySame DEF OpInv

LEMMA InformerStep == ASSUME OpInv, InformerDelivers PROVE OpInv'
<1>a. OpTypes /\ InOrder
  BY DEF OpInv
<1>1. /\ UNCHANGED <<cluster, status, deployment, gwProviders, gwRouter, gwBudget, process, snapshot, signals, todo, opErr,
                     patchErr, budgetOf, delivered, touched>>
      /\ watch' = FALSE /\ events' = TRUE /\ process \in {"idle", "busy"}
  BY DEF InformerDelivers, notify, outside
<1>2. OpTypes'
  BY <1>1, <1>a DEF OpTypes
<1>3. InOrder' /\ ListedOrNotified'
  BY <1>1, <1>a DEF InOrder, ListedOrNotified, HasWorkload, Present
<1>4. Planned' => Planned
  BY <1>1 DEF Planned
<1>5. PartsOnTheirWay' /\ GatewayOnItsWay' /\ DeploymentOnItsWay'
  BY <1>1, <1>4, PartsStep, GatewaySame, DeploymentSame
<1>9. StatusOnItsWay'
  BY <1>1, <1>4, StatusSame
<1> QED BY <1>9, <1>1, <1>2, <1>3, <1>5, ReadySame DEF OpInv

LEMMA FinishStep == ASSUME OpInv, Finish PROVE OpInv'
<1>a. OpTypes /\ InOrder /\ ListedOrNotified
  BY DEF OpInv
<1>1. /\ UNCHANGED <<cluster, status, deployment, gwProviders, gwRouter, gwBudget, snapshot, signals, todo, opErr,
                     patchErr, budgetOf, delivered, touched>>
      /\ process \in {"first", "busy"} /\ todo = {}
      /\ IF opErr \/ patchErr
         THEN process' = "down" /\ watch' = FALSE /\ events' = FALSE
         ELSE /\ process' = "idle"
              /\ watch' = IF process = "first" THEN \E k \in ResourceKinds : Present(cluster[k]) ELSE watch
              /\ events' = events
  BY DEF Finish, outside
<1>b. (\E k \in ResourceKinds : Present(cluster[k])) \in BOOLEAN
  OBVIOUS
<1>2. OpTypes'
  <2>1. process' \in {"down", "first", "busy", "idle"} /\ watch' \in BOOLEAN /\ events' \in BOOLEAN
    BY <1>1, <1>b, <1>a DEF OpTypes
  <2> QED BY <1>1, <2>1, <1>a DEF OpTypes
<1>3. InOrder'
  BY <1>1, <1>a DEF InOrder, HasWorkload, Present
<1>4. ListedOrNotified'
  <2>1. CASE opErr \/ patchErr
    BY <2>1, <1>1 DEF ListedOrNotified
  <2>2. CASE ~opErr /\ ~patchErr /\ process = "first"
    BY <2>2, <1>1 DEF ListedOrNotified, Present
  <2>3. CASE ~opErr /\ ~patchErr /\ process = "busy"
    BY <2>3, <1>1, <1>a DEF ListedOrNotified, Present
  <2> QED BY <2>1, <2>2, <2>3, <1>1
<1>5. Planned' => Planned
  BY <1>1 DEF Planned
<1>6. PartsOnTheirWay' /\ GatewayOnItsWay' /\ DeploymentOnItsWay'
  BY <1>1, <1>5, PartsStep, GatewaySame, DeploymentSame
<1>9. StatusOnItsWay'
  BY <1>1, <1>5, StatusSame
<1> QED BY <1>9, <1>1, <1>2, <1>3, <1>4, <1>6, ReadySame DEF OpInv

-----------------------------------------------------------------------------
\* A call after the plan: the plan stays made, and nothing is listed again.
LEMMA CallKeeps ==
  ASSUME OpInv, NEW c \in 7 .. 19, Doing(c), todo' \subseteq todo \ {c}, UNCHANGED <<process, events, cluster, snapshot>>,
         opErr => opErr', watch => watch'
  PROVE  InOrder' /\ ListedOrNotified' /\ (Planned' => Planned) /\ todo \subseteq 7 .. 19
<1>1. process \in {"first", "busy"} /\ \A d \in todo : c <= d
  BY DEF Doing
<1>2. PlanCall \notin todo
  BY <1>1, CallNumbers
<1>3. todo \subseteq 7 .. 19 /\ (process \in {"down", "first"} => ~events)
  BY <1>2 DEF OpInv, InOrder
<1>4. InOrder'
  <2>1. DeploymentCall \in todo => HasWorkload(snapshot["isvc"])
    BY DEF OpInv, InOrder
  <2> QED BY <1>1, <1>2, <1>3, <2>1 DEF InOrder, HasWorkload, Present
<1>5. \A k \in ResourceKinds : ListOf[k] \notin todo
  BY <1>3, CallNumbers
<1>6. ListedOrNotified'
  BY <1>5 DEF OpInv, ListedOrNotified, Present
<1> QED BY <1>2, <1>3, <1>4, <1>6 DEF Planned

LEMMA BudgetKept ==
  ASSUME OpTypes, UNCHANGED budgetOf \/ Fails
  PROVE  budgetOf' \in [{"edit", "fault", "meddle"} -> Nat] /\ budgetOf'["edit"] = budgetOf["edit"]
BY SpendIs DEF Fails, OpTypes

LEMMA TypesKept ==
  ASSUME OpTypes, UNCHANGED budgetOf \/ Fails, UNCHANGED <<cluster, snapshot, process, touched, signals, events>>,
         DOMAIN status' = ResourceKinds, \A k \in ResourceKinds : StatusGood(status'[k], budgetOf["edit"]),
         DOMAIN gwProviders' = {"endpoint", "isvc"}, deployment' \in Int, deployment' >= -1,
         opErr' \in BOOLEAN, patchErr' \in BOOLEAN, watch' \in BOOLEAN
  PROVE  OpTypes'
<1>1. budgetOf' \in [{"edit", "fault", "meddle"} -> Nat] /\ budgetOf'["edit"] = budgetOf["edit"]
  BY BudgetKept
<1> QED BY <1>1 DEF OpTypes

LEMMA ListStep == ASSUME OpInv, NEW k0 \in ResourceKinds, List(k0) PROVE OpInv'
<1>a. OpTypes /\ SameGeneration /\ InOrder /\ ListedOrNotified
  BY DEF OpInv
<1>1. /\ UNCHANGED <<cluster, status, deployment, gwProviders, gwRouter, gwBudget, process, watch, events, patchErr, touched,
                     signals, delivered>>
      /\ Doing(ListOf[k0]) /\ todo' = todo \ {ListOf[k0]}
  BY DEF List, KeepLoop, Proceed, outside
<1>2. \/ snapshot' = [snapshot EXCEPT ![k0] = cluster[k0]] /\ UNCHANGED <<opErr, budgetOf>>
      \/ Fails /\ opErr' = TRUE /\ UNCHANGED snapshot
  BY DEF List
<1>3. ListOf[k0] \in todo /\ ListOf[k0] \in 1 .. 5 /\ process \in {"first", "busy"}
  BY <1>1, CallNumbers DEF Doing
<1>4. PlanCall \in todo /\ PlanCall \in todo' /\ todo' \subseteq 1 .. 6
  BY <1>1, <1>3, <1>a, CallNumbers DEF InOrder
<1>5. /\ DOMAIN snapshot' = ResourceKinds
      /\ \A k \in ResourceKinds : snapshot'[k] = snapshot[k] \/ (k = k0 /\ snapshot'[k] = cluster[k])
      /\ ~opErr' => snapshot'[k0] = cluster[k0] /\ ~opErr
  BY <1>2, <1>a DEF OpTypes
<1>6. budgetOf' \in [{"edit", "fault", "meddle"} -> Nat] /\ budgetOf'["edit"] = budgetOf["edit"] /\ opErr' \in BOOLEAN
  BY <1>2, <1>a, BudgetKept DEF OpTypes
<1>7. OpTypes'
  <2>1. \A k \in ResourceKinds : ResourceGood(k, snapshot'[k], budgetOf["edit"])
    BY <1>5, <1>a DEF OpTypes
  <2> QED BY <1>1, <1>5, <1>6, <2>1, <1>a DEF OpTypes
<1>8. SameGeneration'
  <2>1. \A k \in ResourceKinds : cluster[k].gen \in Int
    BY <1>a DEF OpTypes, ResourceGood
  <2> QED BY <2>1, <1>1, <1>5, <1>a DEF SameGeneration, Present
<1>9. InOrder'
  BY <1>1, <1>3, <1>4, <1>a, CallNumbers DEF InOrder
<1>10. ListedOrNotified'
  <2> SUFFICES ASSUME process' \in {"busy", "idle"}, ~opErr', ~events', ~watch', NEW k \in ResourceKinds,
                      ListOf[k] \notin todo', Present(cluster'[k])
               PROVE  snapshot'[k] = cluster'[k]
    BY DEF ListedOrNotified, Present
  <2>1. CASE k = k0
    BY <2>1, <1>1, <1>5
  <2>2. CASE k # k0
    <3>1. ListOf[k] \notin todo
      BY <2>2, <1>1, CallNumbers
    <3> QED BY <3>1, <2>2, <1>1, <1>5, <1>a DEF ListedOrNotified
  <2> QED BY <2>1, <2>2
<1>11. PartsOnTheirWay' /\ GatewayOnItsWay' /\ DeploymentOnItsWay' /\ StatusOnItsWay'
  BY <1>4 DEF PartsOnTheirWay, GatewayOnItsWay, DeploymentOnItsWay, StatusOnItsWay, Planned
<1> QED BY <1>1, <1>7, <1>8, <1>9, <1>10, <1>11, ReadySame DEF OpInv

LEMMA ApplyCallsAre ==
  ASSUME NEW listed
  PROVE  /\ ApplyCalls(listed) \subseteq 7 .. 14 /\ StatusCalls(listed) \subseteq 15 .. 19
         /\ HasWorkload(listed["isvc"]) => {7, 8} \subseteq ApplyCalls(listed)
         /\ 7 \in ApplyCalls(listed) => HasWorkload(listed["isvc"])
         /\ Present(listed["endpoint"]) => {9, 10} \subseteq ApplyCalls(listed)
         /\ Exposes(listed["isvc"]) => {11, 12} \subseteq ApplyCalls(listed)
         /\ Present(listed["route"]) => 13 \in ApplyCalls(listed)
         /\ Present(listed["budget"]) => 14 \in ApplyCalls(listed)
<1>1. StatusCalls(listed) \subseteq 15 .. 19
  BY CallNumbers DEF StatusCalls
<1> QED BY <1>1, CallNumbers DEF ApplyCalls

LEMMA PlanStep == ASSUME OpInv, Plan PROVE OpInv'
<1>a. OpTypes /\ InOrder /\ ListedOrNotified
  BY DEF OpInv
<1>1. /\ UNCHANGED <<cluster, status, deployment, gwProviders, gwRouter, gwBudget, process, watch, events, patchErr, touched,
                     snapshot, budgetOf, delivered>>
      /\ Doing(PlanCall) /\ opErr' = (opErr \/ planErr(snapshot)) /\ signals' \in {"none", "above", "below", "within"}
      /\ todo' = IF opErr THEN {}
                 ELSE IF planErr(snapshot) THEN StatusCalls(snapshot)
                 ELSE ApplyCalls(snapshot) \cup StatusCalls(snapshot)
  BY DEF Plan, KeepLoop, outside
<1>2. process \in {"first", "busy"} /\ PlanCall \in todo /\ \A d \in todo : 6 <= d
  BY <1>1, CallNumbers DEF Doing
<1>3. \A k \in ResourceKinds : ListOf[k] \notin todo
  BY <1>2, CallNumbers
<1>4. ApplyCalls(snapshot) \subseteq 7 .. 14 /\ StatusCalls(snapshot) \subseteq 15 .. 19
  BY ApplyCallsAre
<1>5. todo' \subseteq 7 .. 19 /\ (~opErr' => todo' = ApplyCalls(snapshot) \cup StatusCalls(snapshot) /\ ~opErr)
  <2>2. CASE opErr
    <3>1. todo' = {} /\ opErr'
      BY <1>1, <2>2
    <3> QED BY <3>1
  <2>3. CASE ~opErr /\ planErr(snapshot)
    <3>1. todo' = StatusCalls(snapshot) /\ opErr'
      BY <1>1, <2>3, Zenon
    <3> QED BY <1>4, <3>1
  <2>4. CASE ~opErr /\ ~planErr(snapshot)
    <3>1. todo' = ApplyCalls(snapshot) \cup StatusCalls(snapshot)
      BY <1>1, <2>4, Zenon
    <3> QED BY <1>4, <2>4, <3>1
  <2> QED BY <2>2, <2>3, <2>4
<1>6. opErr' \in BOOLEAN
  BY <1>1, <1>a DEF OpTypes, planErr
<1>7. OpTypes'
  BY <1>1, <1>6, <1>a DEF OpTypes
<1>8. InOrder'
  <2>1. 7 \in todo' => HasWorkload(snapshot["isvc"])
    <3>1. 7 \in todo' => 7 \in ApplyCalls(snapshot)
      BY <1>1, <1>4
    <3> QED BY <3>1, ApplyCallsAre
  <2> QED BY <1>1, <1>2, <1>5, <1>a, <2>1, CallNumbers DEF InOrder, HasWorkload, Present
<1>9. ListedOrNotified'
  BY <1>1, <1>3, <1>5, <1>a DEF ListedOrNotified, Present
<1>10. PartsOnTheirWay'
  <2> SUFFICES ASSUME ~opErr', NEW k \in ResourceKinds, Present(snapshot[k]), NEW part \in PartsOf(k, snapshot[k].spec)
               PROVE  PartCall(k, part) \in todo'
    BY <1>1 DEF PartsOnTheirWay, Planned, Present, PartsOf, PartCall
  <2>1. \/ k = "isvc" /\ HasWorkload(snapshot["isvc"]) /\ part \in {"deployment", "service"}
        \/ k = "isvc" /\ Exposes(snapshot["isvc"]) /\ part = "provider"
        \/ k = "endpoint" /\ part = "provider"
        \/ k = "route" /\ part = "router"
        \/ k = "budget" /\ part = "budget"
    BY DEF PartsOf, ResourceKinds, HasWorkload, Exposes
  <2>2. PartCall(k, part) \in ApplyCalls(snapshot)
    BY <2>1, CallNumbers, ApplyCallsAre DEF PartCall
  <2> QED BY <2>2, <1>5
<1>11. ~opErr' =>
          /\ HasWorkload(snapshot["isvc"]) => 7 \in todo'
          /\ Present(snapshot["endpoint"]) => 10 \in todo'
          /\ Exposes(snapshot["isvc"]) => 12 \in todo'
          /\ Present(snapshot["route"]) => 13 \in todo'
          /\ Present(snapshot["budget"]) => 14 \in todo'
  BY <1>5, ApplyCallsAre
<1>12. GatewayOnItsWay'
  BY <1>1, <1>11, CallNumbers DEF GatewayOnItsWay, Planned, Present, Exposes, HasWorkload
<1>13. DeploymentOnItsWay'
  BY <1>1, <1>11, CallNumbers DEF DeploymentOnItsWay, Planned, Present, HasWorkload
<1>14. StatusOnItsWay'
  <2>1. ASSUME NEW k \in ResourceKinds, HasStatus(k, snapshot) PROVE StatusOf[k] \in StatusCalls(snapshot)
    BY <2>1 DEF StatusCalls
  <2>2. ASSUME NEW k \in ResourceKinds, HasStatus(k, snapshot), Planned' PROVE StatusOf[k] \in todo'
    BY <2>1, <2>2, <1>5 DEF Planned
  <2> QED BY <2>2, <1>1 DEF StatusOnItsWay, HasStatus, Present, HasWorkload, BadSpec
<1> QED BY <1>1, <1>7, <1>8, <1>9, <1>10, <1>12, <1>13, <1>14, ReadySame DEF OpInv

\* What a call that writes leaves alone, and that it loses no error.
Writing(c) ==
    /\ Doing(c) /\ todo' = todo \ {c}
    /\ UNCHANGED <<cluster, status, snapshot, signals, process, watch, events, patchErr, touched>>

LEMMA WritingKeeps ==
  ASSUME OpInv, NEW c \in 7 .. 14, Writing(c), opErr' \in BOOLEAN, opErr => opErr', UNCHANGED budgetOf \/ Fails,
         DOMAIN gwProviders' = {"endpoint", "isvc"}, deployment' \in Int, deployment' >= -1, delivered \subseteq delivered'
  PROVE  /\ OpTypes' /\ InOrder' /\ ListedOrNotified' /\ (Planned' => Planned) /\ ReadyWasDelivered' /\ SameGeneration' /\ StatusOnItsWay'
         /\ \A d \in todo : d # c => d \in todo'
<1>a. OpTypes
  BY DEF OpInv
<1>1. InOrder' /\ ListedOrNotified' /\ (Planned' => Planned)
  BY CallKeeps DEF Writing
<1>2. DOMAIN status' = ResourceKinds /\ \A k \in ResourceKinds : StatusGood(status'[k], budgetOf["edit"])
  BY <1>a DEF Writing, OpTypes
<1>3. patchErr' \in BOOLEAN /\ watch' \in BOOLEAN
  BY <1>a DEF Writing, OpTypes
<1>4. OpTypes'
  BY <1>a, <1>2, <1>3, TypesKept DEF Writing
<1>5. ReadyWasDelivered' /\ SameGeneration'
  BY ReadySame DEF Writing
<1>6. StatusOnItsWay'
  <2>1. \A k \in ResourceKinds : StatusOf[k] # c
    BY CallNumbers
  <2> QED BY <2>1, <1>1, StatusSame DEF Writing
<1> QED BY <1>1, <1>4, <1>5, <1>6 DEF Writing

\* A call that was refused: the error is joined to the others.
LEMMA RefusedStep ==
  ASSUME OpInv, NEW c \in 7 .. 14, Writing(c), opErr' = TRUE, UNCHANGED budgetOf \/ Fails,
         UNCHANGED <<deployment, gwProviders, gwRouter, gwBudget, delivered>>
  PROVE  OpInv'
<1>a. OpTypes
  BY DEF OpInv
<1>1. DOMAIN gwProviders' = {"endpoint", "isvc"} /\ deployment' \in Int /\ deployment' >= -1
  BY <1>a DEF OpTypes
<1>2. OpTypes' /\ InOrder' /\ ListedOrNotified' /\ ReadyWasDelivered' /\ SameGeneration' /\ StatusOnItsWay'
  BY <1>1, WritingKeeps
<1>3. PartsOnTheirWay' /\ GatewayOnItsWay' /\ DeploymentOnItsWay'
  BY DEF PartsOnTheirWay, GatewayOnItsWay, DeploymentOnItsWay, Planned
<1> QED BY <1>2, <1>3 DEF OpInv

\* The errors of a call, as the actions state them.
LEMMA JoinIs ==
  ASSUME OpInv
  PROVE  /\ JoinErr(FALSE) => opErr' = opErr /\ opErr' \in BOOLEAN
         /\ JoinErr(TRUE) => opErr' = TRUE
         /\ Refused => /\ opErr' = TRUE /\ Fails
                       /\ UNCHANGED <<deployment, gwProviders, gwRouter, gwBudget, delivered>>
BY DEF OpInv, OpTypes, JoinErr, Refused

\* A part that a call has brought.
LEMMA RecordStep ==
  ASSUME OpInv, NEW kind \in ResourceKinds, NEW p, NEW c \in 7 .. 14, Writing(c), Record(kind, p), opErr' = opErr,
         \A spec : \A k \in ResourceKinds : \A part \in PartsOf(k, spec) : PartCall(k, part) = c => k = kind /\ part = p
  PROVE  PartsOnTheirWay' /\ delivered \subseteq delivered'
<1>1. delivered' = delivered \cup {<<kind, p, snapshot[kind].uid, snapshot[kind].gen>>} /\ todo' = todo \ {c} /\ UNCHANGED snapshot
  BY DEF Record, Writing
<1>2. Planned' => Planned
  BY CallKeeps DEF Writing
<1>3. ASSUME NEW k \in ResourceKinds, NEW part \in PartsOf(k, snapshot[k].spec)
      PROVE  \/ PartCall(k, part) \in todo => PartCall(k, part) \in todo'
             \/ <<k, part, snapshot[k].uid, snapshot[k].gen>> \in delivered'
  BY <1>1, <1>3
<1> QED BY <1>1, <1>2, <1>3, PartsStep

LEMMA DeploymentStep == ASSUME OpInv, ApplyDeployment PROVE OpInv'
<1>a. OpTypes /\ 7 \in 7 .. 14
  BY DEF OpInv
<1>1. Writing(7)
  BY CallNumbers DEF ApplyDeployment, Proceed, KeepLoop, Writing
<1>2. CASE Refused
  BY <1>1, <1>2, <1>a, JoinIs, RefusedStep
<1>3. CASE /\ deployment' = ToWorkloadPlan(snapshot["isvc"].spec, snapshot["scale"], signals)
           /\ Record("isvc", "deployment") /\ JoinErr(FALSE) /\ UNCHANGED <<gwProviders, gwRouter, gwBudget, budgetOf>>
  <2>1. opErr' = opErr /\ opErr' \in BOOLEAN
    BY <1>3, JoinIs
  <2>2. PartsOnTheirWay' /\ delivered \subseteq delivered'
    <3>1. \A spec : \A k \in ResourceKinds : \A part \in PartsOf(k, spec) : PartCall(k, part) = 7 => k = "isvc" /\ part = "deployment"
      BY PartCallIs
    <3>2. "isvc" \in ResourceKinds
      BY DEF ResourceKinds
    <3> QED BY <1>1, <1>3, <1>a, <2>1, <3>1, <3>2, RecordStep
  <2>3. deployment' \in Int /\ deployment' >= -1
    <3>1. HasWorkload(snapshot["isvc"])
      BY <1>1, CallNumbers DEF Writing, Doing, OpInv, InOrder
    <3> QED BY <3>1, <1>3, <1>a, PlannedReplicas
  <2>4. DOMAIN gwProviders' = {"endpoint", "isvc"} /\ (opErr => opErr')
    BY <1>3, <1>a, <2>1 DEF OpTypes
  <2>5. /\ OpTypes' /\ InOrder' /\ ListedOrNotified' /\ (Planned' => Planned) /\ ReadyWasDelivered' /\ SameGeneration' /\ StatusOnItsWay'
        /\ \A d \in todo : d # 7 => d \in todo'
    BY <1>1, <1>3, <1>a, <2>1, <2>2, <2>3, <2>4, WritingKeeps
  <2>6. UNCHANGED <<snapshot, signals, touched>>
    BY <1>1 DEF Writing
  <2>7. GatewayOnItsWay'
    BY <1>3, <2>5, <2>6, GatewaySame
  <2>8. DeploymentOnItsWay'
    BY <1>3, <2>6 DEF DeploymentOnItsWay, HasWorkload, Present
  <2> QED BY <2>2, <2>5, <2>7, <2>8 DEF OpInv
<1> QED BY <1>2, <1>3 DEF ApplyDeployment

LEMMA ServiceStep == ASSUME OpInv, ApplyService PROVE OpInv'
<1>a. OpTypes /\ 8 \in 7 .. 14
  BY DEF OpInv
<1>1. Writing(8)
  BY CallNumbers DEF ApplyService, Proceed, KeepLoop, Writing
<1>2. CASE Refused
  BY <1>1, <1>2, <1>a, JoinIs, RefusedStep
<1>3. CASE /\ Record("isvc", "service") /\ JoinErr(FALSE)
           /\ UNCHANGED <<deployment, gwProviders, gwRouter, gwBudget, budgetOf>>
  <2>1. opErr' = opErr /\ opErr' \in BOOLEAN
    BY <1>3, JoinIs
  <2>2. PartsOnTheirWay' /\ delivered \subseteq delivered'
    <3>1. \A spec : \A k \in ResourceKinds : \A part \in PartsOf(k, spec) : PartCall(k, part) = 8 => k = "isvc" /\ part = "service"
      BY PartCallIs
    <3>2. "isvc" \in ResourceKinds
      BY DEF ResourceKinds
    <3> QED BY <1>1, <1>3, <1>a, <2>1, <3>1, <3>2, RecordStep
  <2>3. deployment' \in Int /\ deployment' >= -1 /\ DOMAIN gwProviders' = {"endpoint", "isvc"} /\ (opErr => opErr')
    BY <1>3, <1>a, <2>1 DEF OpTypes
  <2>5. /\ OpTypes' /\ InOrder' /\ ListedOrNotified' /\ (Planned' => Planned) /\ ReadyWasDelivered' /\ SameGeneration' /\ StatusOnItsWay'
        /\ \A d \in todo : d # 8 => d \in todo'
    BY <1>1, <1>3, <1>a, <2>1, <2>2, <2>3, WritingKeeps
  <2>6. UNCHANGED <<snapshot, signals, touched>>
    BY <1>1 DEF Writing
  <2>7. GatewayOnItsWay' /\ DeploymentOnItsWay'
    BY <1>3, <2>5, <2>6, GatewaySame, DeploymentSame
  <2> QED BY <2>2, <2>5, <2>7 DEF OpInv
<1> QED BY <1>2, <1>3 DEF ApplyService

\* The gateway's part of the invariant, when one call has brought what it was for.
LEMMA GatewayWritten ==
  ASSUME OpInv, NEW c \in {10, 12, 13, 14}, UNCHANGED snapshot, Planned' => Planned, ~touched' => ~touched,
         \A d \in todo : d # c => d \in todo',
         c # 10 => gwProviders'["endpoint"] = gwProviders["endpoint"],
         c # 12 => gwProviders'["isvc"] = gwProviders["isvc"],
         c # 13 => gwRouter' = gwRouter,
         c # 14 => gwBudget' = gwBudget,
         c = 10 => EndpointThere',
         c = 12 => gwProviders'["isvc"].url = snapshot["isvc"].spec.model,
         c = 13 => gwRouter' = snapshot["route"].spec.strategy,
         c = 14 => gwBudget' = snapshot["budget"].spec.usd
  PROVE  GatewayOnItsWay'
<1> SUFFICES ASSUME Planned', ~touched' PROVE GatewayOnItsWay'
  BY DEF GatewayOnItsWay
<1>1. /\ Present(snapshot["endpoint"]) => 10 \in todo \/ EndpointThere
      /\ Exposes(snapshot["isvc"]) => 12 \in todo \/ gwProviders["isvc"].url = snapshot["isvc"].spec.model
      /\ Present(snapshot["route"]) => 13 \in todo \/ gwRouter = snapshot["route"].spec.strategy
      /\ Present(snapshot["budget"]) => 14 \in todo \/ gwBudget = snapshot["budget"].spec.usd
  BY CallNumbers DEF OpInv, GatewayOnItsWay
<1>2. c # 10 => (EndpointThere' <=> EndpointThere)
  BY DEF EndpointThere
<1>3. /\ Present(snapshot["endpoint"]) => 10 \in todo' \/ EndpointThere'
      /\ Exposes(snapshot["isvc"]) => 12 \in todo' \/ gwProviders'["isvc"].url = snapshot["isvc"].spec.model
      /\ Present(snapshot["route"]) => 13 \in todo' \/ gwRouter' = snapshot["route"].spec.strategy
      /\ Present(snapshot["budget"]) => 14 \in todo' \/ gwBudget' = snapshot["budget"].spec.usd
  BY <1>1, <1>2
<1> QED BY <1>3, CallNumbers DEF GatewayOnItsWay, Present, Exposes, HasWorkload

LEMMA RouterStep == ASSUME OpInv, SyncRouter PROVE OpInv'
<1>a. OpTypes /\ 13 \in 7 .. 14
  BY DEF OpInv
<1>1. Writing(13)
  BY CallNumbers DEF SyncRouter, Proceed, KeepLoop, Writing
<1>2. CASE Refused
  BY <1>1, <1>2, <1>a, JoinIs, RefusedStep
<1>3. CASE /\ gwRouter' = snapshot["route"].spec.strategy /\ Record("route", "router") /\ JoinErr(FALSE)
           /\ UNCHANGED <<deployment, gwProviders, gwBudget, budgetOf>>
  <2>1. opErr' = opErr /\ opErr' \in BOOLEAN
    BY <1>3, JoinIs
  <2>2. PartsOnTheirWay' /\ delivered \subseteq delivered'
    <3>1. \A spec : \A k \in ResourceKinds : \A part \in PartsOf(k, spec) : PartCall(k, part) = 13 => k = "route" /\ part = "router"
      BY PartCallIs
    <3>2. "route" \in ResourceKinds
      BY DEF ResourceKinds
    <3> QED BY <1>1, <1>3, <1>a, <2>1, <3>1, <3>2, RecordStep
  <2>3. deployment' \in Int /\ deployment' >= -1 /\ DOMAIN gwProviders' = {"endpoint", "isvc"} /\ (opErr => opErr')
    BY <1>3, <1>a, <2>1 DEF OpTypes
  <2>5. /\ OpTypes' /\ InOrder' /\ ListedOrNotified' /\ (Planned' => Planned) /\ ReadyWasDelivered' /\ SameGeneration' /\ StatusOnItsWay'
        /\ \A d \in todo : d # 13 => d \in todo'
    BY <1>1, <1>3, <1>a, <2>1, <2>2, <2>3, WritingKeeps
  <2>6. UNCHANGED <<snapshot, signals, touched>>
    BY <1>1 DEF Writing
  <2>7. GatewayOnItsWay'
    BY <1>3, <2>5, <2>6, GatewayWritten
  <2>8. DeploymentOnItsWay'
    BY <1>3, <2>5, <2>6, DeploymentSame
  <2> QED BY <2>2, <2>5, <2>7, <2>8 DEF OpInv
<1> QED BY <1>2, <1>3 DEF SyncRouter

LEMMA BudgetStep == ASSUME OpInv, SyncBudget PROVE OpInv'
<1>a. OpTypes /\ 14 \in 7 .. 14
  BY DEF OpInv
<1>1. Writing(14)
  BY CallNumbers DEF SyncBudget, Proceed, KeepLoop, Writing
<1>2. CASE Refused
  BY <1>1, <1>2, <1>a, JoinIs, RefusedStep
<1>3. CASE /\ gwBudget' = snapshot["budget"].spec.usd /\ Record("budget", "budget") /\ JoinErr(FALSE)
           /\ UNCHANGED <<deployment, gwProviders, gwRouter, budgetOf>>
  <2>1. opErr' = opErr /\ opErr' \in BOOLEAN
    BY <1>3, JoinIs
  <2>2. PartsOnTheirWay' /\ delivered \subseteq delivered'
    <3>1. \A spec : \A k \in ResourceKinds : \A part \in PartsOf(k, spec) : PartCall(k, part) = 14 => k = "budget" /\ part = "budget"
      BY PartCallIs
    <3>2. "budget" \in ResourceKinds
      BY DEF ResourceKinds
    <3> QED BY <1>1, <1>3, <1>a, <2>1, <3>1, <3>2, RecordStep
  <2>3. deployment' \in Int /\ deployment' >= -1 /\ DOMAIN gwProviders' = {"endpoint", "isvc"} /\ (opErr => opErr')
    BY <1>3, <1>a, <2>1 DEF OpTypes
  <2>5. /\ OpTypes' /\ InOrder' /\ ListedOrNotified' /\ (Planned' => Planned) /\ ReadyWasDelivered' /\ SameGeneration' /\ StatusOnItsWay'
        /\ \A d \in todo : d # 14 => d \in todo'
    BY <1>1, <1>3, <1>a, <2>1, <2>2, <2>3, WritingKeeps
  <2>6. UNCHANGED <<snapshot, signals, touched>>
    BY <1>1 DEF Writing
  <2>7. GatewayOnItsWay'
    BY <1>3, <2>5, <2>6, GatewayWritten
  <2>8. DeploymentOnItsWay'
    BY <1>3, <2>5, <2>6, DeploymentSame
  <2> QED BY <2>2, <2>5, <2>7, <2>8 DEF OpInv
<1> QED BY <1>2, <1>3 DEF SyncBudget

LEMMA GetStep == ASSUME OpInv, NEW k0 \in {"endpoint", "isvc"}, GetProvider(k0) PROVE OpInv'
<1>a. OpTypes
  BY DEF OpInv
<1> DEFINE c == GetOf[k0]
           d == PutOf[k0]
<1>b. c \in {9, 11} /\ d \in {10, 12}
  BY CallNumbers
<1>1. /\ Doing(c) /\ UNCHANGED <<cluster, status, snapshot, signals, process, watch, events, patchErr, touched>>
      /\ \/ /\ todo' = todo \ {c}
            /\ UNCHANGED <<deployment, gwProviders, gwRouter, gwBudget, delivered, opErr, budgetOf>>
         \/ Refused /\ todo' = todo \ {c, d}
  BY DEF GetProvider, KeepLoop, Proceed
<1> HIDE DEF c, d
<1>2. /\ UNCHANGED <<deployment, gwProviders, gwRouter, gwBudget, delivered>> /\ (UNCHANGED budgetOf \/ Fails)
      /\ opErr' \in BOOLEAN /\ (opErr => opErr') /\ todo' \subseteq todo \ {c}
      /\ ~opErr' => todo' = todo \ {c}
  BY <1>1, <1>a, JoinIs DEF OpTypes
<1>3. c \in 7 .. 19
  BY <1>b
<1>4. InOrder' /\ ListedOrNotified' /\ (Planned' => Planned)
  BY <1>1, <1>2, <1>3, CallKeeps
<1>5. OpTypes'
  <2>1. DOMAIN status' = ResourceKinds /\ \A k \in ResourceKinds : StatusGood(status'[k], budgetOf["edit"])
    BY <1>1, <1>a DEF OpTypes
  <2>2. /\ DOMAIN gwProviders' = {"endpoint", "isvc"} /\ deployment' \in Int /\ deployment' >= -1
        /\ patchErr' \in BOOLEAN /\ watch' \in BOOLEAN
    BY <1>1, <1>2, <1>a DEF OpTypes
  <2> QED BY <1>1, <1>2, <1>a, <2>1, <2>2, TypesKept
<1>6. ReadyWasDelivered' /\ SameGeneration'
  BY <1>1, <1>2, ReadySame
<1>7. Planned' => todo' = todo \ {c}
  BY <1>2 DEF Planned
<1>8. PartsOnTheirWay'
  <2>1. \A spec : \A k \in ResourceKinds : \A part \in PartsOf(k, spec) : PartCall(k, part) \notin {9, 11}
    BY PartCallIs
  <2>2. Planned' => \A k \in ResourceKinds : Present(snapshot[k]) => \A part \in PartsOf(k, snapshot[k].spec) :
             PartCall(k, part) \in todo => PartCall(k, part) \in todo'
    BY <1>7, <1>b, <2>1
  <2> QED BY <2>2, <1>1, <1>2, <1>4, PartsStep
<1>9. Planned' => todo \cap {7, 10, 12, 13, 14} \subseteq todo'
  BY <1>7, <1>b
<1>10. GatewayOnItsWay'
  BY <1>1, <1>2, <1>4, <1>9, GatewaySame
<1>11. DeploymentOnItsWay'
  BY <1>1, <1>2, <1>4, <1>9, DeploymentSame
<1>12. StatusOnItsWay'
  <2>1. \A k \in ResourceKinds : StatusOf[k] # c
    BY <1>b, CallNumbers
  <2> QED BY <2>1, <1>1, <1>4, <1>7, StatusSame
<1> QED BY <1>4, <1>5, <1>6, <1>8, <1>10, <1>11, <1>12 DEF OpInv

\* A patch leaves the URL and the switch as the resource says, and there is a provider after it.
LEMMA PatchedIs ==
  ASSUME NEW url, NEW on, NEW price, NEW old
  PROVE  LET new == [url |-> url, on |-> on, price |-> price]
         IN  /\ new # NoProvider /\ new.url = url /\ new.on = on
             /\ Patched(old, new) # NoProvider /\ Patched(old, new).url = url /\ Patched(old, new).on = on
<1> DEFINE new == [url |-> url, on |-> on, price |-> price]
<1>1. DOMAIN new = {"url", "on", "price"} /\ new.url = url /\ new.on = on
  OBVIOUS
<1>2. "on" \notin DOMAIN NoProvider
  BY DEF NoProvider
<1> HIDE DEF new
<1>3. "on" \in DOMAIN Patched(old, new) /\ Patched(old, new).url = new.url /\ Patched(old, new).on = new.on
  BY <1>1 DEF Patched
<1>4. new # NoProvider /\ Patched(old, new) # NoProvider
  BY <1>1, <1>2, <1>3
<1> QED BY <1>1, <1>3, <1>4 DEF new

LEMMA ProviderStep == ASSUME OpInv, NEW k0 \in {"endpoint", "isvc"}, WriteProvider(k0) PROVE OpInv'
<1>a. OpTypes /\ k0 \in ResourceKinds
  BY DEF OpInv, ResourceKinds
<1> DEFINE c == PutOf[k0]
           target == IF k0 = "isvc" THEN toModelEndpoint(snapshot[k0].spec) ELSE ToProviderSync(snapshot[k0].spec)
           exists == gwProviders[k0] # NoProvider
           new == IF found THEN Patched(gwProviders[k0], target) ELSE target
<1>b. (k0 = "endpoint" /\ c = 10) \/ (k0 = "isvc" /\ c = 12)
  BY CallNumbers
<1>c. /\ k0 = "endpoint" => new # NoProvider /\ new.url = snapshot[k0].spec.url /\ new.on = ~snapshot[k0].spec.drain
      /\ k0 = "isvc" => new.url = snapshot[k0].spec.model
  <2>1. CASE k0 = "endpoint"
    <3> DEFINE s == snapshot[k0].spec
               t == [url |-> s.url, on |-> ~s.drain, price |-> s.price]
    <3>1. /\ t # NoProvider /\ t.url = s.url /\ t.on = ~s.drain
          /\ \A old : Patched(old, t) # NoProvider /\ Patched(old, t).url = s.url /\ Patched(old, t).on = ~s.drain
      BY PatchedIs
    <3>2. target = t
      BY <2>1 DEF ToProviderSync
    <3> HIDE DEF t, target
    <3> QED BY <2>1, <3>1, <3>2
  <2>2. CASE k0 = "isvc"
    <3> DEFINE s == snapshot[k0].spec
               t == [url |-> s.model, on |-> TRUE, price |-> 0]
    <3>1. t.url = s.model /\ \A old : Patched(old, t).url = s.model
      BY PatchedIs
    <3>2. target = t
      BY <2>2 DEF toModelEndpoint
    <3> HIDE DEF t, target
    <3> QED BY <2>2, <3>1, <3>2
  <2> QED BY <2>1, <2>2
<1>1. Writing(c)
  BY DEF WriteProvider, Proceed, KeepLoop, Writing
<1>2. \/ /\ gwProviders' = [gwProviders EXCEPT ![k0] = new]
         /\ Record(k0, "provider") /\ JoinErr(FALSE) /\ UNCHANGED <<deployment, gwRouter, gwBudget, budgetOf>>
      \/ JoinErr(TRUE) /\ UNCHANGED <<deployment, gwProviders, gwRouter, gwBudget, delivered, budgetOf>>
      \/ Refused
  BY <1>a DEF WriteProvider, OpTypes
<1> HIDE DEF c, new
<1>d. c \in 7 .. 14
  BY <1>b
<1>3. CASE Refused
  BY <1>1, <1>3, <1>d, JoinIs, RefusedStep
<1>4. CASE JoinErr(TRUE) /\ UNCHANGED <<deployment, gwProviders, gwRouter, gwBudget, delivered, budgetOf>>
  BY <1>1, <1>4, <1>d, JoinIs, RefusedStep
<1>5. CASE /\ gwProviders' = [gwProviders EXCEPT ![k0] = new]
           /\ Record(k0, "provider") /\ JoinErr(FALSE) /\ UNCHANGED <<deployment, gwRouter, gwBudget, budgetOf>>
  <2>1. opErr' = opErr /\ opErr' \in BOOLEAN
    BY <1>5, JoinIs
  <2>2. PartsOnTheirWay' /\ delivered \subseteq delivered'
    <3>1. \A spec : \A k \in ResourceKinds : \A part \in PartsOf(k, spec) : PartCall(k, part) = c => k = k0 /\ part = "provider"
      BY PartCallIs, <1>b
    <3> QED BY <1>1, <1>5, <1>a, <1>d, <2>1, <3>1, RecordStep
  <2>3. deployment' \in Int /\ deployment' >= -1 /\ DOMAIN gwProviders' = {"endpoint", "isvc"} /\ (opErr => opErr')
    BY <1>5, <1>a, <2>1 DEF OpTypes
  <2>5. /\ OpTypes' /\ InOrder' /\ ListedOrNotified' /\ (Planned' => Planned) /\ ReadyWasDelivered' /\ SameGeneration' /\ StatusOnItsWay'
        /\ \A d \in todo : d # c => d \in todo'
    BY <1>1, <1>5, <1>d, <2>1, <2>2, <2>3, WritingKeeps
  <2>6. UNCHANGED <<snapshot, signals, touched>>
    BY <1>1 DEF Writing
  <2>7. gwProviders'[k0] = new /\ \A k \in {"endpoint", "isvc"} : k # k0 => gwProviders'[k] = gwProviders[k]
    BY <1>5, <1>a DEF OpTypes
  <2>8. k0 = "endpoint" => EndpointThere'
    <3>1. SUFFICES ASSUME k0 = "endpoint" PROVE EndpointThere'
      OBVIOUS
    <3>2. ToProviderSync(snapshot["endpoint"].spec).url = snapshot["endpoint"].spec.url
          /\ ToProviderSync(snapshot["endpoint"].spec).on = ~snapshot["endpoint"].spec.drain
      BY DEF ToProviderSync
    <3> QED BY <3>1, <3>2, <2>6, <2>7, <1>c DEF EndpointThere
  <2>9. k0 = "isvc" => gwProviders'["isvc"].url = snapshot["isvc"].spec.model
    BY <2>7, <1>c
  <2>10. GatewayOnItsWay'
    BY <1>5, <1>b, <2>5, <2>6, <2>7, <2>8, <2>9, GatewayWritten
  <2>11. DeploymentOnItsWay'
    BY <1>5, <1>b, <2>5, <2>6, DeploymentSame
  <2> QED BY <2>2, <2>5, <2>10, <2>11 DEF OpInv
<1> QED BY <1>2, <1>3, <1>4, <1>5

LEMMA StatusStep == ASSUME OpInv, NEW k0 \in ResourceKinds, UpdateStatus(k0) PROVE OpInv'
<1>a. OpTypes /\ SameGeneration /\ PartsOnTheirWay /\ ReadyWasDelivered /\ StatusOnItsWay
  BY DEF OpInv
<1> DEFINE c == StatusOf[k0]
           new == [gen |-> snapshot[k0].gen, uid |-> snapshot[k0].uid, ok |-> ~opErr]
<1>b. c \in 15 .. 19
  BY CallNumbers
<1>c. /\ new.gen = snapshot[k0].gen /\ new.uid = snapshot[k0].uid /\ new.ok = ~opErr
      /\ ~opErr => new = [gen |-> snapshot[k0].gen, uid |-> snapshot[k0].uid, ok |-> TRUE]
  OBVIOUS
<1>1. /\ Doing(c) /\ todo' = todo \ {c}
      /\ UNCHANGED <<cluster, deployment, gwProviders, gwRouter, gwBudget, process, events, touched, snapshot, signals, opErr, delivered>>
      /\ \/ /\ Present(cluster[k0]) /\ status' = [status EXCEPT ![k0] = new] /\ watch' \in {watch, TRUE}
            /\ UNCHANGED <<patchErr, budgetOf>>
         \/ ~Present(cluster[k0]) /\ UNCHANGED <<status, watch, patchErr, budgetOf>>
         \/ Fails /\ patchErr' = TRUE /\ UNCHANGED <<status, watch>>
  BY DEF UpdateStatus, Proceed
<1> HIDE DEF c, new
<1>2. /\ (UNCHANGED budgetOf \/ Fails) /\ watch' \in BOOLEAN /\ (watch => watch') /\ patchErr' \in BOOLEAN
      /\ DOMAIN status' = ResourceKinds
      /\ \A k \in ResourceKinds : \/ status'[k] = status[k]
                                  \/ k = k0 /\ status'[k] = new /\ Present(cluster[k])
  BY <1>1, <1>a DEF OpTypes
<1>3. c \in 7 .. 19 /\ \A d \in todo : c <= d
  BY <1>b, <1>1 DEF Doing
<1>4. InOrder' /\ ListedOrNotified' /\ (Planned' => Planned)
  BY <1>1, <1>2, <1>3, CallKeeps
<1>5. OpTypes'
  <2>1. \A k \in ResourceKinds : /\ snapshot[k].gen \in 0 .. budgetOf["edit"] /\ snapshot[k].uid \in 0 .. budgetOf["edit"]
                                 /\ StatusGood(status[k], budgetOf["edit"])
    BY <1>a DEF OpTypes, ResourceGood
  <2>2. \A k \in ResourceKinds : StatusGood(status'[k], budgetOf["edit"])
    BY <1>2, <1>c, <2>1 DEF StatusGood
  <2>3. DOMAIN gwProviders' = {"endpoint", "isvc"} /\ deployment' \in Int /\ deployment' >= -1 /\ opErr' \in BOOLEAN
    BY <1>1, <1>a DEF OpTypes
  <2> QED BY <1>1, <1>2, <1>a, <2>2, <2>3, TypesKept
<1>6. SameGeneration'
  <2> SUFFICES ASSUME NEW k \in ResourceKinds, Present(cluster[k])
               PROVE  status'[k].uid = cluster[k].uid => status'[k].gen <= cluster[k].gen
    BY <1>1, <1>a DEF SameGeneration, Present
  <2> QED BY <1>2, <1>c, <1>a DEF SameGeneration
<1>7. \A d \in todo : d \notin 7 .. 14
  BY <1>3, <1>b
<1>8. PlanCall \notin todo
  BY <1>3, <1>b, CallNumbers
<1>9. ReadyWasDelivered'
  <2> SUFFICES ASSUME NEW k \in ResourceKinds, Present(cluster[k]), status'[k].ok, status'[k].gen = cluster[k].gen,
                      status'[k].uid = cluster[k].uid, NEW part \in PartsOf(k, cluster[k].spec)
               PROVE  <<k, part, cluster[k].uid, cluster[k].gen>> \in delivered
    BY <1>1 DEF ReadyWasDelivered, Present, PartsOf
  <2>1. CASE status'[k] = status[k]
    BY <2>1, <1>a DEF ReadyWasDelivered
  <2>2. CASE k = k0 /\ status'[k] = new
    <3>1. snapshot[k] = cluster[k] /\ ~opErr
      BY <2>2, <1>c, <1>a DEF SameGeneration
    <3>2. Planned
      BY <3>1, <1>8 DEF Planned
    <3>3. PartCall(k, part) \notin todo
      BY <1>7, PartCallIs
    <3> QED BY <3>1, <3>2, <3>3, <1>a DEF PartsOnTheirWay
  <2> QED BY <2>1, <2>2, <1>2
<1>10. \A d \in 7 .. 14 : d \in todo => d \in todo'
  BY <1>7
<1>11. PartsOnTheirWay'
  <2>1. \A spec : \A k \in ResourceKinds : \A part \in PartsOf(k, spec) : PartCall(k, part) \in todo => PartCall(k, part) \in todo'
    BY <1>10, PartCallIs
  <2> QED BY <2>1, <1>1, <1>4, PartsStep
<1>12. todo \cap {10, 12, 13, 14} \subseteq todo' /\ (7 \in todo => 7 \in todo')
  BY <1>7
<1>13. GatewayOnItsWay' /\ DeploymentOnItsWay'
  BY <1>1, <1>4, <1>12, GatewaySame, DeploymentSame
<1>14. StatusOnItsWay'
  <2> SUFFICES ASSUME Planned', ~patchErr', NEW k \in ResourceKinds, HasStatus(k, snapshot), Present(cluster[k]),
                      cluster[k].uid = snapshot[k].uid
               PROVE  StatusOf[k] \in todo' \/ status'[k] = [gen |-> snapshot[k].gen, uid |-> snapshot[k].uid, ok |-> TRUE]
    BY <1>1 DEF StatusOnItsWay, HasStatus, Present, HasWorkload, BadSpec
  <2>0. ~opErr /\ Planned
    BY <1>1, <1>4 DEF Planned
  <2>1. CASE k = k0
    <3>1. status' = [status EXCEPT ![k0] = new]
      BY <2>1, <1>1
    <3> QED BY <2>0, <2>1, <3>1, <1>c, <1>a DEF OpTypes
  <2>2. CASE k # k0
    <3>1. status'[k] = status[k] /\ StatusOf[k] # c /\ ~patchErr
      <4>1. ~patchErr
        BY <1>1
      <4> QED BY <4>1, <2>2, <1>2, CallNumbers DEF c
    <3> QED BY <3>1, <2>0, <1>1, <1>a DEF StatusOnItsWay
  <2> QED BY <2>1, <2>2
<1> QED BY <1>4, <1>5, <1>6, <1>9, <1>11, <1>13, <1>14 DEF OpInv

-----------------------------------------------------------------------------
LEMMA OpStepAll == OpInv /\ [OpNext]_opVars => OpInv'
<1> SUFFICES ASSUME OpInv, [OpNext]_opVars PROVE OpInv'
  OBVIOUS
<1>1. CASE UNCHANGED opVars
  <2>1. /\ UNCHANGED <<cluster, status, deployment, gwProviders, gwRouter, gwBudget>>
        /\ UNCHANGED <<process, watch, events, snapshot, signals, todo, opErr, patchErr>>
        /\ UNCHANGED <<budgetOf, delivered, touched>>
    BY <1>1 DEF opVars, outside, inside
  <2>2. OpTypes'
    BY <2>1 DEF OpInv, OpTypes
  <2>3. InOrder' /\ ListedOrNotified'
    BY <2>1 DEF OpInv, InOrder, ListedOrNotified, HasWorkload, Present
  <2>4. Planned' => Planned
    BY <2>1 DEF Planned
  <2>5. PartsOnTheirWay' /\ GatewayOnItsWay' /\ DeploymentOnItsWay'
    BY <2>1, <2>4, PartsStep, GatewaySame, DeploymentSame
  <2>6. StatusOnItsWay'
    BY <2>1, <2>4, StatusSame
  <2> QED BY <2>1, <2>2, <2>3, <2>5, <2>6, ReadySame DEF OpInv
<1>2. CASE OpStep
  <2>1. CASE Finish \/ Plan
    BY <2>1, FinishStep, PlanStep
  <2>2. CASE ApplyDeployment \/ ApplyService \/ SyncRouter \/ SyncBudget
    BY <2>2, DeploymentStep, ServiceStep, RouterStep, BudgetStep
  <2>3. ASSUME NEW k \in ResourceKinds, List(k) \/ UpdateStatus(k) PROVE OpInv'
    BY <2>3, ListStep, StatusStep
  <2>4. ASSUME NEW k \in {"endpoint", "isvc"}, GetProvider(k) \/ WriteProvider(k) PROVE OpInv'
    BY <2>4, GetStep, ProviderStep
  <2> QED BY <1>2, <2>1, <2>2, <2>3, <2>4 DEF OpStep
<1>3. CASE \E k \in ResourceKinds : Delete(k) \/ \E spec \in SpecsOf[k] : Apply(k, spec)
  BY <1>3, UsersEdit
<1>4. CASE GatewayRestarts \/ \E k \in {"endpoint", "isvc"} : AdminDeletesProvider(k)
  BY <1>4, MeddleStep
<1>5. CASE StartOperator \/ OnEvent \/ OnTick
  BY <1>5, BeginStep
<1>6. CASE InformerDelivers
  BY <1>6, InformerStep
<1> QED BY <1>1, <1>2, <1>3, <1>4, <1>5, <1>6 DEF OpNext

LEMMA OpConsequence == OpInv => OperatorSound
<1> SUFFICES ASSUME OpInv PROVE OperatorSound
  OBVIOUS
<1>a. OpTypes /\ InOrder /\ ListedOrNotified /\ GatewayOnItsWay /\ DeploymentOnItsWay /\ ReadyWasDelivered
      /\ StatusOnItsWay
  BY DEF OpInv
<1>1. OpTypeOK
  <2>1. \A k \in ResourceKinds : cluster[k].gen \in 0 .. MaxObjEdits /\ status[k].gen \in 0 .. budgetOf.edit
    <3>1. budgetOf["edit"] \in Nat /\ budgetOf["edit"] <= MaxObjEdits
      BY <1>a DEF OpTypes
    <3>2. \A k \in ResourceKinds : cluster[k].gen \in 0 .. budgetOf["edit"] /\ status[k].gen \in 0 .. budgetOf["edit"]
      BY <1>a DEF OpTypes, ResourceGood, StatusGood
    <3> QED BY <3>1, <3>2, OperatorAssumption
  <2>2. \A what \in DOMAIN budgetOf : budgetOf[what] \in Nat
    BY <1>a DEF OpTypes
  <2> QED BY <1>a, <2>1, <2>2 DEF OpTypeOK, OpTypes, InOrder
<1>2. process = "idle" => todo = {} /\ ~opErr /\ ~patchErr /\ Planned
  BY <1>a DEF InOrder, Planned
<1>3. NoChangeMissed
  BY <1>2, <1>a DEF NoChangeMissed, ListedOrNotified
<1>4. Converged
  BY <1>2, <1>a DEF Converged, GatewayOnItsWay, InGateway, EndpointThere
<1>5. ScaledWithinBounds
  <2> SUFFICES ASSUME process = "idle", HasWorkload(snapshot["isvc"]), snapshot["isvc"].spec.role = 0,
                      Present(snapshot["scale"]), snapshot["scale"].spec.mode = "enforce",
                      snapshot["scale"].spec.max >= snapshot["scale"].spec.min, snapshot["scale"].spec.min >= 0
               PROVE  deployment \in snapshot["scale"].spec.min .. ceiling(snapshot["scale"].spec, snapshot["isvc"].spec.replicas)
    BY DEF ScaledWithinBounds
  <2>1. deployment = ToWorkloadPlan(snapshot["isvc"].spec, snapshot["scale"], signals)
    BY <1>2, <1>a DEF DeploymentOnItsWay
  <2> QED BY <2>1, <1>a, PlannedReplicas
<1>6. StatusIsOwn
  <2> SUFFICES ASSUME process = "idle", ~events, ~watch, NEW k \in ResourceKinds, Present(cluster[k]), HasStatus(k, snapshot)
               PROVE  status[k] = [gen |-> cluster[k].gen, uid |-> cluster[k].uid, ok |-> TRUE]
    BY DEF StatusIsOwn
  <2>1. snapshot[k] = cluster[k]
    BY <1>3 DEF NoChangeMissed
  <2> QED BY <2>1, <1>2, <1>a DEF StatusOnItsWay
<1> QED BY <1>1, <1>3, <1>4, <1>5, <1>6, <1>a DEF OperatorSound

\* The operator keeps its promises for all specs users write, however often they edit, whichever calls fail
\* and whatever others do to the gateway: a resource that shows Ready had every part of that generation
\* accepted unless the status was meant for an earlier resource of its name, which does not last until the
\* operator is at rest; no edit is lost in the channel of one, a reconcile that ends well leaves the gateway as its snapshot says,
\* and a deployment is within the bounds of an enforcing policy (reconcileOnce, Update, the loop of run).
THEOREM OperatorCorrect == OpSpec => []OperatorSound
<1>1. OpInit => OpInv
  BY OpInitially
<1>2. OpInv /\ [OpNext]_opVars => OpInv'
  BY OpStepAll
<1>3. OpInv => OperatorSound
  BY OpConsequence
<1> QED BY <1>1, <1>2, <1>3, PTL DEF OpSpec
=============================================================================

------------------------------- MODULE MCLoops -------------------------------
(***************************************************************************)
(* Small instances of the modules that are checked under fairness and share *)
(* no state: the circuit breakers of the replicas, the operator, and the    *)
(* process from its start to its exit.  In a behaviour one of them, part,   *)
(* moves and the others keep their initial states.                          *)
(***************************************************************************)
EXTENDS CircuitBreaker, OperatorReconcile, GatewayLifecycle

CONSTANTS
    Busy,          \* the replica that may restart and uses all its slots,
    OnlySlot,      \*  and the one slot of the others
    MaxTroubles,   \* bound on the operator's failing calls and others' changes together
    MaxMixed       \* bound on the edits of different kinds of resources

VARIABLE part

\* An endpoint with a price and drained without one; an inference service that is
\* exposed and wants more than the policy allows, is external or without a model.
Endpoint(u, d, p) == [url |-> u, drain |-> d, price |-> p]
Inference(m, r, x, e) == [model |-> m, replicas |-> r, external |-> x, expose |-> e, role |-> 0]
Resources ==
    [endpoint |-> {Endpoint("u1", FALSE, 1), Endpoint("u1", TRUE, 0)},
     route    |-> {[strategy |-> "least_load"]},
     budget   |-> {[subject |-> "t", usd |-> 1]},
     scale    |-> {[mode |-> "enforce", min |-> 1, max |-> 2, up |-> 0, down |-> 0]},
     isvc     |-> {Inference("m", 3, FALSE, TRUE), Inference("", 1, FALSE, FALSE), Inference("m", 1, TRUE, TRUE)}]

Troubles == budgetOf'.fault + budgetOf'.meddle
OnlyEndpoint == \A k \in ResourceKinds \ {"endpoint"} : cluster'[k] = NoResource /\ snapshot'[k] = NoResource

LoopsInit == part \in {"breaker", "operator", "gateway"} /\ Init /\ OpInit /\ LifeInit

LoopsNext ==
    \/ /\ part = "breaker"  /\ Next     /\ UNCHANGED <<part, opVars, lifeVars>>
       /\ \A r \in Replicas \ {Busy} : restarts'[r] = 0 /\ \A s \in Slots \ {OnlySlot} : flight'[r][s] = "idle"
    \/ /\ part = "operator" /\ OpNext   /\ UNCHANGED <<part, vars, lifeVars>>
       /\ IF budgetOf'.edit > MaxMixed THEN OnlyEndpoint /\ Troubles = 0 ELSE Troubles <= MaxTroubles
    \/ part = "gateway"  /\ LifeNext /\ UNCHANGED <<part, vars, opVars>>

\* The fairness of the three modules, each for its own behaviours.
LoopsFairness ==
    /\ \A r \in Replicas :
          /\ WF_vars(part = "breaker" /\ Cool(r))
          /\ \A s \in Slots : r = Busy \/ s = OnlySlot => WF_vars(part = "breaker" /\ Request(r, s))
    /\ WF_opVars(part = "operator" /\ OpStep)
    /\ WF_opVars(part = "operator" /\ StartOperator)
    /\ WF_opVars(part = "operator" /\ OnTick)
    /\ WF_opVars(part = "operator" /\ InformerDelivers)
    /\ WF_lifeVars(/\ part = "gateway"
                   /\ BeginRun \/ SeeSignal \/ BeginShutdown \/ EndShutdown \/ TimeLimit
                      \/ RunHook \/ CloseBus \/ BusLimit \/ CloseDatabase \/ ExitProcess)
    /\ \A r \in Requests : WF_lifeVars(part = "gateway" /\ WriteRecord(r))

LoopsSpec == LoopsInit /\ [][LoopsNext]_<<part, vars, opVars, lifeVars>> /\ LoopsFairness
=============================================================================

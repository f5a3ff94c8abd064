---------------------------- MODULE BudgetAccount ----------------------------
(***************************************************************************)
(* What the budget store promises its callers (ConsumeBudgets,             *)
(* ReserveBudgets, CommitBudgets and ReleaseBudgets of one scope under the  *)
(* hard_reject policy): every request is answered as if one account were    *)
(* charged in one step.  It is granted only if the budget has room for it,  *)
(* and refused only if the budget has none.  The answer may come later than *)
(* the charge, and it may be an error: the caller is not told whether it was *)
(* charged, and what was charged stays so.  Once Redis has failed, or the   *)
(* budget is changed, the account is degraded: what is asked is answered,   *)
(* but nothing is promised of the answer.                                   *)
(***************************************************************************)
EXTENDS Integers

CONSTANTS Requests, Cost, Budget

VARIABLES
    charged, held,   \* the amounts granted
    answer,          \* of each request: none, charging, holding, held, settled,
                     \* rejected or failed
    degraded

accountVars == <<charged, held, answer, degraded>>

AccountInit ==
    /\ charged = 0 /\ held = 0
    /\ answer = [r \in Requests |-> "none"]
    /\ degraded = FALSE

HasRoom(r) == charged + held + Cost[r] <= Budget

Answers(r, before, after) ==
    /\ answer[r] = before
    /\ answer' = [answer EXCEPT ![r] = after]

ConsumeBudget(r) ==
    /\ HasRoom(r) \/ degraded
    /\ \E after \in {"charging", "settled"} : Answers(r, "none", after)
    /\ charged' = charged + Cost[r] /\ UNCHANGED <<held, degraded>>

ReserveBudget(r) ==
    /\ HasRoom(r) \/ degraded
    /\ \E after \in {"holding", "held"} : Answers(r, "none", after)
    /\ held' = held + Cost[r] /\ UNCHANGED <<charged, degraded>>

RejectRequest(r) ==
    /\ ~HasRoom(r) \/ degraded
    /\ Answers(r, "none", "rejected")
    /\ UNCHANGED <<charged, held, degraded>>

CommitBudget(r) ==
    /\ \E after \in {"charging", "settled"} : Answers(r, "held", after)
    /\ held' = held - Cost[r] /\ charged' = charged + Cost[r]
    /\ UNCHANGED degraded

ReleaseBudget(r) ==
    /\ \E after \in {"charging", "settled"} : Answers(r, "held", after)
    /\ held' = held - Cost[r] /\ UNCHANGED <<charged, degraded>>

\* What was charged is answered; Redis may fail meanwhile.
AnswerRequest(r) ==
    /\ Answers(r, "charging", "settled") \/ Answers(r, "holding", "held")
    /\ degraded' \in {degraded, TRUE}
    /\ UNCHANGED <<charged, held>>

\* The caller gets an error, charged or not.
FailRequest(r) ==
    /\ \E before \in {"none", "charging", "holding", "held"} : Answers(r, before, "failed")
    /\ degraded' \in {degraded, TRUE}
    /\ UNCHANGED <<charged, held>>

Degrade ==
    /\ degraded' = TRUE
    /\ UNCHANGED <<charged, held, answer>>

AccountNext ==
    \/ \E r \in Requests : \/ ConsumeBudget(r) \/ ReserveBudget(r) \/ RejectRequest(r)
                           \/ CommitBudget(r) \/ ReleaseBudget(r)
                           \/ AnswerRequest(r) \/ FailRequest(r)
    \/ Degrade

AccountSpec == AccountInit /\ [][AccountNext]_accountVars
=============================================================================

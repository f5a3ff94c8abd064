--------------------------- MODULE MCBudgetLedger ---------------------------
(***************************************************************************)
(* Small instances of BudgetLedger: with failing calls and dying flushers,  *)
(* and with an administrator who changes the budget.  A behaviour is one of *)
(* the one or the other.                                                   *)
(***************************************************************************)
EXTENDS BudgetLedger

\* The first request costs one unit, the others two.
Costs == [r \in Requests |-> IF r = CHOOSE q \in Requests : TRUE THEN 1 ELSE 2]

CONSTANTS
    Reserver,       \* the request that may reserve when there is an administrator
    MaxDisturbed    \* bound on failed calls and deaths together

VARIABLE part       \* "faults" or "administrator"

LedgerInit == Init /\ part \in {"faults", "administrator"}

LedgerNext ==
    /\ Next
    /\ IF part = "faults" THEN (\A a \in Admins : pc'[a] = "idle") /\ faults' + crashes' <= MaxDisturbed
                          ELSE /\ faults' = 0 /\ crashes' = 0
                               /\ \A r \in Requests \ {Reserver} : want'[r] = "consume"
    /\ UNCHANGED part

LedgerSpec == LedgerInit /\ [][LedgerNext]_<<vars, part>> /\ Fairness

=============================================================================

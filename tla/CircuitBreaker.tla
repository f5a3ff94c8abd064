--------------------------- MODULE CircuitBreaker ---------------------------
(***************************************************************************)
(* The circuit breaker of service/responses/circuit_breaker.go for one     *)
(* tenant and provider (keys share no state), in every replica of the      *)
(* gateway, with the snapshot in Redis that all replicas share.            *)
(*                                                                         *)
(* Requests call IsAvailable, go upstream without the lock, and report     *)
(* RecordSuccess or RecordFailure when the breaker may have changed state. *)
(* Time is one flag: cooled says that RecoveryTimeout has passed since     *)
(* lastFailure.  TryAcquireHalfOpenRequest and ReleaseHalfOpenRequest have *)
(* no caller outside the tests, so no action stands for them.              *)
(***************************************************************************)
EXTENDS Naturals, FiniteSets

CONSTANTS
    Replicas,             \* gateway processes
    Slots,                \* requests one replica serves at the same time
    FailureThreshold,
    HalfOpenMaxRequests,
    MaxRestart            \* bound: restarts of a replica

ASSUME BreakerAssumption ==
    /\ FailureThreshold \in Nat
    /\ HalfOpenMaxRequests \in Nat
    /\ MaxRestart \in Nat

VARIABLES
    cb,        \* the ProviderState of each replica; known: the map has the key
    flight,    \* what each request is doing
    snap,      \* the state under circuit_breaker:states in Redis, if any
    run,       \* history: failures recorded since the last success, capped
    restored,  \* history: the state of the replica came from the snapshot
    restarts   \* restarts so far

vars == <<cb, flight, snap, run, restored, restarts>>

States == {"closed", "open", "half-open"}

Unknown == [known |-> FALSE, state |-> "closed", failures |-> 0, cooled |-> TRUE,
            halfOpenRequests |-> 0]

Init ==
    /\ cb = [r \in Replicas |-> Unknown]
    /\ flight = [r \in Replicas |-> [s \in Slots |-> "idle"]]
    /\ snap = "absent"
    /\ run = [r \in Replicas |-> 0]
    /\ restored = [r \in Replicas |-> FALSE]
    /\ restarts = [r \in Replicas |-> 0]

-----------------------------------------------------------------------------
(* The methods of CircuitBreaker, each under its mutex.                     *)

MaxProbes == IF HalfOpenMaxRequests = 0 THEN 1 ELSE HalfOpenMaxRequests

\* Mutant: an open breaker never asks whether RecoveryTimeout has passed.
Available_NoRecovery(b) == b.state # "open"
\* The result of IsAvailable.
Available(b) ==
    \/ b.state = "closed"
    \/ b.state = "open" /\ b.cooled
    \/ b.state = "half-open" /\ b.halfOpenRequests < MaxProbes

\* The state IsAvailable leaves behind.
AfterAvailable(b) ==
    IF b.state = "open" /\ b.cooled THEN [b EXCEPT !.state = "half-open"] ELSE b

\* Mutant: a success leaves the count of consecutive failures.
AfterSuccess_KeepsCount(b) == [b EXCEPT !.state = "closed"]
\* RecordSuccess: every state closes, an unknown key stays unknown.
AfterSuccess(b) ==
    IF b.known THEN [b EXCEPT !.state = "closed", !.failures = 0] ELSE b

Trips(n) == n >= FailureThreshold

\* A closed breaker opens at the threshold, a half-open one at once.
FailedState(b) ==
    IF b.state = "closed" /\ ~Trips(b.failures + 1) THEN "closed" ELSE "open"

FailedCount(b) ==
    IF b.state = "closed" THEN b.failures + 1
    ELSE IF b.state = "half-open" THEN FailureThreshold
    ELSE b.failures

\* RecordFailure: lastFailure is set in every state, also when already open.
AfterFailure(b) ==
    [b EXCEPT !.known = TRUE, !.cooled = FALSE,
              !.state = FailedState(b), !.failures = FailedCount(b)]

\* RestoreState in a new process: failures start from zero, and an open state
\* gets a recent lastFailure.
Restored(s) ==
    IF s = "absent" THEN Unknown
    ELSE [Unknown EXCEPT !.known = TRUE, !.state = s, !.cooled = (s # "open")]

-----------------------------------------------------------------------------
(* The requests of a replica.                                               *)

Success(r) ==
    /\ cb' = [cb EXCEPT ![r] = AfterSuccess(@)]
    /\ run' = [run EXCEPT ![r] = 0]
    /\ restored' = [restored EXCEPT ![r] = @ /\ ~cb[r].known]

Failure(r) ==
    /\ cb' = [cb EXCEPT ![r] = AfterFailure(@)]
    /\ run' = [run EXCEPT ![r] = IF @ < FailureThreshold THEN @ + 1 ELSE @]
    /\ UNCHANGED restored

\* A candidate is tried: IsAvailable, then the call.  It probes when the
\* breaker is half-open.
Admit(r, s) ==
    /\ flight[r][s] = "idle"
    /\ Available(cb[r])
    /\ cb' = [cb EXCEPT ![r] = AfterAvailable(@)]
    /\ flight' = [flight EXCEPT ![r][s] =
                    IF AfterAvailable(cb[r]).state = "half-open" THEN "probing" ELSE "calling"]
    /\ UNCHANGED <<snap, run, restored, restarts>>

\* The upstream call fails.
CallFails(r, s) ==
    /\ flight[r][s] \in {"calling", "probing"}
    /\ Failure(r)
    /\ flight' = [flight EXCEPT ![r][s] = "idle"]
    /\ UNCHANGED <<snap, restarts>>

\* The upstream call succeeds; gateway owned tools may follow it.
CallSucceeds(r, s) ==
    /\ flight[r][s] \in {"calling", "probing"}
    /\ Success(r)
    /\ \E n \in {"idle", "tools"} : flight' = [flight EXCEPT ![r][s] = n]
    /\ UNCHANGED <<snap, restarts>>

\* The tool loop fails: a failure is recorded after the success.
ToolsFail(r, s) ==
    /\ flight[r][s] = "tools"
    /\ Failure(r)
    /\ flight' = [flight EXCEPT ![r][s] = "idle"]
    /\ UNCHANGED <<snap, restarts>>

\* The tool loop ends, or a cancelled stream ends without a record.
Leave(r, s) ==
    /\ flight[r][s] # "idle"
    /\ flight' = [flight EXCEPT ![r][s] = "idle"]
    /\ UNCHANGED <<cb, snap, run, restored, restarts>>

\* RecoveryTimeout passes after the last failure.
Cool(r) ==
    /\ ~cb[r].cooled
    /\ cb' = [cb EXCEPT ![r].cooled = TRUE]
    /\ UNCHANGED <<flight, snap, run, restored, restarts>>

-----------------------------------------------------------------------------
(* The snapshot in Redis and restarts.                                      *)

\* The ticker of the replica: PersistState writes the map of this replica over
\* whatever another one wrote.
PersistState(r) ==
    /\ snap' = IF cb[r].known THEN cb[r].state ELSE "absent"
    /\ UNCHANGED <<cb, flight, run, restored, restarts>>

\* The snapshot lives for five minutes.
SnapshotExpires ==
    /\ snap # "absent"
    /\ snap' = "absent"
    /\ UNCHANGED <<cb, flight, run, restored, restarts>>

\* A crash or an orderly stop loses the map; the new process restores it.
Restart(r) ==
    /\ restarts[r] < MaxRestart
    /\ restarts' = [restarts EXCEPT ![r] = @ + 1]
    /\ cb' = [cb EXCEPT ![r] = Restored(snap)]
    /\ run' = [run EXCEPT ![r] = 0]
    /\ restored' = [restored EXCEPT ![r] = snap # "absent"]
    /\ flight' = [flight EXCEPT ![r] = [s \in Slots |-> "idle"]]
    /\ UNCHANGED snap

Request(r, s) ==
    \/ Admit(r, s)
    \/ CallFails(r, s)
    \/ CallSucceeds(r, s)
    \/ ToolsFail(r, s)
    \/ Leave(r, s)

Next ==
    \/ \E r \in Replicas :
         \/ \E s \in Slots : Request(r, s)
         \/ Cool(r)
         \/ PersistState(r)
         \/ Restart(r)
    \/ SnapshotExpires

Spec == Init /\ [][Next]_vars

\* Time passes, a call ends (every upstream call has a timeout), and clients
\* keep sending requests.
Fairness ==
    \A r \in Replicas :
        /\ WF_vars(Cool(r))
        /\ \A s \in Slots : WF_vars(Request(r, s))

FairSpec == Spec /\ Fairness

-----------------------------------------------------------------------------
(* Properties.                                                              *)

\* The breakers, the requests and the snapshot keep their types.
TypeOK ==
    /\ cb \in [Replicas -> [known : BOOLEAN, state : States, failures : Nat,
                            cooled : BOOLEAN, halfOpenRequests : Nat]]
    /\ flight \in [Replicas -> [Slots -> {"idle", "calling", "probing", "tools"}]]
    /\ snap \in States \cup {"absent"}
    /\ run \in [Replicas -> 0..FailureThreshold]
    /\ restored \in [Replicas -> BOOLEAN]
    /\ restarts \in [Replicas -> Nat]

\* The configuration promises an open circuit after N consecutive failures:
\* no interleaving of calls that started before the breaker opened, probes and
\* tool loops opens it with fewer failures since the last success, unless a
\* snapshot says so.
OpensOnlyAfterThreshold ==
    \A r \in Replicas :
        cb[r].state # "closed" /\ ~restored[r] => run[r] = FailureThreshold

\* The other direction: N failures in a row never leave the breaker closed.
OpensAtThreshold ==
    \A r \in Replicas :
        cb[r].state = "closed" /\ cb[r].known /\ FailureThreshold > 0
            => run[r] < FailureThreshold

\* Probes run only after the recovery timeout of the last failure; a failure
\* during the probes ends them.
ProbesAreCooled ==
    \A r \in Replicas : cb[r].state = "half-open" => cb[r].cooled

\* An open breaker does not stay open: once the calls in flight have ended, a
\* request is let through, although every late failure restarts the timeout.
OpenEnds ==
    \A r \in Replicas : cb[r].state = "open" ~> cb[r].state # "open"

\* What the breaker of a replica promises its requests (IsAvailable, RecordSuccess, RecordFailure, RestoreState):
\* it opens only after, and always at, the threshold of failures in a row, and lets
\* nothing through to a failed provider before the recovery timeout.
BreakerSound == TypeOK /\ OpensOnlyAfterThreshold /\ OpensAtThreshold /\ ProbesAreCooled
=============================================================================

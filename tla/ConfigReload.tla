---------------------------- MODULE ConfigReload ----------------------------
(***************************************************************************)
(* Hot reload of the configuration (app/config/reloader.go, called by the  *)
(* admin handler's ReloadConfig): the file is read and validated, then     *)
(* pushed to the limiter, the router, the alert service and the provider   *)
(* manager in this order; when one of them refuses it, the ones before it  *)
(* are given the previous configuration again.  Requests to reload may     *)
(* overlap: nothing serialises them.                                       *)
(*                                                                         *)
(* A configuration is a version of the file.  A Reloadable may return an   *)
(* error at any time, as its interface allows.                             *)
(***************************************************************************)
EXTENDS Integers, Sequences

CONSTANTS Reloads,         \* requests to reload
          Versions,        \* versions of the file, 1 the one of the start
          Refused,         \* versions that Load or Validate refuses
          MaxApplyFaults   \* how many times a component refuses a version

ASSUME ReloadAssumption ==
    /\ Versions \subseteq Nat \ {0} /\ 1 \in Versions \ Refused
    /\ MaxApplyFaults \in Nat

\* The services registered with the reloader, in the order of their registration.
Items == <<"limiter", "router", "alert", "provider">>

VARIABLES inForce,      \* for each service, the version that it runs with
          fileVersion,  \* the version in the file
          known,        \* the reloader's cached version, 0 before a first success
          reloadOf,     \* for each request, where it is
          refusals,     \* how many times a service refused a version
          mixed         \* a reload overlapped another, or could not be rolled back

reloadVars == <<inForce, fileVersion, known, reloadOf, refusals, mixed>>

Idle == [at |-> 0, new |-> 0, old |-> 0, back |-> 0]

ReloadInit ==
    /\ inForce = [i \in DOMAIN Items |-> 1]
    /\ fileVersion = 1 /\ known = 0
    /\ reloadOf = [r \in Reloads |-> Idle]
    /\ refusals = 0 /\ mixed = FALSE

-----------------------------------------------------------------------------
Working(r) == reloadOf[r].at # 0
EditFile(v) == /\ v # fileVersion /\ fileVersion' = v
               /\ UNCHANGED <<inForce, known, reloadOf, refusals, mixed>>

\* What Load and the services' Validate accept.
Validates(v) == v \notin Refused

\* The file is read and every service validates it before the first is changed.
\* One that does not validate ends the request without a change.
LoadAndValidate(r) ==
    /\ ~Working(r) /\ Validates(fileVersion)
    /\ reloadOf' = [reloadOf EXCEPT ![r] = [at |-> 1, new |-> fileVersion, old |-> known, back |-> 0]]
    /\ mixed' = (mixed \/ \E o \in Reloads : Working(o))
    /\ UNCHANGED <<inForce, fileVersion, known, refusals>>

\* The next service takes the version; the reload that has passed the last one is
\* what the reloader remembers.
ApplyItem(r) ==
    LET at == reloadOf[r].at
    IN  /\ Working(r) /\ reloadOf[r].back = 0
        /\ inForce' = [inForce EXCEPT ![at] = reloadOf[r].new]
        /\ IF at = Len(Items)
           THEN known' = reloadOf[r].new /\ reloadOf' = [reloadOf EXCEPT ![r] = Idle]
           ELSE reloadOf' = [reloadOf EXCEPT ![r].at = @ + 1] /\ UNCHANGED known
        /\ UNCHANGED <<fileVersion, refusals, mixed>>

\* How many of the services before the one that refused are given the old version:
\* all of them, or none when there is no version to give.
ToRollBack(r) == IF reloadOf[r].old = 0 THEN 0 ELSE reloadOf[r].at - 1

\* A service that refuses keeps its version.  (The manager has then registered the statistics of the
\* providers before the one it could not make: those are counters, and no provider in force.)
ItemRefuses(r) ==
    /\ Working(r) /\ reloadOf[r].back = 0 /\ refusals < MaxApplyFaults
    /\ refusals' = refusals + 1
    /\ reloadOf' = [reloadOf EXCEPT ![r] = IF ToRollBack(r) = 0 THEN Idle
                                           ELSE [@ EXCEPT !.back = 1]]
    /\ mixed' = (mixed \/ (reloadOf[r].old = 0 /\ reloadOf[r].at > 1))
    /\ UNCHANGED <<inForce, fileVersion, known>>

\* From the first service on; one that refuses the old version too is passed over.
RollBackItem(r) ==
    LET back == reloadOf[r].back
    IN  /\ back # 0
        /\ \/ inForce' = [inForce EXCEPT ![back] = reloadOf[r].old] /\ UNCHANGED <<refusals, mixed>>
           \/ refusals < MaxApplyFaults /\ refusals' = refusals + 1 /\ mixed' = TRUE /\ UNCHANGED inForce
        /\ reloadOf' = [reloadOf EXCEPT ![r] = IF back = reloadOf[r].at - 1 THEN Idle
                                               ELSE [@ EXCEPT !.back = back + 1]]
        /\ UNCHANGED <<fileVersion, known>>

ReloadNext ==
    \/ \E v \in Versions : EditFile(v)
    \/ \E r \in Reloads : LoadAndValidate(r) \/ ApplyItem(r) \/ ItemRefuses(r) \/ RollBackItem(r)

ReloadSpec == ReloadInit /\ [][ReloadNext]_reloadVars

-----------------------------------------------------------------------------
\* A service runs with a version that was valid, whatever reloads overlap or fail.
ReloadTypeOK ==
    /\ inForce \in [DOMAIN Items -> Versions \ Refused]
    /\ known \in (Versions \ Refused) \cup {0}
    /\ \A r \in Reloads : reloadOf[r].at \in 0 .. Len(Items) /\ reloadOf[r].back < Len(Items)

\* Between reloads all services run with one version, the one that the reloader
\* remembers once it remembers one.  A reload that ran across another, a service that
\* refused the old version too, and a refusal before the first success are what can
\* leave them apart (reloader.go Reload).
ServicesAgree ==
    (~mixed /\ \A r \in Reloads : ~Working(r)) =>
        /\ \A i, j \in DOMAIN Items : inForce[i] = inForce[j]
        /\ known # 0 => inForce[1] = known

\* The reloader: between reloads the services agree on a version.
ReloadSound == ReloadTypeOK /\ ServicesAgree
=============================================================================

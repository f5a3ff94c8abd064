---------------------------- MODULE BudgetLedger ----------------------------
(***************************************************************************)
(* The Redis ledger of one budget scope, internal/repository/sqlstore/     *)
(* budget_ledger.go, between the requests that consume or reserve budget,  *)
(* the processes that flush its deltas to the SQL row, the administrators  *)
(* who change the budget, and the transactions used when Redis fails.      *)
(***************************************************************************)
EXTENDS Integers

CONSTANTS
    Requests,
    Flushers,    \* event-bus workers and the ticker of FlushBudgetLedgerDeltas
    Admins,      \* each changes the budget once
    NoOne,
    Cost,        \* amount of a request
    Budget,      \* the budget at first, and the largest that is set
    MaxFaults,   \* bound: failed Redis calls
    MaxCrash     \* bound: processes that die

Procs == Requests \cup Flushers \cup Admins

ASSUME LedgerAssumption ==
    /\ Requests \cap Flushers = {} /\ Requests \cap Admins = {} /\ Flushers \cap Admins = {}
    /\ NoOne \notin Procs
    /\ Cost \in [Requests -> Nat \ {0}]
    /\ Budget \in Nat \ {0}
    /\ MaxFaults \in Nat /\ MaxCrash \in Nat

VARIABLES
    db,         \* the row of the scope: budget, spent, reserved
    hash,       \* the ledger hash; a missing field reads as 0
    hashed,     \* the hash exists
    initLock, flushLock,   \* the process that set the key, or NoOne
    pc,         \* where a process is
    want,       \* what a request is doing
    loaded,     \* the row a request has read to initialise the hash
    delta,      \* the deltas a process has read to flush them
    charged, held,   \* history: amounts granted as spent, and as reserved
    faults, crashes

ledger == <<hash, hashed>>
locks  == <<initLock, flushLock>>
grants == <<charged, held>>
bounds == <<faults, crashes>>
vars == <<db, hash, hashed, initLock, flushLock, pc, want, loaded, delta, charged,
          held, faults, crashes>>

NoHash  == [budget |-> 0, spent |-> 0, reserved |-> 0, dspent |-> 0, dres |-> 0]
NoDelta == [spent |-> 0, res |-> 0]
NewRow  == [budget |-> Budget, spent |-> 0, reserved |-> 0]

Init ==
    /\ db = NewRow
    /\ hash = NoHash
    /\ hashed = FALSE
    /\ initLock = NoOne
    /\ flushLock = NoOne
    /\ pc = [p \in Procs |-> "idle"]
    /\ want = [r \in Requests |-> "consume"]
    /\ loaded = [r \in Requests |-> NewRow]
    /\ delta = [p \in Procs |-> NoDelta]
    /\ charged = 0
    /\ held = 0
    /\ faults = 0
    /\ crashes = 0

Goto(p, where) == pc' = [pc EXCEPT ![p] = where]

-----------------------------------------------------------------------------
(* What an operation does to a ledger, in the scripts and in SQL.           *)

\* The hard_reject policy; a budget of zero is no limit.
Fits(b, spent, reserved, cost) == b <= 0 \/ spent + reserved + cost <= b

SpentBy(r) == IF want[r] \in {"consume", "commit"} THEN Cost[r] ELSE 0

ReservedBy(r) ==
    IF want[r] = "reserve" THEN Cost[r]
    ELSE IF want[r] \in {"commit", "release"} THEN -Cost[r] ELSE 0

\* The amounts of r are granted.
Grant(r) ==
    /\ charged' = charged + SpentBy(r)
    /\ held' = held + ReservedBy(r)

\* HINCRBYFLOAT creates the hash if it is missing.
ApplyScript(r) ==
    /\ hashed' = TRUE
    /\ hash' = [budget |-> hash.budget,
                spent |-> hash.spent + SpentBy(r), reserved |-> hash.reserved + ReservedBy(r),
                dspent |-> hash.dspent + SpentBy(r), dres |-> hash.dres + ReservedBy(r)]

\* Mutant: what is reserved is checked against the budget again when it is committed.
Admits_Again(r, b, spent, reserved) == want[r] # "release" => Fits(b, spent, reserved, Cost[r])
\* Commit and release are never refused.
Admits(r, b, spent, reserved) ==
    want[r] \in {"consume", "reserve"} => Fits(b, spent, reserved, Cost[r])

-----------------------------------------------------------------------------
(* ensureBudgetLedgerScope and waitRedisKey.                                *)

StartRequest(r) ==
    /\ pc[r] = "idle"
    /\ \E w \in {"consume", "reserve"} : want' = [want EXCEPT ![r] = w]
    /\ Goto(r, "ensure")
    /\ UNCHANGED <<db, ledger, locks, loaded, delta, grants, bounds>>

\* The caller's answer has come: CommitBudgets or ReleaseBudgets.
SettleReservation(r) ==
    /\ pc[r] = "held"
    /\ \E w \in {"commit", "release"} : want' = [want EXCEPT ![r] = w]
    /\ Goto(r, "ensure")
    /\ UNCHANGED <<db, ledger, locks, loaded, delta, grants, bounds>>

EnsureExists(r) ==
    /\ pc[r] = "ensure"
    /\ Goto(r, IF hashed THEN "eval" ELSE "lock")
    /\ UNCHANGED <<db, ledger, locks, want, loaded, delta, grants, bounds>>

TakeInitLock(r) ==
    /\ pc[r] = "lock"
    /\ IF initLock = NoOne
       THEN Goto(r, "check") /\ initLock' = r
       ELSE Goto(r, "wait") /\ UNCHANGED initLock
    /\ UNCHANGED <<db, ledger, flushLock, want, loaded, delta, grants, bounds>>

\* The key appears, or the process that was to write it has failed and after
\* 250 ms the request uses the transactions.
WaitRedisKey(r) ==
    /\ pc[r] = "wait"
    /\ \/ hashed /\ Goto(r, "eval")
       \/ ~hashed /\ initLock = NoOne /\ Goto(r, "sql")
    /\ UNCHANGED <<db, ledger, locks, want, loaded, delta, grants, bounds>>

\* The second look, with the lock.
FoundAgain == hashed

CheckAgain(r) ==
    /\ pc[r] = "check"
    /\ IF FoundAgain THEN Goto(r, "eval") /\ initLock' = NoOne
       ELSE Goto(r, "load") /\ UNCHANGED initLock
    /\ UNCHANGED <<db, ledger, flushLock, want, loaded, delta, grants, bounds>>

LoadScope(r) ==
    /\ pc[r] = "load"
    /\ loaded' = [loaded EXCEPT ![r] = db]
    /\ Goto(r, "hset")
    /\ UNCHANGED <<db, ledger, locks, want, delta, grants, bounds>>

WriteHash(r) ==
    /\ pc[r] = "hset"
    /\ hashed' = TRUE
    /\ hash' = [budget |-> loaded[r].budget, spent |-> loaded[r].spent,
                reserved |-> loaded[r].reserved, dspent |-> 0, dres |-> 0]
    /\ initLock' = NoOne
    /\ loaded' = [loaded EXCEPT ![r] = NewRow]
    /\ Goto(r, "eval")
    /\ UNCHANGED <<db, flushLock, want, delta, grants, bounds>>

-----------------------------------------------------------------------------
(* The scripts, the transactions, and the publication of the change.        *)

Eval(r) ==
    /\ pc[r] = "eval"
    /\ IF Admits(r, hash.budget, hash.spent, hash.reserved)
       THEN ApplyScript(r) /\ Grant(r) /\ Goto(r, "publish")
       ELSE Goto(r, "rejected") /\ UNCHANGED <<ledger, grants>>
    /\ UNCHANGED <<db, locks, want, loaded, delta, bounds>>

\* A Redis call fails or the wait is too long: the request uses the transactions.
\* A script may have run although its answer is lost; nothing is granted for it.
RedisFails(r) ==
    /\ pc[r] \in {"ensure", "lock", "wait", "check", "load", "hset", "eval"}
    /\ faults < MaxFaults
    /\ faults' = faults + 1
    /\ Goto(r, "sql")
    /\ initLock' = IF pc[r] \in {"check", "load", "hset"} THEN NoOne ELSE initLock
    /\ \/ UNCHANGED ledger
       \/ /\ pc[r] = "eval"
          /\ Admits(r, hash.budget, hash.spent, hash.reserved)
          /\ ApplyScript(r)
    /\ loaded' = [loaded EXCEPT ![r] = NewRow]
    /\ UNCHANGED <<db, flushLock, want, delta, grants, crashes>>

AfterGrant(r) == IF want[r] = "reserve" THEN "held" ELSE "done"

\* consumeBudgetsPG looks at spent only, ReserveBudgets at reserved too.
Transaction(r) ==
    /\ pc[r] = "sql"
    /\ IF Admits(r, db.budget, db.spent, IF want[r] = "reserve" THEN db.reserved ELSE 0)
       THEN /\ db' = [budget |-> db.budget, spent |-> db.spent + SpentBy(r),
                       reserved |-> db.reserved + ReservedBy(r)]
            /\ Grant(r)
            /\ Goto(r, AfterGrant(r))
       ELSE Goto(r, "rejected") /\ UNCHANGED <<db, grants>>
    /\ UNCHANGED <<ledger, locks, want, loaded, delta, bounds>>

\* The transaction fails and is rolled back; the caller gets the error.
TransactionFails(r) ==
    /\ pc[r] = "sql"
    /\ Goto(r, "failed")
    /\ UNCHANGED <<db, ledger, locks, want, loaded, delta, grants, bounds>>

\* publishBudgetLedgerFlush: the bus takes the event, or the request flushes.
Publish(r) ==
    /\ pc[r] = "publish"
    /\ Goto(r, AfterGrant(r)) \/ Goto(r, "flush")
    /\ UNCHANGED <<db, ledger, locks, want, loaded, delta, grants, bounds>>

-----------------------------------------------------------------------------
(* flushBudgetScopeDelta.                                                   *)

FlushReturns(p) ==
    Goto(p, IF p \in Requests THEN AfterGrant(p) ELSE IF p \in Admins THEN "del" ELSE "idle")

\* The caller gets the error of its own flush although its script has run; the others
\* ignore it.
FlushErrs(p) ==
    Goto(p, IF p \in Requests THEN "failed" ELSE IF p \in Admins THEN "del" ELSE "idle")

StartFlush(f) ==
    /\ f \in Flushers
    /\ pc[f] = "idle"
    /\ Goto(f, "flush")
    /\ UNCHANGED <<db, ledger, locks, want, loaded, delta, grants, bounds>>

\* Mutant: two processes flush at a time.
MayFlush_Unlocked == TRUE
\* The flush lock is free.
MayFlush == flushLock = NoOne

TakeFlushLock(p) ==
    /\ pc[p] = "flush"
    /\ IF MayFlush THEN Goto(p, "readspent") /\ flushLock' = p
       ELSE FlushReturns(p) /\ UNCHANGED flushLock
    /\ UNCHANGED <<db, ledger, initLock, want, loaded, delta, grants, bounds>>

ReadSpentDelta(p) ==
    /\ pc[p] = "readspent"
    /\ delta' = [delta EXCEPT ![p] = [spent |-> hash.dspent, res |-> 0]]
    /\ Goto(p, "readreserved")
    /\ UNCHANGED <<db, ledger, locks, want, loaded, grants, bounds>>

\* Mutant: both deltas must have changed.
NothingToFlush_Either(p) == delta[p].spent = 0 \/ hash.dres = 0
NothingToFlush(p) == delta[p].spent = 0 /\ hash.dres = 0

ReadReservedDelta(p) ==
    /\ pc[p] = "readreserved"
    /\ delta' = [delta EXCEPT ![p].res = hash.dres]
    /\ IF NothingToFlush(p)
       THEN FlushReturns(p) /\ flushLock' = NoOne
       ELSE Goto(p, "update") /\ UNCHANGED flushLock
    /\ UNCHANGED <<db, ledger, initLock, want, loaded, grants, bounds>>

\* The deltas are added to the row; reserved_usd does not fall below zero.
FlushUpdate(p) ==
    /\ pc[p] = "update"
    /\ db' = [budget |-> db.budget, spent |-> db.spent + delta[p].spent,
              reserved |-> LET sum == db.reserved + delta[p].res IN IF sum < 0 THEN 0 ELSE sum]
    /\ Goto(p, "clear")
    /\ UNCHANGED <<ledger, locks, want, loaded, delta, grants, bounds>>

\* Mutant: the delta is set to zero instead of being reduced by what was flushed.
Remaining_Zero(now, flushed) == 0
Remaining(now, flushed) == now - flushed

\* HINCRBYFLOAT of a negated delta: it creates a missing hash, and that it fails
\* is not noticed.
Reduces(field, flushed) ==
    \/ hash' = [hash EXCEPT ![field] = Remaining(@, flushed)] /\ hashed' = TRUE /\ UNCHANGED faults
    \/ faults < MaxFaults /\ faults' = faults + 1 /\ UNCHANGED ledger

FlushClearSpent(p) ==
    /\ pc[p] = "clear"
    /\ IF delta[p].spent # 0 THEN Reduces("dspent", delta[p].spent)
       ELSE UNCHANGED <<ledger, faults>>
    /\ Goto(p, "clearres")
    /\ delta' = [delta EXCEPT ![p].spent = 0]
    /\ UNCHANGED <<db, locks, want, loaded, grants, crashes>>

FlushClearReserved(p) ==
    /\ pc[p] = "clearres"
    /\ IF delta[p].res # 0 THEN Reduces("dres", delta[p].res)
       ELSE UNCHANGED <<ledger, faults>>
    /\ flushLock' = NoOne
    /\ FlushReturns(p)
    /\ delta' = [delta EXCEPT ![p] = NoDelta]
    /\ UNCHANGED <<db, initLock, want, loaded, grants, crashes>>

\* The SETNX, a read or the UPDATE fails and the deltas stay where they are.
FlushFails(p) ==
    /\ \/ /\ pc[p] \in {"flush", "readspent", "readreserved"}
          /\ faults < MaxFaults /\ faults' = faults + 1
       \/ pc[p] = "update" /\ UNCHANGED faults
    /\ flushLock' = IF pc[p] = "flush" THEN flushLock ELSE NoOne
    /\ FlushErrs(p)
    /\ delta' = [delta EXCEPT ![p] = NoDelta]
    /\ UNCHANGED <<db, ledger, initLock, want, loaded, grants, crashes>>

-----------------------------------------------------------------------------
(* UpdateTenant and its kind: the row, then invalidateBudgetLedgerScope.    *)

UpdateBudget(a) ==
    /\ a \in Admins
    /\ pc[a] = "idle"
    /\ \E b \in 1..Budget : db' = [db EXCEPT !.budget = b]
    /\ Goto(a, "flush")
    /\ UNCHANGED <<ledger, locks, want, loaded, delta, grants, bounds>>

DeleteHash(a) ==
    /\ pc[a] = "del"
    /\ hashed' = FALSE
    /\ hash' = NoHash
    /\ Goto(a, "done")
    /\ UNCHANGED <<db, locks, want, loaded, delta, grants, bounds>>

-----------------------------------------------------------------------------
(* The death of a flushing process, and the expiry of the lock it held.     *)

\* The process dies and a new one takes its place.
Crash(f) ==
    /\ f \in Flushers
    /\ pc[f] # "idle"
    /\ crashes < MaxCrash
    /\ crashes' = crashes + 1
    /\ Goto(f, "idle")
    /\ delta' = [delta EXCEPT ![f] = NoDelta]
    /\ UNCHANGED <<db, ledger, locks, want, loaded, grants, faults>>

FlushLockExpires ==
    /\ flushLock # NoOne
    /\ pc[flushLock] \notin {"readspent", "readreserved", "update", "clear", "clearres"}
    /\ flushLock' = NoOne
    /\ UNCHANGED <<db, ledger, initLock, pc, want, loaded, delta, grants, bounds>>

-----------------------------------------------------------------------------
Request(r) ==
    \/ StartRequest(r) \/ SettleReservation(r) \/ EnsureExists(r) \/ TakeInitLock(r)
    \/ WaitRedisKey(r) \/ CheckAgain(r) \/ LoadScope(r) \/ WriteHash(r) \/ Eval(r)
    \/ Transaction(r) \/ Publish(r)

Flush(p) ==
    \/ TakeFlushLock(p) \/ ReadSpentDelta(p) \/ ReadReservedDelta(p)
    \/ FlushUpdate(p) \/ FlushClearSpent(p) \/ FlushClearReserved(p)

Next ==
    \/ \E r \in Requests : Request(r) \/ RedisFails(r) \/ TransactionFails(r)
    \/ \E p \in Procs : Flush(p) \/ FlushFails(p)
    \/ \E f \in Flushers : StartFlush(f) \/ Crash(f)
    \/ \E a \in Admins : UpdateBudget(a) \/ DeleteHash(a)
    \/ FlushLockExpires

Spec == Init /\ [][Next]_vars

\* Requests and flushes are scheduled, the ticker fires every five seconds, an
\* UPDATE that is tried again and again succeeds, locks expire.
Fairness ==
    /\ \A r \in Requests : WF_vars(Request(r))
    /\ \A p \in Procs : WF_vars(Flush(p)) /\ SF_vars(FlushUpdate(p))
    /\ \A f \in Flushers : WF_vars(StartFlush(f))
    /\ WF_vars(FlushLockExpires)

FairSpec == Spec /\ Fairness

-----------------------------------------------------------------------------
(* Properties.                                                              *)

\* Type invariant.
TypeOK ==
    /\ db \in [budget : 1..Budget, spent : Int, reserved : Int]
    /\ hash \in [budget : 0..Budget, spent : Int, reserved : Int, dspent : Int, dres : Int]
    /\ hashed \in BOOLEAN
    /\ initLock \in {NoOne} \cup Requests
    /\ flushLock \in {NoOne} \cup Procs
    /\ pc \in [Procs -> {"idle", "ensure", "lock", "wait", "check", "load", "hset", "eval",
                         "sql", "publish", "held", "rejected", "failed", "done", "flush",
                         "readspent", "readreserved", "update", "clear", "clearres", "del"}]
    /\ want \in [Requests -> {"consume", "reserve", "commit", "release"}]
    /\ loaded \in [Requests -> [budget : 1..Budget, spent : Int, reserved : Int]]
    /\ delta \in [Procs -> [spent : Int, res : Int]]
    /\ charged \in Nat /\ held \in Nat
    /\ faults \in 0..MaxFaults /\ crashes \in 0..MaxCrash

\* No call has failed and no process has died.
Undisturbed == faults = 0 /\ crashes = 0

\* No administrator has changed the budget.
Unchanged == \A a \in Admins : pc[a] = "idle"

\* The hard_reject policy of the scripts: however requests, reservations, flushes
\* and dying flushers interleave, no more is granted than the budget allows.  A
\* failed call sends a request to the row, which does not have the deltas yet; a
\* smaller budget is not below what was granted before.
WithinBudget == faults = 0 /\ Unchanged => charged + held <= Budget

\* flushBudgetScopeDelta: every amount granted is in the row or in a delta, once.
\* A process between its UPDATE and its HINCRBYFLOATs has its deltas in both.  What
\* is granted while an administrator deletes the hash is lost.
Accounted ==
    Undisturbed /\ Unchanged =>
        \/ \E p \in Procs :
              /\ pc[p] \in {"clear", "clearres"}
              /\ db.spent + hash.dspent - delta[p].spent = charged
              /\ db.reserved + hash.dres - delta[p].res = held
        \/ /\ \A p \in Procs : pc[p] \notin {"clear", "clearres"}
           /\ db.spent + hash.dspent = charged
           /\ db.reserved + hash.dres = held

\* Failed calls, lost answers and dying flushers may count an amount twice, but
\* no amount granted is missing from both the row and the deltas, as long as the
\* ledger is not deleted.
NotUndercounted == Unchanged => charged <= db.spent + hash.dspent

\* Flushes and invalidations never bring an amount into the row that was not
\* granted, or the same one twice, while processes and Redis are alive.
RowNotOverstated == Undisturbed => db.spent <= charged

\* The scripts and flushBudgetScopeDelta in every interleaving: the budget holds, what is
\* granted is not missing, and nothing is in the row that was not granted.
LedgerSound == TypeOK /\ WithinBudget /\ NotUndercounted /\ RowNotOverstated

\* publishBudgetLedgerFlush and the ticker: what is granted reaches the row, also
\* after a flusher has died, and exactly if nothing failed.
SpentReachesRow ==
    <>[](Unchanged =>
         /\ charged <= db.spent
         /\ Undisturbed => db.spent = charged /\ db.reserved = held)

-----------------------------------------------------------------------------
(* The ledger implements one account (BudgetAccount): the hash, its deltas, *)
(* the row, the locks and the flushes are hidden.                           *)

\* Where a request is before its script or its transaction has decided.
Undecided == {"idle", "ensure", "lock", "wait", "check", "load", "hset", "eval", "sql"}

\* A script that has run is answered after its flush, with an error if that fails.
AnswerOf(r) ==
    IF pc[r] \in {"rejected", "failed", "held"} THEN pc[r]
    ELSE IF pc[r] = "done" THEN "settled"
    ELSE IF pc[r] \in Undecided
         THEN IF want[r] \in {"consume", "reserve"} THEN "none" ELSE "held"
    ELSE IF want[r] = "reserve" THEN "holding" ELSE "charging"

Account == INSTANCE BudgetAccount WITH
    answer <- [r \in Requests |-> AnswerOf(r)],
    degraded <- faults > 0 \/ ~Unchanged

\* However requests, initialisations of the hash, flushes and dying flushers interleave,
\* the callers of the store see one account that is charged in one step: a request is
\* refused only when the budget really has no room, and settled once; one that is told of
\* an error may have been charged, at most once.
ImplementsAccount == Account!AccountSpec
=============================================================================

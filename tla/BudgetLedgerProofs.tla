------------------------- MODULE BudgetLedgerProofs -------------------------
(***************************************************************************)
(* Proofs about BudgetLedger for any number of requests, flushers and      *)
(* administrators, any costs and any budget, any number of failed Redis    *)
(* calls and of processes that die.                                        *)
(***************************************************************************)
EXTENDS BudgetLedger, TLAPS

-----------------------------------------------------------------------------
(* The strengthening.                                                       *)

Critical     == {"readspent", "readreserved", "update", "clear", "clearres"}
Initialising == {"check", "load", "hset"}
Writing      == {"update", "clear", "clearres"}
Clearing     == {"clear", "clearres"}

\* A process that flushes has the flush lock, one that initialises the hash the other.
LocksOK ==
    /\ \A p \in Procs : pc[p] \in Critical => flushLock = p
    /\ \A r \in Requests : pc[r] \in Initialising => initLock = r

\* What a request wants goes with where it is.
WantOK ==
    \A r \in Requests :
        /\ pc[r] = "idle" => want[r] = "consume"
        /\ pc[r] = "held" => want[r] = "reserve"
        /\ pc[r] = "rejected" => want[r] \in {"consume", "reserve"}

\* The cost of r is reserved and not yet settled.
Holds(r) ==
    \/ want[r] = "reserve" /\ pc[r] \notin Undecided \cup {"rejected", "failed"}
    \/ want[r] \in {"commit", "release"} /\ pc[r] \in Undecided

\* The reservations fit side by side, without overlapping, in what is held.
PackedBy(base) ==
    \A r \in Requests : Holds(r) =>
        /\ base[r] + Cost[r] <= held
        /\ \A t \in Requests : Holds(t) /\ t # r =>
              base[r] + Cost[r] <= base[t] \/ base[t] + Cost[t] <= base[r]

Packed == held \in Nat /\ \E base \in [Requests -> Nat] : PackedBy(base)

\* Until an administrator deletes it the hash, once written, stays, and a flush has
\* read no more than is there.
HashOK ==
    Unchanged =>
        /\ ~hashed => hash = NoHash
        /\ \A r \in Requests : /\ pc[r] = "eval" => hashed
                               /\ pc[r] \in {"load", "hset"} => ~hashed
        /\ \A p \in Procs : pc[p] \in Writing => hashed
        /\ hash.dspent >= 0
        /\ \A p \in Procs : pc[p] \in {"readreserved", "update", "clear"} =>
              0 <= delta[p].spent /\ delta[p].spent <= hash.dspent

\* Nothing that was granted is missing, not even what a flush will take from the deltas.
NotMissing ==
    Unchanged =>
        /\ charged <= db.spent + hash.dspent
        /\ \A p \in Procs : pc[p] = "clear" => charged <= db.spent + hash.dspent - delta[p].spent

\* The row and the deltas together hold no more than was granted, a flush under way counted
\* once, whether or not the hash is deleted meanwhile.
NotOver ==
    Undisturbed =>
        /\ db.spent <= charged
        /\ (\A p \in Procs : pc[p] # "clear") => db.spent + hash.dspent <= charged
        /\ \A p \in Procs :
              /\ pc[p] = "clear" => /\ db.spent + hash.dspent - delta[p].spent <= charged
                                    /\ db.spent - delta[p].spent <= charged
              /\ pc[p] \in {"readreserved", "update"} => db.spent + delta[p].spent <= charged

\* Without a failed call the hash has what was granted, from the first script on, and
\* nobody falls back to the row.
ScriptsOK ==
    faults = 0 /\ Unchanged =>
        /\ \A r \in Requests : /\ pc[r] # "sql"
                               /\ pc[r] = "wait" => hashed \/ initLock # NoOne
                               /\ pc[r] = "hset" => loaded[r] = NewRow
        /\ hashed => hash.spent = charged /\ hash.reserved = held /\ hash.budget = Budget
        /\ ~hashed => charged = 0 /\ held = 0 /\ db = NewRow
        /\ charged + held <= Budget

\* Undisturbed, row and deltas are exactly what was granted, and a reservation that is
\* flushed does not make the row negative.
Exact ==
    Undisturbed /\ Unchanged =>
        /\ (\A p \in Procs : pc[p] \notin Clearing) =>
              db.spent + hash.dspent = charged /\ db.reserved + hash.dres = held
        /\ \A p \in Procs :
              /\ pc[p] \in Clearing => /\ db.spent + hash.dspent - delta[p].spent = charged
                                       /\ db.reserved + hash.dres - delta[p].res = held
              /\ pc[p] = "clearres" => delta[p].spent = 0
              /\ pc[p] = "update" => db.reserved + delta[p].res >= 0

IInv ==
    /\ TypeOK
    /\ LocksOK
    /\ WantOK
    /\ Packed
    /\ HashOK
    /\ NotMissing
    /\ NotOver
    /\ ScriptsOK
    /\ Exact
-----------------------------------------------------------------------------
(* Types.                                                                   *)

Places == {"idle", "ensure", "lock", "wait", "check", "load", "hset", "eval", "sql", "publish",
           "held", "rejected", "failed", "done", "flush", "readspent", "readreserved", "update",
           "clear", "clearres", "del"}
Rows   == [budget : 1..Budget, spent : Int, reserved : Int]
Hashes == [budget : 0..Budget, spent : Int, reserved : Int, dspent : Int, dres : Int]
Deltas == [spent : Int, res : Int]

\* What an operation adds to a ledger.
LEMMA Amounts ==
  ASSUME TypeOK, NEW r \in Requests
  PROVE  /\ Cost[r] \in Nat \ {0} /\ SpentBy(r) \in Nat /\ ReservedBy(r) \in Int
         /\ want[r] = "consume" => SpentBy(r) = Cost[r] /\ ReservedBy(r) = 0
         /\ want[r] = "reserve" => SpentBy(r) = 0 /\ ReservedBy(r) = Cost[r]
         /\ want[r] = "commit"  => SpentBy(r) = Cost[r] /\ ReservedBy(r) = -Cost[r]
         /\ want[r] = "release" => SpentBy(r) = 0 /\ ReservedBy(r) = -Cost[r]
         /\ want[r] \in {"consume", "reserve", "commit", "release"}
BY LedgerAssumption DEF TypeOK, SpentBy, ReservedBy

\* Goto moves one process.
LEMMA GotoAt ==
  ASSUME TypeOK, NEW p \in Procs, NEW where \in Places, Goto(p, where)
  PROVE  /\ pc' \in [Procs -> Places] /\ pc'[p] = where
         /\ \A q \in Procs : q # p => pc'[q] = pc[q]
BY DEF TypeOK, Places, Goto

\* After a flush a request goes on to its answer, an administrator to the deletion of the
\* hash, a flusher to its loop.
LEMMA ReturnsAt ==
  ASSUME TypeOK, NEW p \in Procs, FlushReturns(p)
  PROVE  /\ pc' \in [Procs -> Places]
         /\ p \in Requests => pc'[p] = IF want[p] = "reserve" THEN "held" ELSE "done"
         /\ p \in Admins => pc'[p] = "del"
         /\ p \in Flushers => pc'[p] = "idle"
         /\ pc'[p] \in {"held", "done", "del", "idle"}
         /\ \A q \in Procs : q # p => pc'[q] = pc[q]
BY LedgerAssumption DEF TypeOK, Places, Goto, FlushReturns, AfterGrant, Procs

\* After a flush that failed a request answers with the error.
LEMMA ErrsAt ==
  ASSUME TypeOK, NEW p \in Procs, FlushErrs(p)
  PROVE  /\ pc' \in [Procs -> Places]
         /\ p \in Requests => pc'[p] = "failed"
         /\ p \in Admins => pc'[p] = "del"
         /\ p \in Flushers => pc'[p] = "idle"
         /\ pc'[p] \in {"failed", "del", "idle"}
         /\ \A q \in Procs : q # p => pc'[q] = pc[q]
BY LedgerAssumption DEF TypeOK, Places, Goto, FlushErrs, Procs

\* The script adds the amounts of r to the hash.
LEMMA ScriptAt ==
  ASSUME TypeOK, NEW r \in Requests, ApplyScript(r)
  PROVE  /\ hash' \in Hashes /\ hashed' = TRUE
         /\ hash'.budget = hash.budget
         /\ hash'.spent = hash.spent + SpentBy(r) /\ hash'.dspent = hash.dspent + SpentBy(r)
         /\ hash'.reserved = hash.reserved + ReservedBy(r) /\ hash'.dres = hash.dres + ReservedBy(r)
<1>1. hash \in Hashes
  BY DEF TypeOK, Hashes
<1>2. SpentBy(r) \in Int /\ ReservedBy(r) \in Int
  BY Amounts
<1>. QED
  BY <1>1, <1>2 DEF Hashes, ApplyScript

\* The transaction adds the amounts of r to the row.
LEMMA RowAt ==
  ASSUME TypeOK, NEW r \in Requests,
         db' = [budget |-> db.budget, spent |-> db.spent + SpentBy(r),
                reserved |-> db.reserved + ReservedBy(r)]
  PROVE  /\ db' \in Rows /\ db'.budget = db.budget
         /\ db'.spent = db.spent + SpentBy(r) /\ db'.reserved = db.reserved + ReservedBy(r)
<1>1. db \in Rows
  BY DEF TypeOK, Rows
<1>2. SpentBy(r) \in Int /\ ReservedBy(r) \in Int
  BY Amounts
<1>. QED
  BY <1>1, <1>2 DEF Rows

\* A flush adds its deltas to the row.
LEMMA UpdateAt ==
  ASSUME TypeOK, NEW p \in Procs, FlushUpdate(p)
  PROVE  /\ db' \in Rows /\ db'.budget = db.budget
         /\ db'.spent = db.spent + delta[p].spent
         /\ db'.reserved = IF db.reserved + delta[p].res < 0 THEN 0 ELSE db.reserved + delta[p].res
<1>1. db \in Rows /\ delta[p] \in Deltas
  BY DEF TypeOK, Rows, Deltas
<1>. QED
  BY <1>1 DEF FlushUpdate, Rows, Deltas

\* A flush takes what it has written from a delta of the hash, or the call fails.
LEMMA ReducesAt ==
  ASSUME TypeOK, NEW field \in {"dspent", "dres"}, NEW n \in Int, Reduces(field, n)
  PROVE  /\ hash' \in Hashes /\ hashed' \in BOOLEAN /\ faults' \in 0..MaxFaults
         /\ \/ /\ hash'[field] = hash[field] - n /\ hashed' = TRUE /\ faults' = faults
               /\ \A g \in {"budget", "spent", "reserved", "dspent", "dres"} \ {field} :
                     hash'[g] = hash[g]
            \/ hash' = hash /\ hashed' = hashed /\ faults' = faults + 1
<1>1. hash \in Hashes /\ hashed \in BOOLEAN /\ faults \in 0..MaxFaults
  BY DEF TypeOK, Hashes
<1>2. CASE hash' = [hash EXCEPT ![field] = hash[field] - n] /\ hashed' = TRUE /\ faults' = faults
  <2>1. CASE field = "dspent"
    BY <1>1, <1>2, <2>1 DEF Hashes
  <2>2. CASE field = "dres"
    BY <1>1, <1>2, <2>2 DEF Hashes
  <2>. QED
    BY <2>1, <2>2
<1>3. CASE faults < MaxFaults /\ faults' = faults + 1 /\ UNCHANGED ledger
  BY <1>1, <1>3, LedgerAssumption DEF ledger
<1>. QED
  BY <1>2, <1>3 DEF Reduces, Remaining

\* The first state has its types.
LEMMA InitType == Init => TypeOK
<1> SUFFICES ASSUME Init PROVE TypeOK
  OBVIOUS
<1>1. NewRow \in Rows /\ NoHash \in Hashes /\ NoDelta \in Deltas
  BY LedgerAssumption DEF NewRow, NoHash, NoDelta, Rows, Hashes, Deltas
<1>2. /\ pc \in [Procs -> Places] /\ delta \in [Procs -> Deltas] /\ loaded \in [Requests -> Rows]
      /\ want \in [Requests -> {"consume", "reserve", "commit", "release"}]
  BY <1>1 DEF Init, Places
<1>3. db \in Rows /\ hash \in Hashes /\ hashed \in BOOLEAN
  BY <1>1 DEF Init
<1>4. /\ initLock \in {NoOne} \cup Requests /\ flushLock \in {NoOne} \cup Procs
      /\ charged \in Nat /\ held \in Nat /\ faults \in 0..MaxFaults /\ crashes \in 0..MaxCrash
  BY LedgerAssumption DEF Init
<1>. QED
  BY <1>2, <1>3, <1>4 DEF TypeOK, Rows, Hashes, Deltas, Places

\* Every step keeps the types; that what is held stays a natural number is left to Packed.
LEMMA StepType == TypeOK /\ [Next]_vars /\ held' \in Nat => TypeOK'
<1> SUFFICES ASSUME TypeOK, [Next]_vars, held' \in Nat PROVE TypeOK'
  OBVIOUS
<1> USE DEF ledger, locks, grants, bounds
<1>0. /\ Requests \subseteq Procs /\ Flushers \subseteq Procs /\ Admins \subseteq Procs
      /\ NoOne \notin Procs
  BY LedgerAssumption DEF Procs
<1>1. ASSUME NEW r \in Requests, Request(r) \/ RedisFails(r) \/ TransactionFails(r) PROVE TypeOK'
  <2>1. CASE StartRequest(r) \/ SettleReservation(r)
    <3>1. pc' \in [Procs -> Places]
      BY <1>0, <2>1, GotoAt DEF StartRequest, SettleReservation, Places
    <3>2. want' \in [Requests -> {"consume", "reserve", "commit", "release"}]
      BY <2>1 DEF StartRequest, SettleReservation, TypeOK
    <3>. QED
      BY <2>1, <3>1, <3>2 DEF StartRequest, SettleReservation, TypeOK, Places
  <2>2. CASE EnsureExists(r) \/ WaitRedisKey(r) \/ Publish(r) \/ TransactionFails(r)
    <3>1. pc' \in [Procs -> Places]
      BY <1>0, <2>2, GotoAt DEF EnsureExists, WaitRedisKey, Publish, TransactionFails, AfterGrant, Places
    <3>. QED
      BY <2>2, <3>1 DEF EnsureExists, WaitRedisKey, Publish, TransactionFails, TypeOK, Places
  <2>3. CASE TakeInitLock(r) \/ CheckAgain(r)
    <3>1. pc' \in [Procs -> Places]
      BY <1>0, <2>3, GotoAt DEF TakeInitLock, CheckAgain, Places
    <3>. QED
      BY <2>3, <3>1 DEF TakeInitLock, CheckAgain, TypeOK, Places
  <2>4. CASE LoadScope(r)
    <3>1. pc' \in [Procs -> Places]
      BY <1>0, <2>4, GotoAt DEF LoadScope, Places
    <3>2. loaded' \in [Requests -> Rows]
      BY <2>4 DEF LoadScope, TypeOK, Rows
    <3>. QED
      BY <2>4, <3>1, <3>2 DEF LoadScope, TypeOK, Places, Rows
  <2>5. CASE WriteHash(r)
    <3>1. pc' \in [Procs -> Places]
      BY <1>0, <2>5, GotoAt DEF WriteHash, Places
    <3>2. loaded[r] \in Rows /\ NewRow \in Rows
      BY LedgerAssumption DEF TypeOK, Rows, NewRow
    <3>3. hash' \in Hashes
      BY <2>5, <3>2, LedgerAssumption DEF WriteHash, Hashes, Rows
    <3>4. loaded' \in [Requests -> Rows]
      BY <2>5, <3>2 DEF WriteHash, TypeOK, Rows
    <3>. QED
      BY <2>5, <3>1, <3>3, <3>4 DEF WriteHash, TypeOK, Places, Rows, Hashes
  <2>6. CASE Eval(r)
    <3>1. pc' \in [Procs -> Places]
      BY <1>0, <2>6, GotoAt DEF Eval, Places
    <3>2. hash' \in Hashes /\ hashed' \in BOOLEAN /\ charged' \in Nat
      <4>1. CASE ApplyScript(r) /\ Grant(r)
        <5>1. charged \in Nat /\ SpentBy(r) \in Nat
          BY Amounts DEF TypeOK
        <5>2. charged' \in Nat
          BY <4>1, <5>1 DEF Grant
        <5>. QED
          BY <4>1, <5>2, ScriptAt
      <4>2. CASE UNCHANGED <<ledger, grants>>
        <5>1. hash \in Hashes /\ charged \in Nat
          BY DEF TypeOK, Hashes
        <5>2. hashed \in BOOLEAN
          BY DEF TypeOK
        <5>. QED
          BY <4>2, <5>1, <5>2
      <4>. QED
        BY <2>6, <4>1, <4>2 DEF Eval
    <3>. QED
      BY <2>6, <3>1, <3>2 DEF Eval, TypeOK, Places, Hashes
  <2>7. CASE Transaction(r)
    <3>1. pc' \in [Procs -> Places]
      BY <1>0, <2>7, GotoAt DEF Transaction, AfterGrant, Places
    <3>2. db' \in Rows /\ charged' \in Nat
      <4>1. CASE UNCHANGED <<db, grants>>
        BY <4>1 DEF TypeOK, Rows
      <4>2. CASE ~UNCHANGED <<db, grants>>
        BY <2>7, <4>2, RowAt, Amounts DEF Transaction, Grant, TypeOK
      <4>. QED
        BY <4>1, <4>2
    <3>. QED
      BY <2>7, <3>1, <3>2 DEF Transaction, TypeOK, Places, Rows
  <2>8. CASE RedisFails(r)
    <3>1. pc' \in [Procs -> Places]
      BY <1>0, <2>8, GotoAt DEF RedisFails, Places
    <3>2. hash' \in Hashes /\ hashed' \in BOOLEAN
      BY <2>8, ScriptAt DEF RedisFails, TypeOK, Hashes
    <3>3. loaded' \in [Requests -> Rows] /\ faults' \in 0..MaxFaults
      BY <2>8, LedgerAssumption DEF RedisFails, TypeOK, Rows, NewRow
    <3>4. initLock' \in {NoOne} \cup Requests
      BY <2>8 DEF RedisFails, TypeOK
    <3>. QED
      BY <2>8, <3>1, <3>2, <3>3, <3>4 DEF RedisFails, TypeOK, Places, Rows, Hashes
  <2>. QED
    BY <1>1, <2>1, <2>2, <2>3, <2>4, <2>5, <2>6, <2>7, <2>8 DEF Request
<1>2. ASSUME NEW p \in Procs, Flush(p) \/ FlushFails(p) PROVE TypeOK'
  <2>1. CASE TakeFlushLock(p)
    <3>1. pc' \in [Procs -> Places]
      BY <2>1, GotoAt, ReturnsAt DEF TakeFlushLock, Places
    <3>. QED
      BY <2>1, <3>1 DEF TakeFlushLock, TypeOK, Places
  <2>2. CASE ReadSpentDelta(p)
    <3>1. pc' \in [Procs -> Places]
      BY <2>2, GotoAt DEF ReadSpentDelta, Places
    <3>2. [spent |-> hash.dspent, res |-> 0] \in Deltas
      BY DEF TypeOK, Deltas
    <3>3. delta' \in [Procs -> Deltas]
      BY <2>2, <3>2 DEF ReadSpentDelta, TypeOK, Deltas
    <3>. QED
      BY <2>2, <3>1, <3>3 DEF ReadSpentDelta, TypeOK, Places, Deltas
  <2>3. CASE ReadReservedDelta(p)
    <3>1. pc' \in [Procs -> Places]
      BY <2>3, GotoAt, ReturnsAt DEF ReadReservedDelta, Places
    <3>2. delta' \in [Procs -> Deltas]
      BY <2>3 DEF ReadReservedDelta, TypeOK, Deltas
    <3>. QED
      BY <2>3, <3>1, <3>2 DEF ReadReservedDelta, TypeOK, Places, Deltas
  <2>4. CASE FlushUpdate(p)
    <3>1. pc' \in [Procs -> Places]
      BY <2>4, GotoAt DEF FlushUpdate, Places
    <3>2. db' \in Rows
      BY <2>4, UpdateAt
    <3>. QED
      BY <2>4, <3>1, <3>2 DEF FlushUpdate, TypeOK, Places, Rows
  <2>5. CASE FlushClearSpent(p)
    <3>1. pc' \in [Procs -> Places]
      BY <2>5, GotoAt DEF FlushClearSpent, Places
    <3>2. delta[p].spent \in Int /\ delta' \in [Procs -> Deltas]
      BY <2>5 DEF FlushClearSpent, TypeOK, Deltas
    <3>3. hash' \in Hashes /\ hashed' \in BOOLEAN /\ faults' \in 0..MaxFaults
      <4>1. CASE UNCHANGED <<ledger, faults>>
        BY <4>1 DEF TypeOK, Hashes
      <4>2. CASE Reduces("dspent", delta[p].spent)
        BY <3>2, <4>2, ReducesAt
      <4>. QED
        BY <2>5, <4>1, <4>2 DEF FlushClearSpent
    <3>. QED
      BY <2>5, <3>1, <3>2, <3>3 DEF FlushClearSpent, TypeOK, Places, Deltas, Hashes
  <2>6. CASE FlushClearReserved(p)
    <3>1. pc' \in [Procs -> Places]
      BY <2>6, ReturnsAt DEF FlushClearReserved
    <3>2. delta[p].res \in Int /\ delta' \in [Procs -> Deltas]
      BY <2>6 DEF FlushClearReserved, TypeOK, Deltas, NoDelta
    <3>3. hash' \in Hashes /\ hashed' \in BOOLEAN /\ faults' \in 0..MaxFaults
      <4>1. CASE UNCHANGED <<ledger, faults>>
        BY <4>1 DEF TypeOK, Hashes
      <4>2. CASE Reduces("dres", delta[p].res)
        BY <3>2, <4>2, ReducesAt
      <4>. QED
        BY <2>6, <4>1, <4>2 DEF FlushClearReserved
    <3>. QED
      BY <2>6, <3>1, <3>2, <3>3 DEF FlushClearReserved, TypeOK, Places, Deltas, Hashes
  <2>7. CASE FlushFails(p)
    <3>1. pc' \in [Procs -> Places]
      BY <2>7, ErrsAt DEF FlushFails
    <3>2. delta' \in [Procs -> Deltas] /\ faults' \in 0..MaxFaults
      BY <2>7, LedgerAssumption DEF FlushFails, TypeOK, Deltas, NoDelta
    <3>. QED
      BY <2>7, <3>1, <3>2 DEF FlushFails, TypeOK, Places, Deltas
  <2>. QED
    BY <1>2, <2>1, <2>2, <2>3, <2>4, <2>5, <2>6, <2>7 DEF Flush
<1>3. ASSUME NEW f \in Flushers, StartFlush(f) \/ Crash(f) PROVE TypeOK'
  <2>1. pc' \in [Procs -> Places]
    BY <1>0, <1>3, GotoAt DEF StartFlush, Crash, Places
  <2>2. delta' \in [Procs -> Deltas] /\ crashes' \in 0..MaxCrash
    BY <1>3, LedgerAssumption DEF StartFlush, Crash, TypeOK, Deltas, NoDelta
  <2>. QED
    BY <1>3, <2>1, <2>2 DEF StartFlush, Crash, TypeOK, Places, Deltas
<1>4. ASSUME NEW a \in Admins, UpdateBudget(a) \/ DeleteHash(a) PROVE TypeOK'
  <2>1. pc' \in [Procs -> Places]
    BY <1>0, <1>4, GotoAt DEF UpdateBudget, DeleteHash, Places
  <2>2. db' \in Rows
    BY <1>4 DEF UpdateBudget, DeleteHash, TypeOK, Rows
  <2>3. hash' \in Hashes /\ hashed' \in BOOLEAN
    <3>1. NoHash \in Hashes
      BY LedgerAssumption DEF NoHash, Hashes
    <3>2. hash \in Hashes /\ hashed \in BOOLEAN
      BY DEF TypeOK, Hashes
    <3>3. (hash' = hash /\ hashed' = hashed) \/ (hash' = NoHash /\ hashed' = FALSE)
      BY <1>4 DEF UpdateBudget, DeleteHash
    <3>. QED
      BY <3>1, <3>2, <3>3
  <2>. QED
    BY <1>4, <2>1, <2>2, <2>3 DEF UpdateBudget, DeleteHash, TypeOK, Places, Rows, Hashes
<1>5. CASE FlushLockExpires
  BY <1>5 DEF FlushLockExpires, TypeOK
<1>6. CASE UNCHANGED vars
  BY <1>6 DEF vars, TypeOK
<1>. QED
  BY <1>1, <1>2, <1>3, <1>4, <1>5, <1>6 DEF Next

-----------------------------------------------------------------------------
(* Who holds the locks, and what a request wants.                           *)

\* A process takes a lock before it flushes or initialises, and nobody else clears it.
LEMMA StepLocks == TypeOK /\ LocksOK /\ [Next]_vars => LocksOK'
<1> SUFFICES ASSUME TypeOK, LocksOK, [Next]_vars PROVE LocksOK'
  OBVIOUS
<1> USE DEF locks
<1>0. /\ Requests \subseteq Procs /\ Flushers \subseteq Procs /\ Admins \subseteq Procs
      /\ NoOne \notin Procs /\ Requests \cap Flushers = {} /\ Requests \cap Admins = {}
  BY LedgerAssumption DEF Procs
<1>1. ASSUME NEW r \in Requests,
             StartRequest(r) \/ SettleReservation(r) \/ EnsureExists(r) \/ WaitRedisKey(r)
             \/ Eval(r) \/ Transaction(r) \/ Publish(r) \/ TransactionFails(r)
      PROVE  LocksOK'
  <2>1. /\ UNCHANGED locks
        /\ \E w \in {"ensure", "eval", "lock", "sql", "publish", "rejected", "failed", "held", "done",
                     "flush"} : Goto(r, w)
    BY <1>1 DEF StartRequest, SettleReservation, EnsureExists, WaitRedisKey, Eval, Transaction,
                TransactionFails, Publish, AfterGrant
  <2>. QED
    BY <1>0, <2>1 DEF TypeOK, LocksOK, Goto, Critical, Initialising
<1>2. ASSUME NEW r \in Requests, TakeInitLock(r) \/ CheckAgain(r) PROVE LocksOK'
  BY <1>0, <1>2 DEF TypeOK, LocksOK, Goto, Critical, Initialising, TakeInitLock, CheckAgain
<1>3. ASSUME NEW r \in Requests, LoadScope(r) \/ WriteHash(r) \/ RedisFails(r) PROVE LocksOK'
  BY <1>0, <1>3 DEF TypeOK, LocksOK, Goto, Critical, Initialising, LoadScope, WriteHash, RedisFails
<1>4. ASSUME NEW p \in Procs, TakeFlushLock(p) PROVE LocksOK'
  <2>1. CASE MayFlush
    BY <1>0, <1>4, <2>1 DEF TypeOK, LocksOK, Goto, Critical, Initialising, TakeFlushLock, MayFlush
  <2>2. CASE ~MayFlush
    <3>1. FlushReturns(p) /\ UNCHANGED locks
      BY <1>4, <2>2 DEF TakeFlushLock
    <3>. QED
      BY <1>0, <3>1, ReturnsAt DEF LocksOK, Critical, Initialising
  <2>. QED
    BY <2>1, <2>2
<1>5. ASSUME NEW p \in Procs, ReadSpentDelta(p) \/ FlushUpdate(p) \/ FlushClearSpent(p) PROVE LocksOK'
  BY <1>0, <1>5 DEF TypeOK, LocksOK, Goto, Critical, Initialising, ReadSpentDelta, FlushUpdate,
                    FlushClearSpent
<1>6. ASSUME NEW p \in Procs, FlushReturns(p), pc[p] \in Critical, flushLock' = NoOne, initLock' = initLock
      PROVE  LocksOK'
  BY <1>0, <1>6, ReturnsAt DEF LocksOK, Critical, Initialising
<1>7. ASSUME NEW p \in Procs, ReadReservedDelta(p) \/ FlushClearReserved(p)
      PROVE  LocksOK'
  <2>1. CASE FlushReturns(p) /\ flushLock' = NoOne
    BY <1>6, <1>7, <2>1 DEF ReadReservedDelta, FlushClearReserved, Critical
  <2>2. CASE ReadReservedDelta(p) /\ Goto(p, "update") /\ UNCHANGED flushLock
    BY <1>0, <2>2 DEF TypeOK, LocksOK, Goto, Critical, Initialising, ReadReservedDelta
  <2>. QED
    BY <1>7, <2>1, <2>2 DEF ReadReservedDelta, FlushClearReserved
<1>f. ASSUME NEW p \in Procs, FlushFails(p) PROVE LocksOK'
  <2>1. /\ pc'[p] \in {"failed", "del", "idle"} /\ \A q \in Procs : q # p => pc'[q] = pc[q]
        /\ initLock' = initLock
    BY <1>f, ErrsAt DEF FlushFails
  <2>2. flushLock' = flushLock \/ (pc[p] \in Critical /\ flushLock' = NoOne)
    BY <1>f DEF FlushFails, Critical
  <2>. QED
    BY <1>0, <2>1, <2>2 DEF LocksOK, Critical, Initialising
<1>8. ASSUME NEW f \in Flushers, StartFlush(f) \/ Crash(f) PROVE LocksOK'
  BY <1>0, <1>8 DEF TypeOK, LocksOK, Goto, Critical, Initialising, StartFlush, Crash
<1>9. ASSUME NEW a \in Admins, UpdateBudget(a) \/ DeleteHash(a) PROVE LocksOK'
  BY <1>0, <1>9 DEF TypeOK, LocksOK, Goto, Critical, Initialising, UpdateBudget, DeleteHash
<1>10. CASE FlushLockExpires
  BY <1>0, <1>10 DEF TypeOK, LocksOK, Critical, FlushLockExpires
<1>11. CASE UNCHANGED vars
  BY <1>11 DEF vars, LocksOK
<1>. QED
  BY <1>1, <1>2, <1>3, <1>4, <1>5, <1>6, <1>7, <1>f, <1>8, <1>9, <1>10, <1>11
     DEF Next, Request, Flush

\* A request holds a reservation only after reserving, and a settlement is never refused.
LEMMA StepWant == TypeOK /\ WantOK /\ [Next]_vars => WantOK'
<1> SUFFICES ASSUME TypeOK, WantOK, [Next]_vars PROVE WantOK'
  OBVIOUS
<1>0. /\ Requests \subseteq Procs /\ Flushers \subseteq Procs /\ Admins \subseteq Procs
      /\ Requests \cap Flushers = {} /\ Requests \cap Admins = {}
  BY LedgerAssumption DEF Procs
<1>1. ASSUME NEW r \in Requests, StartRequest(r) \/ SettleReservation(r) PROVE WantOK'
  BY <1>0, <1>1 DEF TypeOK, WantOK, Goto, StartRequest, SettleReservation
<1>2. ASSUME NEW r \in Requests,
             EnsureExists(r) \/ TakeInitLock(r) \/ WaitRedisKey(r) \/ CheckAgain(r)
             \/ LoadScope(r) \/ WriteHash(r) \/ RedisFails(r)
      PROVE  WantOK'
  <2>1. UNCHANGED want /\ \E w \in {"eval", "lock", "check", "wait", "sql", "load", "hset"} : Goto(r, w)
    BY <1>2 DEF EnsureExists, TakeInitLock, WaitRedisKey, CheckAgain, LoadScope, WriteHash, RedisFails
  <2>. QED
    BY <1>0, <2>1 DEF TypeOK, WantOK, Goto
<1>3. ASSUME NEW r \in Requests, Eval(r) \/ Transaction(r) \/ TransactionFails(r) \/ Publish(r)
      PROVE  WantOK'
  BY <1>0, <1>3 DEF TypeOK, WantOK, Goto, Eval, Transaction, TransactionFails, Publish, AfterGrant, Admits
<1>4. ASSUME NEW p \in Procs, Flush(p) \/ FlushFails(p) PROVE WantOK'
  <2>1. /\ UNCHANGED want
        /\ \/ FlushReturns(p)
           \/ FlushErrs(p)
           \/ \E w \in {"readspent", "readreserved", "update", "clear", "clearres"} : Goto(p, w)
    BY <1>4 DEF Flush, FlushFails, TakeFlushLock, ReadSpentDelta, ReadReservedDelta, FlushUpdate,
                FlushClearSpent, FlushClearReserved
  <2>2. CASE FlushReturns(p)
    BY <1>0, <2>1, <2>2, ReturnsAt DEF TypeOK, WantOK
  <2>4. CASE FlushErrs(p)
    BY <1>0, <2>1, <2>4, ErrsAt DEF TypeOK, WantOK
  <2>3. CASE \E w \in {"readspent", "readreserved", "update", "clear", "clearres"} : Goto(p, w)
    BY <1>0, <2>1, <2>3 DEF TypeOK, WantOK, Goto
  <2>. QED
    BY <2>1, <2>2, <2>3, <2>4
<1>5. ASSUME NEW p \in Flushers \cup Admins,
             StartFlush(p) \/ Crash(p) \/ UpdateBudget(p) \/ DeleteHash(p)
      PROVE  WantOK'
  BY <1>0, <1>5 DEF TypeOK, WantOK, Goto, StartFlush, Crash, UpdateBudget, DeleteHash
<1>6. CASE FlushLockExpires \/ UNCHANGED vars
  BY <1>6 DEF vars, WantOK, FlushLockExpires
<1>. QED
  BY <1>1, <1>2, <1>3, <1>4, <1>5, <1>6 DEF Next, Request

-----------------------------------------------------------------------------
(* Reservations lie side by side in what is held: a new one goes on top, a  *)
(* settled one is taken out and those above it move down by its cost.       *)

\* A step that reserves nothing and settles nothing.
LEMMA PackedKept ==
  ASSUME Packed, held' = held, \A t \in Requests : Holds(t)' => Holds(t)
  PROVE  Packed'
<1>1. PICK base \in [Requests -> Nat] : PackedBy(base)
  BY DEF Packed
<1>2. PackedBy(base)'
  BY <1>1 DEF PackedBy
<1>. QED
  BY <1>2 DEF Packed

\* A reservation is granted.
LEMMA PackedMore ==
  ASSUME Packed, NEW r \in Requests, ~Holds(r), held' = held + Cost[r],
         \A t \in Requests : t # r /\ Holds(t)' => Holds(t)
  PROVE  Packed'
<1>1. PICK base \in [Requests -> Nat] : PackedBy(base)
  BY DEF Packed
<1>2. held \in Nat /\ Cost \in [Requests -> Nat \ {0}]
  BY LedgerAssumption DEF Packed
<1>3. PICK over \in [Requests -> Nat] : over = [base EXCEPT ![r] = held]
  BY <1>2
<1>4. over[r] = held /\ \A t \in Requests : t # r => over[t] = base[t]
  BY <1>3
<1>5. ASSUME NEW t \in Requests, Holds(t)'
      PROVE  over[t] + Cost[t] <= held'
  <2>1. CASE t = r
    BY <1>2, <1>4, <2>1
  <2>2. CASE t # r
    BY <1>1, <1>2, <1>4, <1>5, <2>2 DEF PackedBy
  <2>. QED
    BY <2>1, <2>2
<1>6. ASSUME NEW t \in Requests, NEW u \in Requests, Holds(t)', Holds(u)', u # t
      PROVE  over[t] + Cost[t] <= over[u] \/ over[u] + Cost[u] <= over[t]
  <2>1. CASE t = r
    BY <1>1, <1>2, <1>4, <1>6, <2>1 DEF PackedBy
  <2>2. CASE u = r
    BY <1>1, <1>2, <1>4, <1>6, <2>2 DEF PackedBy
  <2>3. CASE t # r /\ u # r
    BY <1>1, <1>2, <1>4, <1>6, <2>3 DEF PackedBy
  <2>. QED
    BY <2>1, <2>2, <2>3
<1>7. PackedBy(over)'
  BY <1>5, <1>6 DEF PackedBy
<1>. QED
  BY <1>2, <1>7 DEF Packed

\* A reservation is committed or released.
LEMMA PackedLess ==
  ASSUME Packed, NEW r \in Requests, Holds(r), held' = held - Cost[r],
         \A t \in Requests : Holds(t)' => t # r /\ Holds(t)
  PROVE  Packed'
<1>1. PICK base \in [Requests -> Nat] : PackedBy(base)
  BY DEF Packed
<1>2. held \in Nat /\ Cost \in [Requests -> Nat \ {0}]
  BY LedgerAssumption DEF Packed
<1>3. base[r] + Cost[r] <= held
  BY <1>1 DEF PackedBy
<1>4. PICK under \in [Requests -> Nat] :
        under = [t \in Requests |-> IF base[r] + Cost[r] <= base[t] THEN base[t] - Cost[r] ELSE base[t]]
  <2>1. \A t \in Requests :
           (IF base[r] + Cost[r] <= base[t] THEN base[t] - Cost[r] ELSE base[t]) \in Nat
    BY <1>2
  <2>. QED
    BY <2>1
<1>5. \A t \in Requests : Holds(t)' =>
         \/ base[r] + Cost[r] <= base[t] /\ under[t] = base[t] - Cost[r]
         \/ base[t] + Cost[t] <= base[r] /\ under[t] = base[t]
  BY <1>1, <1>2, <1>4 DEF PackedBy
<1>6. ASSUME NEW t \in Requests, Holds(t)'
      PROVE  under[t] + Cost[t] <= held'
  <2>1. base[t] + Cost[t] <= held
    BY <1>1, <1>6 DEF PackedBy
  <2>. QED
    BY <1>2, <1>3, <1>5, <1>6, <2>1
<1>7. ASSUME NEW t \in Requests, NEW u \in Requests, Holds(t)', Holds(u)', u # t
      PROVE  under[t] + Cost[t] <= under[u] \/ under[u] + Cost[u] <= under[t]
  <2>1. base[t] + Cost[t] <= base[u] \/ base[u] + Cost[u] <= base[t]
    BY <1>1, <1>7 DEF PackedBy
  <2>. QED
    BY <1>2, <1>5, <1>7, <2>1
<1>8. PackedBy(under)'
  BY <1>6, <1>7 DEF PackedBy
<1>9. held' \in Nat
  BY <1>2, <1>3
<1>. QED
  BY <1>8, <1>9 DEF Packed

\* The amounts of r are granted by its script or its transaction.
LEMMA PackedGrant ==
  ASSUME TypeOK, Packed, NEW r \in Requests, Grant(r), pc[r] \in {"eval", "sql"}, want' = want,
         pc' \in [Procs -> Places], pc'[r] \in {"publish", "held", "done"},
         \A q \in Procs : q # r => pc'[q] = pc[q]
  PROVE  Packed'
<1>0. Requests \subseteq Procs /\ held \in Nat
  BY DEF Procs, TypeOK
<1>1. \A t \in Requests : t # r => (Holds(t)' <=> Holds(t))
  BY <1>0 DEF Holds
<1>2. held' = held + ReservedBy(r)
  BY DEF Grant
<1>3. CASE want[r] = "consume"
  <2>1. ~Holds(r)'
    BY <1>3 DEF Holds
  <2>. QED
    BY <1>0, <1>1, <1>2, <1>3, <2>1, Amounts, PackedKept
<1>4. CASE want[r] = "reserve"
  <2>1. ~Holds(r)
    BY <1>4 DEF Holds, Undecided
  <2>2. held' = held + Cost[r]
    BY <1>2, <1>4, Amounts
  <2>. QED
    BY <1>1, <2>1, <2>2, PackedMore
<1>5. CASE want[r] \in {"commit", "release"}
  <2>1. Holds(r) /\ ~Holds(r)'
    BY <1>5 DEF Holds, Undecided
  <2>2. held' = held - Cost[r]
    BY <1>0, <1>2, <1>5, Amounts
  <2>. QED
    BY <1>1, <2>1, <2>2, PackedLess
<1>. QED
  BY <1>3, <1>4, <1>5, Amounts

\* Every step keeps the reservations side by side.
LEMMA StepPacked == TypeOK /\ WantOK /\ Packed /\ [Next]_vars => Packed'
<1> SUFFICES ASSUME TypeOK, WantOK, Packed, [Next]_vars PROVE Packed'
  OBVIOUS
<1> USE DEF grants
<1>0. /\ Requests \subseteq Procs /\ Flushers \subseteq Procs /\ Admins \subseteq Procs
      /\ Requests \cap Flushers = {} /\ Requests \cap Admins = {}
  BY LedgerAssumption DEF Procs
<1>1. ASSUME NEW r \in Requests, StartRequest(r) \/ SettleReservation(r) PROVE Packed'
  <2>1. held' = held /\ \A t \in Requests : Holds(t)' => Holds(t)
    BY <1>0, <1>1 DEF TypeOK, WantOK, Goto, StartRequest, SettleReservation, Holds, Undecided
  <2>. QED
    BY <2>1, PackedKept
<1>2. ASSUME NEW r \in Requests,
             EnsureExists(r) \/ TakeInitLock(r) \/ WaitRedisKey(r) \/ CheckAgain(r)
             \/ LoadScope(r) \/ WriteHash(r) \/ RedisFails(r)
      PROVE  Packed'
  <2>1. /\ UNCHANGED <<want, held>> /\ pc[r] \in Undecided
        /\ \E w \in {"eval", "lock", "check", "wait", "sql", "load", "hset"} : Goto(r, w)
    BY <1>2 DEF EnsureExists, TakeInitLock, WaitRedisKey, CheckAgain, LoadScope, WriteHash, RedisFails,
                Undecided
  <2>2. \A t \in Requests : Holds(t)' => Holds(t)
    BY <1>0, <2>1 DEF TypeOK, Goto, Holds, Undecided
  <2>. QED
    BY <2>1, <2>2, PackedKept
<1>3. ASSUME NEW r \in Requests, Eval(r) \/ Transaction(r) PROVE Packed'
  <2>1. CASE Grant(r)
    <3>1. /\ pc[r] \in {"eval", "sql"} /\ want' = want
          /\ \E w \in {"publish", "held", "done", "rejected"} : Goto(r, w)
      BY <1>3 DEF Eval, Transaction, AfterGrant
    <3>2. CASE Goto(r, "rejected")
      BY <1>0, <1>3, <3>1, <3>2, PackedKept DEF TypeOK, Goto, Holds, Undecided, Eval, Transaction, AfterGrant
    <3>3. CASE \E w \in {"publish", "held", "done"} : Goto(r, w)
      <4>1. PICK w \in {"publish", "held", "done"} : Goto(r, w)
        BY <3>3
      <4>2. /\ pc' \in [Procs -> Places] /\ pc'[r] = w
            /\ \A q \in Procs : q # r => pc'[q] = pc[q]
        BY <1>0, <4>1, GotoAt DEF Places
      <4>. QED
        BY <2>1, <3>1, <4>2, PackedGrant
    <3>. QED
      BY <3>1, <3>2, <3>3
  <2>2. CASE ~Grant(r)
    <3>1. Goto(r, "rejected") /\ UNCHANGED <<grants, want>>
      BY <1>3, <2>2 DEF Eval, Transaction
    <3>2. \A t \in Requests : Holds(t)' => Holds(t)
      <4>1. want[r] \in {"consume", "reserve"}
        BY <1>3, <2>2 DEF Eval, Transaction, Admits
      <4>. QED
        BY <1>0, <3>1, <4>1 DEF TypeOK, Goto, Holds, Undecided
    <3>. QED
      BY <3>1, <3>2, PackedKept
  <2>. QED
    BY <2>1, <2>2
<1>4. ASSUME NEW r \in Requests, Publish(r) \/ TransactionFails(r) PROVE Packed'
  <2>1. held' = held /\ \A t \in Requests : Holds(t)' => Holds(t)
    BY <1>0, <1>4 DEF TypeOK, Goto, Publish, TransactionFails, AfterGrant, Holds, Undecided
  <2>. QED
    BY <2>1, PackedKept
<1>5. ASSUME NEW p \in Procs, Flush(p) \/ FlushFails(p) PROVE Packed'
  <2>1. /\ UNCHANGED <<want, held>> /\ pc[p] \in Critical \cup {"flush"}
        /\ \/ FlushReturns(p)
           \/ FlushErrs(p)
           \/ \E w \in {"readspent", "readreserved", "update", "clear", "clearres"} : Goto(p, w)
    BY <1>5 DEF Flush, FlushFails, TakeFlushLock, ReadSpentDelta, ReadReservedDelta, FlushUpdate,
                FlushClearSpent, FlushClearReserved, Critical
  <2>2. \A t \in Requests : Holds(t)' => Holds(t)
    <3>1. CASE FlushReturns(p)
      BY <1>0, <2>1, <3>1, ReturnsAt DEF TypeOK, Holds, Undecided, Critical
    <3>3. CASE FlushErrs(p)
      BY <1>0, <2>1, <3>3, ErrsAt DEF TypeOK, Holds, Undecided, Critical
    <3>2. CASE \E w \in {"readspent", "readreserved", "update", "clear", "clearres"} : Goto(p, w)
      BY <1>0, <2>1, <3>2 DEF TypeOK, Holds, Undecided, Goto, Critical
    <3>. QED
      BY <2>1, <3>1, <3>2, <3>3
  <2>. QED
    BY <2>1, <2>2, PackedKept
<1>6. ASSUME NEW p \in Flushers \cup Admins,
             StartFlush(p) \/ Crash(p) \/ UpdateBudget(p) \/ DeleteHash(p)
      PROVE  Packed'
  <2>1. held' = held /\ \A t \in Requests : Holds(t)' => Holds(t)
    BY <1>0, <1>6 DEF TypeOK, Goto, Holds, StartFlush, Crash, UpdateBudget, DeleteHash
  <2>. QED
    BY <2>1, PackedKept
<1>7. CASE FlushLockExpires \/ UNCHANGED vars
  <2>1. held' = held /\ \A t \in Requests : Holds(t)' => Holds(t)
    BY <1>7 DEF vars, FlushLockExpires, Holds
  <2>. QED
    BY <2>1, PackedKept
<1>. QED
  BY <1>1, <1>2, <1>3, <1>4, <1>5, <1>6, <1>7 DEF Next, Request

-----------------------------------------------------------------------------
(* Nothing undoes a failed call, a death or a changed budget.               *)

\* An administrator that has left its first place never comes back to it.
LEMMA Monotone ==
  ASSUME TypeOK, [Next]_vars
  PROVE  /\ Unchanged' => Unchanged
         /\ faults' = 0 => faults = 0
         /\ crashes' = 0 => crashes = 0
<1> USE DEF bounds
<1>0. /\ Requests \subseteq Procs /\ Flushers \subseteq Procs /\ Admins \subseteq Procs
      /\ Requests \cap Admins = {} /\ Flushers \cap Admins = {}
  BY LedgerAssumption DEF Procs
<1>1. ASSUME NEW r \in Requests, Request(r) \/ RedisFails(r) \/ TransactionFails(r)
      PROVE  \A a \in Admins : pc'[a] = pc[a]
  <2>1. \E w \in Places : Goto(r, w)
    BY <1>1 DEF Request, RedisFails, TransactionFails, StartRequest, SettleReservation, EnsureExists, TakeInitLock,
                WaitRedisKey, CheckAgain, LoadScope, WriteHash, Eval, Transaction, Publish, AfterGrant,
                Places
  <2>. QED
    BY <1>0, <2>1, GotoAt
<1>2. ASSUME NEW p \in Procs, Flush(p) \/ FlushFails(p)
      PROVE  \A a \in Admins : pc[a] # "idle" => pc'[a] # "idle"
  <2>1. FlushReturns(p) \/ FlushErrs(p) \/ \E w \in Critical : Goto(p, w)
    BY <1>2 DEF Flush, FlushFails, TakeFlushLock, ReadSpentDelta, ReadReservedDelta, FlushUpdate,
                FlushClearSpent, FlushClearReserved, Critical
  <2>2. CASE FlushReturns(p)
    BY <1>0, <2>2, ReturnsAt
  <2>4. CASE FlushErrs(p)
    BY <1>0, <2>4, ErrsAt
  <2>3. CASE \E w \in Critical : Goto(p, w)
    BY <1>0, <2>3, GotoAt DEF Critical, Places
  <2>. QED
    BY <2>1, <2>2, <2>3, <2>4
<1>3. ASSUME NEW f \in Flushers, StartFlush(f) \/ Crash(f) PROVE \A a \in Admins : pc'[a] = pc[a]
  BY <1>0, <1>3, GotoAt DEF StartFlush, Crash, Places
<1>4. ASSUME NEW b \in Admins, UpdateBudget(b) \/ DeleteHash(b)
      PROVE  \A a \in Admins : pc[a] # "idle" => pc'[a] # "idle"
  BY <1>0, <1>4, GotoAt DEF UpdateBudget, DeleteHash, Places
<1>5. CASE FlushLockExpires \/ UNCHANGED vars
  BY <1>5 DEF FlushLockExpires, vars, Unchanged
<1>6. Unchanged' => Unchanged
  BY <1>1, <1>2, <1>3, <1>4, <1>5 DEF Next, Unchanged
<1>7. (faults' = faults \/ faults' = faults + 1) /\ (crashes' = crashes \/ crashes' = crashes + 1)
  <2>1. ASSUME NEW r \in Requests, Request(r) \/ RedisFails(r) \/ TransactionFails(r)
        PROVE  (faults' = faults \/ faults' = faults + 1) /\ crashes' = crashes
    BY <2>1 DEF Request, RedisFails, TransactionFails, StartRequest, SettleReservation, EnsureExists, TakeInitLock,
                WaitRedisKey, CheckAgain, LoadScope, WriteHash, Eval, Transaction, Publish
  <2>2. ASSUME NEW p \in Procs, Flush(p) \/ FlushFails(p)
        PROVE  (faults' = faults \/ faults' = faults + 1) /\ crashes' = crashes
    BY <2>2 DEF Flush, FlushFails, TakeFlushLock, ReadSpentDelta, ReadReservedDelta, FlushUpdate,
                FlushClearSpent, FlushClearReserved, Reduces
  <2>3. ASSUME NEW f \in Procs, StartFlush(f) \/ Crash(f) \/ UpdateBudget(f) \/ DeleteHash(f)
        PROVE  faults' = faults /\ (crashes' = crashes \/ crashes' = crashes + 1)
    BY <2>3 DEF StartFlush, Crash, UpdateBudget, DeleteHash
  <2>4. CASE FlushLockExpires \/ UNCHANGED vars
    BY <2>4 DEF FlushLockExpires, vars
  <2>. QED
    BY <1>0, <2>1, <2>2, <2>3, <2>4 DEF Next
<1>8. faults \in Nat /\ crashes \in Nat
  BY LedgerAssumption DEF TypeOK
<1>. QED
  BY <1>6, <1>7, <1>8

-----------------------------------------------------------------------------
(* The hash while no administrator has deleted it.                          *)

\* Once written the hash stays, and a flush takes no more from it than is there.
LEMMA StepHash == TypeOK /\ LocksOK /\ HashOK /\ [Next]_vars => HashOK'
<1> SUFFICES ASSUME TypeOK, LocksOK, HashOK, [Next]_vars, Unchanged' PROVE HashOK'
  BY DEF HashOK
<1> USE DEF ledger, locks
<1>0. /\ Requests \subseteq Procs /\ Flushers \subseteq Procs /\ Admins \subseteq Procs
      /\ NoOne \notin Procs /\ Requests \cap Admins = {} /\ Flushers \cap Admins = {}
      /\ Requests \cap Flushers = {}
  BY LedgerAssumption DEF Procs
<1>u. Unchanged
  BY Monotone
<1>t. /\ hash \in Hashes /\ delta \in [Procs -> Deltas] /\ pc \in [Procs -> Places]
      /\ NoHash.dspent = 0 /\ NoHash.dres = 0
      /\ \A p \in Procs : delta[p].spent \in Int /\ delta[p].res \in Int
      /\ hash.dspent \in Int /\ hash.dres \in Int
  BY DEF TypeOK, Hashes, Deltas, Places, NoHash
<1>1. ASSUME NEW r \in Requests,
             StartRequest(r) \/ SettleReservation(r) \/ EnsureExists(r) \/ TakeInitLock(r)
             \/ WaitRedisKey(r) \/ CheckAgain(r) \/ LoadScope(r) \/ Publish(r) \/ TransactionFails(r)
      PROVE  HashOK'
  <2>1. /\ UNCHANGED <<ledger, delta>>
        /\ \E w \in Places \ {"readreserved", "update", "clear", "clearres"} :
              /\ Goto(r, w)
              /\ w = "eval" => hashed
              /\ w \in {"load", "hset"} => ~hashed
    BY <1>1, <1>u DEF StartRequest, SettleReservation, EnsureExists, TakeInitLock, WaitRedisKey,
                      CheckAgain, FoundAgain, LoadScope, Publish, TransactionFails, AfterGrant, Places,
                      HashOK
  <2>2. PICK w \in Places \ {"readreserved", "update", "clear", "clearres"} :
              Goto(r, w) /\ (w = "eval" => hashed) /\ (w \in {"load", "hset"} => ~hashed)
    BY <2>1
  <2>3. pc'[r] = w /\ \A q \in Procs : q # r => pc'[q] = pc[q]
    BY <1>0, <2>2, GotoAt
  <2>. QED
    BY <1>0, <1>u, <2>1, <2>2, <2>3 DEF HashOK, Writing
<1>2. ASSUME NEW r \in Requests, WriteHash(r) PROVE HashOK'
  <2>1. pc'[r] = "eval" /\ \A q \in Procs : q # r => pc'[q] = pc[q]
    BY <1>0, <1>2, GotoAt DEF WriteHash, Places
  <2>2. /\ ~hashed /\ hash = NoHash
        /\ \A q \in Requests : q # r => pc[q] \notin {"load", "hset"}
        /\ \A q \in Procs : pc[q] \notin Writing
    BY <1>0, <1>2, <1>u DEF HashOK, LocksOK, WriteHash, Initialising
  <2>3. hash'.dspent = 0 /\ hashed' = TRUE /\ delta' = delta
    BY <1>2 DEF WriteHash
  <2>. QED
    BY <1>0, <1>u, <1>t, <2>1, <2>2, <2>3 DEF HashOK, Writing
<1>3. ASSUME NEW r \in Requests, Eval(r) \/ Transaction(r) \/ RedisFails(r) PROVE HashOK'
  <2>1. delta' = delta /\ (UNCHANGED ledger \/ (pc[r] = "eval" /\ ApplyScript(r)))
    BY <1>3 DEF Eval, Transaction, RedisFails
  <2>2. \E w \in {"publish", "rejected", "sql", "held", "done"} : Goto(r, w)
    BY <1>3 DEF Eval, Transaction, RedisFails, AfterGrant
  <2>3. /\ pc'[r] \in {"publish", "rejected", "sql", "held", "done"}
        /\ \A q \in Procs : q # r => pc'[q] = pc[q]
    BY <1>0, <2>2, GotoAt DEF Places
  <2>4. CASE UNCHANGED ledger
    BY <1>0, <1>u, <2>1, <2>3, <2>4 DEF HashOK, Writing
  <2>5. CASE pc[r] = "eval" /\ ApplyScript(r)
    <3>1. hashed /\ hashed' = TRUE /\ SpentBy(r) \in Nat /\ hash'.dspent = hash.dspent + SpentBy(r)
      BY <1>u, <2>5, ScriptAt, Amounts DEF HashOK
    <3>. QED
      BY <1>0, <1>u, <1>t, <2>1, <2>3, <3>1 DEF HashOK, Writing
  <2>. QED
    BY <2>1, <2>4, <2>5
<1>4. ASSUME NEW p \in Procs, TakeFlushLock(p) \/ FlushFails(p) PROVE HashOK'
  <2>1. UNCHANGED ledger /\ (delta' = delta \/ delta' = [delta EXCEPT ![p] = NoDelta])
    BY <1>4 DEF TakeFlushLock, FlushFails
  <2>2. FlushReturns(p) \/ FlushErrs(p) \/ Goto(p, "readspent")
    BY <1>4 DEF TakeFlushLock, FlushFails
  <2>3. /\ pc'[p] \in {"held", "done", "failed", "del", "idle", "readspent"}
        /\ \A q \in Procs : q # p => pc'[q] = pc[q]
    BY <2>2, GotoAt, ReturnsAt, ErrsAt DEF Places
  <2>4. \A q \in Procs : q # p => delta'[q] = delta[q]
    BY <1>t, <2>1
  <2>. QED
    BY <1>0, <1>u, <2>1, <2>3, <2>4 DEF HashOK, Writing
<1>5. ASSUME NEW p \in Procs, ReadSpentDelta(p) PROVE HashOK'
  <2>1. pc'[p] = "readreserved" /\ \A q \in Procs : q # p => pc'[q] = pc[q]
    BY <1>5, GotoAt DEF ReadSpentDelta, Places
  <2>2. delta'[p].spent = hash.dspent /\ \A q \in Procs : q # p => delta'[q] = delta[q]
    BY <1>5, <1>t DEF ReadSpentDelta
  <2>3. UNCHANGED ledger
    BY <1>5 DEF ReadSpentDelta
  <2>. QED
    BY <1>0, <1>u, <1>t, <2>1, <2>2, <2>3 DEF HashOK, Writing
<1>6. ASSUME NEW p \in Procs, ReadReservedDelta(p) PROVE HashOK'
  <2>1. UNCHANGED ledger /\ pc[p] = "readreserved"
    BY <1>6 DEF ReadReservedDelta
  <2>2. delta'[p].spent = delta[p].spent /\ \A q \in Procs : q # p => delta'[q] = delta[q]
    BY <1>6, <1>t DEF ReadReservedDelta, Deltas
  <2>3. FlushReturns(p) \/ (Goto(p, "update") /\ ~NothingToFlush(p))
    BY <1>6 DEF ReadReservedDelta
  <2>4. CASE FlushReturns(p)
    <3>1. pc'[p] \in {"held", "done", "del", "idle"} /\ \A q \in Procs : q # p => pc'[q] = pc[q]
      BY <2>4, ReturnsAt
    <3>. QED
      BY <1>0, <1>u, <2>1, <2>2, <3>1 DEF HashOK, Writing
  <2>5. CASE Goto(p, "update") /\ ~NothingToFlush(p)
    <3>1. pc'[p] = "update" /\ \A q \in Procs : q # p => pc'[q] = pc[q]
      BY <2>5, GotoAt DEF Places
    <3>2. hashed
      BY <1>u, <1>t, <2>1, <2>5 DEF HashOK, NothingToFlush
    <3>. QED
      BY <1>0, <1>u, <2>1, <2>2, <3>1, <3>2 DEF HashOK, Writing
  <2>. QED
    BY <2>3, <2>4, <2>5
<1>7. ASSUME NEW p \in Procs, FlushUpdate(p) PROVE HashOK'
  <2>1. pc'[p] = "clear" /\ \A q \in Procs : q # p => pc'[q] = pc[q]
    BY <1>7, GotoAt DEF FlushUpdate, Places
  <2>. QED
    BY <1>0, <1>u, <1>7, <2>1 DEF FlushUpdate, HashOK, Writing
<1>8. ASSUME NEW p \in Procs, FlushClearSpent(p) PROVE HashOK'
  <2>1. pc[p] = "clear" /\ pc'[p] = "clearres" /\ \A q \in Procs : q # p => pc'[q] = pc[q]
    BY <1>8, GotoAt DEF FlushClearSpent, Places
  <2>2. \A q \in Procs : q # p => delta'[q] = delta[q]
    BY <1>8, <1>t DEF FlushClearSpent
  <2>3. hashed /\ 0 <= delta[p].spent /\ delta[p].spent <= hash.dspent
    BY <1>u, <2>1 DEF HashOK, Writing
  <2>4. hashed' /\ hash'.dspent \in Int /\ hash'.dspent >= 0
    <3>1. CASE UNCHANGED ledger
      BY <1>t, <1>u, <2>3, <3>1 DEF HashOK
    <3>2. CASE Reduces("dspent", delta[p].spent)
      <4>1. \/ hash'.dspent = hash.dspent - delta[p].spent /\ hashed' = TRUE
            \/ hash' = hash /\ hashed' = hashed
        BY <1>t, <3>2, ReducesAt
      <4>2. hashed'
        BY <2>3, <4>1
      <4>. QED
        BY <1>t, <1>u, <2>3, <4>1, <4>2 DEF HashOK
    <3>. QED
      BY <1>8, <3>1, <3>2 DEF FlushClearSpent
  <2>5. \A q \in Procs : q # p => pc[q] \notin Critical
    BY <1>0, <2>1 DEF LocksOK, Critical
  <2>. QED
    BY <1>0, <1>u, <2>1, <2>2, <2>3, <2>4, <2>5 DEF HashOK, Writing, Critical
<1>9. ASSUME NEW p \in Procs, FlushClearReserved(p) PROVE HashOK'
  <2>1. /\ pc[p] = "clearres" /\ pc'[p] \in {"held", "done", "del", "idle"}
        /\ \A q \in Procs : q # p => pc'[q] = pc[q]
    BY <1>9, ReturnsAt DEF FlushClearReserved
  <2>2. \A q \in Procs : q # p => delta'[q] = delta[q]
    BY <1>9, <1>t DEF FlushClearReserved
  <2>3. hashed
    BY <1>u, <2>1 DEF HashOK, Writing
  <2>4. hashed' /\ hash'.dspent = hash.dspent
    <3>1. CASE UNCHANGED ledger
      BY <2>3, <3>1
    <3>2. CASE Reduces("dres", delta[p].res)
      BY <1>t, <2>3, <3>2, ReducesAt
    <3>. QED
      BY <1>9, <3>1, <3>2 DEF FlushClearReserved
  <2>. QED
    BY <1>0, <1>u, <2>1, <2>2, <2>3, <2>4 DEF HashOK, Writing
<1>10. ASSUME NEW f \in Flushers, StartFlush(f) \/ Crash(f) PROVE HashOK'
  <2>1. pc'[f] \in {"idle", "flush"} /\ \A q \in Procs : q # f => pc'[q] = pc[q]
    BY <1>0, <1>10, GotoAt DEF StartFlush, Crash, Places
  <2>2. UNCHANGED ledger /\ \A q \in Procs : q # f => delta'[q] = delta[q]
    BY <1>10, <1>t DEF StartFlush, Crash
  <2>. QED
    BY <1>0, <1>u, <2>1, <2>2 DEF HashOK, Writing
<1>11. ASSUME NEW a \in Admins, UpdateBudget(a) \/ DeleteHash(a) PROVE FALSE
  <2>1. pc'[a] \in {"flush", "done"}
    BY <1>0, <1>11, GotoAt DEF UpdateBudget, DeleteHash, Places
  <2>. QED
    BY <2>1 DEF Unchanged
<1>12. CASE FlushLockExpires \/ UNCHANGED vars
  BY <1>u, <1>12 DEF FlushLockExpires, vars, HashOK
<1>. QED
  BY <1>1, <1>2, <1>3, <1>4, <1>5, <1>6, <1>7, <1>8, <1>9, <1>10, <1>11, <1>12 DEF Next, Request, Flush

-----------------------------------------------------------------------------
(* The amounts in the row, in the deltas and granted.                       *)

Books == NotMissing /\ NotOver /\ Exact

\* A step that touches no amount, and by which no process starts, ends or changes a flush.
LEMMA BooksKept ==
  ASSUME TypeOK, Books, NEW p \in Procs, UNCHANGED <<db, hash, charged, held>>,
         Unchanged' => Unchanged, faults' = 0 => faults = 0, crashes' = 0 => crashes = 0,
         pc'[p] \notin Writing \cup {"readreserved"}, pc[p] \in Clearing => ~Undisturbed',
         \A q \in Procs : q # p => pc'[q] = pc[q] /\ delta'[q] = delta[q]
  PROVE  Books'
<1>1. NotMissing'
  BY DEF Books, NotMissing, Writing
<1>2. NotOver'
  BY DEF Books, NotOver, Undisturbed, Writing, Clearing
<1>3. Exact'
  BY DEF Books, Exact, Undisturbed, Writing, Clearing
<1>. QED
  BY <1>1, <1>2, <1>3 DEF Books

\* Every step keeps the books.
LEMMA StepBooks ==
  TypeOK /\ LocksOK /\ HashOK /\ ScriptsOK /\ Books /\ [Next]_vars => Books'
<1> SUFFICES ASSUME TypeOK, LocksOK, HashOK, ScriptsOK, Books, [Next]_vars PROVE Books'
  OBVIOUS
<1> USE DEF ledger, grants, bounds
<1>0. /\ Requests \subseteq Procs /\ Flushers \subseteq Procs /\ Admins \subseteq Procs
      /\ Requests \cap Admins = {} /\ Flushers \cap Admins = {} /\ Requests \cap Flushers = {}
  BY LedgerAssumption DEF Procs
<1>m. Unchanged' => Unchanged
  BY Monotone
<1>d. Undisturbed' => Undisturbed
  BY Monotone DEF Undisturbed
<1>t. /\ db \in Rows /\ hash \in Hashes /\ delta \in [Procs -> Deltas] /\ pc \in [Procs -> Places]
      /\ \A p \in Procs : delta[p].spent \in Int /\ delta[p].res \in Int
      /\ hash.dspent \in Int /\ hash.dres \in Int /\ db.spent \in Int /\ db.reserved \in Int
      /\ charged \in Nat /\ held \in Nat /\ faults \in Nat /\ crashes \in Nat
  BY LedgerAssumption DEF TypeOK, Rows, Hashes, Deltas, Places
<1>1. ASSUME NEW r \in Requests,
             StartRequest(r) \/ SettleReservation(r) \/ EnsureExists(r) \/ TakeInitLock(r)
             \/ WaitRedisKey(r) \/ CheckAgain(r) \/ LoadScope(r) \/ Publish(r) \/ TransactionFails(r)
      PROVE  Books'
  <2>1. /\ UNCHANGED <<db, hash, charged, held, delta>>
        /\ pc[r] \notin Clearing
        /\ \E w \in Places \ {"readreserved", "update", "clear", "clearres"} : Goto(r, w)
    BY <1>1 DEF StartRequest, SettleReservation, EnsureExists, TakeInitLock, WaitRedisKey,
                CheckAgain, LoadScope, Publish, TransactionFails, AfterGrant, Places, Clearing
  <2>2. /\ pc'[r] \notin Writing \cup {"readreserved"}
        /\ \A q \in Procs : q # r => pc'[q] = pc[q]
    BY <1>0, <2>1, GotoAt DEF Writing
  <2>. QED
    BY <1>0, <2>1, <2>2, Monotone, BooksKept
<1>2. ASSUME NEW p \in Procs, TakeFlushLock(p) \/ FlushFails(p) \/ StartFlush(p) \/ Crash(p)
      PROVE  Books'
  <2>1. UNCHANGED <<db, hash, charged, held>> /\ \A q \in Procs : q # p => delta'[q] = delta[q]
    BY <1>2, <1>t DEF TakeFlushLock, FlushFails, StartFlush, Crash
  <2>2. pc[p] \in Clearing => ~Undisturbed'
    BY <1>2, <1>t DEF TakeFlushLock, FlushFails, StartFlush, Crash, Clearing, Undisturbed
  <2>3. FlushReturns(p) \/ FlushErrs(p) \/ \E w \in {"readspent", "flush", "idle"} : Goto(p, w)
    BY <1>2 DEF TakeFlushLock, FlushFails, StartFlush, Crash
  <2>4. /\ pc'[p] \in {"held", "done", "failed", "del", "idle", "flush", "readspent"}
        /\ \A q \in Procs : q # p => pc'[q] = pc[q]
    BY <2>3, GotoAt, ReturnsAt, ErrsAt DEF Places
  <2>5. pc'[p] \notin Writing \cup {"readreserved"}
    BY <2>4 DEF Writing
  <2>. QED
    BY <2>1, <2>2, <2>4, <2>5, Monotone, BooksKept
<1>3. ASSUME NEW r \in Requests, WriteHash(r) PROVE Books'
  <2>1. /\ pc[r] = "hset" /\ pc'[r] = "eval" /\ \A q \in Procs : q # r => pc'[q] = pc[q]
        /\ UNCHANGED <<db, charged, held, delta>> /\ hash'.dspent = 0 /\ hash'.dres = 0
    BY <1>0, <1>3, GotoAt DEF WriteHash, Places
  <2>2. Unchanged => hash.dspent = 0 /\ hash.dres = 0
    BY <2>1 DEF HashOK, NoHash
  <2>3. NotMissing'
    BY <1>0, <1>m, <1>t, <2>1, <2>2 DEF Books, NotMissing
  <2>4. NotOver'
    BY <1>0, <1>d, <1>t, <2>1 DEF Books, NotOver
  <2>5. Exact'
    BY <1>0, <1>m, <1>d, <1>t, <2>1, <2>2 DEF Books, Exact, Clearing
  <2>. QED
    BY <2>3, <2>4, <2>5 DEF Books
<1>4. ASSUME NEW r \in Requests, Eval(r) PROVE Books'
  <2>1. /\ pc[r] = "eval" /\ UNCHANGED <<db, delta>>
        /\ (ApplyScript(r) /\ Grant(r)) \/ UNCHANGED <<hash, charged, held>>
        /\ \E w \in {"publish", "rejected"} : Goto(r, w)
    BY <1>4 DEF Eval
  <2>2. /\ pc'[r] \in {"publish", "rejected"} /\ \A q \in Procs : q # r => pc'[q] = pc[q]
    BY <1>0, <2>1, GotoAt DEF Places
  <2>3. CASE UNCHANGED <<hash, charged, held>>
    <3>1. pc'[r] \notin Writing \cup {"readreserved"} /\ pc[r] \notin Clearing
      BY <2>1, <2>2 DEF Writing, Clearing
    <3>. QED
      BY <1>0, <2>1, <2>2, <2>3, <3>1, Monotone, BooksKept
  <2>4. CASE ApplyScript(r) /\ Grant(r)
    <3>1. PICK s \in Nat, t \in Int : s = SpentBy(r) /\ t = ReservedBy(r)
      BY Amounts
    <3>2. /\ hash'.dspent = hash.dspent + s /\ charged' = charged + s
          /\ hash'.dres = hash.dres + t /\ held' = held + t
      BY <2>4, <3>1, ScriptAt DEF Grant
    <3>3. NotMissing'
      BY <1>0, <1>m, <1>t, <2>1, <2>2, <3>1, <3>2 DEF Books, NotMissing
    <3>4. NotOver'
      BY <1>0, <1>d, <1>t, <2>1, <2>2, <3>1, <3>2 DEF Books, NotOver
    <3>5. Exact'
      BY <1>0, <1>m, <1>d, <1>t, <2>1, <2>2, <3>1, <3>2 DEF Books, Exact, Clearing
    <3>. QED
      BY <3>3, <3>4, <3>5 DEF Books
  <2>. QED
    BY <2>1, <2>3, <2>4
<1>5. ASSUME NEW r \in Requests, RedisFails(r) PROVE Books'
  <2>1. /\ pc'[r] = "sql" /\ \A q \in Procs : q # r => pc'[q] = pc[q]
        /\ UNCHANGED <<db, charged, delta>> /\ faults' = faults + 1
        /\ ApplyScript(r) \/ UNCHANGED hash
    BY <1>0, <1>5, GotoAt DEF RedisFails, Places
  <2>2. hash'.dspent \in Int /\ hash'.dspent >= hash.dspent
    <3>1. CASE ApplyScript(r)
      <4>1. SpentBy(r) \in Nat /\ hash'.dspent = hash.dspent + SpentBy(r)
        BY <3>1, ScriptAt, Amounts
      <4>. QED
        BY <1>t, <4>1
    <3>2. CASE hash' = hash
      BY <1>t, <3>2
    <3>. QED
      BY <2>1, <3>1, <3>2
  <2>3. NotMissing'
    BY <1>0, <1>m, <1>t, <2>1, <2>2 DEF Books, NotMissing
  <2>4. ~Undisturbed'
    BY <1>t, <2>1 DEF Undisturbed
  <2>. QED
    BY <2>3, <2>4 DEF Books, NotOver, Exact
<1>6. ASSUME NEW r \in Requests, Transaction(r) PROVE Books'
  <2>1. /\ pc[r] = "sql" /\ UNCHANGED <<hash, delta>>
        /\ \/ /\ db' = [budget |-> db.budget, spent |-> db.spent + SpentBy(r),
                        reserved |-> db.reserved + ReservedBy(r)]
              /\ Grant(r)
           \/ UNCHANGED <<db, charged, held>>
        /\ \E w \in {"held", "done", "rejected"} : Goto(r, w)
    BY <1>6 DEF Transaction, AfterGrant
  <2>2. /\ pc'[r] \in {"held", "done", "rejected"} /\ \A q \in Procs : q # r => pc'[q] = pc[q]
    BY <1>0, <2>1, GotoAt DEF Places
  <2>3. CASE UNCHANGED <<db, charged, held>>
    <3>1. pc'[r] \notin Writing \cup {"readreserved"} /\ pc[r] \notin Clearing
      BY <2>1, <2>2 DEF Writing, Clearing
    <3>. QED
      BY <1>0, <2>1, <2>2, <2>3, <3>1, Monotone, BooksKept
  <2>4. CASE ~UNCHANGED <<db, charged, held>>
    <3>1. PICK s \in Nat : s = SpentBy(r)
      BY Amounts
    <3>2. db'.spent = db.spent + s /\ charged' = charged + s
      BY <2>1, <2>4, <3>1, RowAt DEF Grant
    <3>3. NotMissing'
      BY <1>0, <1>m, <1>t, <2>1, <2>2, <3>1, <3>2 DEF Books, NotMissing
    <3>4. NotOver'
      BY <1>0, <1>d, <1>t, <2>1, <2>2, <3>1, <3>2 DEF Books, NotOver
    <3>5. ~(Undisturbed' /\ Unchanged')
      BY <1>m, <1>d, <2>1 DEF ScriptsOK, Undisturbed
    <3>. QED
      BY <3>3, <3>4, <3>5 DEF Books, Exact
  <2>. QED
    BY <2>3, <2>4
<1>7. ASSUME NEW p \in Procs, ReadSpentDelta(p) PROVE Books'
  <2>1. /\ pc[p] = "readspent" /\ pc'[p] = "readreserved" /\ \A q \in Procs : q # p => pc'[q] = pc[q]
        /\ UNCHANGED <<db, hash, charged, held>> /\ delta'[p].spent = hash.dspent
        /\ \A q \in Procs : q # p => delta'[q] = delta[q]
    BY <1>7, <1>t, GotoAt DEF ReadSpentDelta, Places
  <2>2. \A q \in Procs : q # p => pc[q] \notin Critical
    BY <2>1 DEF LocksOK, Critical
  <2>3. NotMissing'
    BY <1>m, <2>1 DEF Books, NotMissing
  <2>4. NotOver'
    BY <1>d, <1>t, <2>1, <2>2 DEF Books, NotOver, Critical
  <2>5. Exact'
    BY <1>m, <1>d, <2>1 DEF Books, Exact, Clearing
  <2>. QED
    BY <2>3, <2>4, <2>5 DEF Books
<1>8. ASSUME NEW p \in Procs, ReadReservedDelta(p) PROVE Books'
  <2>1. /\ pc[p] = "readreserved" /\ UNCHANGED <<db, hash, charged, held>>
        /\ delta'[p].spent = delta[p].spent /\ delta'[p].res = hash.dres
        /\ \A q \in Procs : q # p => delta'[q] = delta[q]
    BY <1>8, <1>t DEF ReadReservedDelta, Deltas
  <2>2. FlushReturns(p) \/ Goto(p, "update")
    BY <1>8 DEF ReadReservedDelta
  <2>3. /\ pc'[p] \in {"held", "done", "del", "idle", "update"}
        /\ \A q \in Procs : q # p => pc'[q] = pc[q]
    BY <2>2, GotoAt, ReturnsAt DEF Places
  <2>4. \A q \in Procs : q # p => pc[q] \notin Critical
    BY <2>1 DEF LocksOK, Critical
  <2>5. NotMissing'
    BY <1>m, <2>1, <2>3 DEF Books, NotMissing
  <2>6. NotOver'
    BY <1>d, <1>t, <2>1, <2>3, <2>4 DEF Books, NotOver, Critical
  <2>7. Exact'
    BY <1>m, <1>d, <1>t, <2>1, <2>3, <2>4 DEF Books, Exact, Clearing, Critical
  <2>. QED
    BY <2>5, <2>6, <2>7 DEF Books
<1>9. ASSUME NEW p \in Procs, FlushUpdate(p) PROVE Books'
  <2>1. /\ pc[p] = "update" /\ pc'[p] = "clear" /\ \A q \in Procs : q # p => pc'[q] = pc[q]
        /\ UNCHANGED <<hash, charged, held, delta>>
    BY <1>9, GotoAt DEF FlushUpdate, Places
  <2>2. /\ db'.spent = db.spent + delta[p].spent
        /\ db'.reserved = IF db.reserved + delta[p].res < 0 THEN 0 ELSE db.reserved + delta[p].res
    BY <1>9, UpdateAt
  <2>3. \A q \in Procs : q # p => pc[q] \notin Critical
    BY <2>1 DEF LocksOK, Critical
  <2>4. Unchanged => 0 <= delta[p].spent
    BY <2>1 DEF HashOK
  <2>5. NotMissing'
    BY <1>m, <1>t, <2>1, <2>2, <2>3, <2>4 DEF Books, NotMissing, Critical
  <2>6. NotOver'
    BY <1>d, <1>t, <2>1, <2>2, <2>3 DEF Books, NotOver, Critical
  <2>7. Exact'
    BY <1>m, <1>d, <1>t, <2>1, <2>2, <2>3 DEF Books, Exact, Clearing, Critical
  <2>. QED
    BY <2>5, <2>6, <2>7 DEF Books
<1>10. ASSUME NEW p \in Procs, FlushClearSpent(p) PROVE Books'
  <2>1. /\ pc[p] = "clear" /\ pc'[p] = "clearres" /\ \A q \in Procs : q # p => pc'[q] = pc[q]
        /\ UNCHANGED <<db, charged, held>>
    BY <1>10, GotoAt DEF FlushClearSpent, Places
  <2>2. /\ delta'[p].spent = 0 /\ delta'[p].res = delta[p].res
        /\ \A q \in Procs : q # p => delta'[q] = delta[q]
    BY <1>10, <1>t DEF FlushClearSpent, Deltas
  <2>3. \A q \in Procs : q # p => pc[q] \notin Critical
    BY <2>1 DEF LocksOK, Critical
  <2>4. \/ hash'.dspent = hash.dspent - delta[p].spent /\ hash'.dres = hash.dres
        \/ hash' = hash /\ faults' = faults + 1
    <3>1. CASE Reduces("dspent", delta[p].spent)
      BY <1>t, <3>1, ReducesAt
    <3>2. CASE delta[p].spent = 0 /\ UNCHANGED <<ledger, faults>>
      BY <1>t, <3>2
    <3>. QED
      BY <1>10, <3>1, <3>2 DEF FlushClearSpent
  <2>5. NotMissing'
    BY <1>m, <1>t, <2>1, <2>2, <2>3, <2>4 DEF Books, NotMissing, Critical
  <2>6. CASE hash' = hash /\ faults' = faults + 1
    <3>1. ~Undisturbed'
      BY <1>t, <2>6 DEF Undisturbed
    <3>. QED
      BY <2>5, <3>1 DEF Books, NotOver, Exact
  <2>7. CASE hash'.dspent = hash.dspent - delta[p].spent /\ hash'.dres = hash.dres
    <3>1. NotOver'
      BY <1>d, <1>t, <2>1, <2>2, <2>3, <2>7 DEF Books, NotOver, Critical
    <3>2. Exact'
      BY <1>m, <1>d, <1>t, <2>1, <2>2, <2>3, <2>7 DEF Books, Exact, Clearing, Critical
    <3>. QED
      BY <2>5, <3>1, <3>2 DEF Books
  <2>. QED
    BY <2>4, <2>6, <2>7
<1>11. ASSUME NEW p \in Procs, FlushClearReserved(p) PROVE Books'
  <2>1. /\ pc[p] = "clearres" /\ pc'[p] \in {"held", "done", "del", "idle"}
        /\ \A q \in Procs : q # p => pc'[q] = pc[q]
        /\ UNCHANGED <<db, charged, held>>
    BY <1>11, ReturnsAt DEF FlushClearReserved
  <2>2. \A q \in Procs : q # p => delta'[q] = delta[q]
    BY <1>11, <1>t DEF FlushClearReserved
  <2>3. \A q \in Procs : q # p => pc[q] \notin Critical
    BY <2>1 DEF LocksOK, Critical
  <2>4. hash'.dspent = hash.dspent /\ (hash'.dres = hash.dres - delta[p].res \/ faults' = faults + 1)
    <3>1. CASE Reduces("dres", delta[p].res)
      BY <1>t, <3>1, ReducesAt
    <3>2. CASE delta[p].res = 0 /\ UNCHANGED <<ledger, faults>>
      BY <1>t, <3>2
    <3>. QED
      BY <1>11, <3>1, <3>2 DEF FlushClearReserved
  <2>5. NotMissing'
    BY <1>m, <1>t, <2>1, <2>2, <2>3, <2>4 DEF Books, NotMissing, Critical
  <2>6. NotOver'
    BY <1>d, <1>t, <2>1, <2>2, <2>3, <2>4 DEF Books, NotOver, Critical
  <2>7. CASE faults' = faults + 1
    <3>1. ~Undisturbed'
      BY <1>t, <2>7 DEF Undisturbed
    <3>. QED
      BY <2>5, <2>6, <3>1 DEF Books, Exact
  <2>8. CASE hash'.dres = hash.dres - delta[p].res
    <3>1. Exact'
      BY <1>m, <1>d, <1>t, <2>1, <2>2, <2>3, <2>4, <2>8 DEF Books, Exact, Clearing, Critical
    <3>. QED
      BY <2>5, <2>6, <3>1 DEF Books
  <2>. QED
    BY <2>4, <2>7, <2>8
<1>12. ASSUME NEW a \in Admins, UpdateBudget(a) \/ DeleteHash(a) PROVE Books'
  <2>1. /\ pc[a] \notin Clearing /\ pc'[a] \in {"flush", "done"} /\ \A q \in Procs : q # a => pc'[q] = pc[q]
    BY <1>0, <1>12, GotoAt DEF UpdateBudget, DeleteHash, Places, Clearing
  <2>2. ~Unchanged'
    BY <2>1 DEF Unchanged
  <2>3. UNCHANGED <<charged, held, delta>>
    BY <1>12 DEF UpdateBudget, DeleteHash
  <2>4. db'.spent = db.spent /\ (hash'.dspent = hash.dspent \/ hash'.dspent = 0)
    BY <1>12, <1>t DEF UpdateBudget, DeleteHash, NoHash, Rows
  <2>5. NotOver'
    BY <1>0, <1>d, <1>t, <2>1, <2>3, <2>4 DEF Books, NotOver, Clearing
  <2>. QED
    BY <2>2, <2>5 DEF Books, NotMissing, Exact
<1>13. CASE FlushLockExpires \/ UNCHANGED vars
  <2>1. UNCHANGED <<db, hash, charged, held, pc, delta, faults, crashes>>
    BY <1>13 DEF FlushLockExpires, vars
  <2>. QED
    BY <2>1 DEF Books, NotMissing, NotOver, Exact, Unchanged, Undisturbed
<1>. QED
  BY <1>0, <1>1, <1>2, <1>3, <1>4, <1>5, <1>6, <1>7, <1>8, <1>9, <1>10, <1>11, <1>12, <1>13
     DEF Next, Request, Flush

-----------------------------------------------------------------------------
(* The scripts decide alone as long as no call fails.                       *)

\* The hash has what was granted; nobody falls back to the row.
LEMMA StepScripts == TypeOK /\ LocksOK /\ HashOK /\ ScriptsOK /\ [Next]_vars => ScriptsOK'
<1> SUFFICES ASSUME TypeOK, LocksOK, HashOK, ScriptsOK, [Next]_vars, faults' = 0, Unchanged'
             PROVE  ScriptsOK'
  BY DEF ScriptsOK
<1> USE DEF ledger, grants, locks, bounds
<1>0. /\ Requests \subseteq Procs /\ Flushers \subseteq Procs /\ Admins \subseteq Procs
      /\ Requests \cap Admins = {} /\ Flushers \cap Admins = {} /\ Requests \cap Flushers = {}
      /\ Budget \in Nat \ {0} /\ NoOne \notin Procs
  BY LedgerAssumption DEF Procs
<1>u. Unchanged /\ faults = 0
  BY Monotone
<1>t. /\ db \in Rows /\ hash \in Hashes /\ loaded \in [Requests -> Rows] /\ pc \in [Procs -> Places]
      /\ charged \in Nat /\ held \in Nat
  BY DEF TypeOK, Rows, Hashes, Places
<1>1. ASSUME NEW r \in Requests,
             StartRequest(r) \/ SettleReservation(r) \/ EnsureExists(r) \/ TakeInitLock(r)
             \/ WaitRedisKey(r) \/ CheckAgain(r) \/ Publish(r)
      PROVE  ScriptsOK'
  <2>1. UNCHANGED <<db, ledger, charged, held, loaded>> /\ (initLock' = initLock \/ initLock' = r \/ hashed)
    BY <1>1 DEF StartRequest, SettleReservation, EnsureExists, TakeInitLock, WaitRedisKey, CheckAgain,
                FoundAgain, Publish
  <2>2. \E w \in Places \ {"sql", "hset"} : Goto(r, w) /\ (w = "wait" => initLock' # NoOne)
    BY <1>1, <1>u DEF StartRequest, SettleReservation, EnsureExists, TakeInitLock, WaitRedisKey, CheckAgain,
                Publish, AfterGrant, Places, ScriptsOK
  <2>3. PICK w \in Places \ {"sql", "hset"} : Goto(r, w) /\ (w = "wait" => initLock' # NoOne)
    BY <2>2
  <2>4. pc'[r] = w /\ \A q \in Procs : q # r => pc'[q] = pc[q]
    BY <1>0, <2>3, GotoAt
  <2>5. \A q \in Requests : /\ pc'[q] # "sql"
                            /\ pc'[q] = "wait" => hashed' \/ initLock' # NoOne
                            /\ pc'[q] = "hset" => loaded'[q] = NewRow
    BY <1>0, <1>u, <2>1, <2>3, <2>4 DEF ScriptsOK
  <2>. QED
    BY <1>u, <2>1, <2>5 DEF ScriptsOK
<1>2. ASSUME NEW r \in Requests, LoadScope(r) PROVE ScriptsOK'
  <2>1. /\ pc[r] = "load" /\ pc'[r] = "hset" /\ \A q \in Procs : q # r => pc'[q] = pc[q]
        /\ UNCHANGED <<db, ledger, charged, held, locks>>
        /\ loaded'[r] = db /\ \A q \in Requests : q # r => loaded'[q] = loaded[q]
    BY <1>0, <1>2, <1>t, GotoAt DEF LoadScope, Places
  <2>2. db = NewRow
    BY <1>u, <2>1 DEF HashOK, ScriptsOK
  <2>. QED
    BY <1>0, <1>u, <2>1, <2>2 DEF ScriptsOK
<1>3. ASSUME NEW r \in Requests, WriteHash(r) PROVE ScriptsOK'
  <2>1. /\ pc[r] = "hset" /\ pc'[r] = "eval" /\ \A q \in Procs : q # r => pc'[q] = pc[q]
        /\ UNCHANGED <<db, charged, held>> /\ hashed' = TRUE
        /\ loaded'[r] = NewRow /\ \A q \in Requests : q # r => loaded'[q] = loaded[q]
    BY <1>0, <1>3, <1>t, GotoAt DEF WriteHash, Places
  <2>2. loaded[r] = NewRow /\ charged = 0 /\ held = 0
    BY <1>u, <2>1 DEF HashOK, ScriptsOK
  <2>3. hash'.spent = 0 /\ hash'.reserved = 0 /\ hash'.budget = Budget
    BY <1>3, <2>2 DEF WriteHash, NewRow
  <2>. QED
    BY <1>0, <1>u, <2>1, <2>2, <2>3 DEF ScriptsOK
<1>4. ASSUME NEW r \in Requests, Eval(r) PROVE ScriptsOK'
  <2>1. /\ pc[r] = "eval" /\ UNCHANGED <<db, locks, loaded>> /\ \E w \in {"publish", "rejected"} : Goto(r, w)
    BY <1>4 DEF Eval
  <2>2. pc'[r] \in {"publish", "rejected"} /\ \A q \in Procs : q # r => pc'[q] = pc[q]
    BY <1>0, <2>1, GotoAt DEF Places
  <2>3. hashed /\ hash.spent = charged /\ hash.reserved = held /\ hash.budget = Budget
    BY <1>u, <2>1 DEF HashOK, ScriptsOK
  <2>4. CASE Admits(r, hash.budget, hash.spent, hash.reserved)
    <3>1. ApplyScript(r) /\ Grant(r)
      BY <1>4, <2>4 DEF Eval
    <3>2. /\ hashed' = TRUE /\ hash'.budget = Budget
          /\ hash'.spent = charged' /\ hash'.reserved = held'
      BY <2>3, <3>1, ScriptAt DEF Grant
    <3>3. charged' + held' <= Budget
      <4>1. want[r] \in {"consume", "reserve"} => charged + held + Cost[r] <= Budget
        BY <1>0, <2>3, <2>4 DEF Admits, Fits
      <4>2. charged + held <= Budget
        BY <1>u DEF ScriptsOK
      <4>3. charged' = charged + SpentBy(r) /\ held' = held + ReservedBy(r)
        BY <3>1 DEF Grant
      <4>. QED
        BY <1>0, <1>t, <4>1, <4>2, <4>3, Amounts
    <3>. QED
      BY <1>0, <1>u, <2>1, <2>2, <2>3, <3>2, <3>3 DEF ScriptsOK
  <2>5. CASE ~Admits(r, hash.budget, hash.spent, hash.reserved)
    <3>1. UNCHANGED <<ledger, charged, held>>
      BY <1>4, <2>5 DEF Eval
    <3>. QED
      BY <1>0, <1>u, <2>1, <2>2, <3>1 DEF ScriptsOK
  <2>. QED
    BY <2>4, <2>5
<1>5. ASSUME NEW r \in Requests, RedisFails(r) \/ Transaction(r) \/ TransactionFails(r) PROVE FALSE
  BY <1>5, <1>u DEF RedisFails, Transaction, TransactionFails, ScriptsOK
<1>6. ASSUME NEW p \in Procs, Flush(p) \/ FlushFails(p) PROVE ScriptsOK'
  <2>1. UNCHANGED <<initLock, charged, held, loaded>>
    BY <1>6 DEF Flush, FlushFails, TakeFlushLock, ReadSpentDelta, ReadReservedDelta, FlushUpdate,
                FlushClearSpent, FlushClearReserved
  <2>2. FlushReturns(p) \/ FlushErrs(p) \/ \E w \in Critical : Goto(p, w)
    BY <1>6 DEF Flush, FlushFails, TakeFlushLock, ReadSpentDelta, ReadReservedDelta, FlushUpdate,
                FlushClearSpent, FlushClearReserved, Critical
  <2>3. /\ pc'[p] \in {"held", "done", "failed", "del", "idle"} \cup Critical
        /\ \A q \in Procs : q # p => pc'[q] = pc[q]
    BY <2>2, GotoAt, ReturnsAt, ErrsAt DEF Places, Critical
  <2>4. CASE FlushUpdate(p)
    <3>1. hashed /\ UNCHANGED ledger
      BY <1>u, <2>4 DEF FlushUpdate, HashOK, Writing
    <3>. QED
      BY <1>0, <1>u, <2>1, <2>3, <3>1 DEF ScriptsOK, Critical
  <2>5. CASE FlushClearSpent(p) \/ FlushClearReserved(p)
    <3>1. hashed /\ db' = db /\ delta[p].spent \in Int /\ delta[p].res \in Int
      BY <1>u, <2>5 DEF FlushClearSpent, FlushClearReserved, HashOK, Writing, TypeOK
    <3>2. \/ UNCHANGED ledger
          \/ Reduces("dspent", delta[p].spent)
          \/ Reduces("dres", delta[p].res)
      BY <2>5 DEF FlushClearSpent, FlushClearReserved
    <3>3. /\ hashed' = TRUE /\ hash'.spent = hash.spent /\ hash'.reserved = hash.reserved
          /\ hash'.budget = hash.budget
      <4>1. CASE UNCHANGED ledger
        BY <3>1, <4>1
      <4>2. CASE Reduces("dspent", delta[p].spent)
        BY <1>u, <3>1, <4>2, ReducesAt
      <4>3. CASE Reduces("dres", delta[p].res)
        BY <1>u, <3>1, <4>3, ReducesAt
      <4>. QED
        BY <3>2, <4>1, <4>2, <4>3
    <3>. QED
      BY <1>0, <1>u, <2>1, <2>3, <3>1, <3>3 DEF ScriptsOK, Critical
  <2>6. CASE TakeFlushLock(p) \/ ReadSpentDelta(p) \/ ReadReservedDelta(p) \/ FlushFails(p)
    <3>1. UNCHANGED <<db, ledger>>
      BY <2>6 DEF TakeFlushLock, ReadSpentDelta, ReadReservedDelta, FlushFails
    <3>. QED
      BY <1>0, <1>u, <2>1, <2>3, <3>1 DEF ScriptsOK, Critical
  <2>. QED
    BY <1>6, <2>4, <2>5, <2>6 DEF Flush
<1>7. ASSUME NEW f \in Flushers, StartFlush(f) \/ Crash(f) PROVE ScriptsOK'
  <2>1. pc'[f] \in {"idle", "flush"} /\ \A q \in Procs : q # f => pc'[q] = pc[q]
    BY <1>0, <1>7, GotoAt DEF StartFlush, Crash, Places
  <2>2. UNCHANGED <<db, ledger, charged, held, loaded, locks>>
    BY <1>7 DEF StartFlush, Crash
  <2>. QED
    BY <1>0, <1>u, <2>1, <2>2 DEF ScriptsOK
<1>8. ASSUME NEW a \in Admins, UpdateBudget(a) \/ DeleteHash(a) PROVE FALSE
  <2>1. pc'[a] \in {"flush", "done"}
    BY <1>0, <1>8, GotoAt DEF UpdateBudget, DeleteHash, Places
  <2>. QED
    BY <2>1 DEF Unchanged
<1>9. CASE FlushLockExpires \/ UNCHANGED vars
  BY <1>u, <1>9 DEF FlushLockExpires, vars, ScriptsOK
<1>. QED
  BY <1>1, <1>2, <1>3, <1>4, <1>5, <1>6, <1>7, <1>8, <1>9 DEF Next, Request

-----------------------------------------------------------------------------
(* The theorems.                                                            *)

\* The strengthening holds at first.
LEMMA InitInv == Init => IInv
<1> SUFFICES ASSUME Init PROVE IInv
  OBVIOUS
<1>0. /\ Requests \subseteq Procs /\ Admins \subseteq Procs
      /\ db = NewRow /\ NewRow.spent = 0 /\ NewRow.reserved = 0
      /\ hash = NoHash /\ NoHash.dspent = 0 /\ NoHash.dres = 0
  BY DEF Init, Procs, NewRow, NoHash
<1>1. TypeOK
  BY InitType
<1>2. LocksOK /\ WantOK
  BY <1>0 DEF Init, LocksOK, WantOK, Critical, Initialising
<1>3. Packed
  <2>1. [r \in Requests |-> 0] \in [Requests -> Nat] /\ held = 0
    BY DEF Init
  <2>2. \A r \in Requests : ~Holds(r)
    BY DEF Init, Holds
  <2>. QED
    BY <2>1, <2>2 DEF Packed, PackedBy
<1>4. HashOK
  BY <1>0 DEF Init, HashOK, Writing
<1>5. NotMissing /\ NotOver /\ Exact
  BY <1>0 DEF Init, NotMissing, NotOver, Exact, Clearing
<1>6. ScriptsOK
  BY <1>0, LedgerAssumption DEF Init, ScriptsOK
<1>. QED
  BY <1>1, <1>2, <1>3, <1>4, <1>5, <1>6 DEF IInv

\* Every step keeps the strengthening.
LEMMA StepInv == IInv /\ [Next]_vars => IInv'
<1> SUFFICES ASSUME IInv, [Next]_vars PROVE IInv'
  OBVIOUS
<1>1. Packed'
  BY StepPacked DEF IInv
<1>2. TypeOK'
  BY <1>1, StepType DEF IInv, Packed
<1>3. LocksOK' /\ WantOK' /\ HashOK' /\ ScriptsOK'
  BY StepLocks, StepWant, StepHash, StepScripts DEF IInv
<1>4. Books'
  BY StepBooks DEF IInv, Books
<1>. QED
  BY <1>1, <1>2, <1>3, <1>4 DEF IInv, Books

\* The whole strengthening, which needs the locks to know that one process flushes at a time.
THEOREM Invariance == Spec => []IInv
BY InitInv, StepInv, PTL DEF Spec

\* The hard_reject policy, nothing granted is missing, and nothing is in the row that was
\* not granted: whatever the number of requests, flushers, administrators and failures.
THEOREM LedgerCorrect == Spec => []LedgerSound
<1>1. IInv => LedgerSound
  <2> SUFFICES ASSUME IInv PROVE LedgerSound
    OBVIOUS
  <2>1. WithinBudget
    BY DEF IInv, ScriptsOK, WithinBudget
  <2>2. NotUndercounted /\ RowNotOverstated
    BY DEF IInv, NotMissing, NotUndercounted, NotOver, RowNotOverstated
  <2>. QED
    BY <2>1, <2>2 DEF IInv, LedgerSound
<1>. QED
  BY <1>1, Invariance, PTL

\* flushBudgetScopeDelta: every amount granted is in the row or in a delta, exactly once.
THEOREM AccountedCorrect == Spec => []Accounted
<1>1. IInv => Accounted
  BY DEF IInv, Exact, Accounted, Clearing
<1>. QED
  BY <1>1, Invariance, PTL

-----------------------------------------------------------------------------
(* The ledger implements one account that is charged in one step.           *)

Degraded == faults > 0 \/ ~Unchanged

\* A step that answers nobody is a stutter of the account, or degrades it.
LEMMA AccountKept ==
  ASSUME TypeOK, TypeOK', [Next]_vars, charged' = charged, held' = held,
         \A r \in Requests : AnswerOf(r)' = AnswerOf(r)
  PROVE  [Account!AccountNext]_(Account!accountVars)
<1>1. [r \in Requests |-> AnswerOf(r)]' = [r \in Requests |-> AnswerOf(r)]
  OBVIOUS
<1>2. CASE Degraded'
  <2>1. Account!Degrade
    BY <1>1, <1>2 DEF Account!Degrade, Degraded
  <2>. QED
    BY <2>1 DEF Account!AccountNext
<1>3. CASE ~Degraded'
  <2>1. ~Degraded
    BY <1>3, Monotone, LedgerAssumption DEF Degraded, TypeOK
  <2>. QED
    BY <1>1, <1>3, <2>1 DEF Account!accountVars, Degraded
<1>. QED
  BY <1>2, <1>3

\* A script or a transaction that grants is one operation of the account.
LEMMA AccountGrant ==
  ASSUME TypeOK, NEW r \in Requests, Grant(r), pc[r] \in {"eval", "sql"}, want' = want,
         pc'[r] \in {"publish", AfterGrant(r)}, \A q \in Requests : q # r => pc'[q] = pc[q],
         Degraded' = Degraded,
         want[r] \in {"consume", "reserve"} => charged + held + Cost[r] <= Budget \/ Degraded
  PROVE  Account!AccountNext
<1>1. ASSUME NEW before, NEW after, AnswerOf(r) = before, AnswerOf(r)' = after
      PROVE  Account!Answers(r, before, after)
  <2>1. \A q \in Requests : q # r => AnswerOf(q)' = AnswerOf(q)
    BY DEF AnswerOf
  <2>2. [q \in Requests |-> AnswerOf(q)]' = [[q \in Requests |-> AnswerOf(q)] EXCEPT ![r] = after]
    BY <1>1, <2>1
  <2>. QED
    BY <1>1, <2>2 DEF Account!Answers, Degraded
<1>2. charged' = charged + SpentBy(r) /\ held' = held + ReservedBy(r) /\ charged \in Nat /\ held \in Nat
  BY DEF Grant, TypeOK
<1>3. CASE want[r] = "consume"
  <2>1. AnswerOf(r) = "none" /\ AnswerOf(r)' \in {"charging", "settled"}
    BY <1>3 DEF AnswerOf, AfterGrant, Undecided
  <2>2. charged' = charged + Cost[r] /\ held' = held
    BY <1>2, <1>3, Amounts
  <2>3. Account!ConsumeBudget(r)
    BY <1>1, <1>3, <2>1, <2>2 DEF Account!ConsumeBudget, Account!HasRoom, Degraded
  <2>. QED
    BY <2>3 DEF Account!AccountNext
<1>4. CASE want[r] = "reserve"
  <2>1. AnswerOf(r) = "none" /\ AnswerOf(r)' \in {"holding", "held"}
    BY <1>4 DEF AnswerOf, AfterGrant, Undecided
  <2>2. charged' = charged /\ held' = held + Cost[r]
    BY <1>2, <1>4, Amounts
  <2>3. Account!ReserveBudget(r)
    BY <1>1, <1>4, <2>1, <2>2 DEF Account!ReserveBudget, Account!HasRoom, Degraded
  <2>. QED
    BY <2>3 DEF Account!AccountNext
<1>5. CASE want[r] = "commit"
  <2>1. AnswerOf(r) = "held" /\ AnswerOf(r)' \in {"charging", "settled"}
    BY <1>5 DEF AnswerOf, AfterGrant, Undecided
  <2>2. charged' = charged + Cost[r] /\ held' = held - Cost[r]
    BY <1>2, <1>5, Amounts
  <2>3. Account!CommitBudget(r)
    BY <1>1, <2>1, <2>2 DEF Account!CommitBudget, Degraded
  <2>. QED
    BY <2>3 DEF Account!AccountNext
<1>6. CASE want[r] = "release"
  <2>1. AnswerOf(r) = "held" /\ AnswerOf(r)' \in {"charging", "settled"}
    BY <1>6 DEF AnswerOf, AfterGrant, Undecided
  <2>2. charged' = charged /\ held' = held - Cost[r]
    BY <1>2, <1>6, Amounts
  <2>3. Account!ReleaseBudget(r)
    BY <1>1, <2>1, <2>2 DEF Account!ReleaseBudget, Degraded
  <2>. QED
    BY <2>3 DEF Account!AccountNext
<1>. QED
  BY <1>3, <1>4, <1>5, <1>6, Amounts

\* A script or a transaction that refuses does so because there is no room.
LEMMA AccountReject ==
  ASSUME TypeOK, NEW r \in Requests, pc[r] \in {"eval", "sql"}, want' = want,
         charged' = charged, held' = held,
         pc'[r] = "rejected", \A q \in Requests : q # r => pc'[q] = pc[q],
         Degraded' = Degraded, want[r] \in {"consume", "reserve"},
         ~(charged + held + Cost[r] <= Budget) \/ Degraded
  PROVE  Account!AccountNext
<1>1. \A q \in Requests : q # r => AnswerOf(q)' = AnswerOf(q)
  BY DEF AnswerOf
<1>2. AnswerOf(r) = "none" /\ AnswerOf(r)' = "rejected"
  BY DEF AnswerOf, Undecided
<1>3. [q \in Requests |-> AnswerOf(q)]' = [[q \in Requests |-> AnswerOf(q)] EXCEPT ![r] = "rejected"]
  BY <1>1, <1>2
<1>4. Account!RejectRequest(r)
  BY <1>2, <1>3 DEF Account!RejectRequest, Account!Answers, Account!HasRoom, Degraded
<1>. QED
  BY <1>4 DEF Account!AccountNext

\* A request whose script has run is answered, or one is told of an error, while a call
\* may fail.
LEMMA AccountAnswer ==
  ASSUME TypeOK, TypeOK', [Next]_vars, NEW r \in Requests, charged' = charged, held' = held,
         \A q \in Requests : q # r => AnswerOf(q)' = AnswerOf(q),
         \/ AnswerOf(r)' = AnswerOf(r)
         \/ AnswerOf(r) = "charging" /\ AnswerOf(r)' = "settled"
         \/ AnswerOf(r) = "holding" /\ AnswerOf(r)' = "held"
         \/ AnswerOf(r) \in {"none", "charging", "holding", "held"} /\ AnswerOf(r)' = "failed"
  PROVE  [Account!AccountNext]_(Account!accountVars)
<1>1. [q \in Requests |-> AnswerOf(q)]' = [[q \in Requests |-> AnswerOf(q)] EXCEPT ![r] = AnswerOf(r)']
  OBVIOUS
<1>2. Degraded => Degraded'
  BY Monotone, LedgerAssumption DEF Degraded, TypeOK
<1>3. Degraded' = Degraded \/ Degraded' = TRUE
  BY <1>2 DEF Degraded
<1>4. CASE AnswerOf(r)' = AnswerOf(r)
  BY <1>4, AccountKept
<1>5. CASE \/ AnswerOf(r) = "charging" /\ AnswerOf(r)' = "settled"
           \/ AnswerOf(r) = "holding" /\ AnswerOf(r)' = "held"
  <2>1. Account!AnswerRequest(r)
    BY <1>1, <1>3, <1>5 DEF Account!AnswerRequest, Account!Answers, Degraded
  <2>. QED
    BY <2>1 DEF Account!AccountNext
<1>6. CASE AnswerOf(r) \in {"none", "charging", "holding", "held"} /\ AnswerOf(r)' = "failed"
  <2>1. Account!FailRequest(r)
    BY <1>1, <1>3, <1>6 DEF Account!FailRequest, Account!Answers, Degraded
  <2>. QED
    BY <2>1 DEF Account!AccountNext
<1>. QED
  BY <1>4, <1>5, <1>6

\* Every step of the ledger is a step of the account or a stutter.
LEMMA AccountStep == IInv /\ IInv' /\ [Next]_vars => [Account!AccountNext]_(Account!accountVars)
<1> SUFFICES ASSUME IInv, IInv', [Next]_vars PROVE [Account!AccountNext]_(Account!accountVars)
  OBVIOUS
<1> USE DEF grants, bounds
<1>0. /\ Requests \subseteq Procs /\ Flushers \subseteq Procs /\ Admins \subseteq Procs
      /\ Requests \cap Flushers = {} /\ Requests \cap Admins = {} /\ Budget \in Nat \ {0}
  BY LedgerAssumption DEF Procs
<1>t. TypeOK /\ TypeOK' /\ WantOK /\ ScriptsOK /\ HashOK
  BY DEF IInv
<1>1. ASSUME NEW r \in Requests, StartRequest(r) \/ SettleReservation(r)
      PROVE  [Account!AccountNext]_(Account!accountVars)
  <2>1. charged' = charged /\ held' = held /\ \A t \in Requests : AnswerOf(t)' = AnswerOf(t)
    BY <1>0, <1>1, <1>t DEF TypeOK, WantOK, Goto, StartRequest, SettleReservation, AnswerOf, Undecided
  <2>. QED
    BY <1>t, <2>1, AccountKept
<1>2. ASSUME NEW r \in Requests,
             EnsureExists(r) \/ TakeInitLock(r) \/ WaitRedisKey(r) \/ CheckAgain(r)
             \/ LoadScope(r) \/ WriteHash(r) \/ RedisFails(r)
      PROVE  [Account!AccountNext]_(Account!accountVars)
  <2>1. /\ UNCHANGED <<want, charged, held>> /\ pc[r] \in Undecided
        /\ \E w \in {"eval", "lock", "check", "wait", "sql", "load", "hset"} : Goto(r, w)
    BY <1>2 DEF EnsureExists, TakeInitLock, WaitRedisKey, CheckAgain, LoadScope, WriteHash, RedisFails,
                Undecided
  <2>2. \A t \in Requests : AnswerOf(t)' = AnswerOf(t)
    BY <1>0, <1>t, <2>1 DEF TypeOK, Goto, AnswerOf, Undecided
  <2>. QED
    BY <1>t, <2>1, <2>2, AccountKept
<1>3. ASSUME NEW r \in Requests, Eval(r) \/ Transaction(r) PROVE Account!AccountNext
  <2>1. /\ UNCHANGED <<want, faults>> /\ pc[r] \in {"eval", "sql"}
        /\ \E w \in {"publish", "held", "done", "rejected"} : Goto(r, w)
    BY <1>3 DEF Eval, Transaction, AfterGrant
  <2>2. \A q \in Procs : q # r => pc'[q] = pc[q]
    BY <1>0, <1>t, <2>1, GotoAt DEF Places
  <2>3. Degraded' = Degraded
    BY <1>0, <2>1, <2>2 DEF Degraded, Unchanged
  <2>4. charged \in Nat /\ held \in Nat /\ Cost[r] \in Nat
    BY <1>t, Amounts DEF TypeOK
  <2>5. ~Degraded => /\ pc[r] = "eval" /\ hash.spent = charged /\ hash.reserved = held
                     /\ hash.budget = Budget
    BY <1>t, <2>1, LedgerAssumption DEF Degraded, ScriptsOK, HashOK, TypeOK
  <2>6. CASE Eval(r) /\ Admits(r, hash.budget, hash.spent, hash.reserved)
    <3>1. Grant(r) /\ Goto(r, "publish")
      BY <2>6 DEF Eval
    <3>2. pc'[r] = "publish"
      BY <1>0, <1>t, <3>1, GotoAt DEF Places
    <3>3. want[r] \in {"consume", "reserve"} => charged + held + Cost[r] <= Budget \/ Degraded
      BY <1>0, <2>4, <2>5, <2>6 DEF Admits, Fits
    <3>. QED
      BY <1>0, <1>t, <2>1, <2>2, <2>3, <3>1, <3>2, <3>3, AccountGrant
  <2>7. CASE Eval(r) /\ ~Admits(r, hash.budget, hash.spent, hash.reserved)
    <3>1. Goto(r, "rejected") /\ charged' = charged /\ held' = held
      BY <2>7 DEF Eval
    <3>2. pc'[r] = "rejected"
      BY <1>0, <1>t, <3>1, GotoAt DEF Places
    <3>3. want[r] \in {"consume", "reserve"} /\ (~(charged + held + Cost[r] <= Budget) \/ Degraded)
      BY <1>0, <2>4, <2>5, <2>7 DEF Admits, Fits
    <3>. QED
      BY <1>0, <1>t, <2>1, <2>2, <2>3, <3>1, <3>2, <3>3, AccountReject
  <2>8. CASE Transaction(r)
    <3>1. Degraded
      BY <2>5, <2>8 DEF Transaction
    <3>2. CASE Grant(r) /\ Goto(r, AfterGrant(r))
      <4>1. AfterGrant(r) \in {"held", "done"}
        BY DEF AfterGrant
      <4>2. pc'[r] = AfterGrant(r)
        BY <1>0, <1>t, <3>2, <4>1, GotoAt DEF Places
      <4>. QED
        BY <1>0, <1>t, <2>1, <2>2, <2>3, <3>1, <3>2, <4>2, AccountGrant
    <3>3. CASE ~(Grant(r) /\ Goto(r, AfterGrant(r)))
      <4>1. Goto(r, "rejected") /\ charged' = charged /\ held' = held /\ want[r] \in {"consume", "reserve"}
        BY <2>8, <3>3 DEF Transaction, Admits
      <4>2. pc'[r] = "rejected"
        BY <1>0, <1>t, <4>1, GotoAt DEF Places
      <4>. QED
        BY <1>0, <1>t, <2>1, <2>2, <2>3, <3>1, <4>1, <4>2, AccountReject
    <3>. QED
      BY <3>2, <3>3
  <2>. QED
    BY <1>3, <2>6, <2>7, <2>8
<1>4. ASSUME NEW r \in Requests, Publish(r) \/ TransactionFails(r)
      PROVE  [Account!AccountNext]_(Account!accountVars)
  <2>1. UNCHANGED <<want, charged, held>>
    BY <1>4 DEF Publish, TransactionFails
  <2>2. \A q \in Procs : q # r => pc'[q] = pc[q]
    BY <1>0, <1>4, <1>t, GotoAt DEF Publish, TransactionFails, AfterGrant, Places
  <2>3. \/ pc[r] = "publish" /\ pc'[r] \in {AfterGrant(r), "flush"}
        \/ pc[r] = "sql" /\ pc'[r] = "failed"
    BY <1>0, <1>4, <1>t, GotoAt DEF Publish, TransactionFails, AfterGrant, Places
  <2>4. \A q \in Requests : q # r => AnswerOf(q)' = AnswerOf(q)
    BY <1>0, <2>1, <2>2 DEF AnswerOf
  <2>5. CASE pc[r] = "publish"
    <3>1. \/ AnswerOf(r)' = AnswerOf(r)
          \/ AnswerOf(r) = "charging" /\ AnswerOf(r)' = "settled"
          \/ AnswerOf(r) = "holding" /\ AnswerOf(r)' = "held"
      BY <2>1, <2>3, <2>5 DEF AnswerOf, AfterGrant, Undecided
    <3>. QED
      BY <1>t, <2>1, <2>4, <3>1, AccountAnswer
  <2>6. CASE pc[r] = "sql"
    <3>1. AnswerOf(r) \in {"none", "held"} /\ AnswerOf(r)' = "failed"
      BY <2>1, <2>3, <2>6 DEF AnswerOf, Undecided
    <3>. QED
      BY <1>t, <2>1, <2>4, <3>1, AccountAnswer
  <2>. QED
    BY <2>3, <2>5, <2>6
<1>5. ASSUME NEW p \in Procs, Flush(p) \/ FlushFails(p) PROVE [Account!AccountNext]_(Account!accountVars)
  <2>1. /\ UNCHANGED <<want, charged, held>> /\ pc[p] \in Critical \cup {"flush"}
        /\ FlushReturns(p) \/ FlushErrs(p) \/ \E w \in Critical : Goto(p, w)
    BY <1>5 DEF Flush, FlushFails, TakeFlushLock, ReadSpentDelta, ReadReservedDelta, FlushUpdate,
                FlushClearSpent, FlushClearReserved, Critical
  <2>2. /\ p \in Requests => pc'[p] \in {AfterGrant(p), "failed"} \cup Critical
        /\ \A q \in Procs : q # p => pc'[q] = pc[q]
    BY <1>0, <1>t, <2>1, GotoAt, ReturnsAt, ErrsAt DEF Places, Critical, AfterGrant
  <2>3. \A q \in Requests : q # p => AnswerOf(q)' = AnswerOf(q)
    BY <1>0, <2>1, <2>2 DEF AnswerOf
  <2>4. CASE p \in Requests
    <3>1. \/ AnswerOf(p)' = AnswerOf(p)
          \/ AnswerOf(p) = "charging" /\ AnswerOf(p)' = "settled"
          \/ AnswerOf(p) = "holding" /\ AnswerOf(p)' = "held"
          \/ AnswerOf(p) \in {"charging", "holding"} /\ AnswerOf(p)' = "failed"
      BY <2>1, <2>2, <2>4 DEF AnswerOf, AfterGrant, Undecided, Critical
    <3>. QED
      BY <1>t, <2>1, <2>3, <2>4, <3>1, AccountAnswer
  <2>5. CASE p \notin Requests
    BY <1>t, <2>1, <2>3, <2>5, AccountKept
  <2>. QED
    BY <2>4, <2>5
<1>6. ASSUME NEW p \in Flushers \cup Admins,
             StartFlush(p) \/ Crash(p) \/ UpdateBudget(p) \/ DeleteHash(p)
      PROVE  [Account!AccountNext]_(Account!accountVars)
  <2>1. charged' = charged /\ held' = held /\ \A t \in Requests : AnswerOf(t)' = AnswerOf(t)
    BY <1>0, <1>6, <1>t DEF TypeOK, Goto, AnswerOf, StartFlush, Crash, UpdateBudget, DeleteHash
  <2>. QED
    BY <1>t, <2>1, AccountKept
<1>7. CASE FlushLockExpires \/ UNCHANGED vars
  <2>1. charged' = charged /\ held' = held /\ \A t \in Requests : AnswerOf(t)' = AnswerOf(t)
    BY <1>7 DEF vars, FlushLockExpires, AnswerOf
  <2>. QED
    BY <1>t, <2>1, AccountKept
<1>. QED
  BY <1>1, <1>2, <1>3, <1>4, <1>5, <1>6, <1>7 DEF Next, Request

\* ConsumeBudgets, ReserveBudgets, CommitBudgets and ReleaseBudgets behave as one account
\* that is charged in one step, until a call fails or the budget is changed.
THEOREM Refinement == Spec => ImplementsAccount
<1>1. Init => Account!AccountInit
  <2> SUFFICES ASSUME Init PROVE Account!AccountInit
    OBVIOUS
  <2>1. Unchanged /\ \A r \in Requests : AnswerOf(r) = "none"
    BY DEF Init, Unchanged, AnswerOf, Undecided, Procs
  <2>. QED
    BY <2>1 DEF Init, Account!AccountInit
<1>. QED
  BY <1>1, Invariance, AccountStep, PTL DEF Spec, ImplementsAccount, Account!AccountSpec
=============================================================================

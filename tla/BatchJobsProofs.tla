-------------------------- MODULE BatchJobsProofs --------------------------
(***************************************************************************)
(* Proofs about BatchJobs for any number of items and workers, any         *)
(* isolation level and any number of crashes, timeouts and recoveries.     *)
(***************************************************************************)
EXTENDS MCBatchJobs, FiniteSetTheorems, TLAPS

-----------------------------------------------------------------------------
(* The strengthening: what row locks and the WHERE clauses maintain.        *)

\* At most one open transaction has written an item.
LockExclusive ==
    \A p, q \in Procs : \A i \in Items :
        p # q => wr[p][i] = "none" \/ wr[q][i] = "none"

\* An item with an uncommitted write is not terminal.
WritesOpen ==
    \A p \in Procs : \A i \in Items : wr[p][i] # "none" => item[i] \notin ItemEnd

\* Outside a transaction nothing is written; a claim writes only "running".
WritesInTx ==
    /\ \A p \in Procs : pc[p] \notin InTx => wr[p] = NoWrites
    /\ \A p \in Procs : pc[p] = "items" => wr[p] = NoWrites
    /\ \A w \in Workers : pc[w] = "claim" => \A i \in Items : wr[w][i] \in {"none", "running"}

\* UPDATE changes only rows that exist, and a worker handles such a row.
WritesPresent ==
    /\ \A p \in Procs : \A i \in Items : wr[p][i] # "none" => item[i] # "absent"
    /\ \A w \in Workers : pc[w] # "idle" => item[cur[w]] # "absent"

\* Create inserts rows that do not exist yet.
InsertsFresh ==
    /\ creator.pc \in {"job", "insert"} => item[creator.next] = "absent"
    /\ creator.pc \in {"job", "insert", "publish"} =>
         \A i \in Items : i > creator.next => item[i] = "absent"

IInv ==
    /\ TypeOK
    /\ TokensCountedOnce
    /\ LockExclusive
    /\ WritesOpen
    /\ WritesInTx
    /\ WritesPresent
    /\ InsertsFresh

-----------------------------------------------------------------------------
(* Types.                                                                   *)

Counts == [total : Nat, completed : Nat, failed : Nat, cancelled : Nat, running : Nat]

\* The items of a job can be counted.
LEMMA ItemCounts == \A S \in SUBSET Items : Cardinality(S) \in Nat
<1>1. IsFiniteSet(Items)
  BY FS_Interval, BatchAssumption DEF Items
<1>. QED
  BY <1>1, FS_Subset, FS_CardinalityType

\* The SELECT of refreshBatchJobStatusTx returns natural numbers.
LEMMA SummaryType == ASSUME NEW rows PROVE Summary(rows) \in Counts
<1>1. \A s : NumberWith(rows, s) \in Nat
  BY ItemCounts DEF NumberWith
<1>2. Cardinality({i \in Items : rows[i] # "absent"}) \in Nat
  BY ItemCounts
<1>. QED
  BY <1>1, <1>2 DEF Summary, Completed, Counts

\* The switch of refreshBatchJobStatusTx returns a status of a job.
LEMMA NextStatusType ==
  ASSUME NEW p \in {"none", "cancelling", "cancelled"}, NEW c \in JobStatus, NEW n
  PROVE  NextStatus(p, c, n) \in JobStatus
BY DEF NextStatus, WhenCancelling, JobStatus, JobEnd

\* Ending a transaction keeps the transaction variables well typed.
LEMMA EndTxType ==
  ASSUME TypeOK, NEW p \in Procs, EndTx(p)
  PROVE  /\ wr' \in [Procs -> [Items -> {"none", "running"} \cup ItemEnd]]
         /\ jobLock' \in Workers \cup {Nobody}
         /\ seen' \in [Procs -> Counts]
         /\ saw' \in [Procs -> JobStatus]
         /\ pref' \in [Procs -> {"none", "cancelling", "cancelled"}]
BY DEF TypeOK, EndTx, NoWrites, NoCounts, Counts, JobStatus

\* The initial rows have their types.
LEMMA InitType == Init => TypeOK
BY BatchAssumption DEF Init, TypeOK, Items, NoWrites, NoCounts, Procs, InTx,
   ItemStatus, ItemEnd, JobStatus

\* Every statement keeps the types.
LEMMA TypeStep == TypeOK /\ [Next]_vars => TypeOK'
<1>. SUFFICES ASSUME TypeOK, [Next]_vars PROVE TypeOK'
  OBVIOUS
<1>. USE DEF txVars, dbVars
<1>1. CASE CreateBatchJob
  BY <1>1 DEF CreateBatchJob, TypeOK, JobStatus
<1>2. CASE CreateBatchItem
  BY <1>2 DEF CreateBatchItem, TypeOK, ItemStatus
<1>3. CASE CreateFails
  BY <1>3 DEF CreateFails, TypeOK
<1>4. CASE PublishItem
  <2>1. queue' \in [Items -> Nat]
    BY <1>4 DEF PublishItem, TypeOK
  <2>2. creator' \in [pc : {"job", "insert", "publish", "done", "aborted"}, next : Items]
    <3>1. creator.next \in 1..N
      BY DEF TypeOK, Items
    <3>2. CASE LastItem
      BY <1>4, <3>1, <3>2 DEF PublishItem, TypeOK
    <3>3. CASE ~LastItem
      <4>1. creator.next + 1 \in Items
        BY <3>1, <3>3, BatchAssumption DEF LastItem, Items
      <4>. QED
        BY <1>4, <3>3, <4>1 DEF PublishItem
    <3>. QED
      BY <3>2, <3>3
  <2>. QED
    BY <1>4, <2>1, <2>2 DEF PublishItem, TypeOK
<1>5. ASSUME NEW w \in Workers, WorkerStep(w) \/ HandlerTimeout(w) PROVE TypeOK'
  <2>0. w \in Procs
    BY DEF Procs
  <2>1. ASSUME NEW i \in Items, MarkBatchItemRunning(w, i) PROVE TypeOK'
    <3>1. queue' \in [Items -> Nat]
      BY <2>1 DEF MarkBatchItemRunning, TypeOK
    <3>2. wr' \in [Procs -> [Items -> {"none", "running"} \cup ItemEnd]]
      <4>1. \/ wr' = [wr EXCEPT ![w] = [wr[w] EXCEPT ![i] = "running"]]
            \/ wr' = wr
        BY <2>1 DEF MarkBatchItemRunning
      <4>2. wr \in [Procs -> [Items -> {"none", "running"} \cup ItemEnd]]
        BY DEF TypeOK
      <4>. QED
        BY <2>0, <4>1, <4>2
    <3>3. /\ pc' \in [Procs -> {"idle", "check", "exec", "term"} \cup InTx]
          /\ cur' \in [Workers -> Items]
      <4>1. \/ pc' = [pc EXCEPT ![w] = "claim"] /\ cur' = [cur EXCEPT ![w] = i]
            \/ pc' = pc /\ cur' = cur
        BY <2>1 DEF MarkBatchItemRunning
      <4>2. pc' \in [Procs -> {"idle", "check", "exec", "term"} \cup InTx]
        BY <4>1 DEF TypeOK, InTx
      <4>3. cur' \in [Workers -> Items]
        BY <4>1 DEF TypeOK
      <4>. QED
        BY <4>2, <4>3
    <3>. QED
      BY <2>1, <3>1, <3>2, <3>3 DEF MarkBatchItemRunning, TypeOK
  <2>2. CASE ClaimCommit(w)
    <3>1. item' \in [Items -> ItemStatus]
      BY <2>0, <2>2 DEF ClaimCommit, Visible, TypeOK, ItemStatus
    <3>2. job' \in [status : JobStatus, completed : Nat, failed : Nat, cancelled : Nat]
      BY <2>2 DEF ClaimCommit, TypeOK, JobStatus
    <3>3. pc' \in [Procs -> {"idle", "check", "exec", "term"} \cup InTx]
      BY <2>2 DEF ClaimCommit, TypeOK
    <3>. QED
      BY <2>0, <2>2, <3>1, <3>2, <3>3, EndTxType DEF ClaimCommit, TypeOK, Counts
  <2>3. CASE CheckJob(w)
    BY <2>3 DEF CheckJob, TypeOK, ItemEnd
  <2>4. CASE Execute(w)
    <3>1. PICK o \in {"completed", "failed"} : out' = [out EXCEPT ![w] = o]
      BY <2>4 DEF Execute
    <3>2. out' \in [Workers -> {"none"} \cup ItemEnd]
      BY <3>1 DEF TypeOK, ItemEnd
    <3>3. execs' \in [Items -> Nat]
      BY <2>4 DEF Execute, TypeOK
    <3>. QED
      BY <2>4, <3>2, <3>3 DEF Execute, TypeOK
  <2>5. CASE UpdateItemTerminal(w)
    <3>1. cur[w] \in Items /\ out[w] \in {"none"} \cup ItemEnd
      BY DEF TypeOK
    <3>2. wr' \in [Procs -> [Items -> {"none", "running"} \cup ItemEnd]]
      <4>1. \/ wr' = [wr EXCEPT ![w] = [wr[w] EXCEPT ![cur[w]] = out[w]]]
            \/ wr' = wr
        BY <2>5 DEF UpdateItemTerminal
      <4>2. wr \in [Procs -> [Items -> {"none", "running"} \cup ItemEnd]]
        BY DEF TypeOK
      <4>. QED
        BY <2>0, <3>1, <4>1, <4>2
    <3>3. pc' \in [Procs -> {"idle", "check", "exec", "term"} \cup InTx]
      BY <2>0, <2>5 DEF UpdateItemTerminal, TypeOK, InTx
    <3>4. out' \in [Workers -> {"none"} \cup ItemEnd]
      BY <2>5 DEF UpdateItemTerminal, TypeOK
    <3>. QED
      BY <2>5, <3>2, <3>3, <3>4 DEF UpdateItemTerminal, TypeOK
  <2>6. CASE AddTokens(w)
    BY <2>6 DEF AddTokens, TypeOK, InTx
  <2>7. CASE RefreshCount(w)
    BY <2>0, <2>7, SummaryType DEF RefreshCount, TypeOK, InTx, Counts
  <2>8. CASE RefreshStatus(w)
    BY <2>0, <2>8 DEF RefreshStatus, TypeOK, InTx
  <2>9. CASE RefreshCommit(w)
    <3>1. item' \in [Items -> ItemStatus] /\ billed' \in [Items -> Nat]
      BY <2>0, <2>9 DEF RefreshCommit, Visible, TypeOK, ItemStatus
    <3>2. job' \in [status : JobStatus, completed : Nat, failed : Nat, cancelled : Nat]
      BY <2>0, <2>9, NextStatusType DEF RefreshCommit, TypeOK
    <3>3. /\ pc' \in [Procs -> {"idle", "check", "exec", "term"} \cup InTx]
          /\ out' \in [Workers -> {"none"} \cup ItemEnd]
      BY <2>9 DEF RefreshCommit, TypeOK
    <3>. QED
      BY <2>0, <2>9, <3>1, <3>2, <3>3, EndTxType DEF RefreshCommit, TypeOK, Counts
  <2>10. CASE HandlerTimeout(w)
    <3>1. /\ pc' \in [Procs -> {"idle", "check", "exec", "term"} \cup InTx]
          /\ out' \in [Workers -> {"none"} \cup ItemEnd]
      BY <2>10 DEF HandlerTimeout, TypeOK
    <3>2. spent' \in [requeue : Nat, crash : Nat, timeout : Nat]
      <4>1. spent' = [spent EXCEPT !.timeout = spent.timeout + 1]
        BY <2>10, Zenon DEF HandlerTimeout
      <4>2. spent \in [requeue : Nat, crash : Nat, timeout : Nat]
        BY DEF TypeOK
      <4>. QED
        BY <4>1, <4>2
    <3>. QED
      BY <2>0, <2>10, <3>1, <3>2, EndTxType DEF HandlerTimeout, TypeOK, Counts
  <2>. QED
    BY <1>5, <2>1, <2>2, <2>3, <2>4, <2>5, <2>6, <2>7, <2>8, <2>9, <2>10 DEF WorkerStep
<1>6. CASE CancelStep
  <2>0. Canceller \in Procs
    BY DEF Procs
  <2>1. CASE CancelBegin
    BY <2>0, <2>1 DEF CancelBegin, TypeOK, InTx
  <2>2. CASE CancelItems
    BY <2>0, <2>2 DEF CancelItems, TypeOK, InTx, ItemEnd
  <2>3. CASE CancelCountRunning
    BY <2>0, <2>3 DEF CancelCountRunning, TypeOK, InTx
  <2>4. CASE RefreshCount(Canceller)
    BY <2>0, <2>4, SummaryType DEF RefreshCount, TypeOK, InTx, Counts
  <2>5. CASE RefreshStatus(Canceller)
    BY <2>0, <2>5 DEF RefreshStatus, TypeOK, InTx
  <2>6. CASE RefreshCommit(Canceller)
    <3>1. item' \in [Items -> ItemStatus] /\ billed' \in [Items -> Nat]
      BY <2>0, <2>6 DEF RefreshCommit, Visible, TypeOK, ItemStatus
    <3>2. job' \in [status : JobStatus, completed : Nat, failed : Nat, cancelled : Nat]
      BY <2>0, <2>6, NextStatusType DEF RefreshCommit, TypeOK
    <3>3. /\ pc' \in [Procs -> {"idle", "check", "exec", "term"} \cup InTx]
          /\ out' \in [Workers -> {"none"} \cup ItemEnd]
      BY <2>6 DEF RefreshCommit, TypeOK
    <3>. QED
      BY <2>0, <2>6, <3>1, <3>2, <3>3, EndTxType DEF RefreshCommit, TypeOK, Counts
  <2>. QED
    BY <1>6, <2>1, <2>2, <2>3, <2>4, <2>5, <2>6 DEF CancelStep
<1>7. ASSUME NEW i \in Items, RecoverStaleRunning(i) PROVE TypeOK'
  <2>1. queue' \in [Items -> Nat]
    BY <1>7 DEF RecoverStaleRunning, TypeOK
  <2>2. spent' \in [requeue : Nat, crash : Nat, timeout : Nat]
    <3>1. spent' = [spent EXCEPT !.requeue = @ + 1]
      BY <1>7 DEF RecoverStaleRunning
    <3>2. spent \in [requeue : Nat, crash : Nat, timeout : Nat]
      BY DEF TypeOK
    <3> QED BY <3>1, <3>2
  <2>3. UNCHANGED <<dbVars, creator, pc, cur, out, txVars, execs>>
    BY <1>7 DEF RecoverStaleRunning
  <2> QED BY <2>1, <2>2, <2>3 DEF TypeOK, dbVars, txVars
<1>8. CASE Crash
  <2>1. \A S \in SUBSET Workers : Cardinality(S) \in Nat
    BY BatchAssumption, FS_Subset, FS_CardinalityType
  <2>2. queue' \in [Items -> Nat]
    <3>1. \A i \in Items : Cardinality({w \in Workers : pc[w] # "idle" /\ cur[w] = i}) \in Nat
      BY <2>1
    <3>. QED
      BY <1>8, <3>1 DEF Crash, TypeOK
  <2>3. creator' \in [pc : {"job", "insert", "publish", "done", "aborted"}, next : Items]
    BY <1>8 DEF Crash, TypeOK
  <2>4. spent' \in [requeue : Nat, crash : Nat, timeout : Nat]
    <3>1. spent' = [spent EXCEPT !.crash = spent.crash + 1]
      BY <1>8, Zenon DEF Crash
    <3>2. spent \in [requeue : Nat, crash : Nat, timeout : Nat]
      BY DEF TypeOK
    <3>. QED
      BY <3>1, <3>2
  <2>. QED
    BY <1>8, <2>2, <2>3, <2>4 DEF Crash, TypeOK, NoWrites, NoCounts, JobStatus
<1>9. CASE UNCHANGED vars
  BY <1>9 DEF vars, TypeOK
<1>. QED
  BY <1>1, <1>2, <1>3, <1>4, <1>5, <1>6, <1>7, <1>8, <1>9 DEF Next, Terminated

\* The type invariant of the batch tables and of their transactions.
THEOREM TypeCorrect == Spec => []TypeOK
BY InitType, TypeStep, PTL DEF Spec

-----------------------------------------------------------------------------
(* Items, their row locks and their tokens.                                 *)

Locks == LockExclusive /\ WritesOpen /\ WritesInTx

\* A step that touches neither an item nor an uncommitted write.
LEMMA QuietStep ==
  ASSUME IInv, UNCHANGED <<item, billed, wr>>
  PROVE  TokensCountedOnce' /\ LockExclusive' /\ WritesOpen'
BY DEF IInv, TokensCountedOnce, LockExclusive, WritesOpen

\* Ending a transaction without committing it.
LEMMA RollbackStep ==
  ASSUME IInv, NEW p \in Procs, wr' = [wr EXCEPT ![p] = NoWrites], UNCHANGED <<item, billed>>
  PROVE  TokensCountedOnce' /\ LockExclusive' /\ WritesOpen'
<1>1. wr \in [Procs -> [Items -> {"none", "running"} \cup ItemEnd]]
  BY DEF IInv, TypeOK
<1>2. \A q \in Procs : \A i \in Items : wr'[q][i] = IF q = p THEN "none" ELSE wr[q][i]
  BY <1>1 DEF NoWrites
<1>. QED
  BY <1>2 DEF IInv, TokensCountedOnce, LockExclusive, WritesOpen

\* COMMIT of p: its writes become visible, all of them to items that were open.
LEMMA CommitStep ==
  ASSUME IInv, NEW p \in Procs, item' = Visible(p), wr' = [wr EXCEPT ![p] = NoWrites]
  PROVE  /\ LockExclusive' /\ WritesOpen'
         /\ \A i \in Items : item[i] \in ItemEnd => item'[i] = item[i]
<1>1. wr \in [Procs -> [Items -> {"none", "running"} \cup ItemEnd]]
  BY DEF IInv, TypeOK
<1>2. \A q \in Procs : \A i \in Items : wr'[q][i] = IF q = p THEN "none" ELSE wr[q][i]
  BY <1>1 DEF NoWrites
<1>3. \A i \in Items : item'[i] = IF wr[p][i] = "none" THEN item[i] ELSE wr[p][i]
  BY DEF Visible
<1>4. LockExclusive'
  BY <1>2 DEF IInv, LockExclusive
<1>5. WritesOpen'
  BY <1>2, <1>3 DEF IInv, LockExclusive, WritesOpen
<1>6. \A i \in Items : item[i] \in ItemEnd => item'[i] = item[i]
  BY <1>3 DEF IInv, WritesOpen
<1>. QED
  BY <1>4, <1>5, <1>6

\* The commit of a terminal status counts the tokens of the items it completes,
\* each for the first time.
LEMMA RefreshCommitStep ==
  ASSUME IInv, NEW p \in Procs, RefreshCommit(p)
  PROVE  TokensCountedOnce' /\ Locks'
<1>1. item' = Visible(p) /\ wr' = [wr EXCEPT ![p] = NoWrites]
  BY DEF RefreshCommit, EndTx
<1>2. \A i \in Items : item'[i] = IF wr[p][i] = "none" THEN item[i] ELSE wr[p][i]
  BY <1>1 DEF Visible
<1>3. \A i \in Items : billed'[i] = IF wr[p][i] = "completed" THEN billed[i] + 1 ELSE billed[i]
  BY DEF RefreshCommit
<1>4. TokensCountedOnce'
  <2>. SUFFICES ASSUME NEW i \in Items
                PROVE  billed'[i] = IF item'[i] = "completed" THEN 1 ELSE 0
    BY DEF TokensCountedOnce
  <2>1. billed[i] = IF item[i] = "completed" THEN 1 ELSE 0
    BY DEF IInv, TokensCountedOnce
  <2>2. wr[p][i] # "none" => item[i] # "completed"
    BY DEF IInv, WritesOpen, ItemEnd
  <2>. QED
    BY <1>2, <1>3, <2>1, <2>2
<1>5. WritesInTx'
  <2>1. pc' = [pc EXCEPT ![p] = "idle"] /\ pc \in [Procs -> {"idle", "check", "exec", "term"} \cup InTx]
    BY DEF RefreshCommit, IInv, TypeOK
  <2>2. wr \in [Procs -> [Items -> {"none", "running"} \cup ItemEnd]]
    BY DEF IInv, TypeOK
  <2>3. \A q \in Procs : q # p => wr'[q] = wr[q] /\ pc'[q] = pc[q]
    BY <1>1, <2>1, <2>2
  <2>4. wr'[p] = NoWrites /\ pc'[p] = "idle"
    BY <1>1, <2>1, <2>2
  <2>. QED
    BY <2>3, <2>4 DEF WritesInTx, IInv, Procs
<1>. QED
  BY <1>1, <1>4, <1>5, CommitStep DEF Locks

\* MarkBatchItemRunning takes the row lock of an open item.
LEMMA ClaimStep ==
  ASSUME IInv, NEW w \in Workers, NEW i \in Items, MarkBatchItemRunning(w, i)
  PROVE  TokensCountedOnce' /\ Locks'
<1>0. w \in Procs /\ wr \in [Procs -> [Items -> {"none", "running"} \cup ItemEnd]]
      /\ pc \in [Procs -> {"idle", "check", "exec", "term"} \cup InTx]
  BY DEF IInv, TypeOK, Procs
<1>1. wr[w] = NoWrites
  BY <1>0 DEF IInv, WritesInTx, MarkBatchItemRunning, InTx
<1>2. UNCHANGED <<item, billed>>
  BY DEF MarkBatchItemRunning, dbVars
<1>3. CASE UNCHANGED <<wr, pc>>
  BY <1>2, <1>3, QuietStep DEF IInv, WritesInTx, Locks
<1>4. CASE /\ Claimable(i)
           /\ wr' = [wr EXCEPT ![w] = [wr[w] EXCEPT ![i] = "running"]]
           /\ pc' = [pc EXCEPT ![w] = "claim"]
  <2>1. \A q \in Procs : q # w => wr'[q] = wr[q] /\ pc'[q] = pc[q]
    BY <1>0, <1>4
  <2>2. \A j \in Items : wr'[w][j] = IF j = i THEN "running" ELSE "none"
    BY <1>0, <1>1, <1>4 DEF NoWrites
  <2>3. pc'[w] = "claim"
    BY <1>0, <1>4
  <2>4. \A q \in Procs : q # w => wr[q][i] = "none"
    BY DEF MarkBatchItemRunning, ItemFree
  <2>5. item[i] \notin ItemEnd
    BY <1>4 DEF Claimable, ItemEnd
  <2>6. LockExclusive'
    BY <2>1, <2>2, <2>4 DEF IInv, LockExclusive
  <2>7. WritesOpen'
    BY <1>2, <2>1, <2>2, <2>5 DEF IInv, WritesOpen
  <2>8. WritesInTx'
    BY <2>1, <2>2, <2>3 DEF IInv, WritesInTx, InTx, Procs
  <2>. QED
    BY <1>2, <2>6, <2>7, <2>8 DEF Locks, IInv, TokensCountedOnce
<1>. QED
  BY <1>3, <1>4, Zenon DEF MarkBatchItemRunning

\* updateBatchItemTerminal writes an item that no transaction holds and that is
\* not terminal.
LEMMA TerminalStep ==
  ASSUME IInv, NEW w \in Workers, UpdateItemTerminal(w)
  PROVE  TokensCountedOnce' /\ Locks'
<1>0. w \in Procs /\ wr \in [Procs -> [Items -> {"none", "running"} \cup ItemEnd]]
      /\ pc \in [Procs -> {"idle", "check", "exec", "term"} \cup InTx] /\ cur[w] \in Items
  BY DEF IInv, TypeOK, Procs
<1>1. wr[w] = NoWrites
  BY <1>0 DEF IInv, WritesInTx, UpdateItemTerminal, InTx
<1>2. UNCHANGED <<item, billed>>
  BY DEF UpdateItemTerminal, dbVars
<1>3. CASE wr' = wr /\ pc' = [pc EXCEPT ![w] = "idle"]
  <2>1. \A q \in Procs : q # w => pc'[q] = pc[q]
    BY <1>0, <1>3
  <2>2. pc'[w] = "idle"
    BY <1>0, <1>3
  <2>3. WritesInTx'
    BY <1>1, <1>3, <2>1, <2>2 DEF IInv, WritesInTx, Procs
  <2>. QED
    BY <1>2, <1>3, <2>3, QuietStep DEF Locks
<1>4. CASE /\ Unfinished(cur[w])
           /\ wr' = [wr EXCEPT ![w] = [wr[w] EXCEPT ![cur[w]] = out[w]]]
           /\ pc' = [pc EXCEPT ![w] = IF out[w] = "completed" THEN "tokens" ELSE "count"]
  <2>1. \A q \in Procs : q # w => wr'[q] = wr[q] /\ pc'[q] = pc[q]
    BY <1>0, <1>4
  <2>2. \A j \in Items : wr'[w][j] = IF j = cur[w] THEN out[w] ELSE "none"
    BY <1>0, <1>1, <1>4 DEF NoWrites
  <2>3. pc'[w] \in {"tokens", "count"}
    BY <1>0, <1>4
  <2>4. \A q \in Procs : q # w => wr[q][cur[w]] = "none"
    BY DEF UpdateItemTerminal, ItemFree
  <2>5. item[cur[w]] \notin ItemEnd
    BY <1>4 DEF Unfinished
  <2>6. LockExclusive'
    BY <2>1, <2>2, <2>4 DEF IInv, LockExclusive
  <2>7. WritesOpen'
    BY <1>2, <2>1, <2>2, <2>5 DEF IInv, WritesOpen
  <2>8. WritesInTx'
    BY <2>1, <2>2, <2>3 DEF IInv, WritesInTx, InTx, Procs
  <2>. QED
    BY <1>2, <2>6, <2>7, <2>8 DEF Locks, IInv, TokensCountedOnce
<1>. QED
  BY <1>3, <1>4, Zenon DEF UpdateItemTerminal

\* The UPDATE of CancelBatchJob takes the row locks of the pending items.
LEMMA CancelItemsStep ==
  ASSUME IInv, CancelItems
  PROVE  TokensCountedOnce' /\ Locks'
<1>0. Canceller \in Procs /\ wr \in [Procs -> [Items -> {"none", "running"} \cup ItemEnd]]
      /\ pc \in [Procs -> {"idle", "check", "exec", "term"} \cup InTx]
  BY DEF IInv, TypeOK, Procs
<1>1. UNCHANGED <<item, billed>>
  BY DEF CancelItems, dbVars
<1>2. \A q \in Procs : q # Canceller => wr'[q] = wr[q] /\ pc'[q] = pc[q]
  BY <1>0 DEF CancelItems
<1>3. \A j \in Items : wr'[Canceller][j] = IF ToCancel(j) THEN "cancelled" ELSE "none"
  BY <1>0 DEF CancelItems
<1>4. pc'[Canceller] = "running"
  BY <1>0 DEF CancelItems
<1>5. \A j \in Items : ToCancel(j) =>
        item[j] \notin ItemEnd /\ \A q \in Procs : q # Canceller => wr[q][j] = "none"
  BY DEF CancelItems, ItemFree, ToCancel, ItemEnd
<1>6. LockExclusive'
  BY <1>2, <1>3, <1>5 DEF IInv, LockExclusive
<1>7. WritesOpen'
  BY <1>1, <1>2, <1>3, <1>5 DEF IInv, WritesOpen
<1>8. WritesInTx'
  BY <1>2, <1>4, BatchAssumption DEF IInv, WritesInTx, InTx, Procs
<1>. QED
  BY <1>1, <1>6, <1>7, <1>8 DEF Locks, IInv, TokensCountedOnce

\* A step that moves p between statements without touching an item or a write.
LEMMA StatementStep ==
  ASSUME IInv, NEW p \in Procs, NEW l, pc' = [pc EXCEPT ![p] = l],
         UNCHANGED <<item, billed, wr>>,
         l # "claim",
         l \notin InTx \/ l = "items" => wr[p] = NoWrites
  PROVE  TokensCountedOnce' /\ Locks'
<1>1. pc \in [Procs -> {"idle", "check", "exec", "term"} \cup InTx]
  BY DEF IInv, TypeOK
<1>2. pc'[p] = l /\ \A q \in Procs : q # p => pc'[q] = pc[q]
  BY <1>1
<1>3. WritesInTx'
  BY <1>2 DEF IInv, WritesInTx, Procs
<1>. QED
  BY <1>3, QuietStep DEF Locks

\* Every step of the batch subsystem keeps the locks and the token counts.
LEMMA LocksStep == IInv /\ [Next]_vars => TokensCountedOnce' /\ Locks'
<1>. SUFFICES ASSUME IInv, [Next]_vars PROVE TokensCountedOnce' /\ Locks'
  OBVIOUS
<1>. USE DEF txVars, dbVars
<1>1. CASE UNCHANGED <<item, billed, wr, pc>>
  BY <1>1, QuietStep DEF IInv, WritesInTx, Locks
<1>2. CASE CreateBatchItem
  <2>1. /\ creator.next \in Items /\ item[creator.next] = "absent"
        /\ item \in [Items -> ItemStatus]
    BY <1>2 DEF CreateBatchItem, IInv, InsertsFresh, TypeOK
  <2>2. \A j \in Items : item'[j] = IF j = creator.next THEN "pending" ELSE item[j]
    BY <1>2, <2>1 DEF CreateBatchItem
  <2>3. UNCHANGED <<billed, wr, pc>>
    BY <1>2 DEF CreateBatchItem
  <2>4. TokensCountedOnce'
    BY <2>1, <2>2, <2>3 DEF IInv, TokensCountedOnce
  <2>5. WritesOpen'
    BY <2>2, <2>3 DEF IInv, WritesOpen, ItemEnd
  <2>. QED
    BY <2>3, <2>4, <2>5 DEF Locks, IInv, LockExclusive, WritesInTx
<1>3. ASSUME NEW w \in Workers, WorkerStep(w) \/ HandlerTimeout(w)
      PROVE  TokensCountedOnce' /\ Locks'
  <2>0. w \in Procs
    BY DEF Procs
  <2>1. CASE ClaimCommit(w)
    <3>1. item' = Visible(w) /\ wr' = [wr EXCEPT ![w] = NoWrites] /\ billed' = billed
          /\ pc' = [pc EXCEPT ![w] = "check"]
      BY <2>1 DEF ClaimCommit, EndTx
    <3>2. wr \in [Procs -> [Items -> {"none", "running"} \cup ItemEnd]]
          /\ pc \in [Procs -> {"idle", "check", "exec", "term"} \cup InTx]
      BY DEF IInv, TypeOK
    <3>3. \A i \in Items : wr[w][i] \in {"none", "running"}
      BY <2>1 DEF IInv, WritesInTx, ClaimCommit
    <3>4. \A i \in Items : item'[i] = IF wr[w][i] = "none" THEN item[i] ELSE "running"
      BY <3>1, <3>3 DEF Visible
    <3>5. TokensCountedOnce'
      BY <2>0, <3>1, <3>4 DEF IInv, TokensCountedOnce, WritesOpen, ItemEnd
    <3>6. wr'[w] = NoWrites /\ pc'[w] = "check"
          /\ \A q \in Procs : q # w => wr'[q] = wr[q] /\ pc'[q] = pc[q]
      BY <2>0, <3>1, <3>2
    <3>7. WritesInTx'
      BY <3>6 DEF IInv, WritesInTx, Procs
    <3>. QED
      BY <2>0, <3>1, <3>5, <3>7, CommitStep DEF Locks
  <2>2. CASE CheckJob(w)
    <3>1. wr[w] = NoWrites
      BY <2>0, <2>2 DEF CheckJob, IInv, WritesInTx, InTx
    <3>2. \/ pc' = [pc EXCEPT ![w] = "term"]
          \/ pc' = [pc EXCEPT ![w] = "exec"]
      BY <2>2 DEF CheckJob
    <3>. QED
      BY <2>0, <2>2, <3>1, <3>2, StatementStep DEF CheckJob
  <2>3. CASE Execute(w)
    <3>1. wr[w] = NoWrites
      BY <2>0, <2>3 DEF Execute, IInv, WritesInTx, InTx
    <3>2. pc' = [pc EXCEPT ![w] = "term"] /\ UNCHANGED <<item, billed, wr>>
      BY <2>3 DEF Execute
    <3>. QED
      BY <2>0, <3>1, <3>2, StatementStep
  <2>4. CASE AddTokens(w)
    BY <2>0, <2>4, StatementStep DEF AddTokens, InTx
  <2>5. CASE RefreshCount(w)
    BY <2>0, <2>5, StatementStep DEF RefreshCount, InTx
  <2>6. CASE RefreshStatus(w)
    BY <2>0, <2>6, StatementStep DEF RefreshStatus, InTx
  <2>7. CASE HandlerTimeout(w)
    <3>1. wr' = [wr EXCEPT ![w] = NoWrites] /\ UNCHANGED <<item, billed>>
          /\ pc' = [pc EXCEPT ![w] = "idle"]
      BY <2>7 DEF HandlerTimeout, EndTx
    <3>2. wr \in [Procs -> [Items -> {"none", "running"} \cup ItemEnd]]
          /\ pc \in [Procs -> {"idle", "check", "exec", "term"} \cup InTx]
      BY DEF IInv, TypeOK
    <3>3. wr'[w] = NoWrites /\ pc'[w] = "idle"
          /\ \A q \in Procs : q # w => wr'[q] = wr[q] /\ pc'[q] = pc[q]
      BY <2>0, <3>1, <3>2
    <3>4. WritesInTx'
      BY <3>3 DEF IInv, WritesInTx, Procs
    <3>. QED
      BY <2>0, <3>1, <3>4, RollbackStep DEF Locks
  <2>. QED
    BY <1>3, <2>0, <2>1, <2>2, <2>3, <2>4, <2>5, <2>6, <2>7, ClaimStep, TerminalStep,
       RefreshCommitStep DEF WorkerStep
<1>4. CASE CancelStep
  <2>0. Canceller \in Procs
    BY DEF Procs
  <2>1. CASE CancelBegin
    <3>1. wr[Canceller] = NoWrites
      BY <2>0, <2>1 DEF CancelBegin, IInv, WritesInTx, InTx
    <3>. QED
      BY <2>0, <2>1, <3>1, StatementStep DEF CancelBegin
  <2>2. CASE CancelCountRunning
    BY <2>0, <2>2, StatementStep DEF CancelCountRunning, InTx
  <2>3. CASE RefreshCount(Canceller)
    BY <2>0, <2>3, StatementStep DEF RefreshCount, InTx
  <2>4. CASE RefreshStatus(Canceller)
    BY <2>0, <2>4, StatementStep DEF RefreshStatus, InTx
  <2>. QED
    BY <1>4, <2>0, <2>1, <2>2, <2>3, <2>4, CancelItemsStep, RefreshCommitStep DEF CancelStep
<1>5. CASE Crash
  <2>1. UNCHANGED <<item, billed>> /\ wr' = [p \in Procs |-> NoWrites]
        /\ pc' = [p \in Procs |-> "idle"]
    BY <1>5 DEF Crash
  <2>2. \A p \in Procs : wr'[p] = NoWrites /\ pc'[p] = "idle"
        /\ \A i \in Items : wr'[p][i] = "none"
    BY <2>1 DEF NoWrites
  <2>. QED
    BY <2>1, <2>2 DEF Locks, LockExclusive, WritesOpen, WritesInTx, IInv, TokensCountedOnce, Procs
<1>6. CASE \/ CreateBatchJob \/ CreateFails \/ PublishItem
           \/ \E i \in Items : RecoverStaleRunning(i)
           \/ UNCHANGED vars
  BY <1>1, <1>6 DEF CreateBatchJob, CreateFails, PublishItem, RecoverStaleRunning, vars
<1>. QED
  BY <1>2, <1>3, <1>4, <1>5, <1>6 DEF Next, Terminated

\* Only CreateBatchItem makes a row exist: a commit changes existing rows.
LEMMA CommitPresent ==
  ASSUME IInv, NEW p \in Procs, item' = Visible(p), wr' = [wr EXCEPT ![p] = NoWrites],
         UNCHANGED <<creator, cur>>, NEW l, pc' = [pc EXCEPT ![p] = l],
         p \in Workers => pc[p] # "idle"
  PROVE  WritesPresent' /\ InsertsFresh'
<1>0. /\ wr \in [Procs -> [Items -> {"none", "running"} \cup ItemEnd]]
      /\ pc \in [Procs -> {"idle", "check", "exec", "term"} \cup InTx]
      /\ cur \in [Workers -> Items]
      /\ creator.next \in Items
  BY DEF IInv, TypeOK
<1>1. \A i \in Items : item'[i] = IF wr[p][i] = "none" THEN item[i] ELSE wr[p][i]
  BY DEF Visible
<1>2. \A i \in Items : wr[p][i] # "absent"
  BY <1>0 DEF ItemEnd
<1>3. \A i \in Items : item'[i] = "absent" <=> item[i] = "absent"
  BY <1>1, <1>2 DEF IInv, WritesPresent
<1>4. \A q \in Procs : \A i \in Items : wr'[q][i] = IF q = p THEN "none" ELSE wr[q][i]
  BY <1>0 DEF NoWrites
<1>5. \A w \in Workers : pc'[w] # "idle" => pc[w] # "idle"
  BY <1>0 DEF Procs
<1>6. WritesPresent'
  BY <1>0, <1>3, <1>4, <1>5 DEF IInv, WritesPresent
<1>7. InsertsFresh'
  BY <1>0, <1>3 DEF IInv, InsertsFresh
<1>. QED
  BY <1>6, <1>7

\* Every step keeps updates on existing rows and inserts on fresh ones.
LEMMA PresentStep == IInv /\ [Next]_vars => WritesPresent' /\ InsertsFresh'
<1>. SUFFICES ASSUME IInv, [Next]_vars PROVE WritesPresent' /\ InsertsFresh'
  OBVIOUS
<1>. USE DEF txVars, dbVars
<1>0. /\ wr \in [Procs -> [Items -> {"none", "running"} \cup ItemEnd]]
      /\ pc \in [Procs -> {"idle", "check", "exec", "term"} \cup InTx]
      /\ cur \in [Workers -> Items]
      /\ item \in [Items -> ItemStatus]
      /\ creator \in [pc : {"job", "insert", "publish", "done", "aborted"}, next : Items]
  BY DEF IInv, TypeOK
<1>1. ASSUME UNCHANGED <<item, creator>> PROVE InsertsFresh'
  BY <1>1 DEF IInv, InsertsFresh
<1>2. ASSUME UNCHANGED <<item, wr, pc, cur>> PROVE WritesPresent'
  BY <1>2 DEF IInv, WritesPresent
<1>3. ASSUME NEW p \in Procs, NEW l, pc' = [pc EXCEPT ![p] = l], UNCHANGED <<item, wr, cur>>,
             p \in Workers => pc[p] # "idle"
      PROVE  WritesPresent'
  <2>1. \A w \in Workers : pc'[w] # "idle" => pc[w] # "idle"
    BY <1>0, <1>3 DEF Procs
  <2>. QED
    BY <1>3, <2>1 DEF IInv, WritesPresent
<1>4. CASE CreateBatchItem
  <2>1. \A j \in Items : item'[j] = IF j = creator.next THEN "pending" ELSE item[j]
    BY <1>0, <1>4 DEF CreateBatchItem
  <2>2. UNCHANGED <<wr, pc, cur>>
    BY <1>4 DEF CreateBatchItem
  <2>3. WritesPresent'
    BY <1>0, <2>1, <2>2 DEF IInv, WritesPresent
  <2>4. creator.pc = "insert" /\ creator'.pc = "publish" /\ creator'.next = creator.next
    BY <1>0, <1>4 DEF CreateBatchItem
  <2>5. \A i \in Items : i > creator.next => item[i] = "absent"
    BY <2>4 DEF IInv, InsertsFresh
  <2>6. \A i \in Items : i > creator.next => i # creator.next
    BY <1>0, BatchAssumption DEF Items
  <2>7. InsertsFresh'
    BY <2>1, <2>4, <2>5, <2>6 DEF InsertsFresh
  <2>. QED
    BY <2>3, <2>7
<1>5. CASE PublishItem
  <2>1. UNCHANGED <<item, wr, pc, cur>>
    BY <1>5 DEF PublishItem
  <2>2. CASE LastItem
    <3>1. creator'.pc = "done"
      BY <1>0, <1>5, <2>2 DEF PublishItem
    <3>. QED
      BY <1>2, <2>1, <3>1 DEF InsertsFresh
  <2>3. CASE ~LastItem
    <3>1. creator'.pc = "insert" /\ creator'.next = creator.next + 1 /\ creator.pc = "publish"
      BY <1>5, <2>3 DEF PublishItem
    <3>2. \A i \in Items : i > creator.next => item[i] = "absent"
      BY <3>1 DEF IInv, InsertsFresh
    <3>3. /\ creator.next + 1 \in Items /\ creator.next + 1 > creator.next
          /\ \A i \in Items : i > creator.next + 1 => i > creator.next
      BY <1>0, <2>3, BatchAssumption DEF Items, LastItem
    <3>4. InsertsFresh'
      BY <2>1, <3>1, <3>2, <3>3 DEF InsertsFresh
    <3>. QED
      BY <1>2, <2>1, <3>4
  <2>. QED
    BY <2>2, <2>3
<1>6. CASE CreateBatchJob
  <2>1. creator'.pc = "insert" /\ creator'.next = creator.next /\ creator.pc = "job"
    BY <1>0, <1>6 DEF CreateBatchJob
  <2>2. UNCHANGED <<item, wr, pc, cur>>
    BY <1>6 DEF CreateBatchJob
  <2>3. InsertsFresh'
    BY <2>1, <2>2 DEF IInv, InsertsFresh
  <2>. QED
    BY <1>2, <2>2, <2>3
<1>7. CASE CreateFails
  <2>1. creator'.pc = "aborted" /\ UNCHANGED <<item, wr, pc, cur>>
    BY <1>0, <1>7 DEF CreateFails
  <2>. QED
    BY <1>2, <2>1 DEF InsertsFresh
<1>8. CASE Crash
  <2>1. creator'.pc \in {"done", "aborted"}
    BY <1>0, <1>8 DEF Crash
  <2>2. UNCHANGED <<item, cur>> /\ wr' = [p \in Procs |-> NoWrites]
        /\ pc' = [p \in Procs |-> "idle"]
    BY <1>8 DEF Crash
  <2>3. WritesPresent'
    BY <2>2 DEF WritesPresent, NoWrites, Procs
  <2>. QED
    BY <2>1, <2>3 DEF InsertsFresh
<1>9. ASSUME NEW w \in Workers, WorkerStep(w) \/ HandlerTimeout(w)
      PROVE  WritesPresent' /\ InsertsFresh'
  <2>0. w \in Procs
    BY DEF Procs
  <2>1. ASSUME NEW i \in Items, MarkBatchItemRunning(w, i) PROVE WritesPresent' /\ InsertsFresh'
    <3>1. UNCHANGED <<item, creator>>
      BY <2>1 DEF MarkBatchItemRunning
    <3>2. CASE UNCHANGED <<wr, pc, cur>>
      BY <1>1, <1>2, <3>1, <3>2
    <3>3. CASE /\ Claimable(i)
               /\ wr' = [wr EXCEPT ![w] = [wr[w] EXCEPT ![i] = "running"]]
               /\ pc' = [pc EXCEPT ![w] = "claim"]
               /\ cur' = [cur EXCEPT ![w] = i]
      <4>1. item[i] # "absent"
        BY <3>3 DEF Claimable
      <4>2. \A q \in Procs : \A j \in Items :
              wr'[q][j] = IF q = w /\ j = i THEN "running" ELSE wr[q][j]
        BY <1>0, <2>0, <3>3
      <4>3. \A v \in Workers : v # w => pc'[v] = pc[v] /\ cur'[v] = cur[v]
        BY <1>0, <3>3 DEF Procs
      <4>4. cur'[w] = i
        BY <1>0, <3>3
      <4>5. WritesPresent'
        BY <3>1, <4>1, <4>2, <4>3, <4>4 DEF IInv, WritesPresent
      <4>. QED
        BY <1>1, <3>1, <4>5
    <3>. QED
      BY <2>1, <3>2, <3>3, Zenon DEF MarkBatchItemRunning
  <2>2. CASE UpdateItemTerminal(w)
    <3>1. UNCHANGED <<item, creator, cur>>
      BY <2>2 DEF UpdateItemTerminal
    <3>2. pc[w] # "idle" /\ item[cur[w]] # "absent" /\ cur[w] \in Items
      BY <1>0, <2>2 DEF UpdateItemTerminal, IInv, WritesPresent
    <3>3. \A q \in Procs : \A j \in Items :
            wr'[q][j] = wr[q][j] \/ (q = w /\ j = cur[w])
      BY <1>0, <2>0, <2>2, <3>2 DEF UpdateItemTerminal
    <3>4. \A v \in Workers : pc'[v] # "idle" => pc[v] # "idle"
      BY <1>0, <2>0, <2>2, <3>2 DEF UpdateItemTerminal, Procs
    <3>5. WritesPresent'
      BY <3>1, <3>2, <3>3, <3>4 DEF IInv, WritesPresent
    <3>. QED
      BY <1>1, <3>1, <3>5
  <2>3. CASE ClaimCommit(w)
    <3>1. /\ item' = Visible(w) /\ wr' = [wr EXCEPT ![w] = NoWrites]
          /\ UNCHANGED <<creator, cur>> /\ pc' = [pc EXCEPT ![w] = "check"] /\ pc[w] # "idle"
      BY <2>3 DEF ClaimCommit, EndTx
    <3>. QED
      BY <2>0, <3>1, CommitPresent
  <2>4. CASE RefreshCommit(w)
    <3>1. /\ item' = Visible(w) /\ wr' = [wr EXCEPT ![w] = NoWrites]
          /\ UNCHANGED <<creator, cur>> /\ pc' = [pc EXCEPT ![w] = "idle"] /\ pc[w] # "idle"
      BY <2>4 DEF RefreshCommit, EndTx
    <3>. QED
      BY <2>0, <3>1, CommitPresent
  <2>5. CASE CheckJob(w)
    <3>1. /\ UNCHANGED <<item, wr, cur, creator>> /\ pc[w] # "idle"
          /\ \/ pc' = [pc EXCEPT ![w] = "term"]
             \/ pc' = [pc EXCEPT ![w] = "exec"]
      BY <2>5 DEF CheckJob
    <3>. QED
      BY <1>1, <1>3, <2>0, <3>1
  <2>6. CASE Execute(w)
    <3>1. /\ UNCHANGED <<item, wr, cur, creator>> /\ pc[w] # "idle"
          /\ pc' = [pc EXCEPT ![w] = "term"]
      BY <2>6 DEF Execute
    <3>. QED
      BY <1>1, <1>3, <2>0, <3>1
  <2>7. CASE AddTokens(w) \/ RefreshCount(w) \/ RefreshStatus(w)
    <3>1. /\ UNCHANGED <<item, wr, cur, creator>> /\ pc[w] # "idle"
          /\ \/ pc' = [pc EXCEPT ![w] = "count"]
             \/ pc' = [pc EXCEPT ![w] = "status"]
             \/ pc' = [pc EXCEPT ![w] = "refresh"]
      BY <2>7 DEF AddTokens, RefreshCount, RefreshStatus
    <3>. QED
      BY <1>1, <1>3, <2>0, <3>1
  <2>8. CASE HandlerTimeout(w)
    <3>1. /\ UNCHANGED <<item, cur, creator>> /\ wr' = [wr EXCEPT ![w] = NoWrites]
          /\ pc' = [pc EXCEPT ![w] = "idle"]
      BY <2>8 DEF HandlerTimeout, EndTx
    <3>2. \A q \in Procs : \A j \in Items : wr'[q][j] = IF q = w THEN "none" ELSE wr[q][j]
      BY <1>0, <3>1 DEF NoWrites
    <3>3. \A v \in Workers : pc'[v] # "idle" => pc[v] # "idle"
      BY <1>0, <2>0, <3>1 DEF Procs
    <3>4. WritesPresent'
      BY <3>1, <3>2, <3>3 DEF IInv, WritesPresent
    <3>. QED
      BY <1>1, <3>1, <3>4
  <2>. QED
    BY <1>9, <2>1, <2>2, <2>3, <2>4, <2>5, <2>6, <2>7, <2>8 DEF WorkerStep
<1>10. CASE CancelStep
  <2>0. Canceller \in Procs /\ Canceller \notin Workers
    BY BatchAssumption DEF Procs
  <2>1. CASE CancelItems
    <3>1. UNCHANGED <<item, creator, cur>>
      BY <2>1 DEF CancelItems
    <3>2. \A q \in Procs : \A j \in Items :
            wr'[q][j] = IF q = Canceller THEN IF ToCancel(j) THEN "cancelled" ELSE "none"
                        ELSE wr[q][j]
      BY <1>0, <2>1 DEF CancelItems
    <3>3. \A v \in Workers : pc'[v] = pc[v]
      BY <1>0, <2>0, <2>1 DEF CancelItems, Procs
    <3>4. WritesPresent'
      BY <3>1, <3>2, <3>3 DEF IInv, WritesPresent, ToCancel
    <3>. QED
      BY <1>1, <3>1, <3>4
  <2>2. CASE RefreshCommit(Canceller)
    <3>1. /\ item' = Visible(Canceller) /\ wr' = [wr EXCEPT ![Canceller] = NoWrites]
          /\ UNCHANGED <<creator, cur>> /\ pc' = [pc EXCEPT ![Canceller] = "idle"]
      BY <2>2 DEF RefreshCommit, EndTx
    <3>. QED
      BY <2>0, <3>1, CommitPresent
  <2>3. CASE CancelBegin \/ CancelCountRunning \/ RefreshCount(Canceller) \/ RefreshStatus(Canceller)
    <3>1. /\ UNCHANGED <<item, wr, cur, creator>>
          /\ \/ pc' = [pc EXCEPT ![Canceller] = "items"]
             \/ pc' = [pc EXCEPT ![Canceller] = "count"]
             \/ pc' = [pc EXCEPT ![Canceller] = "status"]
             \/ pc' = [pc EXCEPT ![Canceller] = "refresh"]
      BY <2>3 DEF CancelBegin, CancelCountRunning, RefreshCount, RefreshStatus
    <3>. QED
      BY <1>1, <1>3, <2>0, <3>1
  <2>. QED
    BY <1>10, <2>1, <2>2, <2>3 DEF CancelStep
<1>11. CASE UNCHANGED vars \/ \E i \in Items : RecoverStaleRunning(i)
  BY <1>1, <1>2, <1>11 DEF RecoverStaleRunning, vars
<1>. QED
  BY <1>4, <1>5, <1>6, <1>7, <1>8, <1>9, <1>10, <1>11 DEF Next, Terminated

-----------------------------------------------------------------------------
(* The theorems.                                                            *)

\* The inductive invariant holds before the job is created.
LEMMA InitIInv == Init => IInv
<1>. SUFFICES ASSUME Init PROVE IInv
  OBVIOUS
<1>1. TypeOK
  BY InitType
<1>2. /\ \A p \in Procs : pc[p] = "idle" /\ wr[p] = NoWrites
      /\ \A p \in Procs : \A i \in Items : wr[p][i] = "none"
      /\ \A i \in Items : item[i] = "absent" /\ billed[i] = 0
      /\ Workers \subseteq Procs /\ creator.next \in Items
  BY BatchAssumption DEF Init, NoWrites, Procs, Items
<1>. QED
  BY <1>1, <1>2 DEF IInv, TokensCountedOnce, LockExclusive, WritesOpen, WritesInTx,
     WritesPresent, InsertsFresh

\* The inductive invariant is kept by every step.
LEMMA StepIInv == IInv /\ [Next]_vars => IInv'
BY TypeStep, LocksStep, PresentStep DEF IInv, Locks

\* The tokens of an item are added to its job once, for every number of items
\* and workers, whatever is redelivered, timed out, crashed or cancelled.
THEOREM TokensOnce == Spec => []TokensCountedOnce
<1>1. IInv => TokensCountedOnce
  BY DEF IInv
<1>. QED
  BY <1>1, InitIInv, StepIInv, PTL DEF Spec

\* No step replaces the terminal status of an item.
LEMMA FinalStep ==
  ASSUME IInv, [Next]_vars
  PROVE  \A i \in Items : item[i] \in ItemEnd => item'[i] = item[i]
<1>. USE DEF txVars, dbVars
<1>1. CASE UNCHANGED item
  BY <1>1
<1>2. CASE CreateBatchItem
  <2>1. item[creator.next] = "absent" /\ item \in [Items -> ItemStatus]
    BY <1>2 DEF CreateBatchItem, IInv, InsertsFresh, TypeOK
  <2>. QED
    BY <1>2, <2>1 DEF CreateBatchItem, ItemEnd
<1>3. ASSUME NEW p \in Procs, RefreshCommit(p)
      PROVE  \A i \in Items : item[i] \in ItemEnd => item'[i] = item[i]
  BY <1>3, CommitStep DEF RefreshCommit, EndTx
<1>4. ASSUME NEW p \in Procs, ClaimCommit(p)
      PROVE  \A i \in Items : item[i] \in ItemEnd => item'[i] = item[i]
  BY <1>4, CommitStep DEF ClaimCommit, EndTx
<1>5. ASSUME NEW w \in Workers, WorkerStep(w) \/ HandlerTimeout(w)
      PROVE  \A i \in Items : item[i] \in ItemEnd => item'[i] = item[i]
  <2>1. w \in Procs
    BY DEF Procs
  <2>2. CASE RefreshCommit(w) \/ ClaimCommit(w)
    BY <1>3, <1>4, <2>1, <2>2
  <2>3. CASE ~(RefreshCommit(w) \/ ClaimCommit(w))
    BY <1>1, <1>5, <2>3 DEF WorkerStep, MarkBatchItemRunning, CheckJob, Execute,
       UpdateItemTerminal, AddTokens, RefreshCount, RefreshStatus, HandlerTimeout
  <2>. QED
    BY <2>2, <2>3
<1>6. CASE CancelStep
  <2>1. Canceller \in Procs
    BY DEF Procs
  <2>2. CASE RefreshCommit(Canceller)
    BY <1>3, <2>1, <2>2
  <2>3. CASE ~RefreshCommit(Canceller)
    BY <1>1, <1>6, <2>3 DEF CancelStep, CancelBegin, CancelItems, CancelCountRunning,
       RefreshCount, RefreshStatus
  <2>. QED
    BY <2>2, <2>3
<1>7. CASE \/ CreateBatchJob \/ CreateFails \/ PublishItem \/ Crash
           \/ \E i \in Items : RecoverStaleRunning(i)
           \/ UNCHANGED vars
  BY <1>1, <1>7 DEF CreateBatchJob, CreateFails, PublishItem, RecoverStaleRunning, Crash, vars
<1>. QED
  BY <1>2, <1>5, <1>6, <1>7 DEF Next, Terminated

\* The first terminal status of an item is final, for every instance.
THEOREM FinalResult == Spec => ResultIsFinal
<1>1. IInv /\ [Next]_vars =>
        [\A i \in Items : item[i] \in ItemEnd => item'[i] = item[i]]_vars
  BY FinalStep
<1>. QED
  BY <1>1, InitIInv, StepIInv, PTL DEF Spec, ResultIsFinal

-----------------------------------------------------------------------------
(* The counters of the job row.                                             *)

\* The numbers n do not run ahead of the rows.
Behind(n, rows) ==
    /\ n.completed <= NumberWith(rows, "completed")
    /\ n.failed <= NumberWith(rows, "failed")
    /\ n.cancelled <= NumberWith(rows, "cancelled")

\* Neither does the job row, nor what a transaction has read and will write into it.
CountersBehind ==
    /\ Behind(job, item)
    /\ \A p \in Procs : pc[p] \in {"status", "refresh"} => Behind(seen[p], Visible(p))

\* Rows in which terminal ones are kept hold no fewer of them.
LEMMA MoreRows ==
  ASSUME NEW rows, NEW later, \A i \in Items : rows[i] \in ItemEnd => later[i] = rows[i], NEW s \in ItemEnd
  PROVE  NumberWith(rows, s) <= NumberWith(later, s) /\ NumberWith(rows, s) \in Nat /\ NumberWith(later, s) \in Nat
<1> DEFINE A == {i \in Items : rows[i] = s}
           B == {i \in Items : later[i] = s}
<1>1. IsFiniteSet(Items)
  BY FS_Interval, BatchAssumption DEF Items
<1>2. IsFiniteSet(B)
  BY <1>1, FS_Subset
<1>3. A \in SUBSET B
  OBVIOUS
<1>4. Cardinality(A) <= Cardinality(B)
  BY <1>2, <1>3, FS_Subset
<1>5. Cardinality(A) \in Nat /\ Cardinality(B) \in Nat
  BY ItemCounts
<1>. QED
  BY <1>4, <1>5 DEF NumberWith

LEMMA BehindStays ==
  ASSUME NEW n, NEW rows, NEW later, \A i \in Items : rows[i] \in ItemEnd => later[i] = rows[i],
         n.completed \in Nat, n.failed \in Nat, n.cancelled \in Nat, Behind(n, rows)
  PROVE  Behind(n, later)
<1>1. \A s \in ItemEnd : NumberWith(rows, s) <= NumberWith(later, s) /\ NumberWith(rows, s) \in Nat /\ NumberWith(later, s) \in Nat
  BY MoreRows
<1>2. "completed" \in ItemEnd /\ "failed" \in ItemEnd /\ "cancelled" \in ItemEnd
  BY DEF ItemEnd
<1>. QED
  BY <1>1, <1>2 DEF Behind

\* What belongs to one process alone, and a step of another leaves.
Keeps(q) == UNCHANGED <<pc[q], wr[q], seen[q], saw[q], pref[q]>> /\ (q \in Workers => UNCHANGED <<cur[q], out[q]>>)

\* A step is one of the environment that touches no transaction, a crash, or one of a process,
\* and then it touches nothing of the others.
LEMMA OneActor ==
  ASSUME TypeOK, [Next]_vars
  PROVE  \/ /\ CreateBatchJob \/ CreateBatchItem \/ CreateFails \/ PublishItem \/ UNCHANGED vars
               \/ \E i \in Items : RecoverStaleRunning(i)
            /\ \A q \in Procs : Keeps(q)
         \/ Crash
         \/ \E p \in Procs : /\ \/ p \in Workers /\ (WorkerStep(p) \/ HandlerTimeout(p))
                                \/ p = Canceller /\ CancelStep
                             /\ \A q \in Procs \ {p} : Keeps(q)
<1>. USE DEF txVars, dbVars
<1>a. /\ pc \in [Procs -> {"idle", "check", "exec", "term"} \cup InTx] /\ cur \in [Workers -> Items]
      /\ out \in [Workers -> {"none"} \cup ItemEnd] /\ DOMAIN wr = Procs /\ DOMAIN seen = Procs /\ DOMAIN saw = Procs /\ DOMAIN pref = Procs
  BY DEF TypeOK
<1>1. CASE CreateBatchJob \/ CreateBatchItem \/ CreateFails \/ PublishItem \/ UNCHANGED vars
           \/ \E i \in Items : RecoverStaleRunning(i)
  BY <1>1 DEF CreateBatchJob, CreateBatchItem, CreateFails, PublishItem, RecoverStaleRunning, vars, Keeps
<1>2. ASSUME NEW w \in Workers, WorkerStep(w) \/ HandlerTimeout(w) PROVE \A q \in Procs \ {w} : Keeps(q)
  <2>. SUFFICES ASSUME NEW q \in Procs, q # w PROVE Keeps(q)
    OBVIOUS
  <2>1. ASSUME NEW i \in Items, MarkBatchItemRunning(w, i) PROVE Keeps(q)
    BY <2>1, <1>a DEF MarkBatchItemRunning, Keeps
  <2>2. CASE ClaimCommit(w) \/ HandlerTimeout(w)
    BY <2>2, <1>a DEF ClaimCommit, HandlerTimeout, EndTx, Keeps
  <2>3. CASE CheckJob(w) \/ Execute(w)
    BY <2>3, <1>a DEF CheckJob, Execute, Keeps
  <2>4. CASE UpdateItemTerminal(w) \/ AddTokens(w)
    BY <2>4, <1>a DEF UpdateItemTerminal, AddTokens, Keeps
  <2>5. CASE RefreshCount(w) \/ RefreshStatus(w)
    BY <2>5, <1>a DEF RefreshCount, RefreshStatus, Keeps
  <2>6. CASE RefreshCommit(w)
    BY <2>6, <1>a DEF RefreshCommit, EndTx, Keeps
  <2>. QED
    BY <1>2, <2>1, <2>2, <2>3, <2>4, <2>5, <2>6 DEF WorkerStep
<1>3. CASE CancelStep
  <2>. SUFFICES ASSUME NEW q \in Procs, q # Canceller PROVE Keeps(q)
    BY <1>3 DEF Procs
  <2>1. CASE CancelBegin \/ CancelItems \/ CancelCountRunning
    BY <2>1, <1>a DEF CancelBegin, CancelItems, CancelCountRunning, Keeps
  <2>2. CASE RefreshCount(Canceller) \/ RefreshStatus(Canceller)
    BY <2>2, <1>a DEF RefreshCount, RefreshStatus, Keeps
  <2>3. CASE RefreshCommit(Canceller)
    BY <2>3, <1>a DEF RefreshCommit, EndTx, Keeps
  <2>. QED
    BY <1>3, <2>1, <2>2, <2>3 DEF CancelStep
<1>4. Workers \subseteq Procs /\ Canceller \in Procs
  BY DEF Procs
<1>. QED
  BY <1>1, <1>2, <1>3, <1>4 DEF Next, Terminated

\* What one process does with the numbers it read: keeps them with its writes, or reads them.
LEMMA Reads ==
  ASSUME TypeOK, NEW p \in Procs,
         \/ p \in Workers /\ (WorkerStep(p) \/ HandlerTimeout(p))
         \/ p = Canceller /\ CancelStep,
         pc'[p] \in {"status", "refresh"}
  PROVE  \/ pc[p] = "status" /\ UNCHANGED <<wr, seen, item, job>> /\ pc'[p] = "refresh" /\ saw'[p] = job.status /\ UNCHANGED pref
         \/ pc[p] = "count" /\ UNCHANGED <<wr, item, job, pref>> /\ seen'[p] = Summary(Visible(p)) /\ pc'[p] = "status"
<1>. USE DEF txVars, dbVars
<1>a. pc \in [Procs -> {"idle", "check", "exec", "term"} \cup InTx] /\ DOMAIN seen = Procs /\ DOMAIN saw = Procs
  BY DEF TypeOK
<1>1. CASE RefreshCount(p) \/ RefreshStatus(p)
  BY <1>1, <1>a DEF RefreshCount, RefreshStatus, CountedRows
<1>2. CASE RefreshCommit(p) \/ ClaimCommit(p) \/ HandlerTimeout(p)
  BY <1>2, <1>a DEF RefreshCommit, ClaimCommit, HandlerTimeout
<1>3. CASE CheckJob(p) \/ Execute(p) \/ AddTokens(p) \/ UpdateItemTerminal(p)
  BY <1>3, <1>a DEF CheckJob, Execute, AddTokens, UpdateItemTerminal
<1>4. ASSUME NEW i \in Items, MarkBatchItemRunning(p, i) PROVE FALSE
  BY <1>4, <1>a DEF MarkBatchItemRunning
<1>5. CASE p = Canceller /\ (CancelBegin \/ CancelItems \/ CancelCountRunning)
  BY <1>5, <1>a DEF CancelBegin, CancelItems, CancelCountRunning
<1>. QED
  BY <1>1, <1>2, <1>3, <1>4, <1>5 DEF WorkerStep, CancelStep

\* The job row is written by CreateBatchJob, by a claim and by a transaction that refreshes it.
LEMMA JobUntouched ==
  ASSUME [Next]_vars, ~CreateBatchJob, \A p \in Procs : ~RefreshCommit(p) /\ ~ClaimCommit(p)
  PROVE  UNCHANGED job
<1>. USE DEF txVars, dbVars
<1>1. ASSUME NEW w \in Workers, WorkerStep(w) \/ HandlerTimeout(w) PROVE UNCHANGED job
  BY <1>1 DEF WorkerStep, MarkBatchItemRunning, CheckJob, Execute, UpdateItemTerminal, AddTokens, RefreshCount,
       RefreshStatus, HandlerTimeout, Procs
<1>2. CASE CancelStep
  BY <1>2 DEF CancelStep, CancelBegin, CancelItems, CancelCountRunning, RefreshCount, RefreshStatus, Procs
<1>3. CASE CreateBatchItem \/ CreateFails \/ PublishItem \/ Crash \/ UNCHANGED vars
           \/ \E i \in Items : RecoverStaleRunning(i)
  BY <1>3 DEF CreateBatchItem, CreateFails, PublishItem, Crash, RecoverStaleRunning, vars
<1>. QED
  BY <1>1, <1>2, <1>3 DEF Next, Terminated

\* Its counters are written by the last alone, with what it read.
LEMMA JobWrites ==
  ASSUME TypeOK, [Next]_vars
  PROVE  \/ \E p \in Procs : RefreshCommit(p)
         \/ UNCHANGED <<job.completed, job.failed, job.cancelled>>
<1>1. job \in [status : JobStatus, completed : Nat, failed : Nat, cancelled : Nat]
  BY DEF TypeOK
<1>2. CASE CreateBatchJob
  BY <1>1, <1>2 DEF CreateBatchJob
<1>3. ASSUME NEW p \in Procs, ClaimCommit(p) PROVE UNCHANGED <<job.completed, job.failed, job.cancelled>>
  BY <1>1, <1>3 DEF ClaimCommit
<1>. QED
  BY <1>2, <1>3, JobUntouched

LEMMA CountersStep == IInv /\ CountersBehind /\ [Next]_vars => CountersBehind'
<1>. SUFFICES ASSUME IInv, CountersBehind, [Next]_vars PROVE CountersBehind'
  OBVIOUS
<1>a. TypeOK /\ \A i \in Items : item[i] \in ItemEnd => item'[i] = item[i]
  BY FinalStep DEF IInv
<1>b. /\ job.completed \in Nat /\ job.failed \in Nat /\ job.cancelled \in Nat
      /\ \A p \in Procs : seen[p].completed \in Nat /\ seen[p].failed \in Nat /\ seen[p].cancelled \in Nat
  BY <1>a DEF TypeOK
<1>1. Behind(job', item')
  <2>1. ASSUME NEW p \in Procs, RefreshCommit(p) PROVE Behind(job', item')
    <3>1. /\ job'.completed = seen[p].completed /\ job'.failed = seen[p].failed /\ job'.cancelled = seen[p].cancelled
          /\ item' = Visible(p) /\ pc[p] = "refresh"
      BY <2>1 DEF RefreshCommit
    <3>. QED
      BY <3>1 DEF CountersBehind, Behind
  <2>2. CASE UNCHANGED <<job.completed, job.failed, job.cancelled>>
    <3>1. Behind(job, item')
      BY <1>a, <1>b, BehindStays DEF CountersBehind
    <3>. QED
      BY <2>2, <3>1 DEF Behind
  <2>. QED
    BY <1>a, <2>1, <2>2, JobWrites
<1>2. ASSUME NEW q \in Procs, pc'[q] \in {"status", "refresh"}
      PROVE  Behind(seen'[q], Visible(q)')
  <2>1. CASE Keeps(q)
    <3>1. pc'[q] = pc[q] /\ wr'[q] = wr[q] /\ seen'[q] = seen[q]
      BY <2>1 DEF Keeps
    <3>2. \A i \in Items : Visible(q)[i] \in ItemEnd => Visible(q)'[i] = Visible(q)[i]
      BY <3>1, <1>a DEF Visible
    <3>3. Behind(seen[q], Visible(q))
      BY <1>2, <3>1 DEF CountersBehind
    <3>. QED
      BY <3>1, <3>2, <3>3, <1>b, BehindStays
  <2>2. CASE Crash
    BY <2>2, <1>2 DEF Crash
  <2>3. CASE \/ q \in Workers /\ (WorkerStep(q) \/ HandlerTimeout(q))
             \/ q = Canceller /\ CancelStep
    <3>1. CASE pc[q] = "status" /\ UNCHANGED <<wr, seen, item, job>>
      BY <3>1 DEF CountersBehind, Visible
    <3>2. CASE UNCHANGED <<wr, item>> /\ seen'[q] = Summary(Visible(q))
      <4> DEFINE n == Summary(Visible(q))
      <4>1. /\ n.completed = NumberWith(Visible(q), "completed") /\ n.failed = NumberWith(Visible(q), "failed")
            /\ n.cancelled = NumberWith(Visible(q), "cancelled")
        BY DEF Summary, Completed
      <4>2. \A s : NumberWith(Visible(q), s) \in Nat
        BY ItemCounts DEF NumberWith
      <4>3. Visible(q)' = Visible(q)
        BY <3>2 DEF Visible
      <4> HIDE DEF n
      <4>. QED
        BY <3>2, <4>1, <4>2, <4>3 DEF Behind, n
    <3>. QED
      BY <2>3, <1>2, <1>a, <3>1, <3>2, Reads
  <2>. QED
    BY <1>a, <2>1, <2>2, <2>3, OneActor
<1>. QED
  BY <1>1, <1>2 DEF CountersBehind

\* refreshBatchJobStatusTx: whatever other transactions commit between its SELECT and its
\* UPDATE, the item counters of the job row never run ahead of the items.
THEOREM CountersCorrect == Spec => []CountersNeverAhead
<1>1. Init => CountersBehind
  <2>. SUFFICES ASSUME Init PROVE CountersBehind
    OBVIOUS
  <2>1. \A s : NumberWith(item, s) \in Nat
    BY ItemCounts DEF NumberWith
  <2>2. job.completed = 0 /\ job.failed = 0 /\ job.cancelled = 0 /\ \A p \in Procs : pc[p] = "idle"
    BY DEF Init
  <2>. QED
    BY <2>1, <2>2 DEF CountersBehind, Behind
<1>2. CountersBehind => CountersNeverAhead
  BY DEF CountersBehind, Behind, CountersNeverAhead
<1>. QED
  BY <1>1, <1>2, CountersStep, InitIInv, StepIInv, PTL DEF Spec

-----------------------------------------------------------------------------
(* SQLite: one transaction at a time.                                       *)

\* What a transaction knows stays true until it ends: the job is open, and what was read is so.
TxOK(p) ==
    /\ pc[p] \in InTx => job.status \in {"pending", "running", "cancelling"}
    /\ pc[p] \in {"status", "refresh"} => seen[p] = Summary(Visible(p))
    /\ pc[p] = "refresh" => saw[p] = job.status
    /\ p = Canceller /\ pc[p] \in {"count", "status", "refresh"} =>
          pref[p] = IF NumberWith(Visible(p), "running") > 0 THEN "cancelling" ELSE "cancelled"

\* A worker has an item that was claimed; only a cancellation has a preferred status.
WorkerOK(w) ==
    /\ pc[w] = "claim" => wr[w][cur[w]] = "running"
    /\ pc[w] \in {"check", "exec", "term"} => item[cur[w]] \in {"running"} \cup ItemEnd
    /\ pref[w] = "none"

\* The job row between two transactions.
JobOK ==
    /\ creator.pc = "job" => job.status = "none"
    /\ creator.pc \in {"insert", "publish"} => job.status # "none"
    /\ job.status = "none" => \A i \in Items : item[i] = "absent"
    /\ job.status \in JobEnd => \A i \in Items : item[i] # "running"
    /\ job.status = "cancelling" => \E i \in Items : item[i] \in {"running", "pending"}
    /\ (\A i \in Items : item[i] \in ItemEnd) => job.status \in JobEnd

OneTx == \A p, q \in Procs : p # q => pc[p] \notin InTx \/ pc[q] \notin InTx

SerialInv ==
    /\ IInv /\ OneTx /\ CountersExact /\ JobOK
    /\ \A p \in Procs : TxOK(p)
    /\ \A w \in Workers : WorkerOK(w)

\* Counting tells the same of rows with the same terminal items.
LEMMA SameCounts ==
  ASSUME NEW rows, NEW later, NEW s, \A i \in Items : rows[i] = s <=> later[i] = s
  PROVE  NumberWith(later, s) = NumberWith(rows, s)
<1>1. {i \in Items : later[i] = s} = {i \in Items : rows[i] = s}
  OBVIOUS
<1>. QED
  BY <1>1 DEF NumberWith

\* There is a row with s if and only if one is counted.
LEMMA SomeCounted ==
  ASSUME NEW rows, NEW s
  PROVE  NumberWith(rows, s) \in Nat /\ (NumberWith(rows, s) > 0 <=> \E i \in Items : rows[i] = s)
<1> DEFINE A == {i \in Items : rows[i] = s}
<1>0. IsFiniteSet(Items)
  <2>1. 1 \in Int /\ N \in Int
    BY BatchAssumption DEF BatchAssumption
  <2> QED BY <2>1, FS_Interval DEF Items
<1> HIDE DEF A
<1>1. IsFiniteSet(A)
  <2>1. A \in SUBSET Items
    BY DEF A
  <2> QED BY <1>0, <2>1, FS_Subset
<1>2. Cardinality(A) \in Nat /\ (Cardinality(A) = 0 <=> A = {})
  BY <1>1, FS_EmptySet, FS_CardinalityType
<1>. QED
  BY <1>2 DEF NumberWith, A

\* The comparison of the switch: the terminal rows are as many as the rows when all are terminal.
LEMMA AllDoneIs ==
  ASSUME NEW rows \in [Items -> ItemStatus]
  PROVE  AllDone(Summary(rows)) <=> \A i \in Items : rows[i] \in {"absent"} \cup ItemEnd
<1> DEFINE A == {i \in Items : rows[i] = "completed"}
           B == {i \in Items : rows[i] = "failed"}
           C == {i \in Items : rows[i] = "cancelled"}
           P == {i \in Items : rows[i] # "absent"}
           n == Summary(rows)
<1>1. IsFiniteSet(A) /\ IsFiniteSet(B) /\ IsFiniteSet(C) /\ IsFiniteSet(P)
  BY FS_Interval, FS_Subset, BatchAssumption DEF Items
<1>2. Cardinality(A) \in Nat /\ Cardinality(B) \in Nat /\ Cardinality(C) \in Nat /\ Cardinality(P) \in Nat
  BY ItemCounts
<1>3. n.completed = Cardinality(A) /\ n.failed = Cardinality(B) /\ n.cancelled = Cardinality(C) /\ n.total = Cardinality(P)
  BY DEF Summary, Completed, NumberWith
<1>4. A \cap B = {} /\ (A \cup B) \cap C = {}
  OBVIOUS
<1>5. IsFiniteSet(A \cup B) /\ Cardinality(A \cup B) = Cardinality(A) + Cardinality(B)
  <2>1. IsFiniteSet(A \cup B) /\ Cardinality(A \cup B) = Cardinality(A) + Cardinality(B) - Cardinality(A \cap B)
    BY <1>1, FS_Union
  <2>2. Cardinality(A \cap B) = 0
    BY <1>4, FS_EmptySet
  <2>. QED
    BY <1>2, <2>1, <2>2
<1>6. Cardinality((A \cup B) \cup C) = Cardinality(A) + Cardinality(B) + Cardinality(C)
  <2>1. Cardinality((A \cup B) \cup C) = Cardinality(A \cup B) + Cardinality(C) - Cardinality((A \cup B) \cap C)
    BY <1>1, <1>5, FS_Union
  <2>2. Cardinality((A \cup B) \cap C) = 0
    BY <1>4, FS_EmptySet
  <2>. QED
    BY <1>2, <1>5, <2>1, <2>2
<1> DEFINE T == (A \cup B) \cup C
<1>7. T \in SUBSET P
  OBVIOUS
<1>8. Cardinality(T) <= Cardinality(P) /\ (Cardinality(P) = Cardinality(T) => P = T) /\ (P = T => Cardinality(P) = Cardinality(T))
  BY <1>1, <1>7, FS_Subset
<1>9. P = T <=> \A i \in Items : rows[i] \in {"absent"} \cup ItemEnd
  BY DEF ItemEnd, ItemStatus
<1>10. AllDone(n) <=> Cardinality(A) + Cardinality(B) + Cardinality(C) >= Cardinality(P)
  BY <1>3 DEF AllDone, Terminal
<1> HIDE DEF A, B, C, P, T, n
<1>11. Cardinality(T) = Cardinality(A) + Cardinality(B) + Cardinality(C)
  BY <1>6 DEF T
<1>12. AllDone(n) <=> P = T
  BY <1>2, <1>8, <1>10, <1>11
<1>. QED
  BY <1>9, <1>12 DEF n

\* What refreshBatchJobStatusTx decides from the rows as they are, in a job that is open.
LEMMA Decided ==
  ASSUME NEW rows \in [Items -> ItemStatus], NEW current \in {"pending", "running", "cancelling"}, NEW preferred,
         \/ preferred = "none"
         \/ preferred = IF NumberWith(rows, "running") > 0 THEN "cancelling" ELSE "cancelled"
  PROVE  LET next == NextStatus(preferred, current, Summary(rows))
         IN  /\ next # "none"
             /\ next \in JobEnd => \A i \in Items : rows[i] # "running"
             /\ next = "cancelling" => \E i \in Items : rows[i] \in {"running", "pending"}
             /\ (\A i \in Items : rows[i] \in ItemEnd) => next \in JobEnd
<1> DEFINE n == Summary(rows)
           next == NextStatus(preferred, current, n)
<1>1. AllDone(n) <=> \A i \in Items : rows[i] \in {"absent"} \cup ItemEnd
  BY AllDoneIs
<1>2. NumberWith(rows, "running") > 0 <=> \E i \in Items : rows[i] = "running"
  BY SomeCounted
<1>3. "running" \notin {"absent"} \cup ItemEnd
  BY DEF ItemEnd
<1>4. ~AllDone(n) => \E i \in Items : rows[i] \in {"running", "pending"}
  BY <1>1 DEF ItemStatus
<1>5. CASE preferred = "none"
  <2>1. next = IF current = "cancelling" THEN WhenCancelling(n)
               ELSE IF AllDone(n) /\ n.cancelled > 0 THEN "cancelled"
               ELSE IF AllDone(n) /\ n.failed > 0 THEN "failed"
               ELSE IF AllDone(n) THEN "completed"
               ELSE IF n.running > 0 \/ Terminal(n) > 0 THEN "running"
               ELSE "pending"
    BY <1>5 DEF NextStatus
  <2>2. (AllDone(n) /\ next \in JobEnd) \/ (~AllDone(n) /\ next \in {"cancelling", "running", "pending"})
    BY <2>1 DEF WhenCancelling, JobEnd
  <2> HIDE DEF next, n
  <2>3. CASE AllDone(n) /\ next \in JobEnd
    BY <2>3, <1>1, <1>3 DEF next, n, JobEnd
  <2>4. CASE ~AllDone(n) /\ next \in {"cancelling", "running", "pending"}
    BY <2>4, <1>1, <1>4 DEF next, n, JobEnd
  <2>. QED
    BY <2>2, <2>3, <2>4
<1>6. CASE preferred # "none"
  <2>1. next = preferred
    BY <1>6 DEF NextStatus
  <2>2. next = IF \E i \in Items : rows[i] = "running" THEN "cancelling" ELSE "cancelled"
    BY <2>1, <1>2, <1>6
  <2> HIDE DEF next, n
  <2>. QED
    BY <2>2, <1>3 DEF next, n, JobEnd
<1>. QED
  BY <1>5, <1>6

-----------------------------------------------------------------------------
\* The rows that a transaction sees are rows.
LEMMA VisibleType == ASSUME TypeOK, NEW p \in Procs PROVE Visible(p) \in [Items -> ItemStatus]
<1>1. item \in [Items -> ItemStatus] /\ \A i \in Items : wr[p][i] \in {"none", "running"} \cup ItemEnd
  BY DEF TypeOK
<1>. QED
  BY <1>1 DEF Visible, ItemStatus

\* Another's transaction is as it was, when it cannot be open or nothing changed that it read.
LEMMA OthersTx ==
  ASSUME SerialInv, NEW p, NEW q \in Procs, Keeps(q),
         pc[q] \notin InTx \/ UNCHANGED <<item, job>>
  PROVE  TxOK(q)'
<1>1. TxOK(q)
  BY DEF SerialInv
<1>2. UNCHANGED <<pc[q], wr[q], seen[q], saw[q], pref[q]>>
  BY DEF Keeps
<1>3. CASE pc[q] \notin InTx
  BY <1>2, <1>3 DEF TxOK, InTx
<1>4. CASE UNCHANGED <<item, job>>
  <2>1. Visible(q)' = Visible(q)
    BY <1>2, <1>4 DEF Visible
  <2>. QED
    BY <1>1, <1>2, <1>4, <2>1 DEF TxOK
<1>. QED
  BY <1>3, <1>4

\* Another worker keeps its item, which may have become terminal.
LEMMA OthersItem ==
  ASSUME SerialInv, NEW w \in Workers, Keeps(w),
         \A i \in Items : item[i] \in {"running"} \cup ItemEnd => item'[i] \in {"running"} \cup ItemEnd
  PROVE  WorkerOK(w)'
<1>1. WorkerOK(w) /\ cur[w] \in Items
  BY DEF SerialInv, IInv, TypeOK
<1>2. UNCHANGED <<pc[w], wr[w], pref[w], cur[w]>>
  BY DEF Keeps
<1>. QED
  BY <1>1, <1>2 DEF WorkerOK

\* A commit leaves claimed items running or terminal.
LEMMA CommitClaimed ==
  ASSUME SerialInv, NEW p \in Procs, item' = Visible(p)
  PROVE  \A i \in Items : item[i] \in {"running"} \cup ItemEnd => item'[i] \in {"running"} \cup ItemEnd
<1>1. \A i \in Items : wr[p][i] \in {"none", "running"} \cup ItemEnd
  BY DEF SerialInv, IInv, TypeOK
<1>. QED
  BY <1>1 DEF Visible

\* A step that leaves rows and job alone.
LEMMA RowsSame ==
  ASSUME SerialInv, UNCHANGED <<item, job>>, creator' = creator \/ creator'.pc \in {"aborted", "done"}
                                           \/ (creator'.pc \in {"insert", "publish"} /\ job.status # "none")
  PROVE  CountersExact' /\ JobOK'
BY DEF SerialInv, CountersExact, JobOK

\* A transaction that is open is alone; one that may begin finds none open.
LEMMA Alone ==
  ASSUME SerialInv, ~ReadCommitted, NEW p \in Procs, pc[p] \in InTx \/ MayBegin(p)
  PROVE  \A q \in Procs \ {p} : pc[q] \notin InTx
BY DEF SerialInv, OneTx, MayBegin

-----------------------------------------------------------------------------
LEMMA SerialOutside ==
  ASSUME SerialInv, ~ReadCommitted, IInv', \A q \in Procs : Keeps(q),
         \/ CreateBatchJob \/ CreateBatchItem \/ CreateFails \/ PublishItem \/ UNCHANGED vars
         \/ \E i \in Items : RecoverStaleRunning(i)
  PROVE  SerialInv'
<1>. USE DEF txVars, dbVars
<1>a. TypeOK /\ Workers \subseteq Procs
  BY DEF SerialInv, IInv, Procs
<1>1. OneTx'
  BY DEF SerialInv, OneTx, Keeps
<1>2. CASE UNCHANGED <<item, job>>
  <2>1. /\ \A q \in Procs : TxOK(q)'
        /\ \A w \in Workers : WorkerOK(w)'
    BY <1>2, <1>a, OthersTx, OthersItem
  <2>2. creator' = creator \/ creator'.pc \in {"aborted", "done"} \/ (creator'.pc \in {"insert", "publish"} /\ job.status # "none")
    <3>1. CASE CreateFails
      BY <3>1, <1>a DEF CreateFails, TypeOK
    <3>2. CASE CreateBatchItem \/ CreateBatchJob
      BY <3>2, <1>2, <1>a DEF CreateBatchItem, CreateBatchJob, TypeOK, SerialInv, JobOK
    <3>3. CASE PublishItem
      <4>1. creator'.pc = "done" \/ creator'.pc = "insert"
        BY <3>3, <1>a DEF PublishItem, TypeOK
      <4>2. job.status # "none"
        BY <3>3, <1>a DEF PublishItem, SerialInv, JobOK
      <4>. QED
        BY <4>1, <4>2
    <3>4. CASE UNCHANGED vars \/ \E i \in Items : RecoverStaleRunning(i)
      BY <3>4 DEF vars, RecoverStaleRunning
    <3>. QED
      BY <3>1, <3>2, <3>3, <3>4
  <2>3. CountersExact' /\ JobOK'
    BY <1>2, <2>2, RowsSame
  <2>. QED
    BY <1>1, <2>1, <2>3 DEF SerialInv
<1>3. CASE CreateBatchJob
  <2>1. UNCHANGED item /\ job' = [job EXCEPT !.status = "pending"] /\ creator' = [creator EXCEPT !.pc = "insert"] /\ job.status = "none"
    BY <1>3 DEF CreateBatchJob, SerialInv, JobOK
  <2>2. /\ job'.status = "pending" /\ job'.completed = job.completed /\ job'.failed = job.failed /\ job'.cancelled = job.cancelled
        /\ creator'.pc = "insert"
    BY <2>1, <1>a DEF TypeOK
  <2>3. \A q \in Procs : pc[q] \notin InTx
    BY <2>1 DEF SerialInv, TxOK
  <2>4. /\ \A q \in Procs : TxOK(q)'
        /\ \A w \in Workers : WorkerOK(w)'
    BY <2>1, <2>3, <1>a, OthersTx, OthersItem
  <2>5. \A i \in Items : item[i] = "absent"
    BY <2>1 DEF SerialInv, JobOK
  <2>6. JobOK'
    <3>1. 1 \in Items
      BY BatchAssumption DEF Items
    <3>. QED
      BY <2>1, <2>2, <2>5, <3>1 DEF JobOK, JobEnd, ItemEnd
  <2>7. CountersExact'
    BY <2>1, <2>2 DEF SerialInv, CountersExact
  <2>. QED
    BY <1>1, <2>4, <2>6, <2>7 DEF SerialInv
<1>4. CASE CreateBatchItem
  <2> DEFINE k == creator.next
  <2>1. /\ item' = [item EXCEPT ![k] = "pending"] /\ creator'.pc = "publish" /\ UNCHANGED job /\ creator.pc = "insert"
        /\ MayBegin(Nobody) /\ item[k] = "absent" /\ k \in Items
    BY <1>4, <1>a DEF CreateBatchItem, SerialInv, IInv, InsertsFresh, TypeOK
  <2>2. \A q \in Procs : pc[q] \notin InTx
    <3>1. Nobody \notin Procs
      BY BatchAssumption DEF Procs
    <3>. QED
      BY <2>1, <3>1 DEF MayBegin
  <2>3. item'[k] = "pending" /\ \A i \in Items : i # k => item'[i] = item[i]
    BY <2>1, <1>a DEF TypeOK
  <2>4. \A i \in Items : item[i] \in {"running"} \cup ItemEnd => item'[i] \in {"running"} \cup ItemEnd
    BY <2>1, <2>3 DEF ItemEnd
  <2>5. /\ \A q \in Procs : TxOK(q)'
        /\ \A w \in Workers : WorkerOK(w)'
    BY <2>2, <2>4, <1>a, OthersTx, OthersItem
  <2>6. \A s \in ItemEnd : NumberWith(item', s) = NumberWith(item, s)
    <3>1. \A s \in ItemEnd : \A i \in Items : item[i] = s <=> item'[i] = s
      BY <2>1, <2>3 DEF ItemEnd
    <3>. QED
      BY <3>1, SameCounts
  <2>7. CountersExact'
    BY <2>1, <2>6 DEF SerialInv, CountersExact, ItemEnd
  <2>8. JobOK'
    BY <2>1, <2>3 DEF SerialInv, JobOK, ItemEnd
  <2>. QED
    BY <1>1, <2>5, <2>7, <2>8 DEF SerialInv
<1>5. CASE CreateFails \/ PublishItem \/ UNCHANGED vars \/ \E i \in Items : RecoverStaleRunning(i)
  BY <1>2, <1>5 DEF CreateFails, PublishItem, vars, RecoverStaleRunning
<1>. QED
  BY <1>3, <1>4, <1>5

LEMMA SerialCrash == ASSUME SerialInv, IInv', Crash PROVE SerialInv'
<1>. USE DEF dbVars
<1>a. TypeOK /\ Workers \subseteq Procs
  BY DEF SerialInv, IInv, Procs
<1>1. UNCHANGED <<item, job>> /\ \A q \in Procs : pc'[q] = "idle" /\ pref'[q] = "none"
  BY DEF Crash
<1>2. creator' = creator \/ creator'.pc = "aborted"
  BY <1>a DEF Crash, TypeOK
<1>3. CountersExact' /\ JobOK'
  BY <1>1, <1>2, RowsSame
<1>4. OneTx' /\ (\A q \in Procs : TxOK(q)') /\ (\A w \in Workers : WorkerOK(w)')
  BY <1>1, <1>a DEF OneTx, TxOK, WorkerOK, InTx
<1>. QED
  BY <1>3, <1>4 DEF SerialInv

-----------------------------------------------------------------------------
\* A step of one process that leaves rows and job alone; what is asked of it alone is asked here.
LEMMA SerialStatement ==
  ASSUME SerialInv, ~ReadCommitted, IInv', NEW p \in Procs, \A q \in Procs \ {p} : Keeps(q), UNCHANGED <<item, job, creator>>,
         pc'[p] \in InTx => pc[p] \in InTx \/ MayBegin(p),
         TxOK(p)', p \in Workers => WorkerOK(p)'
  PROVE  SerialInv'
<1>a. TypeOK /\ Workers \subseteq Procs
  BY DEF SerialInv, IInv, Procs
<1>1. OneTx'
  <2>1. pc'[p] \in InTx => \A q \in Procs \ {p} : pc[q] \notin InTx
    BY Alone
  <2>2. \A q \in Procs \ {p} : pc'[q] = pc[q]
    BY DEF Keeps
  <2>. QED
    BY <2>1, <2>2 DEF SerialInv, OneTx
<1>2. \A q \in Procs : TxOK(q)'
  BY OthersTx
<1>3. \A w \in Workers : WorkerOK(w)'
  BY <1>a, OthersItem
<1>4. CountersExact' /\ JobOK'
  BY RowsSame
<1>. QED
  BY <1>1, <1>2, <1>3, <1>4 DEF SerialInv

\* A step of one process after which it has no transaction.
LEMMA SerialLeaves ==
  ASSUME SerialInv, ~ReadCommitted, IInv', NEW p \in Procs, \A q \in Procs \ {p} : Keeps(q), UNCHANGED <<item, job, creator>>,
         pc'[p] \notin InTx, p \in Workers => WorkerOK(p)'
  PROVE  SerialInv'
<1>1. TxOK(p)'
  BY DEF TxOK, InTx
<1>. QED
  BY <1>1, SerialStatement

LEMMA SerialWorker ==
  ASSUME SerialInv, ~ReadCommitted, IInv', NEW w \in Workers, \A q \in Procs \ {w} : Keeps(q),
         WorkerStep(w) \/ HandlerTimeout(w), ~ClaimCommit(w), ~RefreshCommit(w)
  PROVE  SerialInv'
<1>. USE DEF txVars, dbVars
<1>a. TypeOK /\ w \in Procs /\ w # Canceller /\ TxOK(w) /\ WorkerOK(w) /\ cur[w] \in Items
  BY BatchAssumption DEF SerialInv, IInv, TypeOK, Procs
<1>b. /\ pc \in [Procs -> {"idle", "check", "exec", "term"} \cup InTx] /\ cur \in [Workers -> Items]
      /\ out \in [Workers -> {"none"} \cup ItemEnd] /\ DOMAIN wr = Procs /\ DOMAIN pref = Procs
      /\ wr \in [Procs -> [Items -> {"none", "running"} \cup ItemEnd]]
  BY <1>a DEF TypeOK
<1>c. \A i \in Items : item[i] # "absent" => job.status # "none"
  BY DEF SerialInv, JobOK
<1>d. job.status \in JobStatus
  BY <1>a DEF TypeOK
<1>1. ASSUME NEW i \in Items, MarkBatchItemRunning(w, i) PROVE SerialInv'
  <2>1. MayBegin(w) /\ UNCHANGED <<item, job, creator, pref>> /\ pc[w] = "idle"
    BY <1>1 DEF MarkBatchItemRunning
  <2>2. CASE Claimable(i)
    <3>1. wr'[w][i] = "running" /\ cur'[w] = i /\ pc'[w] = "claim"
      BY <1>1, <2>2, <1>a, <1>b DEF MarkBatchItemRunning
    <3>2. job.status \in {"pending", "running", "cancelling"}
      BY <2>2, <1>c, <1>d DEF Claimable, Closed, JobStatus, JobEnd
    <3>3. TxOK(w)' /\ WorkerOK(w)'
      BY <1>a, <2>1, <3>1, <3>2 DEF TxOK, WorkerOK
    <3>. QED
      BY <1>a, <2>1, <3>3, SerialStatement
  <2>3. CASE ~Claimable(i)
    <3>1. pc' = pc
      BY <1>1, <2>3 DEF MarkBatchItemRunning
    <3>2. pc'[w] \notin InTx /\ WorkerOK(w)'
      BY <1>a, <2>1, <3>1 DEF WorkerOK, InTx
    <3>. QED
      BY <1>a, <2>1, <3>2, SerialLeaves
  <2>. QED
    BY <2>2, <2>3
<1>2. CASE CheckJob(w) \/ Execute(w)
  <2>1. UNCHANGED <<item, job, creator, pref, cur>> /\ pc[w] \in {"check", "exec"} /\ pc'[w] \in {"exec", "term"}
    BY <1>2, <1>a, <1>b DEF CheckJob, Execute
  <2>2. pc'[w] \notin InTx /\ WorkerOK(w)'
    BY <1>a, <2>1 DEF WorkerOK, InTx
  <2>. QED
    BY <1>a, <2>1, <2>2, SerialLeaves
<1>3. CASE HandlerTimeout(w)
  <2>1. UNCHANGED <<item, job, creator>> /\ pc'[w] = "idle" /\ pref'[w] = "none"
    BY <1>3, <1>a, <1>b DEF HandlerTimeout, EndTx
  <2>2. pc'[w] \notin InTx /\ WorkerOK(w)'
    BY <2>1 DEF WorkerOK, InTx
  <2>. QED
    BY <1>a, <2>1, <2>2, SerialLeaves
<1>4. CASE UpdateItemTerminal(w)
  <2>1. MayBegin(w) /\ UNCHANGED <<item, job, creator, pref>> /\ pc[w] = "term"
    BY <1>4 DEF UpdateItemTerminal
  <2>2. CASE Unfinished(cur[w])
    <3>1. pc'[w] \in {"tokens", "count"}
      BY <1>4, <2>2, <1>a, <1>b DEF UpdateItemTerminal
    <3>2. item[cur[w]] = "running"
      BY <2>1, <2>2, <1>a DEF WorkerOK, Unfinished
    <3>3. job.status \notin JobEnd /\ job.status # "none"
      BY <3>2, <1>a, <1>c DEF SerialInv, JobOK
    <3>4. job.status \in {"pending", "running", "cancelling"}
      BY <3>3, <1>d DEF JobStatus
    <3>5. TxOK(w)' /\ WorkerOK(w)'
      BY <1>a, <2>1, <3>1, <3>4 DEF TxOK, WorkerOK
    <3>. QED
      BY <1>a, <2>1, <3>5, SerialStatement
  <2>3. CASE ~Unfinished(cur[w])
    <3>1. pc'[w] = "idle"
      BY <1>4, <2>3, <1>a, <1>b DEF UpdateItemTerminal
    <3>2. pc'[w] \notin InTx /\ WorkerOK(w)'
      BY <1>a, <2>1, <3>1 DEF WorkerOK, InTx
    <3>. QED
      BY <1>a, <2>1, <3>2, SerialLeaves
  <2>. QED
    BY <2>2, <2>3
<1>5. CASE AddTokens(w)
  <2>1. UNCHANGED <<item, job, creator, pref, wr>> /\ pc[w] = "tokens" /\ pc'[w] = "count"
    BY <1>5, <1>a, <1>b DEF AddTokens
  <2>2. pc[w] \in InTx
    BY <2>1 DEF InTx
  <2>3. TxOK(w)' /\ WorkerOK(w)'
    BY <1>a, <2>1, <2>2 DEF TxOK, WorkerOK
  <2>. QED
    BY <1>a, <2>1, <2>2, <2>3, SerialStatement
<1>6. CASE RefreshCount(w) \/ RefreshStatus(w)
  <2>1. UNCHANGED <<item, job, creator, pref, wr>> /\ pc[w] \in {"count", "status"} /\ pc'[w] \in {"status", "refresh"}
    BY <1>6, <1>a, <1>b DEF RefreshCount, RefreshStatus
  <2>2. pc[w] \in InTx
    BY <2>1 DEF InTx
  <2>3. \/ pc[w] = "status" /\ UNCHANGED <<wr, seen, item, job>> /\ pc'[w] = "refresh" /\ saw'[w] = job.status
        \/ pc[w] = "count" /\ seen'[w] = Summary(Visible(w)) /\ pc'[w] = "status"
    BY <1>6, <1>a, <2>1, Reads DEF WorkerStep
  <2>4. Visible(w)' = Visible(w)
    BY <2>1 DEF Visible
  <2>5. TxOK(w)' /\ WorkerOK(w)'
    BY <1>a, <2>1, <2>2, <2>3, <2>4 DEF TxOK, WorkerOK
  <2>. QED
    BY <1>a, <2>1, <2>2, <2>5, SerialStatement
<1>. QED
  BY <1>1, <1>2, <1>3, <1>4, <1>5, <1>6 DEF WorkerStep

LEMMA SerialCancel ==
  ASSUME SerialInv, ~ReadCommitted, IInv', \A q \in Procs \ {Canceller} : Keeps(q), CancelStep, ~RefreshCommit(Canceller)
  PROVE  SerialInv'
<1>. USE DEF txVars, dbVars
<1> DEFINE c == Canceller
<1>a. TypeOK /\ c \in Procs /\ c \notin Workers /\ TxOK(c)
  BY BatchAssumption DEF SerialInv, IInv, TypeOK, Procs
<1>b. pc \in [Procs -> {"idle", "check", "exec", "term"} \cup InTx] /\ DOMAIN pref = Procs
  BY <1>a DEF TypeOK
<1>1. CASE CancelBegin
  <2>1. MayBegin(c) /\ UNCHANGED <<item, job, creator>> /\ pc'[c] = "items" /\ job.status \in {"pending", "running", "cancelling"}
    BY <1>1, <1>a, <1>b DEF CancelBegin, Cancellable
  <2>2. TxOK(c)'
    BY <2>1 DEF TxOK
  <2>. QED
    BY <1>a, <2>1, <2>2, SerialStatement
<1>2. CASE CancelItems
  <2>1. UNCHANGED <<item, job, creator>> /\ pc[c] = "items" /\ pc'[c] = "running"
    BY <1>2, <1>a, <1>b DEF CancelItems
  <2>2. pc[c] \in InTx
    BY <2>1 DEF InTx
  <2>3. TxOK(c)'
    BY <1>a, <2>1, <2>2 DEF TxOK
  <2>. QED
    BY <1>a, <2>1, <2>2, <2>3, SerialStatement
<1>3. CASE CancelCountRunning
  <2>1. /\ UNCHANGED <<item, job, creator, wr>> /\ pc[c] = "running" /\ pc'[c] = "count"
        /\ pref'[c] = IF NumberWith(Visible(c), "running") > 0 THEN "cancelling" ELSE "cancelled"
    BY <1>3, <1>a, <1>b DEF CancelCountRunning
  <2>2. pc[c] \in InTx /\ Visible(c)' = Visible(c)
    BY <2>1 DEF InTx, Visible
  <2>3. TxOK(c)'
    BY <1>a, <2>1, <2>2 DEF TxOK
  <2>. QED
    BY <1>a, <2>1, <2>2, <2>3, SerialStatement
<1>4. CASE RefreshCount(c) \/ RefreshStatus(c)
  <2>1. UNCHANGED <<item, job, creator, pref, wr>> /\ pc[c] \in {"count", "status"} /\ pc'[c] \in {"status", "refresh"}
    BY <1>4, <1>a, <1>b DEF RefreshCount, RefreshStatus
  <2>2. pc[c] \in InTx
    BY <2>1 DEF InTx
  <2>3. \/ pc[c] = "status" /\ UNCHANGED <<wr, seen, item, job>> /\ pc'[c] = "refresh" /\ saw'[c] = job.status
        \/ pc[c] = "count" /\ seen'[c] = Summary(Visible(c)) /\ pc'[c] = "status"
    BY <1>4, <1>a, <2>1, Reads DEF CancelStep
  <2>4. Visible(c)' = Visible(c)
    BY <2>1 DEF Visible
  <2>5. TxOK(c)'
    BY <1>a, <2>1, <2>2, <2>3, <2>4 DEF TxOK
  <2>. QED
    BY <1>a, <2>1, <2>2, <2>5, SerialStatement
<1>. QED
  BY <1>1, <1>2, <1>3, <1>4 DEF CancelStep

\* The others, when a transaction commits: none of them has one, and their items stay claimed.
LEMMA OthersAtCommit ==
  ASSUME SerialInv, ~ReadCommitted, NEW p \in Procs, pc[p] \in InTx, pc'[p] \notin InTx, item' = Visible(p),
         \A q \in Procs \ {p} : Keeps(q)
  PROVE  /\ OneTx' /\ \A q \in Procs : TxOK(q)'
         /\ \A w \in Workers \ {p} : WorkerOK(w)'
<1>1. \A q \in Procs \ {p} : pc[q] \notin InTx
  BY Alone
<1>2. \A q \in Procs : pc'[q] \notin InTx
  BY <1>1 DEF Keeps
<1>3. OneTx' /\ \A q \in Procs : TxOK(q)'
  BY <1>2 DEF OneTx, TxOK, InTx
<1>4. \A w \in Workers \ {p} : WorkerOK(w)'
  BY CommitClaimed, OthersItem DEF Procs
<1>. QED
  BY <1>3, <1>4

LEMMA SerialClaimed ==
  ASSUME SerialInv, ~ReadCommitted, IInv', NEW w \in Workers, \A q \in Procs \ {w} : Keeps(q), ClaimCommit(w)
  PROVE  SerialInv'
<1>a. TypeOK /\ w \in Procs /\ TxOK(w) /\ WorkerOK(w) /\ cur[w] \in Items /\ pc[w] = "claim" /\ pc[w] \in InTx
  BY DEF SerialInv, IInv, TypeOK, Procs, ClaimCommit, InTx
<1>1. /\ item' = Visible(w) /\ UNCHANGED <<creator, cur>> /\ pc'[w] = "check" /\ pref'[w] = "none"
      /\ job' = [job EXCEPT !.status = IF @ = "pending" THEN "running" ELSE @]
  BY <1>a DEF ClaimCommit, EndTx, TypeOK
<1>2. pc'[w] \notin InTx
  BY <1>1 DEF InTx
<1>3. OneTx' /\ (\A q \in Procs : TxOK(q)') /\ \A v \in Workers \ {w} : WorkerOK(v)'
  BY <1>a, <1>1, <1>2, OthersAtCommit
<1>4. /\ \A i \in Items : wr[w][i] \in {"none", "running"} /\ (wr[w][i] # "none" => item[i] \notin ItemEnd)
      /\ wr[w][cur[w]] = "running"
  BY <1>a DEF SerialInv, IInv, WritesInTx, WritesOpen, WorkerOK
<1>5. item'[cur[w]] = "running" /\ \A i \in Items : item'[i] = item[i] \/ (item'[i] = "running" /\ item[i] \notin ItemEnd)
  BY <1>1, <1>4, <1>a DEF Visible
<1>6. WorkerOK(w)'
  BY <1>1, <1>5 DEF WorkerOK
<1>7. /\ job'.completed = job.completed /\ job'.failed = job.failed /\ job'.cancelled = job.cancelled
      /\ job.status \in {"pending", "running", "cancelling"} /\ job'.status \in {"running", "cancelling"}
      /\ job'.status = "cancelling" => job.status = "cancelling"
  BY <1>1, <1>a DEF TypeOK, TxOK
<1>8. CountersExact'
  <2>1. \A s \in ItemEnd : NumberWith(item', s) = NumberWith(item, s)
    <3>1. \A s \in ItemEnd : \A i \in Items : item[i] = s <=> item'[i] = s
      BY <1>5 DEF ItemEnd
    <3>. QED
      BY <3>1, SameCounts
  <2>. QED
    BY <1>7, <2>1 DEF SerialInv, CountersExact, ItemEnd
<1>9. JobOK'
  <2>1. creator.pc # "job"
    BY <1>7 DEF SerialInv, JobOK
  <2>2. ~ \A i \in Items : item'[i] \in ItemEnd
    BY <1>5, <1>a DEF ItemEnd
  <2>. QED
    BY <1>1, <1>5, <1>7, <1>a, <2>1, <2>2 DEF JobOK, JobEnd
<1>. QED
  BY <1>3, <1>6, <1>8, <1>9 DEF SerialInv

LEMMA SerialRefreshed ==
  ASSUME SerialInv, ~ReadCommitted, IInv', NEW p \in Procs, \A q \in Procs \ {p} : Keeps(q), RefreshCommit(p)
  PROVE  SerialInv'
<1>a. TypeOK /\ TxOK(p) /\ pc[p] = "refresh" /\ pc[p] \in InTx
  BY DEF SerialInv, IInv, RefreshCommit, InTx
<1> DEFINE rows == Visible(p)
           next == NextStatus(pref[p], saw[p], seen[p])
           new == [status |-> next, completed |-> seen[p].completed, failed |-> seen[p].failed, cancelled |-> seen[p].cancelled]
<1>1. item' = rows /\ UNCHANGED creator /\ pc'[p] = "idle" /\ pref'[p] = "none" /\ job' = new
  BY <1>a DEF RefreshCommit, EndTx, TypeOK
<1>2. new.status = next /\ new.completed = seen[p].completed /\ new.failed = seen[p].failed /\ new.cancelled = seen[p].cancelled
  OBVIOUS
<1>3. pc'[p] \notin InTx
  BY <1>1 DEF InTx
<1>4. OneTx' /\ (\A q \in Procs : TxOK(q)') /\ \A v \in Workers \ {p} : WorkerOK(v)'
  BY <1>a, <1>1, <1>3, OthersAtCommit
<1>5. p \in Workers => WorkerOK(p)'
  BY <1>1 DEF WorkerOK
<1>6. /\ seen[p] = Summary(rows) /\ saw[p] = job.status /\ saw[p] \in {"pending", "running", "cancelling"}
      /\ pref[p] = "none" \/ pref[p] = IF NumberWith(rows, "running") > 0 THEN "cancelling" ELSE "cancelled"
  BY <1>a DEF TxOK, SerialInv, WorkerOK, Procs
<1>7. rows \in [Items -> ItemStatus]
  BY <1>a, VisibleType
<1>8. /\ next # "none"
      /\ next \in JobEnd => \A i \in Items : rows[i] # "running"
      /\ next = "cancelling" => \E i \in Items : rows[i] \in {"running", "pending"}
      /\ (\A i \in Items : rows[i] \in ItemEnd) => next \in JobEnd
  BY <1>6, <1>7, Decided
<1>9. /\ seen[p].completed = NumberWith(rows, "completed") /\ seen[p].failed = NumberWith(rows, "failed")
      /\ seen[p].cancelled = NumberWith(rows, "cancelled")
  BY <1>6 DEF Summary, Completed
<1> HIDE DEF rows, next, new
<1>10. CountersExact'
  BY <1>1, <1>2, <1>9 DEF CountersExact
<1>11. JobOK'
  <2>1. creator.pc # "job"
    BY <1>6 DEF SerialInv, JobOK
  <2>. QED
    BY <1>1, <1>2, <1>8, <2>1 DEF JobOK
<1>. QED
  BY <1>4, <1>5, <1>10, <1>11 DEF SerialInv

LEMMA SerialStep ==
  ASSUME ~ReadCommitted
  PROVE  SerialInv /\ [Next]_vars => SerialInv'
<1>. SUFFICES ASSUME SerialInv, [Next]_vars PROVE SerialInv'
  OBVIOUS
<1>a. IInv' /\ TypeOK /\ Workers \subseteq Procs /\ Canceller \in Procs
  BY StepIInv DEF SerialInv, IInv, Procs
<1>1. CASE /\ CreateBatchJob \/ CreateBatchItem \/ CreateFails \/ PublishItem \/ UNCHANGED vars
              \/ \E i \in Items : RecoverStaleRunning(i)
           /\ \A q \in Procs : Keeps(q)
  BY <1>1, <1>a, SerialOutside
<1>2. CASE Crash
  BY <1>2, <1>a, SerialCrash
<1>3. ASSUME NEW w \in Workers, WorkerStep(w) \/ HandlerTimeout(w), \A q \in Procs \ {w} : Keeps(q) PROVE SerialInv'
  BY <1>3, <1>a, SerialWorker, SerialClaimed, SerialRefreshed
<1>4. ASSUME CancelStep, \A q \in Procs \ {Canceller} : Keeps(q) PROVE SerialInv'
  BY <1>4, <1>a, SerialCancel, SerialRefreshed
<1>. QED
  BY <1>1, <1>2, <1>3, <1>4, <1>a, OneActor

LEMMA SerialInitially == Init => SerialInv
<1>. SUFFICES ASSUME Init PROVE SerialInv
  OBVIOUS
<1>1. /\ \A p \in Procs : pc[p] = "idle" /\ pref[p] = "none" /\ pc[p] \notin InTx
      /\ \A i \in Items : item[i] = "absent"
      /\ job.status = "none" /\ job.completed = 0 /\ job.failed = 0 /\ job.cancelled = 0
      /\ creator.pc = "job" /\ Workers \subseteq Procs
  BY DEF Init, InTx, Procs
<1>2. OneTx /\ (\A p \in Procs : TxOK(p)) /\ \A w \in Workers : WorkerOK(w)
  BY <1>1 DEF OneTx, TxOK, WorkerOK
<1>3. JobOK
  <2>1. 1 \in Items
    BY BatchAssumption DEF Items
  <2>. QED
    BY <1>1, <2>1 DEF JobOK, JobEnd, ItemEnd
<1>4. CountersExact
  <2>1. \A s \in ItemEnd : NumberWith(item, s) = 0
    <3>. SUFFICES ASSUME NEW s \in ItemEnd PROVE NumberWith(item, s) = 0
      OBVIOUS
    <3>1. NumberWith(item, s) \in Nat /\ (NumberWith(item, s) > 0 <=> \E i \in Items : item[i] = s)
      BY SomeCounted
    <3>2. \A i \in Items : item[i] # s
      BY <1>1 DEF ItemEnd
    <3>. QED
      BY <3>1, <3>2
  <2>. QED
    BY <1>1, <2>1 DEF CountersExact, ItemEnd
<1>. QED
  BY <1>2, <1>3, <1>4, InitIInv DEF SerialInv

\* Under SQLite, for any number of items, workers, crashes, timeouts and recoveries: the counters of the job
\* row are those of its items, a cancelled job has no item running, a cancelling one still has an open
\* item, and a job whose items are all terminal is final (refreshBatchJobStatusTx, CancelBatchJob).
THEOREM SerialCorrect ==
  ASSUME ~ReadCommitted
  PROVE  BatchSpec => []SerialSettled
<1> DEFINE P == part = "sqlite" => SerialInv
<1>1. BatchInit => P
  BY SerialInitially DEF BatchInit
<1>2. P /\ [BatchNext]_<<vars, part>> => P'
  <2>. SUFFICES ASSUME P, [BatchNext]_<<vars, part>>, part' = "sqlite" PROVE SerialInv'
    OBVIOUS
  <2>1. part = "sqlite" /\ [Next]_vars
    BY DEF BatchNext
  <2>. QED
    BY <2>1, SerialStep
<1>3. P => SerialSettled
  BY DEF SerialInv, JobOK, CancelIsAccurate, JobSettles, JobEnd, SerialSettled
<1>. QED
  BY <1>1, <1>2, <1>3, PTL DEF BatchSpec

\* Under SQLite no step of the canceller, of a worker or of Create reopens a job that has completed,
\* failed or been cancelled.
THEOREM SerialFinal ==
  ASSUME ~ReadCommitted
  PROVE  BatchSpec => SerialFinalStatusKept
<1> DEFINE P == part = "sqlite" => SerialInv
           Kept == part = "sqlite" /\ job.status \in JobEnd => job'.status = job.status
<1>1. BatchInit => P
  BY SerialInitially DEF BatchInit
<1>2. P /\ [BatchNext]_<<vars, part>> => P'
  <2>. SUFFICES ASSUME P, [BatchNext]_<<vars, part>>, part' = "sqlite" PROVE SerialInv'
    OBVIOUS
  <2>1. part = "sqlite" /\ [Next]_vars
    BY DEF BatchNext
  <2>. QED
    BY <2>1, SerialStep
<1>3. P /\ [BatchNext]_<<vars, part>> => [Kept]_vars
  <2>. SUFFICES ASSUME P, [BatchNext]_<<vars, part>>, part = "sqlite", job.status \in JobEnd PROVE job'.status = job.status
    OBVIOUS
  <2>1. SerialInv /\ [Next]_vars /\ TypeOK
    BY DEF BatchNext, SerialInv, IInv
  <2>2. \A p \in Procs : pc[p] \notin InTx
    BY <2>1 DEF SerialInv, TxOK, JobEnd
  <2>3. \A p \in Procs : ~RefreshCommit(p) /\ ~ClaimCommit(p)
    BY <2>2 DEF RefreshCommit, ClaimCommit, InTx
  <2>4. ~CreateBatchJob
    BY <2>1 DEF CreateBatchJob, SerialInv, JobOK, JobEnd
  <2>5. UNCHANGED job
    BY <2>1, <2>3, <2>4, JobUntouched
  <2>. QED
    BY <2>5
<1>. QED
  BY <1>1, <1>2, <1>3, PTL DEF BatchSpec, SerialFinalStatusKept
=============================================================================

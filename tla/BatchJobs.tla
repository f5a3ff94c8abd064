----------------------------- MODULE BatchJobs -----------------------------
(***************************************************************************)
(* Asynchronous batch jobs: service/batch/service.go drives the rows of    *)
(* batch_jobs and batch_items through repository/sqlstore/batches.go.      *)
(* One job with N items is modelled (jobs share no row).  Its actors are   *)
(* the HTTP handler that creates it, the event bus workers that run its    *)
(* items, a handler that cancels it, and the recovery ticker.              *)
(*                                                                         *)
(* A transaction is a sequence of statements.  Under ReadCommitted (the    *)
(* Postgres default, BeginTx with nil options) a statement sees the rows   *)
(* committed before it and the transaction's own writes, and an UPDATE     *)
(* waits for the row lock of a concurrent writer.  Otherwise (SQLite) one  *)
(* transaction runs at a time.                                             *)
(***************************************************************************)
EXTENDS Naturals, FiniteSets

CONSTANTS
    N,              \* total_items of the job
    Workers,        \* the event bus goroutines that run handlers
    Canceller,      \* the handler of POST /batches/{id}/cancel
    Nobody,         \* no transaction holds the row lock of the job
    ReadCommitted,  \* TRUE: Postgres; FALSE: SQLite, transactions are serial
    Durable,        \* TRUE: events are in Kafka and outlive the process
    MaxRequeue,     \* bound: events the recovery ticker publishes
    MaxCrash,       \* bound: crashes of the gateway process
    MaxTimeout      \* bound: handlers cut off by HandlerTimeout

ASSUME BatchAssumption ==
    /\ N \in Nat \ {0}
    /\ IsFiniteSet(Workers)
    /\ Canceller \notin Workers
    /\ Nobody \notin Workers \cup {Canceller}
    /\ ReadCommitted \in BOOLEAN
    /\ Durable \in BOOLEAN
    /\ MaxRequeue \in Nat
    /\ MaxCrash \in Nat
    /\ MaxTimeout \in Nat

VARIABLES
    item,       \* committed batch_items.status, "absent" before the INSERT
    job,        \* committed batch_jobs row: status and the three item counters
    billed,     \* how often the tokens of an item were added to the job row
    creator,    \* progress of batch.Service.Create
    queue,      \* undelivered batch:item events, per item
    pc,         \* the statement a worker or the canceller executes next
    cur,        \* the item of the event a worker is handling
    out,        \* the terminal status a worker is about to store
    wr,         \* uncommitted item writes of a transaction; they hold row locks
    jobLock,    \* the transaction that has updated the job row, uncommitted
    seen,       \* counters read by refreshBatchJobStatusTx
    saw,        \* status read by refreshBatchJobStatusTx
    pref,       \* its preferredStatus argument
    execs,      \* history: upstream executions of an item
    spent       \* budgets of the bounded environment actions

dbVars   == <<item, job, billed>>
txVars   == <<wr, jobLock, seen, saw, pref>>
vars     == <<item, job, billed, creator, queue, pc, cur, out,
              wr, jobLock, seen, saw, pref, execs, spent>>

Items    == 1..N
Procs    == Workers \cup {Canceller}

ItemEnd    == {"completed", "failed", "cancelled"}
ItemStatus == {"absent", "pending", "running"} \cup ItemEnd
JobEnd     == {"completed", "failed", "cancelled"}
JobStatus  == {"none", "pending", "running", "cancelling"} \cup JobEnd
\* The job statuses under which no item may be claimed or recovered.
Closed     == {"completed", "failed", "cancelling", "cancelled"}

NoWrites == [i \in Items |-> "none"]
NoCounts == [total |-> 0, completed |-> 0, failed |-> 0, cancelled |-> 0, running |-> 0]
InTx     == {"claim", "tokens", "count", "status", "refresh", "items", "running"}

-----------------------------------------------------------------------------
\* What a statement of transaction p reads: committed rows and its own writes.
Visible(p) == [i \in Items |-> IF wr[p][i] = "none" THEN item[i] ELSE wr[p][i]]

\* No other transaction holds the row lock of item i.
ItemFree(p, i) == \A q \in Procs \ {p} : wr[q][i] = "none"

\* BEGIN: SQLite admits one transaction at a time.
MayBegin(p) == ReadCommitted \/ \A q \in Procs \ {p} : pc[q] \notin InTx

NumberWith(rows, s) == Cardinality({i \in Items : rows[i] = s})

\* Mutant: the CASE of the completed items also matches the running ones.
Completed_OrRunning(rows) == NumberWith(rows, "completed") + NumberWith(rows, "running")
Completed(rows) == NumberWith(rows, "completed")

\* The first SELECT of refreshBatchJobStatusTx.  total is COUNT(1) over the
\* rows present, not the column total_items.
Summary(rows) ==
    [total     |-> Cardinality({i \in Items : rows[i] # "absent"}),
     completed |-> Completed(rows),
     failed    |-> NumberWith(rows, "failed"),
     cancelled |-> NumberWith(rows, "cancelled"),
     running   |-> NumberWith(rows, "running")]

Terminal(n) == n.completed + n.failed + n.cancelled

AllDone(n) == Terminal(n) >= n.total

\* Mutant: the case of a cancelling job whose items are done is missing.
WhenCancelling_Stays(n) == "cancelling"
WhenCancelling(n) == IF AllDone(n) THEN "cancelled" ELSE "cancelling"

\* The switch of refreshBatchJobStatusTx.
NextStatus(preferred, current, n) ==
    IF preferred # "none" THEN preferred
    ELSE IF current = "cancelled" THEN "cancelled"
    ELSE IF current = "cancelling" THEN WhenCancelling(n)
    ELSE IF AllDone(n) /\ n.cancelled > 0 THEN "cancelled"
    ELSE IF AllDone(n) /\ n.failed > 0 THEN "failed"
    ELSE IF AllDone(n) THEN "completed"
    ELSE IF n.running > 0 \/ Terminal(n) > 0 THEN "running"
    ELSE "pending"

\* End of a transaction of p, by COMMIT or ROLLBACK: its locks go.
EndTx(p) ==
    /\ wr'      = [wr EXCEPT ![p] = NoWrites]
    /\ jobLock' = IF jobLock = p THEN Nobody ELSE jobLock
    /\ seen'    = [seen EXCEPT ![p] = NoCounts]
    /\ saw'     = [saw EXCEPT ![p] = "none"]
    /\ pref'    = [pref EXCEPT ![p] = "none"]

Init ==
    /\ item    = [i \in Items |-> "absent"]
    /\ job     = [status |-> "none", completed |-> 0, failed |-> 0, cancelled |-> 0]
    /\ billed  = [i \in Items |-> 0]
    /\ creator = [pc |-> "job", next |-> 1]
    /\ queue   = [i \in Items |-> 0]
    /\ pc      = [p \in Procs |-> "idle"]
    /\ cur     = [w \in Workers |-> 1]
    /\ out     = [w \in Workers |-> "none"]
    /\ wr      = [p \in Procs |-> NoWrites]
    /\ jobLock = Nobody
    /\ seen    = [p \in Procs |-> NoCounts]
    /\ saw     = [p \in Procs |-> "none"]
    /\ pref    = [p \in Procs |-> "none"]
    /\ execs   = [i \in Items |-> 0]
    /\ spent   = [requeue |-> 0, crash |-> 0, timeout |-> 0]

-----------------------------------------------------------------------------
(* batch.Service.Create: the job row, then for each item an INSERT and the  *)
(* publication of its event, before the next INSERT.                        *)

CreateBatchJob ==
    /\ creator.pc = "job"
    /\ job' = [job EXCEPT !.status = "pending"]
    /\ creator' = [creator EXCEPT !.pc = "insert"]
    /\ UNCHANGED <<item, billed, queue, pc, cur, out, txVars, execs, spent>>

CreateBatchItem ==
    /\ creator.pc = "insert"
    /\ MayBegin(Nobody)
    /\ item' = [item EXCEPT ![creator.next] = "pending"]
    /\ creator' = [creator EXCEPT !.pc = "publish"]
    /\ UNCHANGED <<job, billed, queue, pc, cur, out, txVars, execs, spent>>

\* An INSERT fails: Create returns the error and leaves what it has stored.
CreateFails ==
    /\ creator.pc = "insert"
    /\ creator' = [creator EXCEPT !.pc = "aborted"]
    /\ UNCHANGED <<dbVars, queue, pc, cur, out, txVars, execs, spent>>

\* Mutant: the loop over the requests runs once too often.
LastItem_OneTooMany == creator.next > N
LastItem == creator.next = N

PublishItem ==
    /\ creator.pc = "publish"
    /\ queue' = [queue EXCEPT ![creator.next] = @ + 1]
    /\ creator' = IF LastItem
                  THEN [creator EXCEPT !.pc = "done"]
                  ELSE [pc |-> "insert", next |-> creator.next + 1]
    /\ UNCHANGED <<dbVars, pc, cur, out, txVars, execs, spent>>

-----------------------------------------------------------------------------
(* handleBatchItemEvent.                                                    *)

\* Mutant: the claim does not look at the status of the job.
Claimable_AnyJob(i) == item[i] \in {"pending", "running"}
\* The WHERE of the claim: pending or running, under a job that is not closed.
Claimable(i) == item[i] \in {"pending", "running"} /\ job.status \notin Closed

\* MarkBatchItemRunning, the UPDATE of the item.  With no row affected the
\* event is done.
MarkBatchItemRunning(w, i) ==
    /\ pc[w] = "idle"
    /\ queue[i] > 0
    /\ MayBegin(w)
    /\ ItemFree(w, i)
    /\ queue' = [queue EXCEPT ![i] = @ - 1]
    /\ IF Claimable(i)
       THEN /\ wr'  = [wr EXCEPT ![w] = [@ EXCEPT ![i] = "running"]]
            /\ pc'  = [pc EXCEPT ![w] = "claim"]
            /\ cur' = [cur EXCEPT ![w] = i]
       ELSE UNCHANGED <<wr, pc, cur>>
    /\ UNCHANGED <<dbVars, creator, out, jobLock, seen, saw, pref, execs, spent>>

\* MarkBatchItemRunning, the UPDATE of the job and COMMIT.
ClaimCommit(w) ==
    /\ pc[w] = "claim"
    /\ jobLock = Nobody
    /\ item' = Visible(w)
    /\ job'  = [job EXCEPT !.status = IF @ = "pending" THEN "running" ELSE @]
    /\ pc'   = [pc EXCEPT ![w] = "check"]
    /\ EndTx(w)
    /\ UNCHANGED <<billed, creator, queue, cur, out, execs, spent>>

\* GetBatchJob after the claim: a job cancelled meanwhile cancels the item.
CheckJob(w) ==
    /\ pc[w] = "check"
    /\ IF job.status \in {"cancelling", "cancelled"}
       THEN /\ out' = [out EXCEPT ![w] = "cancelled"]
            /\ pc'  = [pc EXCEPT ![w] = "term"]
       ELSE /\ pc'  = [pc EXCEPT ![w] = "exec"]
            /\ UNCHANGED out
    /\ UNCHANGED <<dbVars, creator, queue, cur, txVars, execs, spent>>

\* responses.Create: the upstream call, successful or not.
Execute(w) ==
    /\ pc[w] = "exec"
    /\ execs' = [execs EXCEPT ![cur[w]] = @ + 1]
    /\ \E o \in {"completed", "failed"} : out' = [out EXCEPT ![w] = o]
    /\ pc' = [pc EXCEPT ![w] = "term"]
    /\ UNCHANGED <<dbVars, creator, queue, cur, txVars, spent>>

\* Mutant: the UPDATE does not exclude items that are already terminal.
Unfinished_Any(i) == TRUE
Unfinished(i) == item[i] \notin ItemEnd

\* updateBatchItemTerminal, the UPDATE of the item; a terminal item is left
\* alone and the event is done.
UpdateItemTerminal(w) ==
    /\ pc[w] = "term"
    /\ MayBegin(w)
    /\ ItemFree(w, cur[w])
    /\ IF Unfinished(cur[w])
       THEN /\ wr'  = [wr EXCEPT ![w] = [@ EXCEPT ![cur[w]] = out[w]]]
            /\ pc'  = [pc EXCEPT ![w] = IF out[w] = "completed" THEN "tokens" ELSE "count"]
            /\ UNCHANGED out
       ELSE /\ pc'  = [pc EXCEPT ![w] = "idle"]
            /\ out' = [out EXCEPT ![w] = "none"]
            /\ UNCHANGED wr
    /\ UNCHANGED <<dbVars, creator, queue, cur, jobLock, seen, saw, pref, execs, spent>>

\* The UPDATE of the token counters takes the row lock of the job.
AddTokens(w) ==
    /\ pc[w] = "tokens"
    /\ jobLock = Nobody
    /\ jobLock' = w
    /\ pc' = [pc EXCEPT ![w] = "count"]
    /\ UNCHANGED <<dbVars, creator, queue, cur, out, wr, seen, saw, pref, execs, spent>>

-----------------------------------------------------------------------------
(* refreshBatchJobStatusTx, in a worker's or the canceller's transaction.   *)

CountedRows(p) == Visible(p)

RefreshCount(p) ==
    /\ pc[p] = "count"
    /\ seen' = [seen EXCEPT ![p] = Summary(CountedRows(p))]
    /\ pc'   = [pc EXCEPT ![p] = "status"]
    /\ UNCHANGED <<dbVars, creator, queue, cur, out, wr, jobLock, saw, pref, execs, spent>>

RefreshStatus(p) ==
    /\ pc[p] = "status"
    /\ saw' = [saw EXCEPT ![p] = job.status]
    /\ pc'  = [pc EXCEPT ![p] = "refresh"]
    /\ UNCHANGED <<dbVars, creator, queue, cur, out, wr, jobLock, seen, pref, execs, spent>>

\* The UPDATE of the job row and COMMIT of the whole transaction.
RefreshCommit(p) ==
    /\ pc[p] = "refresh"
    /\ jobLock \in {p, Nobody}
    /\ job' = [status    |-> NextStatus(pref[p], saw[p], seen[p]),
               completed |-> seen[p].completed,
               failed    |-> seen[p].failed,
               cancelled |-> seen[p].cancelled]
    /\ item' = Visible(p)
    /\ billed' = [i \in Items |-> IF wr[p][i] = "completed" THEN billed[i] + 1 ELSE billed[i]]
    /\ pc'  = [pc EXCEPT ![p] = "idle"]
    /\ out' = [w \in Workers |-> IF w = p THEN "none" ELSE out[w]]
    /\ EndTx(p)
    /\ UNCHANGED <<creator, queue, cur, execs, spent>>

-----------------------------------------------------------------------------
(* CancelBatchJob.  On a closed job it changes nothing.                     *)

\* Mutant: a completed or failed job can be cancelled.
Cancellable_Finished == job.status \notin {"none", "cancelling", "cancelled"}
Cancellable == job.status \in {"pending", "running"}

CancelBegin ==
    /\ pc[Canceller] = "idle"
    /\ Cancellable
    /\ MayBegin(Canceller)
    /\ pc' = [pc EXCEPT ![Canceller] = "items"]
    /\ UNCHANGED <<dbVars, creator, queue, cur, out, txVars, execs, spent>>

\* Mutant: the UPDATE lacks the condition status = pending.
ToCancel_Any(i) == item[i] # "absent"
ToCancel(i) == item[i] = "pending"

\* The UPDATE of the pending items waits for the claims in progress on them.
CancelItems ==
    /\ pc[Canceller] = "items"
    /\ \A i \in Items : ToCancel(i) => ItemFree(Canceller, i)
    /\ wr' = [wr EXCEPT ![Canceller] =
                [i \in Items |-> IF ToCancel(i) THEN "cancelled" ELSE "none"]]
    /\ pc' = [pc EXCEPT ![Canceller] = "running"]
    /\ UNCHANGED <<dbVars, creator, queue, cur, out, jobLock, seen, saw, pref, execs, spent>>

CancelCountRunning ==
    /\ pc[Canceller] = "running"
    /\ pref' = [pref EXCEPT ![Canceller] =
                  IF NumberWith(Visible(Canceller), "running") > 0
                  THEN "cancelling" ELSE "cancelled"]
    /\ pc' = [pc EXCEPT ![Canceller] = "count"]
    /\ UNCHANGED <<dbVars, creator, queue, cur, out, wr, jobLock, seen, saw, execs, spent>>

-----------------------------------------------------------------------------
(* Recovery, timeouts and crashes.                                          *)

\* recoverStaleRunning publishes again an item that has been running longer
\* than staleAfter; HandlerTimeout has no upper limit in the configuration,
\* so its first handler may be alive.
RecoverStaleRunning(i) ==
    /\ item[i] = "running"
    /\ job.status \notin Closed
    /\ spent.requeue < MaxRequeue
    /\ queue' = [queue EXCEPT ![i] = @ + 1]
    /\ spent' = [spent EXCEPT !.requeue = @ + 1]
    /\ UNCHANGED <<dbVars, creator, pc, cur, out, txVars, execs>>

\* The handler's context expires: the statement it would execute fails, and so
\* does the FailBatchItem that reports it, which uses the same context.
HandlerTimeout(w) ==
    /\ pc[w] # "idle"
    /\ spent.timeout < MaxTimeout
    /\ spent' = [spent EXCEPT !.timeout = @ + 1]
    /\ pc'  = [pc EXCEPT ![w] = "idle"]
    /\ out' = [out EXCEPT ![w] = "none"]
    /\ EndTx(w)
    /\ UNCHANGED <<dbVars, creator, queue, cur, execs>>

\* The process dies: its transactions roll back.  Events in memory are lost;
\* Kafka redelivers the ones whose offset was not committed.
Crash ==
    /\ spent.crash < MaxCrash
    /\ spent' = [spent EXCEPT !.crash = @ + 1]
    /\ queue' = [i \in Items |->
          IF Durable
          THEN queue[i] + Cardinality({w \in Workers : pc[w] # "idle" /\ cur[w] = i})
          ELSE 0]
    /\ creator' = IF creator.pc = "done" THEN creator ELSE [creator EXCEPT !.pc = "aborted"]
    /\ pc'   = [p \in Procs |-> "idle"]
    /\ out'  = [w \in Workers |-> "none"]
    /\ wr'   = [p \in Procs |-> NoWrites]
    /\ jobLock' = Nobody
    /\ seen' = [p \in Procs |-> NoCounts]
    /\ saw'  = [p \in Procs |-> "none"]
    /\ pref' = [p \in Procs |-> "none"]
    /\ UNCHANGED <<dbVars, cur, execs>>

\* Nothing is left to do.  Any other state without a successor is a deadlock.
Quiescent ==
    /\ creator.pc \in {"done", "aborted"}
    /\ \A i \in Items : queue[i] = 0
    /\ \A p \in Procs : pc[p] = "idle"

Terminated == Quiescent /\ UNCHANGED vars

WorkerStep(w) ==
    \/ \E i \in Items : MarkBatchItemRunning(w, i)
    \/ ClaimCommit(w)
    \/ CheckJob(w)
    \/ Execute(w)
    \/ UpdateItemTerminal(w)
    \/ AddTokens(w)
    \/ RefreshCount(w)
    \/ RefreshStatus(w)
    \/ RefreshCommit(w)

CancelStep ==
    \/ CancelBegin
    \/ CancelItems
    \/ CancelCountRunning
    \/ RefreshCount(Canceller)
    \/ RefreshStatus(Canceller)
    \/ RefreshCommit(Canceller)

Next ==
    \/ CreateBatchJob
    \/ CreateBatchItem
    \/ CreateFails
    \/ PublishItem
    \/ \E w \in Workers : WorkerStep(w) \/ HandlerTimeout(w)
    \/ CancelStep
    \/ \E i \in Items : RecoverStaleRunning(i)
    \/ Crash
    \/ Terminated

Spec == Init /\ [][Next]_vars

\* The Go scheduler runs every worker goroutine, and a cancellation that has
\* begun goes on; nothing makes a client cancel or Create be called.
Fairness ==
    /\ \A w \in Workers : WF_vars(WorkerStep(w))
    /\ WF_vars(pc[Canceller] # "idle" /\ CancelStep)

FairSpec == Spec /\ Fairness

-----------------------------------------------------------------------------
(* Properties.                                                              *)

\* Every variable keeps its type: the rows, the events and the transactions.
TypeOK ==
    /\ item \in [Items -> ItemStatus]
    /\ job \in [status : JobStatus, completed : Nat, failed : Nat, cancelled : Nat]
    /\ billed \in [Items -> Nat]
    /\ creator \in [pc : {"job", "insert", "publish", "done", "aborted"}, next : Items]
    /\ queue \in [Items -> Nat]
    /\ pc \in [Procs -> {"idle", "check", "exec", "term"} \cup InTx]
    /\ cur \in [Workers -> Items]
    /\ out \in [Workers -> {"none"} \cup ItemEnd]
    /\ wr \in [Procs -> [Items -> {"none", "running"} \cup ItemEnd]]
    /\ jobLock \in Workers \cup {Nobody}
    /\ seen \in [Procs -> [total : Nat, completed : Nat, failed : Nat,
                           cancelled : Nat, running : Nat]]
    /\ saw \in [Procs -> JobStatus]
    /\ pref \in [Procs -> {"none", "cancelling", "cancelled"}]
    /\ execs \in [Items -> Nat]
    /\ spent \in [requeue : Nat, crash : Nat, timeout : Nat]

\* updateBatchItemTerminal adds the tokens of an item to its job exactly once,
\* however often the item is delivered, recovered and executed.
TokensCountedOnce ==
    \A i \in Items : billed[i] = IF item[i] = "completed" THEN 1 ELSE 0

\* The first terminal status of an item is final: a duplicate delivery, a late
\* worker or a cancellation never replaces the stored result.
ResultIsFinal ==
    [][\A i \in Items : item[i] \in ItemEnd => item'[i] = item[i]]_vars

\* The item counters of the job row never run ahead of the items themselves,
\* whatever other transactions commit between the SELECT and the UPDATE.
CountersNeverAhead ==
    /\ job.completed <= NumberWith(item, "completed")
    /\ job.failed    <= NumberWith(item, "failed")
    /\ job.cancelled <= NumberWith(item, "cancelled")

\* With serial transactions the counters of the job row are those of its items.
CountersExact ==
    /\ job.completed = NumberWith(item, "completed")
    /\ job.failed    = NumberWith(item, "failed")
    /\ job.cancelled = NumberWith(item, "cancelled")

\* With serial transactions a completed, failed or cancelled job stays so.
FinalStatusKept ==
    [][job.status \in JobEnd => job'.status = job.status]_vars

\* A cancelled job has no item running; a cancelling one waits for a running
\* item, or holds an item that Create inserted after the cancellation.
CancelIsAccurate ==
    /\ job.status = "cancelled"  => \A i \in Items : item[i] # "running"
    /\ job.status = "cancelling" => \E i \in Items : item[i] \in {"running", "pending"}

\* When every item is terminal and no transaction is open the job is final, as
\* the store's test expects of a job whose two items have finished.
JobSettles ==
    (\A i \in Items : item[i] \in ItemEnd) /\ (\A p \in Procs : pc[p] \notin InTx)
        => job.status \in JobEnd

\* refreshBatchJobStatusTx: a job is completed or failed only when all its
\* total_items have finished.
CompletedMeansAll ==
    job.status \in {"completed", "failed"} => \A i \in Items : item[i] \in ItemEnd

\* The cancellation of a job whose items were all inserted before it ends once
\* the workers are done with the running ones, unless one of them is cut off.
CancelCompletes ==
    /\ job.status = "cancelling"
    /\ creator.pc = "done"
    /\ \A i \in Items : item[i] # "pending"
    ~> job.status = "cancelled" \/ spent.crash > 0 \/ spent.timeout > 0

=============================================================================

---------------------------- MODULE MCBatchJobs ----------------------------
(***************************************************************************)
(* Small instances of BatchJobs: SQLite, where transactions are serial,     *)
(* with events in memory, and Postgres with events in Kafka.  A behaviour   *)
(* is one of the one or the other.                                         *)
(***************************************************************************)
EXTENDS BatchJobs

VARIABLE part    \* "sqlite" or "postgres"

Postgres == INSTANCE BatchJobs WITH ReadCommitted <- TRUE, Durable <- TRUE

BatchInit ==
    \/ part = "sqlite" /\ Init
    \/ part = "postgres" /\ Postgres!Init

BatchNext ==
    /\ \/ part = "sqlite" /\ Next
       \/ part = "postgres" /\ Postgres!Next
    /\ UNCHANGED part

\* The fairness of BatchJobs, with SQLite.
SqliteFairness ==
    /\ \A w \in Workers : WF_vars(part = "sqlite" /\ WorkerStep(w))
    /\ WF_vars(part = "sqlite" /\ pc[Canceller] # "idle" /\ CancelStep)

BatchSpec == BatchInit /\ [][BatchNext]_<<vars, part>> /\ SqliteFairness

-----------------------------------------------------------------------------
\* refreshBatchJobStatusTx and CancelBatchJob with serial transactions: the counters of the
\* job row are those of its items, a cancelled job has no item running, a cancelling one
\* waits for an item, and a job whose items are all terminal is final itself.
SerialSettled == part = "sqlite" => CountersExact /\ CancelIsAccurate /\ JobSettles

\* With serial transactions a completed, failed or cancelled job stays so.
SerialFinalStatusKept ==
    [][part = "sqlite" /\ job.status \in JobEnd => job'.status = job.status]_vars

\* With serial transactions a cancellation ends once the workers are done with the
\* running items, unless one of them is cut off.
SerialCancelCompletes == part = "sqlite" => CancelCompletes
=============================================================================

--------------------------- MODULE ResponseRecords ---------------------------
(***************************************************************************)
(* The two tables that hold a response (sqlstore/responses.go).  Its row   *)
(* is written by the request; the bodies go to response_details by events  *)
(* of the bus: one that CreateResponse publishes with the request's body,  *)
(* and one that the end of the request publishes with the answer's         *)
(* (responses/persist.go persistSuccess).  Both are applied by whichever   *)
(* worker or Kafka consumer gets them, in any order, and Kafka delivers an *)
(* event again when its handler fails or its commit is lost.               *)
(***************************************************************************)
EXTENDS Integers, FiniteSets

CONSTANTS Responses,       \* ids of responses
          RecDrivers,      \* database drivers: postgres checks the foreign key
          MaxRecFaults,    \* how many statements fail after their retries
          MaxAgain         \* how many deliveries are repeated

ASSUME RecAssumption ==
    /\ RecDrivers \subseteq {"postgres", "sqlite"}
    /\ MaxRecFaults \in Nat /\ MaxAgain \in Nat

VARIABLES recDriver,      \* the database in use
          durable,     \* whether events go through Kafka
          metaRow,     \* for each response, the row of responses
          bodies,      \* for each response, its row of response_details
          flying,      \* events that wait for a handler
          applied,     \* for each response, the events applied, and whether details came last
          recWork      \* faults and repetitions so far

recVars == <<recDriver, durable, metaRow, bodies, flying, applied, recWork>>

Missing == [there |-> FALSE, request |-> "", answer |-> ""]
RecEvents == [of : Responses, kind : {"details", "update"}]
Waits(r, k) == [of |-> r, kind |-> k]

RecInit ==
    /\ recDriver \in RecDrivers /\ durable \in BOOLEAN
    /\ metaRow = [r \in Responses |-> "absent"]
    /\ bodies = [r \in Responses |-> Missing]
    /\ flying = {} /\ applied = [r \in Responses |-> {}]
    /\ recWork = [faults |-> 0, again |-> 0]

-----------------------------------------------------------------------------
\* The row is inserted; the event that is published carries the request's body and
\* no answer.  A bus that is closing does not take it, and nobody is told.
CreateResponse(r) ==
    /\ metaRow[r] = "absent"
    /\ metaRow' = [metaRow EXCEPT ![r] = "in_progress"]
    /\ flying' \in {flying, flying \cup {Waits(r, "details")}}
    /\ UNCHANGED <<recDriver, durable, bodies, applied, recWork>>

\* The end of a request that succeeded publishes the answer.
PublishUpdate(r) ==
    /\ metaRow[r] = "in_progress" /\ Waits(r, "update") \notin flying
    /\ \A e \in applied[r] : e # "update"
    /\ flying' = flying \cup {Waits(r, "update")}
    /\ UNCHANGED <<recDriver, durable, metaRow, bodies, applied, recWork>>

\* A request that fails writes its row in its own goroutine, with an empty answer.
MarkError(r) ==
    /\ metaRow[r] = "in_progress" /\ Waits(r, "update") \notin flying
    /\ metaRow' = [metaRow EXCEPT ![r] = "error"]
    /\ bodies' = [bodies EXCEPT ![r] = [@ EXCEPT !.there = TRUE, !.answer = ""]]
    /\ UNCHANGED <<recDriver, durable, flying, applied, recWork>>

\* response_details after each of the two upserts.  The first one's replaces every
\* column, the second one's leaves the request's body alone.
DetailsUpsert(r) == [there |-> TRUE, request |-> "request", answer |-> ""]
UpdateUpsert_Blank(r) == [there |-> TRUE, request |-> "", answer |-> "answer"]
UpdateUpsert_UpdateOnly(r) == IF bodies[r].there
                              THEN [bodies[r] EXCEPT !.answer = "answer"] ELSE Missing
UpdateUpsert(r) == [there |-> TRUE, request |-> bodies[r].request, answer |-> "answer"]

\* Postgres refuses a detail of a row that is gone.
ForeignKeyHolds(r) == recDriver = "sqlite" \/ metaRow[r] \notin {"absent", "deleted"}

\* The event is gone, unless its delivery through Kafka is repeated.
Delivered(e) ==
    \/ flying' = flying \ {e} /\ UNCHANGED recWork
    \/ /\ durable /\ recWork.again < MaxAgain
       /\ recWork' = [recWork EXCEPT !.again = @ + 1] /\ UNCHANGED flying

HandleDetails(r) ==
    /\ Waits(r, "details") \in flying /\ ForeignKeyHolds(r)
    /\ bodies' = [bodies EXCEPT ![r] = DetailsUpsert(r)]
    /\ applied' = [applied EXCEPT ![r] = @ \cup (IF "update" \in @ THEN {"late details"}
                                                 ELSE {"details"})]
    /\ Delivered(Waits(r, "details"))
    /\ UNCHANGED <<recDriver, durable, metaRow>>

\* One transaction over both tables; a row that is gone stays gone.
HandleUpdate(r) ==
    /\ Waits(r, "update") \in flying /\ ForeignKeyHolds(r)
    /\ metaRow' = [metaRow EXCEPT ![r] = IF @ = "deleted" THEN @ ELSE "completed"]
    /\ bodies' = [bodies EXCEPT ![r] = UpdateUpsert(r)]
    /\ applied' = [applied EXCEPT ![r] = (@ \ {"late details"}) \cup {"update"}]
    /\ Delivered(Waits(r, "update"))
    /\ UNCHANGED <<recDriver, durable>>

\* A handler that fails three times: Kafka keeps the event, the channel has lost it.
HandlerFails(e) ==
    /\ e \in flying
    /\ ~ForeignKeyHolds(e.of) \/ recWork.faults < MaxRecFaults
    /\ recWork' = [recWork EXCEPT !.faults = IF ForeignKeyHolds(e.of) THEN @ + 1 ELSE @]
    /\ flying' = IF durable THEN flying ELSE flying \ {e}
    /\ UNCHANGED <<recDriver, durable, metaRow, bodies, applied>>

\* The cleanup after thirty days, or the deletion of the tenant.  The details go with
\* the row where the database checks foreign keys.
DeleteOld(r) ==
    /\ metaRow[r] \notin {"absent", "deleted"}
    /\ metaRow' = [metaRow EXCEPT ![r] = "deleted"]
    /\ bodies' = IF recDriver = "postgres" THEN [bodies EXCEPT ![r] = Missing] ELSE bodies
    /\ UNCHANGED <<recDriver, durable, flying, applied, recWork>>

RecNext ==
    \/ \E r \in Responses : CreateResponse(r) \/ PublishUpdate(r) \/ MarkError(r)
                            \/ HandleDetails(r) \/ HandleUpdate(r) \/ DeleteOld(r)
    \/ \E e \in flying : HandlerFails(e)

RecSpec == RecInit /\ [][RecNext]_recVars

-----------------------------------------------------------------------------
Kept(r) == metaRow[r] \notin {"absent", "deleted"}

\* The tables' states; a response is completed only by its update, which leaves a
\* detail row behind.
RecTypeOK ==
    /\ metaRow \in [Responses -> {"absent", "in_progress", "completed", "error", "deleted"}]
    /\ flying \subseteq RecEvents
    /\ \A r \in Responses : metaRow[r] = "completed" => bodies[r].there

\* A request's body, once stored, stays as long as the response does: the upsert that
\* completes the response does not touch it (responses.go UpdateResponse).
RequestKept ==
    \A r \in Responses : bodies[r].request = "request" /\ metaRow'[r] # "deleted"
                             => bodies'[r].request = "request"

\* A completed response without its answer is one whose details event was applied
\* after its update: nothing else loses an answer, not a failing handler, a repeated
\* update, nor a details event that was never published.
AnswerLostOnlyLate ==
    \A r \in Responses :
        metaRow[r] = "completed" /\ bodies[r].answer = "" => "late details" \in applied[r]

\* A completed response has its answer: the durable update of status and body that
\* persistSuccess publishes is not undone by the details of CreateResponse.
AnswerKept ==
    \A r \in Responses : metaRow[r] = "completed" => bodies[r].answer = "answer"

\* What the bus makes of a response's rows in whatever order it applies the events: a completed
\* one has a body, and its answer unless the details came late.
RecordsSound == RecTypeOK /\ AnswerLostOnlyLate
=============================================================================

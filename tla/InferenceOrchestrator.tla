----------------------- MODULE InferenceOrchestrator -----------------------
(***************************************************************************)
(* The port-driven inference workflow                                      *)
(* (application/inference/orchestrator.go): Create asks the candidates in  *)
(* order, each several times, and records usage before it completes the    *)
(* response's row; CreateStream forwards the first candidate's events,     *)
(* and when the client leaves drains the rest for a while so that what the *)
(* upstream has spent is recorded.  The gateway's composition root wires   *)
(* only its delegation to the response service so far.                     *)
(*                                                                         *)
(* The ports (admission, plugins, cache, router, usage, repository) answer *)
(* or fail as they like; the errors of Complete, Fail and, for a stream,   *)
(* Record are dropped, and refused keeps which of them finishStream met.   *)
(* A provider's stream is the goroutine of          *)
(* provider/openai_client.go StreamResponse: it hands over one event at a  *)
(* time, leaves an error in a buffered channel, closes that channel and    *)
(* then the one of the events.                                             *)
(***************************************************************************)
EXTENDS Integers, Sequences

CONSTANTS MaxOrcCandidates,   \* how many candidates the router may plan
          MaxAttempts,     \* the retry policy
          MaxOrcEvents     \* how many events an upstream sends

ASSUME OrcAssumption ==
    MaxOrcCandidates \in Nat /\ MaxAttempts \in Nat \ {0} /\ MaxOrcEvents \in Nat

VARIABLES flow,       \* create or stream
          orcAt,      \* where the request is
          plan,       \* how many candidates are left, the current one included
          attempt,    \* how many calls of the current candidate have failed
          orcRow,     \* the response's row
          records,    \* how often usage was recorded and acknowledged
          paidFor,    \* whether a record held the usage of the answer
          clientGone, \* the client has left
          upstreamAt, \* the provider's goroutine: idle, sending, failed, errs closed, closed
          pendingErr, \* an error waits in the buffered channel
          sentKinds,  \* what the upstream has sent
          lastSeen,   \* the last response and the last usage that were taken
          slipped,    \* the stream ended on the closed error channel
          drainedOut, \* the drain ran out of time
          refused     \* what the ports refused finishStream: the record, the row

orcVars == <<flow, orcAt, plan, attempt, orcRow, records, paidFor, clientGone,
             upstreamAt, pendingErr, sentKinds, lastSeen, slipped, drainedOut, refused>>
streamPart == <<upstreamAt, pendingErr, sentKinds, lastSeen, slipped, drainedOut, refused>>
createPart == <<plan, attempt>>

\* "bare" is the completion without a response that streamResponses adds when the
\* upstream has sent none.
EventKinds == {"started", "delta", "usage", "completed", "bare"}
NothingSeen == [response |-> "none", usage |-> FALSE]

OrcInit ==
    /\ flow \in {"create", "stream"} /\ orcAt = "admit"
    /\ plan = 0 /\ attempt = 0 /\ orcRow = "none" /\ records = 0 /\ paidFor = FALSE
    /\ clientGone = FALSE
    /\ upstreamAt = "idle" /\ pendingErr = FALSE /\ sentKinds = <<>>
    /\ lastSeen = NothingSeen /\ slipped = FALSE /\ drainedOut = FALSE /\ refused = {}

OrcClientLeaves ==
    /\ ~clientGone /\ orcAt # "ended" /\ clientGone' = TRUE
    /\ UNCHANGED <<flow, orcAt, orcRow, records, paidFor, createPart, streamPart>>

\* Admission, the plugins' Before and the cache's Lookup: each may end the request,
\* and a hit answers it without a row and without a charge.
Admit ==
    /\ orcAt = "admit" /\ orcAt' \in {"ended", "plan"}
    /\ UNCHANGED <<flow, orcRow, records, paidFor, clientGone, createPart, streamPart>>

\* A hit is replayed as a stream of its own, whose row is completed when the entry
\* can be decoded.
ReplayCachedStream ==
    /\ orcAt = "admit" /\ flow = "stream" /\ orcAt' = "ended"
    /\ orcRow' \in {"none", "completed"}
    /\ UNCHANGED <<flow, records, paidFor, clientGone, createPart, streamPart>>

\* A stream takes the first candidate only.
OrcPlanCandidates ==
    /\ orcAt = "plan"
    /\ \E n \in 0 .. MaxOrcCandidates :
          /\ plan' = n
          /\ orcAt' = CASE n = 0 -> "ended"
                        [] n > 0 /\ flow = "create" -> "row"
                        [] n > 0 /\ flow = "stream" -> "open"
    /\ UNCHANGED <<flow, attempt, orcRow, records, paidFor, clientGone, streamPart>>

-----------------------------------------------------------------------------
(* Create.                                                                 *)

CreateRow ==
    /\ orcAt = "row"
    /\ \/ orcRow' = "in_progress" /\ orcAt' = "invoke"
       \/ orcAt' = "ended" /\ UNCHANGED orcRow
    /\ UNCHANGED <<flow, records, paidFor, clientGone, createPart, streamPart>>

\* The call with the plugins' After behind it.
Invoke ==
    /\ orcAt = "invoke" /\ orcAt' \in {"failed", "record"}
    /\ UNCHANGED <<flow, orcRow, records, paidFor, clientGone, createPart, streamPart>>

\* A record that fails is a failed attempt, as if the provider had failed; one that was
\* applied although its answer was an error is not told apart, and the next attempt
\* records again.
RecordUsage ==
    /\ orcAt = "record"
    /\ \/ records' = records + 1 /\ paidFor' = TRUE /\ orcAt' = "complete"
       \/ orcAt' = "failed" /\ UNCHANGED <<records, paidFor>>
    /\ UNCHANGED <<flow, orcRow, clientGone, createPart, streamPart>>

\* What follows a completion that fails: the answer is returned all the same.
AfterComplete_Retried == "failed"
AfterComplete == "ended"

CompleteRow ==
    /\ orcAt = "complete"
    /\ \/ orcRow' = "completed" /\ orcAt' = "ended"
       \/ UNCHANGED orcRow /\ orcAt' = AfterComplete
    /\ UNCHANGED <<flow, records, paidFor, clientGone, createPart, streamPart>>

\* The next attempt, the next candidate, or the end.  During the delay before a retry
\* a client that has left ends the request, and its row stays as it is; so it does when
\* the repository refuses the failure.
AttemptFailed ==
    /\ orcAt = "failed"
    /\ \/ /\ attempt + 1 < MaxAttempts
          /\ \/ attempt' = attempt + 1 /\ orcAt' = "invoke"
             \/ clientGone /\ orcAt' = "ended" /\ UNCHANGED attempt
          /\ UNCHANGED <<plan, orcRow>>
       \/ /\ attempt + 1 = MaxAttempts /\ plan > 1
          /\ plan' = plan - 1 /\ attempt' = 0 /\ orcAt' = "invoke" /\ UNCHANGED orcRow
       \/ /\ attempt + 1 = MaxAttempts /\ plan = 1
          /\ orcRow' \in {orcRow, "error"}
          /\ orcAt' = "ended" /\ UNCHANGED <<plan, attempt>>
    /\ UNCHANGED <<flow, records, paidFor, clientGone, streamPart>>

-----------------------------------------------------------------------------
(* CreateStream: the provider's goroutine.                                 *)

UpstreamEnds ==
    /\ \/ /\ upstreamAt = "sending" /\ upstreamAt' = "ending"
          /\ pendingErr' \in BOOLEAN
       \/ upstreamAt = "ending" /\ upstreamAt' = "errs closed" /\ UNCHANGED pendingErr
       \/ upstreamAt = "errs closed" /\ upstreamAt' = "closed" /\ UNCHANGED pendingErr
    /\ UNCHANGED <<flow, orcAt, orcRow, records, paidFor, clientGone, createPart,
                   sentKinds, lastSeen, slipped, drainedOut, refused>>

\* What the loops of runStream and drain keep of an event.
Keep(k) == [response |-> IF k \in {"started", "completed"} THEN k ELSE lastSeen.response,
            usage |-> lastSeen.usage \/ k = "usage"]

TakeEvent(k) ==
    /\ upstreamAt = "sending" /\ Len(sentKinds) < MaxOrcEvents
    /\ orcAt \in {"select", "drain"}
    /\ sentKinds' = Append(sentKinds, k) /\ lastSeen' = Keep(k)
    /\ orcAt' = IF orcAt = "select" THEN "send" ELSE "drain"
    /\ UNCHANGED <<flow, orcRow, records, paidFor, clientGone, createPart, upstreamAt,
                   pendingErr, slipped, drainedOut, refused>>

\* finishStream records what was seen: the last response's usage when there is a
\* response, the last usage otherwise.  Either port may refuse, for a context that the
\* client's departure has cancelled too, and both errors are dropped.
FinishStream(failed) ==
    \E no \in SUBSET {"record", "row"} :
        /\ refused' = no
        /\ records' = IF "record" \in no THEN records ELSE records + 1
        /\ paidFor' = IF "record" \in no THEN paidFor
                      ELSE IF lastSeen.response = "none" THEN lastSeen.usage
                      ELSE lastSeen.response = "completed"
        /\ orcRow' = IF "row" \in no THEN orcRow
                     ELSE IF failed THEN "error" ELSE "completed"
        /\ orcAt' = "ended"

\* The provider opens its stream, or returns none and the stream ends as failed.
OpenStream ==
    /\ orcAt = "open"
    /\ \/ /\ orcAt' = "select" /\ upstreamAt' = "sending"
          /\ UNCHANGED <<orcRow, records, paidFor, refused>>
       \/ FinishStream(TRUE) /\ UNCHANGED upstreamAt
    /\ UNCHANGED <<flow, clientGone, createPart, pendingErr, sentKinds, lastSeen, slipped,
                   drainedOut>>

\* The event goes to the client, or the departure of the client is seen first.
ForwardEvent ==
    /\ orcAt = "send"
    /\ orcAt' \in {"select"} \cup (IF clientGone THEN {"drain"} ELSE {})
    /\ UNCHANGED <<flow, orcRow, records, paidFor, clientGone, createPart, streamPart>>

StreamCloses ==
    /\ orcAt = "select" /\ upstreamAt = "closed" /\ FinishStream(FALSE)
    /\ UNCHANGED <<flow, clientGone, createPart, upstreamAt, pendingErr, sentKinds, lastSeen,
                   slipped, drainedOut>>

StreamFails ==
    /\ orcAt = "select" /\ pendingErr /\ pendingErr' = FALSE /\ FinishStream(TRUE)
    /\ UNCHANGED <<flow, clientGone, createPart, upstreamAt, sentKinds, lastSeen,
                   slipped, drainedOut>>

\* The closed error channel is as good a choice of the select as the closed channel
\* of the events, and ends the goroutine without finishStream.
ErrorsClose ==
    /\ orcAt = "select" /\ ~pendingErr /\ upstreamAt \in {"errs closed", "closed"}
    /\ slipped' = TRUE /\ orcAt' = "ended"
    /\ UNCHANGED <<flow, orcRow, records, paidFor, clientGone, createPart, upstreamAt,
                   pendingErr, sentKinds, lastSeen, drainedOut, refused>>

BeginDrain ==
    /\ orcAt = "select" /\ clientGone /\ orcAt' = "drain"
    /\ UNCHANGED <<flow, orcRow, records, paidFor, clientGone, createPart, streamPart>>

\* The drain ends with the stream, with the error channel, or with its timer; an
\* error on the way is passed over.
DrainEnds(failed) == FinishStream(failed)

Drain ==
    /\ orcAt = "drain"
    /\ \/ upstreamAt = "closed" /\ DrainEnds(TRUE) /\ UNCHANGED <<pendingErr, drainedOut>>
       \/ /\ ~pendingErr /\ upstreamAt \in {"errs closed", "closed"}
          /\ DrainEnds(TRUE) /\ UNCHANGED <<pendingErr, drainedOut>>
       \/ drainedOut' = TRUE /\ DrainEnds(TRUE) /\ UNCHANGED pendingErr
       \/ /\ pendingErr /\ pendingErr' = FALSE
          /\ UNCHANGED <<orcAt, records, paidFor, orcRow, drainedOut, refused>>
    /\ UNCHANGED <<flow, clientGone, createPart, upstreamAt, sentKinds, lastSeen, slipped>>

OrcNext ==
    \/ OrcClientLeaves \/ Admit \/ ReplayCachedStream \/ OrcPlanCandidates
    \/ CreateRow \/ Invoke \/ RecordUsage \/ CompleteRow \/ AttemptFailed
    \/ OpenStream \/ UpstreamEnds \/ ForwardEvent \/ StreamCloses \/ StreamFails \/ ErrorsClose
    \/ BeginDrain \/ Drain
    \/ \E k \in EventKinds : TakeEvent(k)

OrcSpec == OrcInit /\ [][OrcNext]_orcVars

-----------------------------------------------------------------------------
\* The workflow's places, and a row that only its own flow has changed.
OrcTypeOK ==
    /\ orcAt \in {"admit", "plan", "row", "invoke", "record", "complete", "failed",
                  "open", "select", "send", "drain", "ended"}
    /\ plan \in 0 .. MaxOrcCandidates /\ attempt \in 0 .. MaxAttempts - 1
    /\ orcRow \in {"none", "in_progress", "completed", "error"}
    /\ records <= 1

\* A unary request whose usage was recorded was answered, and is not asked of another
\* provider or recorded a second time: a failing completion of the row does not start
\* the attempts again (orchestrator.go Create).
RecordedIsAnswered ==
    flow = "create" => /\ records > 0 => orcAt \in {"complete", "ended"}
                       /\ orcRow = "completed" => records = 1
                       /\ orcRow = "error" => records = 0

\* A stream that had a candidate and has ended went through finishStream exactly once,
\* by whichever of completion, error, nil stream, departure of the client and end of the
\* drain it ended: its usage is recorded once and its row settled, each unless its own
\* port refused; only the closed error channel ends one without (orchestrator.go
\* runStream, drain, finishStream).
StreamSettles ==
    (flow = "stream" /\ orcAt = "ended" /\ plan > 0) =>
        \/ slipped
        \/ /\ records = IF "record" \in refused THEN 0 ELSE 1
           /\ orcRow \in {"completed", "error"} <=> "row" \notin refused

\* When the upstream has sent its completed response, a record that is made holds its
\* usage, even when the client left before it came, unless the drain ran out of time
\* first.  A bare completion carries no usage, and the record is that of the last
\* response or usage before it (orchestrator.go runStream, drain, finishStream).
CompletedIsPaid ==
    (flow = "stream" /\ records = 1 /\ ~drainedOut /\ Len(sentKinds) > 0
       /\ sentKinds[Len(sentKinds)] = "completed") => paidFor

\* Create and runStream of the orchestrator: usage is recorded once, for what was answered, and
\* rows settle with it.
OrchestratorSound == OrcTypeOK /\ RecordedIsAnswered /\ StreamSettles /\ CompletedIsPaid
=============================================================================

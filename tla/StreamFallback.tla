--------------------------- MODULE StreamFallback ---------------------------
(***************************************************************************)
(* The streaming path of internal/service/responses: CreateStream, the     *)
(* goroutine of runStreamWithFallback that reads one candidate provider    *)
(* after the other and writes to an unbuffered channel, the HTTP handler   *)
(* that reads that channel, the upstream clients, and what is persisted.   *)
(***************************************************************************)
EXTENDS Naturals, Sequences, FiniteSets

CONSTANTS
    Streams,
    Providers,
    Candidates,   \* the order in which planCandidates puts the providers
    Cached,       \* the source of a replayed response; not a provider
    Retry,        \* MaxRetries of the retry configuration is positive
    Disconnects,  \* clients may disconnect
    WritesFail,   \* the store may refuse a write, and the budget a charge
    DrainSlots,   \* capacity of drainSem
    MaxEvents     \* bound: payload events of one upstream stream

ASSUME StreamAssumption ==
    /\ IsFiniteSet(Streams)
    /\ Candidates \in Seq(Providers) /\ Candidates # <<>>
    /\ Cached \notin Providers
    /\ Retry \in BOOLEAN /\ Disconnects \in BOOLEAN /\ WritesFail \in BOOLEAN
    /\ DrainSlots \in Nat \ {0}
    /\ MaxEvents \in Nat

VARIABLES
    pc,         \* where the goroutine of the stream is
    cand,       \* index of the candidate that is tried
    retrying,   \* the goroutine is in retryLoop
    outbox,     \* events it is about to send on the channel
    after,      \* where it goes when they are sent
    started,    \* firstResponseSent
    payload,    \* hasSentPayload
    up,         \* channels of the current upstream stream
    events,     \* payload events received from it
    errCh,      \* an error is in the error channel of the stream
    handler,    \* the handler's loop
    ctxDone,    \* the request context is cancelled
    row,        \* status of the row in the responses table
    charges,    \* usage with tokens that auth.RecordUsage recorded, in order
    load,       \* currentLoad of a provider
    from,       \* history: where the payload the client got came from
    final,      \* history: the last event the client got, if it was a final one
    rowLost,    \* history: the last update of the row failed, and nobody was told
    usageLost   \* history: usage with tokens was not recorded

flow    == <<pc, cand, retrying, outbox, after, started, payload>>
source  == <<up, events>>
client  == <<handler, ctxDone>>
rows    == <<row, rowLost>>
usage   == <<charges, usageLost>>
stored  == <<rows, usage>>
history == <<from, final>>
vars == <<pc, cand, retrying, outbox, after, started, payload, up, events,
          errCh, handler, ctxDone, row, charges, load, from, final, rowLost, usageLost>>

Init ==
    /\ pc = [s \in Streams |-> "new"]
    /\ cand = [s \in Streams |-> 1]
    /\ retrying = [s \in Streams |-> FALSE]
    /\ outbox = [s \in Streams |-> <<>>]
    /\ after = [s \in Streams |-> "done"]
    /\ started = [s \in Streams |-> FALSE]
    /\ payload = [s \in Streams |-> FALSE]
    /\ up = [s \in Streams |-> "none"]
    /\ events = [s \in Streams |-> 0]
    /\ errCh = [s \in Streams |-> FALSE]
    /\ handler = [s \in Streams |-> "idle"]
    /\ ctxDone = [s \in Streams |-> FALSE]
    /\ row = [s \in Streams |-> "none"]
    /\ charges = [s \in Streams |-> <<>>]
    /\ load = [p \in Providers |-> 0]
    /\ from = [s \in Streams |-> {}]
    /\ final = [s \in Streams |-> "none"]
    /\ rowLost = [s \in Streams |-> FALSE]
    /\ usageLost = [s \in Streams |-> FALSE]

-----------------------------------------------------------------------------
(* Helpers.                                                                 *)

\* response.completed, and the same event with the reason content_filter.
Finals == {"completed", "filtered"}

Provider(s) == Candidates[cand[s]]

Goto(s, where) == pc' = [pc EXCEPT ![s] = where]

\* emitStreamEvent of each event, then the code at "where".
Emit(s, kinds, where) ==
    /\ pc' = [pc EXCEPT ![s] = "emit"]
    /\ outbox' = [outbox EXCEPT ![s] = kinds]
    /\ after' = [after EXCEPT ![s] = where]

\* CreateResponse; a failure refuses the stream.
NewRow(s) == row' = [row EXCEPT ![s] = "in_progress"] /\ UNCHANGED rowLost

\* UpdateResponse with a detached context, and with the context of the request.  Every
\* caller drops its error.
SetRow(s, status) ==
    \/ row' = [row EXCEPT ![s] = status] /\ rowLost' = [rowLost EXCEPT ![s] = FALSE]
    \/ WritesFail /\ rowLost' = [rowLost EXCEPT ![s] = TRUE] /\ UNCHANGED row
SetRowWithCtx(s, status) == IF ctxDone[s] THEN UNCHANGED rows ELSE SetRow(s, status)

\* RecordUsage: the key, the budgets and the usage record.  An error stops it, and its caller
\* goes on.
Charge(s, kind) ==
    \/ charges' = [charges EXCEPT ![s] = Append(@, kind)] /\ UNCHANGED usageLost
    \/ WritesFail /\ usageLost' = [usageLost EXCEPT ![s] = TRUE] /\ UNCHANGED charges

IncrementLoad(p) == load' = [load EXCEPT ![p] = @ + 1]

DecrementLoad(p) == load' = [load EXCEPT ![p] = IF @ > 0 THEN @ - 1 ELSE 0]

\* The error is put in the channel and the goroutine returns, closing both.
Fail(s) == Goto(s, "done") /\ errCh' = [errCh EXCEPT ![s] = TRUE]

\* continue providerLoop.
NextCandidate(s) ==
    /\ Goto(s, "next")
    /\ cand' = [cand EXCEPT ![s] = @ + 1]

-----------------------------------------------------------------------------
(* CreateStream.                                                            *)

\* Guardrails, plugins, admission or routing refuse, or the row cannot be made.
RefuseStream(s) ==
    /\ pc[s] = "new"
    /\ Goto(s, "refused")
    /\ UNCHANGED <<cand, retrying, outbox, after, started, payload, source, errCh,
                   client, stored, load, history>>

StartStream(s) ==
    /\ pc[s] = "new"
    /\ Goto(s, "next")
    /\ NewRow(s)
    /\ handler' = [handler EXCEPT ![s] = "reading"]
    /\ UNCHANGED <<cand, retrying, outbox, after, started, payload, source, errCh,
                   ctxDone, usage, load, history>>

\* replayCachedStream: all of the entry, or what comes before what cannot be decoded.
Replays(s) ==
    \/ Emit(s, <<"started", "payload", "completed">>, "replayed")
    \/ \E sentFirst \in {<<"started">>, <<"started", "payload">>} : Emit(s, sentFirst, "undecodable")

\* The response is in a cache; replayCachedStream runs in a goroutine of its own.
\* What cannot be decoded, the entry or an event of its transcript, ends the replay.
StartCachedStream(s) ==
    /\ pc[s] = "new"
    /\ Replays(s)
    /\ NewRow(s)
    /\ handler' = [handler EXCEPT ![s] = "reading"]
    /\ UNCHANGED <<cand, retrying, started, payload, source, errCh, ctxDone, usage,
                   load, history>>

-----------------------------------------------------------------------------
(* The provider loop of runStreamWithFallback.                              *)

\* The provider is rate limited or its circuit is open.
SkipCandidate(s) ==
    /\ pc[s] = "next"
    /\ cand[s] <= Len(Candidates)
    /\ NextCandidate(s)
    /\ UNCHANGED <<retrying, outbox, after, started, payload, source, errCh, client,
                   stored, load, history>>

\* Another limit, the tenant's or the model's, rejects the request.
RateLimited(s) ==
    /\ pc[s] = "next"
    /\ cand[s] <= Len(Candidates)
    /\ SetRowWithCtx(s, "error")
    /\ Fail(s)
    /\ UNCHANGED <<cand, retrying, outbox, after, started, payload, source, client,
                   usage, load, history>>

UseCandidate(s) ==
    /\ pc[s] = "next"
    /\ cand[s] <= Len(Candidates)
    /\ IncrementLoad(Provider(s))
    /\ SetRowWithCtx(s, "in_progress")
    /\ IF started[s]
       THEN Goto(s, "plugins") /\ UNCHANGED <<outbox, after, started>>
       ELSE /\ Emit(s, <<"started">>, "plugins")
            /\ started' = [started EXCEPT ![s] = TRUE]
    /\ retrying' = [retrying EXCEPT ![s] = FALSE]
    /\ UNCHANGED <<cand, payload, source, errCh, client, usage, history>>

\* Every candidate has been tried or skipped.
NoProvider(s) ==
    /\ pc[s] = "next"
    /\ cand[s] > Len(Candidates)
    /\ SetRowWithCtx(s, "error")
    /\ Fail(s)
    /\ UNCHANGED <<cand, retrying, outbox, after, started, payload, source, client,
                   usage, load, history>>

PluginBlocks(s) ==
    /\ pc[s] = "plugins"
    /\ DecrementLoad(Provider(s))
    /\ NextCandidate(s)
    /\ UNCHANGED <<retrying, outbox, after, started, payload, source, errCh, client,
                   stored, history>>

\* A CACHE_HIT command: the response of the plugin is replayed.
PluginAnswers(s) ==
    /\ pc[s] = "plugins"
    /\ Replays(s)
    /\ UNCHANGED <<cand, retrying, started, payload, source, errCh, client, stored,
                   load, history>>

\* StreamResponse, with a context that the client does not cancel.
OpenUpstream(s) ==
    /\ pc[s] = "plugins"
    /\ Goto(s, "read")
    /\ up' = [up EXCEPT ![s] = "open"]
    /\ events' = [events EXCEPT ![s] = 0]
    /\ UNCHANGED <<cand, retrying, outbox, after, started, payload, errCh, client,
                   stored, load, history>>

-----------------------------------------------------------------------------
(* The upstream client: it ends, or puts an error and then closes.          *)

UpstreamEnds(s) ==
    /\ up[s] = "open"
    /\ up' = [up EXCEPT ![s] = "closed"]
    /\ UNCHANGED <<flow, events, errCh, client, stored, load, history>>

UpstreamFails(s) ==
    /\ up[s] = "open"
    /\ up' = [up EXCEPT ![s] = "failing"]
    /\ UNCHANGED <<flow, events, errCh, client, stored, load, history>>

UpstreamCloses(s) ==
    /\ up[s] = "failing"
    /\ up' = [up EXCEPT ![s] = "failed"]
    /\ UNCHANGED <<flow, events, errCh, client, stored, load, history>>

-----------------------------------------------------------------------------
(* The select of the reading loops.                                         *)

\* A renderable delta or a finished tool call is passed on.
ReadPayload(s) ==
    /\ pc[s] = "read"
    /\ up[s] = "open"
    /\ events[s] < MaxEvents
    /\ events' = [events EXCEPT ![s] = @ + 1]
    /\ payload' = [payload EXCEPT ![s] = TRUE]
    /\ Emit(s, <<"payload">>, "read")
    /\ UNCHANGED <<cand, retrying, started, up, errCh, client, stored, load, history>>

\* What the reader can see of the channels when the upstream has ended.
\* Mutant: a closed event channel is passed over.
StreamClosed_Ignored(s) == FALSE
StreamClosed(s) == up[s] \in {"closed", "failed"}
ErrorReady(s) == up[s] \in {"failing", "failed"}

\* The response has no visible output and the client has got none.
OutputBudgetTooLow(s) ==
    /\ pc[s] = "read"
    /\ StreamClosed(s)
    /\ ~payload[s]
    /\ SetRowWithCtx(s, "error")
    /\ IF ctxDone[s] THEN UNCHANGED usage ELSE Charge(s, "rejected")
    /\ DecrementLoad(Provider(s))
    /\ Fail(s)
    /\ UNCHANGED <<cand, retrying, outbox, after, started, payload, source, client,
                   history>>

\* runStreamPostChecks blocks the response.
PostCheckBlocks(s) ==
    /\ pc[s] = "read"
    /\ StreamClosed(s)
    /\ IF payload[s]
       THEN Emit(s, <<"filtered">>, "settle") /\ UNCHANGED <<errCh, load>>
       ELSE Fail(s) /\ DecrementLoad(Provider(s)) /\ UNCHANGED <<outbox, after>>
    /\ UNCHANGED <<cand, retrying, started, payload, source, client, stored, history>>

\* The response and its usage are stored, whatever the client does; whatever fails, the answer
\* stays "completed" and goes on.
StoreSuccess(s) == SetRow(s, "completed") /\ Charge(s, "success")

\* finalizeStream; the payload is taken from the response if none was sent.
FinalizeStream(s) ==
    /\ pc[s] = "read"
    /\ StreamClosed(s)
    /\ StoreSuccess(s)
    /\ Emit(s, IF payload[s] THEN <<"completed">> ELSE <<"payload", "completed">>, "settle")
    /\ UNCHANGED <<cand, retrying, started, payload, source, errCh, client, load, history>>

\* Mutant: a stream whose payload has reached the client falls back too.
MayFallBack_Always(s) == TRUE
MayFallBack(s) == ~payload[s]

\* Mutant: a failed attempt keeps its place in the load of the provider.
ReleaseFailed_Keeps(s) == UNCHANGED load
ReleaseFailed(s) == DecrementLoad(Provider(s))

\* handleStreamError, then a retry, the next candidate, or the error.
ReadError(s) ==
    /\ pc[s] = "read"
    /\ ErrorReady(s)
    /\ SetRow(s, "error")
    /\ ReleaseFailed(s)
    /\ \E retryable \in BOOLEAN :
          LET retries   == retryable /\ ~payload[s] /\ Retry /\ ~retrying[s]
              fallsBack == MayFallBack(s) /\ (retrying[s] => retryable)
          IN  \/ retries /\ Goto(s, "delay") /\ UNCHANGED <<cand, errCh>>
              \/ ~retries /\ fallsBack /\ NextCandidate(s) /\ UNCHANGED errCh
              \/ ~retries /\ ~fallsBack /\ Fail(s) /\ UNCHANGED cand
    /\ up' = [up EXCEPT ![s] = "read"]
    /\ UNCHANGED <<retrying, outbox, after, started, payload, events, client, usage,
                   history>>

\* The delay of the retry is over.
RetryUpstream(s) ==
    /\ pc[s] = "delay"
    /\ Goto(s, "read")
    /\ retrying' = [retrying EXCEPT ![s] = TRUE]
    /\ up' = [up EXCEPT ![s] = "open"]
    /\ events' = [events EXCEPT ![s] = 0]
    /\ UNCHANGED <<cand, outbox, after, started, payload, errCh, client, stored, load,
                   history>>

RetryCancelled(s) ==
    /\ pc[s] = "delay"
    /\ ctxDone[s]
    /\ Fail(s)
    /\ UNCHANGED <<cand, retrying, outbox, after, started, payload, source, client,
                   stored, load, history>>

\* Streams that read on after their client has gone.
Draining == {s \in Streams : pc[s] = "drain"}

\* Mutant: the cancelled request's own context is used for the update.
StoreCancelled_RequestCtx(s) == SetRowWithCtx(s, "cancelled")
StoreCancelled(s) == SetRow(s, "cancelled")

\* handleStreamCancellation and what follows it.
Cancel(s) ==
    /\ StoreCancelled(s)
    /\ Charge(s, "cancelled")
    /\ DecrementLoad(Provider(s))
    /\ Fail(s)

\* drainStreamForUsage in the first loop, drainWithSemaphore in retryLoop.
ReadCtxDone(s) ==
    /\ pc[s] = "read"
    /\ ctxDone[s]
    /\ IF retrying[s] /\ Cardinality({d \in Draining : retrying[d]}) >= DrainSlots
       THEN Cancel(s)
       ELSE Goto(s, "drain") /\ UNCHANGED <<errCh, stored, load>>
    /\ UNCHANGED <<cand, retrying, outbox, after, started, payload, source, client, history>>

\* The stream is closed or silent, an error arrives, or the time is over.
DrainEnds(s) ==
    /\ pc[s] = "drain"
    /\ Cancel(s)
    /\ UNCHANGED <<cand, retrying, outbox, after, started, payload, source, client, history>>

\* The last events are sent: the end of the branch for the closed stream.
Settle(s) ==
    /\ pc[s] = "settle"
    /\ DecrementLoad(Provider(s))
    /\ Goto(s, "done")
    /\ UNCHANGED <<cand, retrying, outbox, after, started, payload, source, errCh, client,
                   stored, history>>

\* The end of a replay; only a replay within the loop holds a place in a load.
ReplayEnds(s) ==
    /\ pc[s] \in {"replayed", "undecodable"}
    /\ IF pc[s] = "replayed"
       THEN SetRowWithCtx(s, "completed") /\ Goto(s, "done") /\ UNCHANGED errCh
       ELSE Fail(s) /\ UNCHANGED rows
    /\ IF started[s] THEN DecrementLoad(Provider(s)) ELSE UNCHANGED load
    /\ UNCHANGED <<cand, retrying, outbox, after, started, payload, source, client,
                   usage, history>>

-----------------------------------------------------------------------------
(* The handler of the request.                                              *)

\* Receives from the unbuffered channel and writes the event to the client.
HandlerTakesEvent(s) ==
    /\ pc[s] = "emit"
    /\ handler[s] = "reading"
    /\ LET kind == Head(outbox[s])
       IN  /\ from' = [from EXCEPT ![s] = IF kind # "payload" THEN @ ELSE @ \cup
                          {IF after[s] \in {"replayed", "undecodable"} THEN Cached ELSE Provider(s)}]
           /\ final' = [final EXCEPT ![s] = IF kind \in Finals THEN kind ELSE @]
    /\ outbox' = [outbox EXCEPT ![s] = Tail(@)]
    /\ pc' = [pc EXCEPT ![s] = IF Len(outbox[s]) = 1 THEN after[s] ELSE "emit"]
    /\ UNCHANGED <<cand, retrying, after, started, payload, source, errCh, client, stored,
                   load>>

\* net/http cancels the context of the request when the handler returns.
HandlerReturns(s, how) ==
    /\ handler' = [handler EXCEPT ![s] = how]
    /\ ctxDone' = [ctxDone EXCEPT ![s] = TRUE]

HandlerTakesError(s) ==
    /\ handler[s] = "reading"
    /\ errCh[s]
    /\ errCh' = [errCh EXCEPT ![s] = FALSE]
    /\ HandlerReturns(s, "errored")
    /\ UNCHANGED <<flow, source, stored, load, history>>

\* The event channel is closed: the stream ends as a success.
HandlerSeesEnd(s) ==
    /\ handler[s] = "reading"
    /\ pc[s] = "done"
    /\ HandlerReturns(s, "ended")
    /\ UNCHANGED <<flow, source, errCh, stored, load, history>>

\* The context is done or a write fails.
HandlerLeaves(s) ==
    /\ handler[s] = "reading"
    /\ Disconnects
    /\ HandlerReturns(s, "left")
    /\ UNCHANGED <<flow, source, errCh, stored, load, history>>

\* The connection breaks; the handler may still be at an earlier event.
Disconnect(s) ==
    /\ handler[s] = "reading"
    /\ Disconnects
    /\ ~ctxDone[s]
    /\ ctxDone' = [ctxDone EXCEPT ![s] = TRUE]
    /\ UNCHANGED <<flow, source, errCh, handler, stored, load, history>>

-----------------------------------------------------------------------------
Goroutine(s) ==
    \/ SkipCandidate(s) \/ RateLimited(s) \/ UseCandidate(s) \/ NoProvider(s)
    \/ PluginBlocks(s) \/ PluginAnswers(s) \/ OpenUpstream(s)
    \/ ReadPayload(s) \/ OutputBudgetTooLow(s) \/ PostCheckBlocks(s)
    \/ FinalizeStream(s) \/ ReadError(s) \/ RetryUpstream(s) \/ RetryCancelled(s)
    \/ ReadCtxDone(s) \/ DrainEnds(s) \/ Settle(s) \/ ReplayEnds(s)

Upstream(s) == UpstreamEnds(s) \/ UpstreamFails(s) \/ UpstreamCloses(s)

Handler(s) == HandlerTakesEvent(s) \/ HandlerTakesError(s) \/ HandlerSeesEnd(s)

Next ==
    \E s \in Streams :
        \/ RefuseStream(s) \/ StartStream(s) \/ StartCachedStream(s)
        \/ Goroutine(s) \/ Upstream(s) \/ Handler(s)
        \/ HandlerLeaves(s) \/ Disconnect(s)

Spec == Init /\ [][Next]_vars

\* Goroutines are scheduled; an upstream stream ends, by its ten-minute context
\* at the latest; the handler's select takes what is ready.  Clients may stay.
Fairness ==
    \A s \in Streams :
        WF_vars(Goroutine(s)) /\ WF_vars(Upstream(s)) /\ WF_vars(Handler(s))

FairSpec == Spec /\ Fairness

-----------------------------------------------------------------------------
(* Properties.                                                              *)

\* Type invariant; at most one usage record with tokens is written and no load
\* exceeds the number of streams.
TypeOK ==
    /\ pc \in [Streams -> {"new", "refused", "next", "plugins", "read", "delay", "drain",
                           "emit", "settle", "replayed", "undecodable", "done"}]
    /\ cand \in [Streams -> 1..(Len(Candidates) + 1)]
    /\ retrying \in [Streams -> BOOLEAN]
    /\ outbox \in [Streams -> Seq({"started", "payload"} \cup Finals)]
    /\ after \in [Streams -> {"done", "plugins", "read", "settle", "replayed", "undecodable"}]
    /\ started \in [Streams -> BOOLEAN]
    /\ payload \in [Streams -> BOOLEAN]
    /\ up \in [Streams -> {"none", "open", "closed", "failing", "failed", "read"}]
    /\ events \in [Streams -> 0..MaxEvents]
    /\ errCh \in [Streams -> BOOLEAN]
    /\ handler \in [Streams -> {"idle", "reading", "errored", "ended", "left"}]
    /\ ctxDone \in [Streams -> BOOLEAN]
    /\ row \in [Streams -> {"none", "in_progress", "error", "completed", "cancelled"}]
    /\ charges \in [Streams -> {<<>>} \cup {<<k>> : k \in {"success", "cancelled", "rejected"}}]
    /\ load \in [Providers -> 0..Cardinality(Streams)]
    /\ from \in [Streams -> SUBSET (Providers \cup {Cached})]
    /\ final \in [Streams -> {"none"} \cup Finals]
    /\ rowLost \in [Streams -> BOOLEAN] /\ usageLost \in [Streams -> BOOLEAN]

\* hasSentPayload of runStreamWithFallback: whatever fails and is retried, the
\* content one client receives comes from one provider or one cached response.
OneSource == \A s \in Streams : Cardinality(from[s]) <= 1

\* The terminal updates of runStreamWithFallback: once the goroutine is done, the stored
\* status and the usage that was charged tell the same story, although an earlier candidate
\* may have stored "error" and "in_progress" in between.  They part only where the very write
\* that is missing was refused: a row is never wrong because of a charge, nor the reverse.
ChargeMatchesRow ==
    \A s \in Streams : pc[s] = "done" =>
        /\ row[s] = "cancelled" => charges[s] = <<"cancelled">> \/ usageLost[s]
        /\ charges[s] = <<"cancelled">> => row[s] = "cancelled" \/ rowLost[s]
        /\ charges[s] = <<"success">> => row[s] = "completed" \/ rowLost[s]
        /\ charges[s] = <<"rejected">> => row[s] = "error" \/ rowLost[s]
        /\ row[s] = "completed" => charges[s] # <<>> \/ after[s] = "replayed" \/ usageLost[s]
        /\ usageLost[s] => charges[s] = <<>>

\* finalizeStream stores before it emits: when a client sees the completion of a response
\* from a provider, the writes of the response and its usage are behind it, so a disconnect
\* at the last event cannot leave it unbilled; only a write that was refused can.
StoredBeforeCompleted ==
    \A s \in Streams : final[s] = "completed" /\ after[s] = "settle" =>
        /\ row[s] = "completed" \/ rowLost[s]
        /\ charges[s] = <<"success">> \/ usageLost[s]

\* Attempts of a stream that the provider is serving.
Attempts(p) ==
    {s \in Streams : /\ pc[s] \in {"emit", "plugins", "read", "drain", "settle",
                                   "replayed", "undecodable"}
                     /\ started[s]
                     /\ Provider(s) = p}

\* IncrementLoad and DecrementLoad: the load of a provider, by which least_load
\* routes, is the number of streams it serves, on every way out of the loop.
LoadExact == \A p \in Providers : load[p] = Cardinality(Attempts(p))

\* While its client stays connected, the stream comes to an end and the handler
\* tells the client: by an error or by closing the stream.
StreamEnds ==
    \A s \in Streams : handler[s] = "reading" ~> handler[s] \in {"errored", "ended", "left"}

\* handleStreamCancellation: after the client has gone, the goroutine settles the
\* stream and returns.
DisconnectSettles ==
    \A s \in Streams : ctxDone[s] /\ pc[s] # "new" ~> pc[s] \in {"done", "refused"}

\* The bookkeeping of runStreamWithFallback and finalizeStream: the row and the charge of a
\* stream agree once its goroutine is done, and both are written before the client sees the
\* completion, but for the writes that were refused; no stream is charged twice and no load
\* exceeds the number of streams.
StreamSettled == TypeOK /\ ChargeMatchesRow /\ StoredBeforeCompleted
=============================================================================

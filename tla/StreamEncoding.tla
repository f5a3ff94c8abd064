--------------------------- MODULE StreamEncoding ---------------------------
(***************************************************************************)
(* The events of one answered stream, from the upstream's protocol to the   *)
(* client's.  A parser turns what Anthropic, Chat Completions or Responses  *)
(* upstreams send into ResponseEvents; the loop of runStreamWithFallback    *)
(* passes some on, gathers them and completes the answer; an encoder with a *)
(* state of its own writes them in the protocol of the surface that was     *)
(* called.  Text is a sequence of numbered pieces and a tool call its id.   *)
(***************************************************************************)
EXTENDS Integers, Sequences, SequencesExt

CONSTANTS Upstreams, EncSurfaces, MaxUpEvents, MaxCallsStreamed

ASSUME EncodingAssumption == MaxUpEvents \in Nat /\ MaxCallsStreamed \in Nat

VARIABLES
    upstream, surface,
    upEvents, upText, upCalls,   \* what the upstream has sent: events, text, calls finished
    upEnd,                       \* "", or how its stream ended
    parser,   \* anthropicStreamState: the call being read, the outputs, whether it completed
    gathered, \* of runStreamWithFallback: text, calls, whether anything was passed on, the final response
    encoder,  \* of the encoder, or of the handler for the responses surface
    sent,     \* what the client got
    prefill,  \* history: what Anthropic's message_start had in it
    checked,  \* history: what the checks of the answer decided
    storedAnswer    \* the answer stored and cached

encVars == <<upstream, surface, upEvents, upText, upCalls, upEnd, parser, gathered, encoder, sent,
             prefill, checked, storedAnswer>>
endVars == <<prefill, checked, storedAnswer>>

NoResponse == [set |-> FALSE, text |-> <<>>, calls |-> <<>>]
NoEvent == [type |-> "none", text |-> <<>>, calls |-> <<>>, finish |-> "", resp |-> NoResponse]
NewEncoder == [started |-> FALSE, active |-> "", index |-> -1, next |-> 0,
               role |-> FALSE, finished |-> FALSE, added |-> FALSE, text |-> <<>>]
Out(kind, index, value) == [kind |-> kind, index |-> index, value |-> value]

-----------------------------------------------------------------------------
(* AnthropicStreamEncoder.  An encoding is a state and what was written.    *)

Write(e, kind, index, value) == [e EXCEPT !.out = Append(@, Out(kind, index, value))]

ensureMessageStart(e) ==
    IF e.st.started THEN e ELSE Write([e EXCEPT !.st.started = TRUE], "message_start", 0, <<>>)

closeActiveBlock(e) ==
    IF e.st.index < 0 THEN e
    ELSE Write([e EXCEPT !.st.index = -1, !.st.active = ""], "block_stop", e.st.index, <<>>)

ensureBlockStart(e, type) ==
    IF e.st.index >= 0 /\ e.st.active = type THEN e
    ELSE LET c == closeActiveBlock(e)
         IN  Write([c EXCEPT !.st.index = c.st.next, !.st.active = type, !.st.next = @ + 1],
                   "block_start", c.st.next, type)

emitToolCalls(e, calls) ==
    FoldLeft(LAMBDA c, call : Write(Write([c EXCEPT !.st.next = @ + 1], "tool_start", c.st.next, call),
                                    "block_stop", c.st.next, <<>>),
             closeActiveBlock(e), calls)

StopReason(resp) == IF resp.set /\ resp.calls # <<>> THEN "tools" ELSE "stop"

AnthropicEncode(st, ev) ==
    LET e == [st |-> st, out |-> <<>>]
        s == ensureMessageStart(e)
        d == IF ev.text = <<>> THEN s
             ELSE LET b == ensureBlockStart(s, "text") IN Write(b, "text", b.st.index, ev.text)
    IN  CASE ev.type = "started"   -> Write([e EXCEPT !.st.started = TRUE], "message_start", 0, <<>>)
          [] ev.type = "delta"     -> IF ev.calls = <<>> THEN d ELSE emitToolCalls(d, ev.calls)
          [] ev.type = "tool"      -> emitToolCalls(e, ev.calls)
          [] ev.type = "completed" -> Write(Write(closeActiveBlock(s), "message_delta", 0, StopReason(ev.resp)),
                                            "message_stop", 0, <<>>)
          [] OTHER                 -> e

-----------------------------------------------------------------------------
(* ChatStreamEncoder.                                                       *)

\* A chunk: its text, its calls with their place in the chunk for an index, a finish reason.
Chunk(e, ev, finish) ==
    LET first == ~e.st.role
    IN  [e EXCEPT !.st.role = TRUE,
                  !.out = Append(@, [kind |-> "chunk", role |-> first, text |-> ev.text,
                                     calls |-> ev.calls, finish |-> finish])]

ChatEncode(st, ev) ==
    LET e == [st |-> st, out |-> <<>>]
    IN  CASE st.finished -> e
          [] ev.type = "delta" /\ (ev.text # <<>> \/ ev.calls # <<>> \/ ev.finish # "") ->
                Chunk([e EXCEPT !.st.finished = ev.finish # ""], ev, ev.finish)
          [] ev.type = "tool" /\ ev.calls # <<>> -> Chunk(e, ev, "")
          [] ev.type = "completed" ->
                [e EXCEPT !.st.finished = TRUE,
                          !.out = <<[kind |-> "chunk", role |-> FALSE, text |-> <<>>, calls |-> <<>>,
                                     finish |-> StopReason(ev.resp)]>>]
          [] OTHER -> e

-----------------------------------------------------------------------------
(* The handler of the responses surface.                                    *)

\* writeCodexDoneEvents
DoneEvents(e) == Write(e, "item_done", 0, e.st.text)

normalizeResponsesStreamEvent(ev) ==
    CASE ev.type = "delta"     -> (IF ev.text = <<>> THEN <<>> ELSE <<Out("text", 0, ev.text)>>)
                                      \o [i \in DOMAIN ev.calls |-> Out("tool_done", 0, ev.calls[i])]
      [] ev.type = "started"   -> <<Out("created", 0, <<>>)>>
      [] ev.type = "completed" -> <<Out("completed", 0, StopReason(ev.resp))>>
      [] ev.type = "tool"      -> <<Out("tool_done", 0, ev.calls[1])>>
      [] ev.type = "item"      -> <<Out("message_done", 0, ev.text)>>
      [] OTHER                 -> <<>>

WriteNormalized(e, n) ==
    LET added == IF n.kind = "text" /\ ~e.st.added THEN Write([e EXCEPT !.st.added = TRUE], "item_added", 0, <<>>) ELSE e
        acc == IF n.kind = "text" THEN [added EXCEPT !.st.text = @ \o n.value] ELSE added
        done == IF n.kind = "completed" /\ acc.st.added THEN [DoneEvents(acc) EXCEPT !.st.added = FALSE] ELSE acc
    IN  Write(done, n.kind, n.index, n.value)

ResponsesEncode(st, ev) ==
    FoldLeft(WriteNormalized, [st |-> st, out |-> <<>>], normalizeResponsesStreamEvent(ev))

\* Events passed to the handler one after the other.
Deliver(events) ==
    LET step(e, ev) == LET r == CASE surface = "messages" -> AnthropicEncode(e.st, ev)
                                  [] surface = "chat"     -> ChatEncode(e.st, ev)
                                  [] OTHER                -> ResponsesEncode(e.st, ev)
                       IN  [st |-> r.st, out |-> e.out \o r.out]
        all == FoldLeft(step, [st |-> encoder, out |-> <<>>], events)
    IN  encoder' = all.st /\ sent' = sent \o all.out

-----------------------------------------------------------------------------
(* runStreamWithFallback: what it does with the events of the provider.     *)

EncInit ==
    /\ upstream \in Upstreams /\ surface \in EncSurfaces
    /\ upEvents = 0 /\ upText = <<>> /\ upCalls = <<>> /\ upEnd = "new"
    /\ parser = [tool |-> 0, text |-> <<>>, calls |-> <<>>, item |-> <<>>, completed |-> FALSE]
    /\ gathered = [text |-> <<>>, calls |-> <<>>, items |-> <<>>, any |-> FALSE, final |-> NoResponse]
    /\ encoder = NewEncoder /\ sent = <<>>
    /\ prefill = [text |-> <<>>, calls |-> <<>>] /\ checked = [replaced |-> FALSE, blocked |-> FALSE]
    /\ storedAnswer = NoResponse

\* appendStreamOutput: a call whose id is there already is not added again.
appendStreamOutput(calls, id) == IF id # 0 /\ \E i \in DOMAIN calls : calls[i] = id THEN calls ELSE Append(calls, id)

isRenderableStreamEvent(ev) == ev.text # <<>> \/ ev.calls # <<>>

Gather(g, ev) ==
    IF ev.type = "item" THEN [g EXCEPT !.items = @ \o ev.text, !.any = TRUE]
    ELSE [g EXCEPT !.text = @ \o ev.text, !.any = TRUE, !.calls = FoldLeft(appendStreamOutput, @, ev.calls)]

\* An event of the provider: thinking is passed over, as are chunks of a reason or of usage only.
PassesOn(ev) == ev.type \in {"tool", "item"} \/ (ev.type = "delta" /\ isRenderableStreamEvent(ev))
Take(ev) ==
    /\ gathered' = IF PassesOn(ev) THEN Gather(gathered, ev)
                   ELSE IF ev.type = "completed" THEN [gathered EXCEPT !.final = ev.resp] ELSE gathered
    /\ Deliver(IF PassesOn(ev) THEN <<ev>> ELSE <<>>)

\* The stream begins with an event of its own.
StreamStarts ==
    /\ upEnd = "new" /\ upEnd' = "" /\ Deliver(<<[NoEvent EXCEPT !.type = "started"]>>)
    /\ UNCHANGED <<upstream, surface, upEvents, upText, upCalls, parser, gathered, endVars>>

Sending == upEnd = "" /\ upEvents < MaxUpEvents /\ upEvents' = upEvents + 1
NewCall == Len(upCalls) + 1
NewPiece == Len(upText) + 1
Const == UNCHANGED <<upstream, surface, endVars>>

\* A piece of text or of a refusal, from each upstream; a chunk of Chat Completions may carry the reason too:
\* that of its calls, or another one ("length", "content_filter").
UpstreamText(finish) ==
    /\ Sending /\ Const /\ UNCHANGED upCalls /\ (finish # "" => upstream = "chat") /\ parser.tool = 0
    /\ finish \in {"", "length", IF upCalls = <<>> THEN "stop" ELSE "tools"}
    /\ upText' = Append(upText, NewPiece)
    /\ parser' = [parser EXCEPT !.text = Append(@, NewPiece), !.item = Append(@, NewPiece)]
    /\ upEnd' = IF finish = "" THEN "" ELSE "finished"
    /\ Take([NoEvent EXCEPT !.type = "delta", !.text = <<NewPiece>>, !.finish = finish])

\* handleAnthropicStreamEvent.  The blocks of message_start, a text or a call, make no event.
AnthropicMessageStart(block) ==
    /\ Sending /\ upstream = "anthropic" /\ upEvents = 0
    /\ prefill' = IF block = "text" THEN [prefill EXCEPT !.text = <<NewPiece>>] ELSE [prefill EXCEPT !.calls = <<NewCall>>]
    /\ upText' = prefill'.text /\ upCalls' = prefill'.calls
    /\ parser' = [parser EXCEPT !.text = prefill'.text, !.calls = prefill'.calls]
    /\ UNCHANGED <<upstream, surface, upEnd, gathered, encoder, sent, checked, storedAnswer>>

AnthropicThinking ==
    /\ Sending /\ Const /\ upstream = "anthropic" /\ parser.tool = 0
    /\ Take([NoEvent EXCEPT !.type = "thinking"])
    /\ UNCHANGED <<upText, upCalls, upEnd, parser>>

AnthropicToolStart ==
    /\ Sending /\ Const /\ upstream = "anthropic" /\ parser.tool = 0 /\ NewCall <= MaxCallsStreamed
    /\ parser' = [parser EXCEPT !.tool = NewCall]
    /\ UNCHANGED <<upText, upCalls, upEnd, gathered, encoder, sent>>

AnthropicBlockStop ==
    /\ Sending /\ Const /\ upstream = "anthropic" /\ parser.tool # 0
    /\ parser' = [parser EXCEPT !.tool = 0, !.calls = Append(@, parser.tool)]
    /\ upCalls' = Append(upCalls, parser.tool)
    /\ Take([NoEvent EXCEPT !.type = "tool", !.calls = <<parser.tool>>])
    /\ UNCHANGED <<upText, upEnd>>

AnthropicMessageStop ==
    /\ Sending /\ Const /\ upstream = "anthropic" /\ parser.tool = 0 /\ ~parser.completed
    /\ parser' = [parser EXCEPT !.completed = TRUE]
    /\ Take([NoEvent EXCEPT !.type = "completed", !.resp = [set |-> TRUE, text |-> parser.text, calls |-> parser.calls]])
    /\ upEnd' = "finished"
    /\ UNCHANGED <<upText, upCalls>>

\* parseSDKChatCompletionChunk: the first piece of a call has its id, the others have none.
ChatToolChunk(first) ==
    /\ Sending /\ Const /\ upstream = "chat"
    /\ IF first THEN NewCall <= MaxCallsStreamed /\ upCalls' = Append(upCalls, NewCall)
                ELSE upCalls # <<>> /\ UNCHANGED upCalls
    /\ Take([NoEvent EXCEPT !.type = "delta", !.calls = <<IF first THEN NewCall ELSE 0>>])
    /\ UNCHANGED <<upText, upEnd, parser>>

ChatFinishChunk ==
    /\ Sending /\ Const /\ upstream = "chat"
    /\ Take([NoEvent EXCEPT !.type = "delta", !.finish = IF upCalls = <<>> THEN "stop" ELSE "tools"])
    /\ upEnd' = "finished"
    /\ UNCHANGED <<upText, upCalls, parser>>

\* parseSDKResponseStreamEvent: items that are done, a call or a message with all of its text, and
\* the completed answer.
ResponsesCallDone ==
    /\ Sending /\ Const /\ upstream = "responses" /\ parser.item = <<>> /\ NewCall <= MaxCallsStreamed
    /\ upCalls' = Append(upCalls, NewCall)
    /\ parser' = [parser EXCEPT !.calls = Append(@, NewCall)]
    /\ Take([NoEvent EXCEPT !.type = "tool", !.calls = <<NewCall>>])
    /\ UNCHANGED <<upText, upEnd>>

ResponsesMessageDone ==
    /\ Sending /\ Const /\ upstream = "responses" /\ parser.item # <<>>
    /\ parser' = [parser EXCEPT !.item = <<>>]
    /\ Take([NoEvent EXCEPT !.type = "item", !.text = parser.item])
    /\ UNCHANGED <<upText, upCalls, upEnd>>

ResponsesCompleted ==
    /\ Sending /\ Const /\ upstream = "responses" /\ parser.item = <<>>
    /\ parser' = [parser EXCEPT !.completed = TRUE]
    /\ Take([NoEvent EXCEPT !.type = "completed", !.resp = [set |-> TRUE, text |-> parser.text, calls |-> parser.calls]])
    /\ upEnd' = "finished"
    /\ UNCHANGED <<upText, upCalls>>

\* The upstream closes without a last event.
UpstreamCloses ==
    /\ upEnd = "" /\ Const /\ upEnd' = "finished"
    /\ UNCHANGED <<upEvents, upText, upCalls, parser, gathered, encoder, sent>>

\* At the end a provider sends the completed event that did not come: from its state, without
\* outputs, or without a response at all.
ProviderCompletes ==
    CASE parser.completed        -> gathered.final
      [] upstream = "anthropic"  -> [set |-> TRUE, text |-> parser.text, calls |-> parser.calls]
      [] upstream = "chat"       -> [set |-> TRUE, text |-> <<>>, calls |-> <<>>]
      [] OTHER                   -> NoResponse

hasRenderableStreamPayload(resp) == resp.set /\ (resp.text # <<>> \/ resp.calls # <<>>)
buildAccumulatedStreamResponse(g) == [set |-> TRUE, text |-> g.text \o g.items, calls |-> g.calls]

\* recoverStreamResponse: with nothing passed on and nothing in the response the upstream is asked
\* again, not as a stream, which may fail (an empty answer).
recoverStreamResponse_Own(g, final, again) == final
recoverStreamResponse(g, final, again) ==
    LET r == IF ~g.any /\ ~hasRenderableStreamPayload(final) /\ again.set THEN again ELSE final
    IN  IF (~hasRenderableStreamPayload(r) /\ (g.text \o g.items \o g.calls # <<>>)) \/ ~r.set
           THEN buildAccumulatedStreamResponse(g) ELSE r

\* emitStreamPayloadFromResponse, for an answer of which nothing was passed on: a refusal is not emitted.
Refusal == 101
Shown(text) == SelectSeq(text, LAMBDA piece : piece # Refusal)
Payload(resp) ==
    (IF Shown(resp.text) = <<>> THEN <<>> ELSE <<[NoEvent EXCEPT !.type = "delta", !.text = Shown(resp.text)]>>)
        \o [i \in DOMAIN resp.calls |-> [NoEvent EXCEPT !.type = "tool", !.calls = <<resp.calls[i]>>]]

\* The answer of a stream that has ended; asked again the upstream gives text, or refuses, or fails.
StreamAnswer(again) == recoverStreamResponse(gathered, ProviderCompletes, again)
AskedAgain == {NoResponse, [set |-> TRUE, text |-> <<100>>, calls |-> <<>>]}
                 \cup (IF upstream = "responses" THEN {[set |-> TRUE, text |-> <<Refusal>>, calls |-> <<>>]} ELSE {})

\* validateVisibleOutputBudget: an answer without anything to see is refused, as the tokens asked for decide.
OutputBudgetTooLow(again) ==
    /\ upEnd = "finished" /\ ~gathered.any /\ ~hasRenderableStreamPayload(StreamAnswer(again))
    /\ upEnd' = "failed" /\ gathered' = [gathered EXCEPT !.final = StreamAnswer(again)]
    /\ UNCHANGED <<upstream, surface, upEvents, upText, upCalls, parser, encoder, sent, endVars>>

\* runStreamPostChecks: a guardrail and a plugin may put another answer in its place, and may block it.
Replacements == {[set |-> TRUE, text |-> <<200>>, calls |-> <<>>], [set |-> TRUE, text |-> <<>>, calls |-> <<200>>]}
runStreamPostChecks(resp, new, blocked) ==
    /\ upEnd = "finished"
    /\ gathered' = [gathered EXCEPT !.final = IF new.set THEN new ELSE resp]
    /\ checked' = [replaced |-> new.set, blocked |-> blocked]
    /\ UNCHANGED <<upstream, surface, upEvents, upText, upCalls, parser, prefill>>

\* What is blocked is not stored: the client gets an error or, when it has a part already, the end.
Blocked(again, new) ==
    /\ runStreamPostChecks(StreamAnswer(again), new, TRUE)
    /\ upEnd' = (IF gathered.any THEN "done" ELSE "failed")
    /\ Deliver(IF gathered.any THEN <<[NoEvent EXCEPT !.type = "completed", !.resp = gathered'.final]>> ELSE <<>>)
    /\ UNCHANGED storedAnswer

\* finalizeStream
EmitsOutputs(g) == ~g.any
FinalizeStream(again, new) ==
    /\ runStreamPostChecks(StreamAnswer(again), new, FALSE)
    /\ Deliver((IF EmitsOutputs(gathered) THEN Payload(gathered'.final) ELSE <<>>)
                     \o <<[NoEvent EXCEPT !.type = "completed", !.resp = gathered'.final]>>)
    /\ upEnd' = "done" /\ storedAnswer' = gathered'.final

EncNext ==
    \/ \E finish \in {"", "stop", "tools", "length"} : UpstreamText(finish)
    \/ \E block \in {"text", "call"} : AnthropicMessageStart(block)
    \/ AnthropicThinking \/ AnthropicToolStart \/ AnthropicBlockStop \/ AnthropicMessageStop
    \/ \E b \in BOOLEAN : ChatToolChunk(b)
    \/ StreamStarts \/ ChatFinishChunk \/ ResponsesCallDone \/ ResponsesMessageDone \/ ResponsesCompleted \/ UpstreamCloses
    \/ \E again \in AskedAgain :
          \/ OutputBudgetTooLow(again)
          \/ \E new \in Replacements \cup {NoResponse} : Blocked(again, new) \/ FinalizeStream(again, new)

EncSpec == EncInit /\ [][EncNext]_encVars

-----------------------------------------------------------------------------
(* Properties.                                                              *)

Kinds(S) == SelectSeq(sent, LAMBDA o : o.kind \in S)
SentAt(kind) == {i \in DOMAIN sent : sent[i].kind = kind}
Done == upEnd = "done"

SentText == IF surface = "chat"
               THEN FlattenSeq([i \in DOMAIN sent |-> sent[i].text])
               ELSE FlattenSeq([i \in DOMAIN Kinds({"text"}) |-> Kinds({"text"})[i].value])
SentCall == IF surface = "chat" THEN \E i \in DOMAIN sent : sent[i].calls # <<>>
            ELSE SentAt("tool_start") # {} \/ SentAt("tool_done") # {}

EncTypeOK ==
    /\ encoder.index \in -1..(encoder.next - 1) /\ (encoder.index = -1 <=> encoder.active = "")
    /\ upEnd \in {"new", "", "finished", "done", "failed"} /\ parser.tool \in 0..MaxCallsStreamed

\* A Messages client gets one message_start, first, and one message_stop, last; its blocks have the
\* indices 0, 1, 2, ..., each is started once and stopped before the next one starts, and text comes
\* inside a text block, whatever mixture of text and calls arrives.
FramesNest ==
    surface = "messages" =>
        LET starts == Kinds({"block_start", "tool_start"})
            blocks == Kinds({"block_start", "tool_start", "block_stop"})
        IN  /\ sent # <<>> => sent[1].kind = "message_start" /\ SentAt("message_start") = {1}
            /\ \A i \in SentAt("message_stop") : i = Len(sent)
            /\ Done => SentAt("message_stop") # {} /\ Len(blocks) = 2 * Len(starts)
            /\ \A i \in DOMAIN starts : starts[i].index = i - 1
            /\ \A i \in DOMAIN blocks : /\ blocks[i].kind = "block_stop" <=> i % 2 = 0
                                        /\ blocks[i].index = (i - 1) \div 2
            /\ \A i \in SentAt("text") : \E j \in 1..(i - 1) :
                  /\ sent[j].kind = "block_start" /\ sent[j].index = sent[i].index
                  /\ \A k \in j..i : sent[k].kind # "block_stop"

\* A Chat client gets the role in its first chunk only, and one reason to finish, in its last chunk.
FinishOnce ==
    surface = "chat" =>
        /\ \A i \in DOMAIN sent : (sent[i].role => i = 1) /\ (sent[i].finish # "" => i = Len(sent))
        /\ Done => sent # <<>> /\ sent[Len(sent)].finish # ""

\* A Responses client gets created first and completed last, its message item is added before its
\* text and done, with all of the text, before completed.
ItemsNest ==
    surface = "responses" =>
        /\ sent # <<>> => SentAt("created") = {1}
        /\ SentAt("text") # {} => \E j \in SentAt("item_added") : \A i \in SentAt("text") : j < i
        /\ \A i \in SentAt("completed") : i = Len(sent)
        /\ Done => /\ SentAt("completed") # {}
                   /\ \A i \in SentAt("text") : \E j \in SentAt("item_done") : i < j /\ sent[j].value = SentText

\* The client has, in order, every piece of text the upstream sent after message_start, each once, and no
\* other.  Of an answer nothing of which was passed on (asked for again, or all of it in message_start) it
\* gets what the checks left, and nothing at all, nor an end, of one they blocked or found empty.
TextWhole ==
    /\ Done /\ ~gathered.any => SentText = Shown(gathered.final.text)
    /\ ~Done \/ gathered.any => SentText = SelectSeq(upText, LAMBDA piece : piece \notin Range(prefill.text))
    /\ Done /\ ~gathered.any /\ ~checked.replaced => upText \in {<<>>, SentText}
    /\ upEnd = "failed" => \A i \in DOMAIN sent : sent[i].kind \in {"message_start", "created"}

\* The reason to finish says calls exactly when the client got one.  The upstream's own reason is passed
\* on, a call of message_start is never sent, and a replaced answer gives the reason too late.
ReasonAgrees ==
    Done => LET reason == IF surface = "chat" THEN sent[Len(sent)].finish
                          ELSE Kinds({"message_delta", "completed"})[1].value
            IN  \/ reason = "tools" <=> SentCall
                \/ gathered.any /\ (reason = "length" \/ prefill.calls # <<>> \/ checked.replaced)

\* What is stored and cached as the answer has every call of the upstream and the text the client got, with
\* that of message_start, unless it was replaced after it was sent; what was blocked is not stored.  A
\* Responses stream cut after its message item, before its end, is stored with that text twice.
StoredAgrees ==
    /\ storedAnswer.set <=> Done /\ ~checked.blocked
    /\ storedAnswer.set /\ ~gathered.any => SentText = Shown(storedAnswer.text)
    /\ storedAnswer.set /\ ~checked.replaced =>
          /\ gathered.any => storedAnswer.text = upText \o (IF parser.completed THEN <<>> ELSE gathered.items)
          /\ \A c \in DOMAIN upCalls : \E i \in DOMAIN storedAnswer.calls : storedAnswer.calls[i] = upCalls[c]

\* A converted stream is well formed for its client, has all of the upstream's text and the right reason to
\* finish, and agrees with what is stored (the encoders of the three surfaces, Gather, runStreamPostChecks).
EncodingSound ==
    EncTypeOK /\ FramesNest /\ FinishOnce /\ ItemsNest /\ TextWhole /\ ReasonAgrees /\ StoredAgrees
=============================================================================

------------------------ MODULE StreamFallbackProofs ------------------------
(***************************************************************************)
(* Proofs about StreamFallback for any finite set of streams, any list of  *)
(* candidate providers and any number of drain slots, with and without     *)
(* retries, disconnecting clients and writes that fail.                    *)
(***************************************************************************)
EXTENDS MCStreamFallback, FiniteSetTheorems, TLAPS

-----------------------------------------------------------------------------
(* The strengthening, a predicate of one stream at a time.                  *)

\* Where the code of the goroutine has not sent its last events.
Reading == {"new", "next", "plugins", "read", "delay", "drain"}

\* The candidate is in the list while it is used, and firstResponseSent, the code after the
\* last events and the retry delay go with the place in the loop.
ControlOK(s) ==
    /\ pc[s] \notin {"next", "done"} => cand[s] <= Len(Candidates)
    /\ pc[s] = "new" => ~started[s]
    /\ pc[s] \in {"plugins", "read", "delay", "drain", "settle"} => started[s]
    /\ pc[s] \in Reading => after[s] \in {"done", "plugins", "read"}
    /\ pc[s] \in {"replayed", "undecodable", "settle"} => after[s] = pc[s]
    /\ pc[s] = "delay" => Retry

Replay == {<<"started", "payload", "completed">>, <<"payload", "completed">>, <<"completed">>}
Partial == {<<"started">>, <<"started", "payload">>, <<"payload">>}
Closing == {<<"filtered">>, <<"payload", "completed">>, <<"completed">>}

\* What the goroutine can be sending, by where it goes afterwards.
EmitOK(s) ==
    pc[s] = "emit" =>
        \/ after[s] = "plugins" /\ started[s] /\ outbox[s] = <<"started">>
        \/ after[s] = "undecodable" /\ outbox[s] \in Partial
        \/ after[s] = "read" /\ started[s] /\ payload[s] /\ outbox[s] = <<"payload">>
        \/ after[s] = "settle" /\ started[s] /\ outbox[s] \in Closing
        \/ after[s] = "replayed" /\ outbox[s] \in Replay

Source(s) == IF after[s] \in {"replayed", "undecodable"} THEN Cached ELSE Provider(s)

\* The client has payload from the present source only, and none while another may follow.
SourceOK(s) ==
    /\ from[s] # {} => from[s] = {Source(s)}
    /\ \/ pc[s] \in {"new", "next", "plugins", "delay"}
       \/ pc[s] = "read" /\ ~payload[s]
       \/ pc[s] = "emit" /\ after[s] = "plugins"
       => from[s] = {}

\* A write is done or was refused.
Stored(s) ==
    /\ row[s] = "completed" \/ (rowLost[s] /\ row[s] # "cancelled")
    /\ (charges[s] = <<"success">> /\ ~usageLost[s]) \/ (charges[s] = <<>> /\ usageLost[s])
Open(s) == row[s] \notin {"completed", "cancelled"} /\ charges[s] = <<>> /\ ~usageLost[s]

\* The row and the charge of a stream tell the same story.
Agreed(s) ==
    /\ row[s] = "cancelled" => charges[s] = <<"cancelled">> \/ usageLost[s]
    /\ charges[s] = <<"cancelled">> => row[s] = "cancelled" \/ rowLost[s]
    /\ charges[s] = <<"success">> => row[s] = "completed" \/ rowLost[s]
    /\ charges[s] = <<"rejected">> => row[s] = "error" \/ rowLost[s]
    /\ row[s] = "completed" => charges[s] # <<>> \/ after[s] = "replayed" \/ usageLost[s]
    /\ usageLost[s] => charges[s] = <<>>

\* Nothing is charged before the end, a completion that is sent has been stored, and in the
\* end the row and the charge agree.
BooksOK(s) ==
    /\ pc[s] # "done" => Open(s) \/ (after[s] = "settle" /\ Stored(s))
    /\ pc[s] = "emit" /\ after[s] = "settle" /\ outbox[s] # <<"filtered">> => Stored(s)
    /\ final[s] = "completed" /\ after[s] = "settle" => Stored(s)
    /\ \/ pc[s] \in Reading
       \/ pc[s] = "emit" /\ after[s] \in {"plugins", "read", "undecodable"}
       => final[s] # "completed"
    /\ pc[s] = "done" => Agreed(s)

\* The load of a provider never exceeds its attempts, and equals them without retries:
\* a retry goes on without its place, which handleStreamError has given back.
LoadOK ==
    \A p \in Providers :
        /\ load[p] <= Cardinality(Attempts(p))
        /\ ~Retry => load[p] = Cardinality(Attempts(p))

Good(s) == ControlOK(s) /\ EmitOK(s) /\ SourceOK(s) /\ BooksOK(s)

IInv ==
    /\ TypeOK
    /\ \A s \in Streams : Good(s)
    /\ LoadOK

-----------------------------------------------------------------------------
(* Steps of one stream.                                                     *)

Places  == {"new", "refused", "next", "plugins", "read", "delay", "drain", "emit", "settle",
            "replayed", "undecodable", "done"}
Ends    == {"done", "plugins", "read", "settle", "replayed", "undecodable"}
Kinds   == {"started", "payload"} \cup Finals
Rows    == {"none", "in_progress", "error", "completed", "cancelled"}
Usage   == {"success", "cancelled", "rejected"}

\* The types, but for the bound of the loads.
Typed ==
    /\ pc \in [Streams -> Places]
    /\ cand \in [Streams -> 1..(Len(Candidates) + 1)]
    /\ retrying \in [Streams -> BOOLEAN]
    /\ outbox \in [Streams -> Seq(Kinds)]
    /\ after \in [Streams -> Ends]
    /\ started \in [Streams -> BOOLEAN]
    /\ payload \in [Streams -> BOOLEAN]
    /\ up \in [Streams -> {"none", "open", "closed", "failing", "failed", "read"}]
    /\ events \in [Streams -> 0..MaxEvents]
    /\ errCh \in [Streams -> BOOLEAN]
    /\ handler \in [Streams -> {"idle", "reading", "errored", "ended", "left"}]
    /\ ctxDone \in [Streams -> BOOLEAN]
    /\ row \in [Streams -> Rows]
    /\ charges \in [Streams -> {<<>>} \cup {<<k>> : k \in Usage}]
    /\ from \in [Streams -> SUBSET (Providers \cup {Cached})]
    /\ final \in [Streams -> {"none"} \cup Finals]
    /\ rowLost \in [Streams -> BOOLEAN] /\ usageLost \in [Streams -> BOOLEAN]

\* Nothing of what Good speaks about changes for t.
Same(t) ==
    /\ pc'[t] = pc[t] /\ cand'[t] = cand[t] /\ outbox'[t] = outbox[t] /\ after'[t] = after[t]
    /\ started'[t] = started[t] /\ payload'[t] = payload[t]
    /\ row'[t] = row[t] /\ charges'[t] = charges[t] /\ from'[t] = from[t] /\ final'[t] = final[t]
    /\ rowLost'[t] = rowLost[t] /\ usageLost'[t] = usageLost[t]

\* A stream that a step does not touch stays as it was.
LEMMA Untouched ==
  ASSUME NEW t \in Streams, Good(t), Same(t)
  PROVE  Good(t)'
BY DEF Good, ControlOK, EmitOK, SourceOK, BooksOK, Same, Source, Provider, Stored, Open, Agreed

\* The step is one of s.
Only(s) == \A t \in Streams : t # s => Same(t)

-----------------------------------------------------------------------------
(* What the helpers of the model do to one stream.                          *)

\* One entry of a function is replaced.
LEMMA Update ==
  ASSUME NEW S, NEW f \in [Streams -> S], NEW s \in Streams, NEW v \in S
  PROVE  /\ [f EXCEPT ![s] = v] \in [Streams -> S]
         /\ [f EXCEPT ![s] = v][s] = v
         /\ \A t \in Streams : t # s => [f EXCEPT ![s] = v][t] = f[t]
OBVIOUS

\* What is sent on the channel is a sequence of events, and its parts are told apart.
LEMMA Boxes ==
  /\ <<"started">> \in Seq(Kinds) /\ <<"payload">> \in Seq(Kinds)
  /\ Replay \subseteq Seq(Kinds) /\ Closing \subseteq Seq(Kinds) /\ Partial \subseteq Seq(Kinds)
  /\ <<"started">> # <<"filtered">> /\ <<"payload">> # <<"filtered">>
BY DEF Kinds, Finals, Replay, Closing, Partial

\* Usage records are told apart.
LEMMA Records ==
  /\ \A k \in Usage : <<>> # <<k>> /\ Append(<<>>, k) = <<k>>
  /\ \A k, l \in Usage : <<k>> = <<l>> => k = l
OBVIOUS

\* Goto moves one stream.
LEMMA GotoAt ==
  ASSUME Typed, NEW s \in Streams, NEW where \in Places, Goto(s, where)
  PROVE  /\ pc' \in [Streams -> Places] /\ pc'[s] = where
         /\ \A t \in Streams : t # s => pc'[t] = pc[t]
BY Update DEF Typed, Goto

\* Fail ends the goroutine of one stream.
LEMMA FailAt ==
  ASSUME Typed, NEW s \in Streams, Fail(s)
  PROVE  /\ pc' \in [Streams -> Places] /\ pc'[s] = "done"
         /\ \A t \in Streams : t # s => pc'[t] = pc[t]
         /\ errCh' \in [Streams -> BOOLEAN]
<1>1. errCh' = [errCh EXCEPT ![s] = TRUE] /\ errCh \in [Streams -> BOOLEAN]
  BY DEF Typed, Fail
<1>2. errCh' \in [Streams -> BOOLEAN]
  BY <1>1
<1>. QED
  BY <1>2, GotoAt DEF Fail, Places

\* Emit gives one stream a list to send and a place to go to.
LEMMA EmitAt ==
  ASSUME Typed, NEW s \in Streams, NEW kinds \in Seq(Kinds), NEW where \in Ends,
         Emit(s, kinds, where)
  PROVE  /\ pc' \in [Streams -> Places] /\ pc'[s] = "emit"
         /\ outbox' \in [Streams -> Seq(Kinds)] /\ outbox'[s] = kinds
         /\ after' \in [Streams -> Ends] /\ after'[s] = where
         /\ \A t \in Streams : t # s =>
               pc'[t] = pc[t] /\ outbox'[t] = outbox[t] /\ after'[t] = after[t]
<1>1. "emit" \in Places
  BY DEF Places
<1>2. /\ pc' \in [Streams -> Places] /\ pc'[s] = "emit"
      /\ \A t \in Streams : t # s => pc'[t] = pc[t]
  BY <1>1, Update DEF Typed, Emit
<1>3. /\ outbox' \in [Streams -> Seq(Kinds)] /\ outbox'[s] = kinds
      /\ \A t \in Streams : t # s => outbox'[t] = outbox[t]
  BY Update DEF Typed, Emit
<1>4. /\ after' \in [Streams -> Ends] /\ after'[s] = where
      /\ \A t \in Streams : t # s => after'[t] = after[t]
  BY Update DEF Typed, Emit
<1>. QED
  BY <1>2, <1>3, <1>4

\* NewRow makes the row of one stream.
LEMMA NewRowAt ==
  ASSUME Typed, NEW s \in Streams, NewRow(s)
  PROVE  row' \in [Streams -> Rows] /\ rowLost' \in [Streams -> BOOLEAN]
BY Update DEF Typed, NewRow, Rows

\* SetRow writes the row of one stream, or leaves it and says so.
LEMMA SetRowAt ==
  ASSUME Typed, NEW s \in Streams, NEW status \in Rows, SetRow(s, status)
  PROVE  /\ row' \in [Streams -> Rows] /\ rowLost' \in [Streams -> BOOLEAN]
         /\ row'[s] = status \/ (row'[s] = row[s] /\ rowLost'[s])
         /\ \A t \in Streams : t # s => row'[t] = row[t] /\ rowLost'[t] = rowLost[t]
<1>1. ASSUME NEW b \in BOOLEAN, rowLost' = [rowLost EXCEPT ![s] = b]
      PROVE  /\ rowLost' \in [Streams -> BOOLEAN] /\ rowLost'[s] = b
             /\ \A t \in Streams : t # s => rowLost'[t] = rowLost[t]
  BY <1>1 DEF Typed
<1>2. CASE row' = [row EXCEPT ![s] = status] /\ rowLost' = [rowLost EXCEPT ![s] = FALSE]
  BY <1>1, <1>2, Update DEF Typed
<1>3. CASE rowLost' = [rowLost EXCEPT ![s] = TRUE] /\ UNCHANGED row
  BY <1>1, <1>3 DEF Typed
<1>. QED
  BY <1>2, <1>3 DEF SetRow

\* SetRowWithCtx writes the row of one stream unless its request is cancelled.
LEMMA SetRowWithCtxAt ==
  ASSUME Typed, NEW s \in Streams, NEW status \in Rows, SetRowWithCtx(s, status)
  PROVE  /\ row' \in [Streams -> Rows] /\ rowLost' \in [Streams -> BOOLEAN]
         /\ row'[s] = status \/ row'[s] = row[s]
         /\ ~ctxDone[s] => row'[s] = status \/ rowLost'[s]
         /\ \A t \in Streams : t # s => row'[t] = row[t] /\ rowLost'[t] = rowLost[t]
<1>1. CASE ctxDone[s]
  BY <1>1 DEF SetRowWithCtx, Typed, rows
<1>2. CASE ~ctxDone[s]
  BY <1>2, SetRowAt DEF SetRowWithCtx
<1>. QED
  BY <1>1, <1>2

\* Charge writes the first usage record of one stream, or says that it did not.
LEMMA ChargeAt ==
  ASSUME Typed, NEW s \in Streams, charges[s] = <<>>, ~usageLost[s], NEW kind \in Usage,
         Charge(s, kind)
  PROVE  /\ charges' \in [Streams -> {<<>>} \cup {<<k>> : k \in Usage}]
         /\ usageLost' \in [Streams -> BOOLEAN]
         /\ \/ charges'[s] = <<kind>> /\ ~usageLost'[s]
            \/ charges'[s] = <<>> /\ usageLost'[s]
         /\ \A t \in Streams : t # s => charges'[t] = charges[t] /\ usageLost'[t] = usageLost[t]
<1>1. CASE charges' = [charges EXCEPT ![s] = Append(@, kind)] /\ UNCHANGED usageLost
  <2>1. charges' = [charges EXCEPT ![s] = <<kind>>]
    BY <1>1, Records
  <2>2. <<kind>> \in {<<>>} \cup {<<k>> : k \in Usage}
    OBVIOUS
  <2>. QED
    BY <1>1, <2>1, <2>2, Update DEF Typed
<1>2. CASE usageLost' = [usageLost EXCEPT ![s] = TRUE] /\ UNCHANGED charges
  <2>1. /\ usageLost' \in [Streams -> BOOLEAN] /\ usageLost'[s]
        /\ \A t \in Streams : t # s => usageLost'[t] = usageLost[t]
    BY <1>2 DEF Typed
  <2>. QED
    BY <1>2, <2>1 DEF Typed
<1>. QED
  BY <1>1, <1>2 DEF Charge

\* Cancel ends one stream with a cancelled row and a cancelled charge, as far as they are taken.
LEMMA CancelAt ==
  ASSUME Typed, NEW s \in Streams, Open(s), Cancel(s)
  PROVE  /\ pc' \in [Streams -> Places] /\ pc'[s] = "done"
         /\ errCh' \in [Streams -> BOOLEAN]
         /\ row' \in [Streams -> Rows] /\ rowLost' \in [Streams -> BOOLEAN]
         /\ charges' \in [Streams -> {<<>>} \cup {<<k>> : k \in Usage}]
        /\ usageLost' \in [Streams -> BOOLEAN]
         /\ usageLost' \in [Streams -> BOOLEAN]
         /\ Agreed(s)'
         /\ \A t \in Streams : t # s => /\ pc'[t] = pc[t] /\ row'[t] = row[t] /\ charges'[t] = charges[t]
                                        /\ rowLost'[t] = rowLost[t] /\ usageLost'[t] = usageLost[t]
<1>1. "cancelled" \in Rows /\ "cancelled" \in Usage
  BY DEF Rows, Usage
<1>2. SetRow(s, "cancelled") /\ Charge(s, "cancelled") /\ Fail(s)
  BY DEF Cancel, StoreCancelled
<1>3. /\ row'[s] = "cancelled" \/ (row'[s] = row[s] /\ rowLost'[s])
      /\ \/ charges'[s] = <<"cancelled">> /\ ~usageLost'[s]
         \/ charges'[s] = <<>> /\ usageLost'[s]
  BY <1>1, <1>2, SetRowAt, ChargeAt DEF Open
<1>4. Agreed(s)'
  BY <1>3, Records DEF Agreed, Open, Usage
<1>. QED
  BY <1>1, <1>2, <1>4, FailAt, SetRowAt, ChargeAt DEF Open

\* NextCandidate moves one stream to the next entry of the list.
LEMMA NextAt ==
  ASSUME Typed, NEW s \in Streams, cand[s] <= Len(Candidates), NextCandidate(s)
  PROVE  /\ pc' \in [Streams -> Places] /\ pc'[s] = "next"
         /\ cand' \in [Streams -> 1..(Len(Candidates) + 1)]
         /\ \A t \in Streams : t # s => pc'[t] = pc[t] /\ cand'[t] = cand[t]
<1>1. cand[s] \in 1..(Len(Candidates) + 1) /\ Len(Candidates) \in Nat
  BY StreamAssumption DEF Typed
<1>2. cand[s] + 1 \in 1..(Len(Candidates) + 1)
  BY <1>1
<1>3. /\ cand' \in [Streams -> 1..(Len(Candidates) + 1)]
      /\ \A t \in Streams : t # s => cand'[t] = cand[t]
  BY <1>2, Update DEF Typed, NextCandidate
<1>. QED
  BY <1>3, GotoAt DEF NextCandidate, Places

-----------------------------------------------------------------------------
(* The steps of a stream.                                                   *)

\* The goroutine returns, and what it leaves agrees.
LEMMA Finished ==
  ASSUME NEW s \in Streams, Good(s), pc'[s] = "done", Agreed(s)',
         after'[s] = after[s], cand'[s] = cand[s], from'[s] = from[s], final'[s] = final[s],
         final[s] = "completed" /\ after[s] = "settle" => Stored(s)'
  PROVE  Good(s)'
BY DEF Good, ControlOK, EmitOK, SourceOK, BooksOK, Source, Provider, Reading

\* A stream without a charge agrees unless its row says otherwise.
LEMMA Uncharged ==
  ASSUME NEW s \in Streams, charges'[s] = <<>>, row'[s] # "cancelled", row'[s] = "completed" => after'[s] = "replayed"
  PROVE  Agreed(s)'
BY Records DEF Agreed, Usage

\* The steps of CreateStream.
LEMMA BeginStep ==
  ASSUME Typed, NEW s \in Streams, Good(s),
         RefuseStream(s) \/ StartStream(s) \/ StartCachedStream(s)
  PROVE  Typed' /\ Only(s) /\ Good(s)'
<1> USE DEF flow, source, client, stored, history, rows, usage
<1>1. CASE RefuseStream(s)
  <2>1. /\ pc' \in [Streams -> Places]
    BY <1>1, GotoAt DEF RefuseStream, Typed, Places
  <2>2. Typed'
    BY <1>1, <2>1 DEF RefuseStream, Typed
  <2>3. Only(s)
    BY <1>1 DEF RefuseStream, Goto, Typed, Only, Same
  <2>4. Good(s)'
    BY <1>1, StreamAssumption DEF RefuseStream, Goto, Typed, Good, ControlOK, EmitOK, SourceOK,
       BooksOK, Source, Provider, Stored, Open, Reading, Closing, Replay
  <2>. QED
    BY <2>2, <2>3, <2>4
<1>2. CASE StartStream(s)
  <2>1. /\ pc' \in [Streams -> Places]
        /\ row' \in [Streams -> Rows] /\ rowLost' \in [Streams -> BOOLEAN]
    BY <1>2, GotoAt, NewRowAt DEF StartStream, Typed, Places
  <2>2. Typed'
    BY <1>2, <2>1 DEF StartStream, Typed
  <2>3. Only(s)
    BY <1>2 DEF StartStream, Goto, NewRow, Typed, Only, Same
  <2>4. Good(s)'
    BY <1>2, StreamAssumption DEF StartStream, Goto, NewRow, Typed, Good, ControlOK, EmitOK,
       SourceOK, BooksOK, Source, Provider, Stored, Open, Reading, Closing, Replay
  <2>. QED
    BY <2>2, <2>3, <2>4
<1>3. CASE StartCachedStream(s)
  <2>1. /\ pc' \in [Streams -> Places]
        /\ outbox' \in [Streams -> Seq(Kinds)]
        /\ after' \in [Streams -> Ends]
        /\ row' \in [Streams -> Rows] /\ rowLost' \in [Streams -> BOOLEAN]
    BY <1>3, EmitAt, NewRowAt, Boxes DEF StartCachedStream, Replays, Typed, Places, Ends, Partial,
       Replay
  <2>2. Typed'
    BY <1>3, <2>1 DEF StartCachedStream, Typed
  <2>3. Only(s)
    BY <1>3 DEF StartCachedStream, Replays, Emit, NewRow, Typed, Only, Same
  <2>4. Good(s)'
    BY <1>3, StreamAssumption DEF StartCachedStream, Replays, Emit, NewRow, Typed, Good,
       ControlOK, EmitOK, SourceOK, BooksOK, Source, Provider, Stored, Open, Reading, Partial, Replay
  <2>. QED
    BY <2>2, <2>3, <2>4
<1>. QED
  BY <1>1, <1>2, <1>3

\* The steps of the provider loop before an upstream stream is open.
LEMMA LoopStep ==
  ASSUME Typed, NEW s \in Streams, Good(s),
         SkipCandidate(s) \/ RateLimited(s) \/ UseCandidate(s) \/ NoProvider(s)
         \/ PluginBlocks(s) \/ PluginAnswers(s) \/ OpenUpstream(s)
  PROVE  Typed' /\ Only(s) /\ Good(s)'
<1> USE DEF flow, source, client, stored, history, rows, usage
<1>1. CASE SkipCandidate(s)
  <2>1. cand[s] <= Len(Candidates) /\ Open(s)
    BY <1>1 DEF SkipCandidate, Good, ControlOK, BooksOK, Open, Stored, Reading
  <2>2. /\ pc' \in [Streams -> Places]
        /\ cand' \in [Streams -> 1..(Len(Candidates) + 1)]
    BY <1>1, <2>1, NextAt DEF SkipCandidate, Typed
  <2>3. Typed'
    BY <1>1, <2>2 DEF SkipCandidate, Typed
  <2>4. Only(s)
    BY <1>1 DEF SkipCandidate, NextCandidate, Goto, Typed, Only, Same
  <2>5. Good(s)'
    BY <1>1, <2>1, StreamAssumption DEF SkipCandidate, NextCandidate, Goto, Typed, Good,
       ControlOK, EmitOK, SourceOK, BooksOK, Source, Provider, Stored, Open, Reading, Closing,
       Replay
  <2>. QED
    BY <2>3, <2>4, <2>5
<1>2. CASE RateLimited(s)
  <2>1. /\ row' \in [Streams -> Rows] /\ rowLost' \in [Streams -> BOOLEAN]
        /\ pc' \in [Streams -> Places]
        /\ errCh' \in [Streams -> BOOLEAN]
    BY <1>2, SetRowWithCtxAt, FailAt DEF RateLimited, Typed, Rows
  <2>2. Typed'
    BY <1>2, <2>1 DEF RateLimited, Typed
  <2>3. Only(s)
    BY <1>2 DEF RateLimited, SetRowWithCtx, SetRow, Fail, Goto, Typed, Only, Same
  <2>4. Good(s)'
    <3>1. pc'[s] = "done" /\ charges'[s] = <<>> /\ row'[s] \notin {"completed", "cancelled"}
      BY <1>2, SetRowWithCtxAt, FailAt DEF RateLimited, Rows, Good, BooksOK, Open, Reading, Stored,
       ControlOK
    <3>. QED
      BY <1>2, <3>1, Finished, Uncharged DEF RateLimited, Good, BooksOK, Reading
  <2>. QED
    BY <2>2, <2>3, <2>4
<1>3. CASE UseCandidate(s)
  <2>1. /\ row' \in [Streams -> Rows] /\ rowLost' \in [Streams -> BOOLEAN]
        /\ pc' \in [Streams -> Places]
        /\ outbox' \in [Streams -> Seq(Kinds)]
        /\ after' \in [Streams -> Ends]
    <3>1. row' \in [Streams -> Rows] /\ rowLost' \in [Streams -> BOOLEAN]
      BY <1>3, SetRowWithCtxAt DEF UseCandidate, Rows
    <3>2. CASE started[s]
      BY <1>3, <3>1, <3>2, GotoAt DEF UseCandidate, Typed, Places
    <3>3. CASE ~started[s]
      BY <1>3, <3>1, <3>3, EmitAt, Boxes DEF UseCandidate, Ends
    <3>. QED
      BY <3>2, <3>3
  <2>2. Typed'
    BY <1>3, <2>1 DEF UseCandidate, Typed
  <2>3. Only(s)
    BY <1>3 DEF UseCandidate, SetRowWithCtx, SetRow, Emit, Goto, Typed, Only, Same
  <2>4. Good(s)'
    BY <1>3, StreamAssumption DEF UseCandidate, SetRowWithCtx, SetRow, Emit, Goto, Typed, Good,
       ControlOK, EmitOK, SourceOK, BooksOK, Source, Provider, Stored, Open, Reading, Closing,
       Replay
  <2>. QED
    BY <2>2, <2>3, <2>4
<1>4. CASE NoProvider(s)
  <2>1. /\ row' \in [Streams -> Rows] /\ rowLost' \in [Streams -> BOOLEAN]
        /\ pc' \in [Streams -> Places]
        /\ errCh' \in [Streams -> BOOLEAN]
    BY <1>4, SetRowWithCtxAt, FailAt DEF NoProvider, Typed, Rows
  <2>2. Typed'
    BY <1>4, <2>1 DEF NoProvider, Typed
  <2>3. Only(s)
    BY <1>4 DEF NoProvider, SetRowWithCtx, SetRow, Fail, Goto, Typed, Only, Same
  <2>4. Good(s)'
    <3>1. pc'[s] = "done" /\ charges'[s] = <<>> /\ row'[s] \notin {"completed", "cancelled"}
      BY <1>4, SetRowWithCtxAt, FailAt DEF NoProvider, Rows, Good, BooksOK, Open, Reading, Stored,
       ControlOK
    <3>. QED
      BY <1>4, <3>1, Finished, Uncharged DEF NoProvider, Good, BooksOK, Reading
  <2>. QED
    BY <2>2, <2>3, <2>4
<1>5. CASE PluginBlocks(s)
  <2>1. cand[s] <= Len(Candidates) /\ Open(s)
    BY <1>5 DEF PluginBlocks, Good, ControlOK, BooksOK, Open, Stored, Reading
  <2>2. /\ pc' \in [Streams -> Places]
        /\ cand' \in [Streams -> 1..(Len(Candidates) + 1)]
    BY <1>5, <2>1, NextAt DEF PluginBlocks, Typed
  <2>3. Typed'
    BY <1>5, <2>2 DEF PluginBlocks, Typed
  <2>4. Only(s)
    BY <1>5 DEF PluginBlocks, NextCandidate, Goto, Typed, Only, Same
  <2>5. Good(s)'
    BY <1>5, <2>1, StreamAssumption DEF PluginBlocks, NextCandidate, Goto, Typed, Good,
       ControlOK, EmitOK, SourceOK, BooksOK, Source, Provider, Stored, Open, Reading, Closing,
       Replay
  <2>. QED
    BY <2>3, <2>4, <2>5
<1>6. CASE PluginAnswers(s)
  <2>1. /\ pc' \in [Streams -> Places]
        /\ outbox' \in [Streams -> Seq(Kinds)]
        /\ after' \in [Streams -> Ends]
    BY <1>6, EmitAt, Boxes DEF PluginAnswers, Replays, Typed, Places, Ends, Partial, Replay
  <2>2. Typed'
    BY <1>6, <2>1 DEF PluginAnswers, Typed
  <2>3. Only(s)
    BY <1>6 DEF PluginAnswers, Replays, Emit, Typed, Only, Same
  <2>4. Good(s)'
    BY <1>6, StreamAssumption DEF PluginAnswers, Replays, Emit, Typed, Good, ControlOK,
       EmitOK, SourceOK, BooksOK, Source, Provider, Stored, Open, Reading, Partial, Replay
  <2>. QED
    BY <2>2, <2>3, <2>4
<1>7. CASE OpenUpstream(s)
  <2>1. /\ pc' \in [Streams -> Places]
    BY <1>7, GotoAt DEF OpenUpstream, Typed, Places
  <2>2. Typed'
    <3>1. 0 \in 0..MaxEvents
      BY StreamAssumption
    <3>2. /\ up' \in [Streams -> {"none", "open", "closed", "failing", "failed", "read"}]
          /\ events' \in [Streams -> 0..MaxEvents]
      BY <1>7, <3>1 DEF OpenUpstream, Typed
    <3>. QED
      BY <1>7, <2>1, <3>2 DEF OpenUpstream, Typed
  <2>3. Only(s)
    BY <1>7 DEF OpenUpstream, Goto, Typed, Only, Same
  <2>4. Good(s)'
    BY <1>7, StreamAssumption DEF OpenUpstream, Goto, Typed, Good, ControlOK, EmitOK, SourceOK,
       BooksOK, Source, Provider, Stored, Open, Reading, Closing, Replay
  <2>. QED
    BY <2>2, <2>3, <2>4
<1>. QED
  BY <1>1, <1>2, <1>3, <1>4, <1>5, <1>6, <1>7

\* The steps of the reading loops.
LEMMA ReadStep ==
  ASSUME Typed, NEW s \in Streams, Good(s),
         ReadPayload(s) \/ OutputBudgetTooLow(s) \/ PostCheckBlocks(s) \/ FinalizeStream(s)
         \/ ReadError(s) \/ RetryUpstream(s) \/ RetryCancelled(s) \/ ReadCtxDone(s)
         \/ DrainEnds(s)
  PROVE  Typed' /\ Only(s) /\ Good(s)'
<1> USE DEF flow, source, client, stored, history, rows, usage
<1>1. CASE ReadPayload(s)
  <2>1. /\ pc' \in [Streams -> Places]
        /\ outbox' \in [Streams -> Seq(Kinds)]
        /\ after' \in [Streams -> Ends]
    BY <1>1, EmitAt, Boxes DEF ReadPayload, Typed, Places, Ends, Closing, Replay
  <2>2. Typed'
    <3>1. events[s] + 1 \in 0..MaxEvents
      BY <1>1, StreamAssumption DEF ReadPayload, Typed
    <3>2. events' \in [Streams -> 0..MaxEvents] /\ payload' \in [Streams -> BOOLEAN]
      BY <1>1, <3>1 DEF ReadPayload, Typed
    <3>. QED
      BY <1>1, <2>1, <3>2 DEF ReadPayload, Typed
  <2>3. Only(s)
    BY <1>1 DEF ReadPayload, Emit, Typed, Only, Same
  <2>4. Good(s)'
    BY <1>1, StreamAssumption DEF ReadPayload, Emit, Typed, Good, ControlOK, EmitOK, SourceOK,
       BooksOK, Source, Provider, Stored, Open, Reading, Closing, Replay
  <2>. QED
    BY <2>2, <2>3, <2>4
<1>2. CASE OutputBudgetTooLow(s)
  <2>1. cand[s] <= Len(Candidates) /\ Open(s)
    BY <1>2 DEF OutputBudgetTooLow, Good, ControlOK, BooksOK, Open, Stored, Reading
  <2>2. /\ row' \in [Streams -> Rows] /\ rowLost' \in [Streams -> BOOLEAN]
        /\ row'[s] = "error" \/ row'[s] = row[s]
        /\ ~ctxDone[s] => row'[s] = "error" \/ rowLost'[s]
        /\ \A t \in Streams : t # s => row'[t] = row[t] /\ rowLost'[t] = rowLost[t]
    BY <1>2, SetRowWithCtxAt DEF OutputBudgetTooLow, Rows
  <2>3. /\ charges' \in [Streams -> {<<>>} \cup {<<k>> : k \in Usage}]
        /\ usageLost' \in [Streams -> BOOLEAN]
        /\ charges'[s] = <<>> \/ (charges'[s] = <<"rejected">> /\ ~usageLost'[s] /\ ~ctxDone[s])
        /\ \A t \in Streams : t # s => charges'[t] = charges[t] /\ usageLost'[t] = usageLost[t]
    <3>1. CASE ctxDone[s]
      BY <1>2, <2>1, <3>1 DEF OutputBudgetTooLow, Typed, Open
    <3>2. CASE ~ctxDone[s]
      <4>1. Charge(s, "rejected") /\ "rejected" \in Usage
        BY <1>2, <3>2 DEF OutputBudgetTooLow, Usage
      <4>. QED
        BY <2>1, <3>2, <4>1, ChargeAt DEF Open
    <3>. QED
      BY <3>1, <3>2
  <2>4. /\ pc' \in [Streams -> Places] /\ errCh' \in [Streams -> BOOLEAN] /\ pc'[s] = "done"
        /\ \A t \in Streams : t # s => pc'[t] = pc[t]
    BY <1>2, FailAt DEF OutputBudgetTooLow
  <2>5. Typed'
    BY <1>2, <2>2, <2>3, <2>4 DEF OutputBudgetTooLow, Typed
  <2>6. Only(s)
    BY <1>2, <2>2, <2>3, <2>4 DEF OutputBudgetTooLow, Only, Same
  <2>7. Agreed(s)'
    <3>1. row'[s] \notin {"completed", "cancelled"}
      BY <2>1, <2>2 DEF Open
    <3>2. CASE charges'[s] = <<>>
      BY <3>1, <3>2, Records DEF Agreed, Usage
    <3>3. CASE charges'[s] = <<"rejected">> /\ ~usageLost'[s] /\ ~ctxDone[s]
      <4>1. row'[s] = "error" \/ rowLost'[s]
        BY <2>2, <3>3
      <4>2. /\ charges'[s] # <<"cancelled">> /\ charges'[s] # <<"success">>
        BY <3>3
      <4>. QED
        BY <3>1, <3>3, <4>1, <4>2 DEF Agreed
    <3>. QED
      BY <2>3, <3>2, <3>3
  <2>8. Good(s)'
    <3>1. /\ after'[s] = after[s] /\ cand'[s] = cand[s] /\ from'[s] = from[s] /\ final'[s] = final[s]
          /\ final[s] # "completed"
      BY <1>2 DEF OutputBudgetTooLow, Good, BooksOK, Reading
    <3>. QED
      BY <2>4, <2>7, <3>1, Finished
  <2>. QED
    BY <2>5, <2>6, <2>8
<1>3. CASE PostCheckBlocks(s)
  <2>1. /\ pc' \in [Streams -> Places]
        /\ outbox' \in [Streams -> Seq(Kinds)]
        /\ after' \in [Streams -> Ends]
        /\ errCh' \in [Streams -> BOOLEAN]
    BY <1>3, EmitAt, FailAt, Boxes DEF PostCheckBlocks, Typed, Places, Ends, Closing, Replay
  <2>2. Typed'
    BY <1>3, <2>1 DEF PostCheckBlocks, Typed
  <2>3. Only(s)
    BY <1>3 DEF PostCheckBlocks, Emit, Fail, Goto, Typed, Only, Same
  <2>4. Good(s)'
    <3>1. CASE payload[s]
      <4>1. /\ Emit(s, <<"filtered">>, "settle") /\ pc[s] = "read" /\ Open(s) /\ started[s]
            /\ UNCHANGED <<cand, started, payload, from, final, row, charges, rowLost, usageLost>>
        BY <1>3, <3>1 DEF PostCheckBlocks, Good, ControlOK, BooksOK, Reading
      <4>2. pc'[s] = "emit" /\ outbox'[s] = <<"filtered">> /\ after'[s] = "settle"
        BY <4>1, EmitAt, Boxes DEF Ends, Closing
      <4>3. Open(s)'
        BY <4>1 DEF Open
      <4>4. ControlOK(s)' /\ EmitOK(s)' /\ SourceOK(s)'
        BY <4>1, <4>2 DEF Good, ControlOK, EmitOK, SourceOK, Source, Provider, Reading, Closing
      <4>5. BooksOK(s)'
        BY <4>1, <4>2, <4>3 DEF Good, BooksOK, Reading
      <4>. QED
        BY <4>4, <4>5 DEF Good
    <3>2. CASE ~payload[s]
      <4>1. pc'[s] = "done" /\ charges'[s] = <<>> /\ row'[s] \notin {"completed", "cancelled"}
        BY <1>3, <3>2, FailAt DEF PostCheckBlocks, Good, BooksOK, Open, Reading, Stored, ControlOK
      <4>. QED
        BY <1>3, <3>2, <4>1, Finished, Uncharged DEF PostCheckBlocks, Good, BooksOK, Reading
    <3>. QED
      BY <3>1, <3>2
  <2>. QED
    BY <2>2, <2>3, <2>4
<1>4. CASE FinalizeStream(s)
  <2>1. cand[s] <= Len(Candidates) /\ Open(s)
    BY <1>4 DEF FinalizeStream, Good, ControlOK, BooksOK, Open, Stored, Reading
  <2>2. /\ row' \in [Streams -> Rows] /\ rowLost' \in [Streams -> BOOLEAN]
        /\ row'[s] = "completed" \/ (row'[s] = row[s] /\ rowLost'[s])
        /\ \A t \in Streams : t # s => row'[t] = row[t] /\ rowLost'[t] = rowLost[t]
    BY <1>4, SetRowAt DEF FinalizeStream, StoreSuccess, Rows
  <2>3. /\ charges' \in [Streams -> {<<>>} \cup {<<k>> : k \in Usage}]
        /\ usageLost' \in [Streams -> BOOLEAN]
        /\ \/ charges'[s] = <<"success">> /\ ~usageLost'[s]
           \/ charges'[s] = <<>> /\ usageLost'[s]
        /\ \A t \in Streams : t # s => charges'[t] = charges[t] /\ usageLost'[t] = usageLost[t]
    <3>1. Charge(s, "success") /\ "success" \in Usage
      BY <1>4 DEF FinalizeStream, StoreSuccess, Usage
    <3>. QED
      BY <2>1, <3>1, ChargeAt DEF Open
  <2>4. /\ pc' \in [Streams -> Places] /\ pc'[s] = "emit"
        /\ outbox' \in [Streams -> Seq(Kinds)] /\ outbox'[s] \in Closing
        /\ after' \in [Streams -> Ends] /\ after'[s] = "settle"
        /\ \A t \in Streams : t # s =>
              pc'[t] = pc[t] /\ outbox'[t] = outbox[t] /\ after'[t] = after[t]
    <3>1. PICK kinds \in Closing : Emit(s, kinds, "settle")
      BY <1>4 DEF FinalizeStream, Closing
    <3>. QED
      BY <3>1, EmitAt, Boxes DEF Ends
  <2>5. Typed'
    BY <1>4, <2>2, <2>3, <2>4 DEF FinalizeStream, Typed
  <2>6. Only(s)
    BY <1>4, <2>2, <2>3, <2>4 DEF FinalizeStream, Only, Same
  <2>7. Good(s)'
    <3>1. pc[s] = "read" /\ UNCHANGED <<cand, started, payload, from, final>>
      BY <1>4 DEF FinalizeStream
    <3>2. Stored(s)'
      <4>1. row'[s] = "completed" \/ (rowLost'[s] /\ row'[s] # "cancelled")
        BY <2>1, <2>2 DEF Open
      <4>. QED
        BY <2>3, <4>1 DEF Stored
    <3>. QED
      BY <2>4, <3>1, <3>2 DEF Good, ControlOK, EmitOK, SourceOK, BooksOK, Source, Provider,
       Reading
  <2>. QED
    BY <2>5, <2>6, <2>7
<1>5. CASE ReadError(s)
  <2>1. cand[s] <= Len(Candidates) /\ Open(s)
    BY <1>5 DEF ReadError, Good, ControlOK, BooksOK, Open, Stored, Reading
  <2>2. /\ row' \in [Streams -> Rows] /\ rowLost' \in [Streams -> BOOLEAN]
        /\ pc' \in [Streams -> Places]
        /\ cand' \in [Streams -> 1..(Len(Candidates) + 1)]
        /\ errCh' \in [Streams -> BOOLEAN]
    <3>1. row' \in [Streams -> Rows] /\ rowLost' \in [Streams -> BOOLEAN]
      BY <1>5, SetRowAt DEF ReadError, Rows
    <3>2. CASE Fail(s) /\ UNCHANGED cand
      BY <3>1, <3>2, FailAt DEF Typed
    <3>3. CASE NextCandidate(s) /\ UNCHANGED errCh
      BY <2>1, <3>1, <3>3, NextAt DEF Typed
    <3>4. CASE Goto(s, "delay") /\ UNCHANGED <<cand, errCh>>
      BY <3>1, <3>4, GotoAt DEF Typed, Places
    <3>. QED
      BY <1>5, <3>2, <3>3, <3>4 DEF ReadError
  <2>3. Typed'
    BY <1>5, <2>2 DEF ReadError, Typed
  <2>4. Only(s)
    BY <1>5 DEF ReadError, MayFallBack, SetRow, NextCandidate, Goto, Fail, Typed, Only, Same
  <2>5. Good(s)'
    <3>1. /\ row'[s] \in {"error", row[s]} /\ Open(s)' /\ charges'[s] = <<>> /\ pc[s] = "read"
          /\ UNCHANGED <<outbox, after, started, payload, from, final>>
      BY <1>5, <2>1, SetRowAt DEF ReadError, Rows, Open
    <3>2. CASE Fail(s) /\ UNCHANGED cand
      BY <1>5, <3>1, <3>2, FailAt, Finished, Uncharged DEF Good, BooksOK, Reading, Open
    <3>3. CASE ~payload[s] /\ NextCandidate(s)
      BY <2>1, <3>1, <3>3, NextAt DEF Good, ControlOK, EmitOK, SourceOK, BooksOK, Source, Provider,
       Stored, Open, Reading, Closing, Replay
    <3>4. CASE ~payload[s] /\ Retry /\ Goto(s, "delay") /\ UNCHANGED cand
      BY <2>1, <3>1, <3>4, GotoAt DEF Places, Good, ControlOK, EmitOK, SourceOK, BooksOK, Source,
       Provider, Stored, Open, Reading, Closing, Replay
    <3>. QED
      BY <1>5, <3>2, <3>3, <3>4 DEF ReadError, MayFallBack
  <2>. QED
    BY <2>3, <2>4, <2>5
<1>6. CASE RetryUpstream(s)
  <2>1. /\ pc' \in [Streams -> Places]
    BY <1>6, GotoAt DEF RetryUpstream, Typed, Places
  <2>2. Typed'
    <3>1. 0 \in 0..MaxEvents
      BY StreamAssumption
    <3>2. /\ up' \in [Streams -> {"none", "open", "closed", "failing", "failed", "read"}]
          /\ events' \in [Streams -> 0..MaxEvents]
          /\ retrying' \in [Streams -> BOOLEAN]
      BY <1>6, <3>1 DEF RetryUpstream, Typed
    <3>. QED
      BY <1>6, <2>1, <3>2 DEF RetryUpstream, Typed
  <2>3. Only(s)
    BY <1>6 DEF RetryUpstream, Goto, Typed, Only, Same
  <2>4. Good(s)'
    BY <1>6, StreamAssumption DEF RetryUpstream, Goto, Typed, Good, ControlOK, EmitOK, SourceOK,
       BooksOK, Source, Provider, Stored, Open, Reading, Closing, Replay
  <2>. QED
    BY <2>2, <2>3, <2>4
<1>7. CASE RetryCancelled(s)
  <2>1. /\ pc' \in [Streams -> Places]
        /\ errCh' \in [Streams -> BOOLEAN]
    BY <1>7, FailAt DEF RetryCancelled, Typed
  <2>2. Typed'
    BY <1>7, <2>1 DEF RetryCancelled, Typed
  <2>3. Only(s)
    BY <1>7 DEF RetryCancelled, Fail, Goto, Typed, Only, Same
  <2>4. Good(s)'
    <3>1. pc'[s] = "done" /\ charges'[s] = <<>> /\ row'[s] \notin {"completed", "cancelled"}
      BY <1>7, FailAt DEF RetryCancelled, Rows, Good, BooksOK, Open, Reading, Stored, ControlOK
    <3>. QED
      BY <1>7, <3>1, Finished, Uncharged DEF RetryCancelled, Good, BooksOK, Reading
  <2>. QED
    BY <2>2, <2>3, <2>4
<1>8. CASE ReadCtxDone(s)
  <2>1. cand[s] <= Len(Candidates) /\ Open(s)
    BY <1>8 DEF ReadCtxDone, Good, ControlOK, BooksOK, Open, Stored, Reading
  <2>2. /\ pc' \in [Streams -> Places]
        /\ errCh' \in [Streams -> BOOLEAN]
        /\ row' \in [Streams -> Rows] /\ rowLost' \in [Streams -> BOOLEAN]
        /\ charges' \in [Streams -> {<<>>} \cup {<<k>> : k \in Usage}]
        /\ usageLost' \in [Streams -> BOOLEAN]
    BY <1>8, <2>1, CancelAt, GotoAt DEF ReadCtxDone, Typed, Places
  <2>3. Typed'
    BY <1>8, <2>2 DEF ReadCtxDone, Typed
  <2>4. Only(s)
    BY <1>8 DEF ReadCtxDone, Cancel, StoreCancelled, SetRow, Charge, Fail, Goto, Typed, Only, Same
  <2>5. Good(s)'
    <3>1. CASE Goto(s, "drain") /\ UNCHANGED <<row, charges, rowLost, usageLost>>
      BY <1>8, <3>1 DEF ReadCtxDone, Goto, Typed, Good, ControlOK, EmitOK, SourceOK, BooksOK,
       Source, Provider, Stored, Open, Reading, Closing, Replay
    <3>2. CASE Cancel(s)
      BY <1>8, <2>1, <3>2, CancelAt, Finished DEF ReadCtxDone, Good, BooksOK, Reading
    <3>. QED
      BY <1>8, <3>1, <3>2 DEF ReadCtxDone
  <2>. QED
    BY <2>3, <2>4, <2>5
<1>9. CASE DrainEnds(s)
  <2>1. cand[s] <= Len(Candidates) /\ Open(s)
    BY <1>9 DEF DrainEnds, Good, ControlOK, BooksOK, Open, Stored, Reading
  <2>2. /\ pc' \in [Streams -> Places]
        /\ errCh' \in [Streams -> BOOLEAN]
        /\ row' \in [Streams -> Rows] /\ rowLost' \in [Streams -> BOOLEAN]
        /\ charges' \in [Streams -> {<<>>} \cup {<<k>> : k \in Usage}]
        /\ usageLost' \in [Streams -> BOOLEAN]
    BY <1>9, <2>1, CancelAt DEF DrainEnds, Typed
  <2>3. Typed'
    BY <1>9, <2>2 DEF DrainEnds, Typed
  <2>4. Only(s)
    BY <1>9 DEF DrainEnds, Cancel, StoreCancelled, SetRow, Charge, Fail, Goto, Typed, Only, Same
  <2>5. Good(s)'
    BY <1>9, <2>1, CancelAt, Finished DEF DrainEnds, Good, BooksOK, Reading
  <2>. QED
    BY <2>3, <2>4, <2>5
<1>. QED
  BY <1>1, <1>2, <1>3, <1>4, <1>5, <1>6, <1>7, <1>8, <1>9

\* The last steps of the goroutine.
LEMMA EndStep ==
  ASSUME Typed, NEW s \in Streams, Good(s),
         Settle(s) \/ ReplayEnds(s)
  PROVE  Typed' /\ Only(s) /\ Good(s)'
<1> USE DEF flow, source, client, stored, history, rows, usage
<1>1. CASE Settle(s)
  <2>1. /\ pc' \in [Streams -> Places]
    BY <1>1, GotoAt DEF Settle, Typed, Places
  <2>2. Typed'
    BY <1>1, <2>1 DEF Settle, Typed
  <2>3. Only(s)
    BY <1>1 DEF Settle, Goto, Typed, Only, Same
  <2>4. Good(s)'
    <3>1. pc'[s] = "done" /\ after[s] = "settle" /\ UNCHANGED <<row, charges, rowLost, usageLost, after>>
          /\ (Open(s) \/ Stored(s))
      BY <1>1, GotoAt DEF Settle, Places, Good, ControlOK, BooksOK
    <3>2. Agreed(s)'
      BY <3>1, Records DEF Agreed, Usage, Open, Stored
    <3>. QED
      BY <1>1, <3>1, <3>2, Finished DEF Settle, Good, BooksOK, Stored
  <2>. QED
    BY <2>2, <2>3, <2>4
<1>2. CASE ReplayEnds(s)
  <2>1. /\ row' \in [Streams -> Rows] /\ rowLost' \in [Streams -> BOOLEAN]
        /\ pc' \in [Streams -> Places]
        /\ errCh' \in [Streams -> BOOLEAN]
    BY <1>2, SetRowWithCtxAt, FailAt, GotoAt DEF ReplayEnds, Typed, Places, Rows
  <2>2. Typed'
    BY <1>2, <2>1 DEF ReplayEnds, Typed
  <2>3. Only(s)
    BY <1>2 DEF ReplayEnds, SetRowWithCtx, SetRow, Fail, Goto, Typed, Only, Same
  <2>4. Good(s)'
    <3>1. /\ pc'[s] = "done" /\ after[s] = pc[s] /\ charges'[s] = <<>> /\ row'[s] # "cancelled"
          /\ row'[s] = "completed" => pc[s] = "replayed"
      BY <1>2, SetRowWithCtxAt, FailAt, GotoAt DEF ReplayEnds, Rows, Places, Good, ControlOK,
       BooksOK, Open, Stored
    <3>. QED
      BY <1>2, <3>1, Finished, Uncharged DEF ReplayEnds
  <2>. QED
    BY <2>2, <2>3, <2>4
<1>. QED
  BY <1>1, <1>2

\* The steps of the upstream client and the handler that take no event.
LEMMA OutsideStep ==
  ASSUME Typed, NEW s \in Streams, Good(s), Upstream(s) \/ HandlerTakesError(s)
         \/ HandlerSeesEnd(s) \/ HandlerLeaves(s) \/ Disconnect(s)
  PROVE  Typed' /\ Only(s) /\ Good(s)'
<1> USE DEF flow, source, client, stored, history, rows, usage
<1>1. UNCHANGED <<flow, row, charges, rowLost, usageLost, from, final>>
  BY DEF Upstream, UpstreamEnds, UpstreamFails, UpstreamCloses, HandlerTakesError,
     HandlerSeesEnd, HandlerLeaves, Disconnect
<1>2. Typed'
  <2>1. CASE Upstream(s)
    BY <2>1 DEF Upstream, UpstreamEnds, UpstreamFails, UpstreamCloses, Typed
  <2>2. CASE HandlerTakesError(s) \/ HandlerSeesEnd(s) \/ HandlerLeaves(s)
    BY <2>2 DEF HandlerTakesError, HandlerSeesEnd, HandlerLeaves, HandlerReturns, Typed
  <2>3. CASE Disconnect(s)
    BY <2>3 DEF Disconnect, Typed
  <2>. QED
    BY <2>1, <2>2, <2>3
<1>. QED
  BY <1>1, <1>2, Untouched DEF Only, Same

\* The rest of what is sent, when its first event has been taken.
LEMMA Rest ==
  /\ Tail(<<"started", "payload", "completed">>) = <<"payload", "completed">>
  /\ Tail(<<"payload", "completed">>) = <<"completed">>
  /\ Tail(<<"started", "payload">>) = <<"payload">> /\ Head(<<"started", "payload">>) = "started"
  /\ Len(<<"started", "payload">>) = 2
  /\ \A k \in Kinds : Head(<<k>>) = k /\ Len(<<k>>) = 1 /\ Tail(<<k>>) = <<>>
  /\ Head(<<"started", "payload", "completed">>) = "started"
  /\ Head(<<"payload", "completed">>) = "payload"
  /\ Len(<<"started", "payload", "completed">>) = 3 /\ Len(<<"payload", "completed">>) = 2
  /\ <<"completed">> # <<"filtered">> /\ <<"payload", "completed">> # <<"filtered">>
OBVIOUS

\* The handler takes one event: the last event of a list moves the goroutine on, the payload
\* is from the present source, and a completion from a provider has been stored.
LEMMA TakeStep ==
  ASSUME Typed, NEW s \in Streams, Good(s), HandlerTakesEvent(s)
  PROVE  Typed' /\ Only(s) /\ Good(s)'
<1> USE DEF source, client, stored, rows, usage
<1> DEFINE kind == Head(outbox[s])
<1>1. /\ pc[s] = "emit" /\ outbox[s] \in Seq(Kinds)
      /\ after[s] \in Ends /\ from[s] \in SUBSET (Providers \cup {Cached})
      /\ final[s] \in {"none"} \cup Finals
  BY DEF HandlerTakesEvent, Typed
<1>2. \/ after[s] = "plugins" /\ outbox[s] = <<"started">>
      \/ after[s] = "undecodable" /\ outbox[s] \in Partial
      \/ after[s] = "read" /\ outbox[s] = <<"payload">>
      \/ after[s] = "settle" /\ outbox[s] \in Closing
      \/ after[s] = "replayed" /\ outbox[s] \in Replay
  BY <1>1 DEF Good, EmitOK
<1>3. /\ Tail(outbox[s]) \in Seq(Kinds) /\ kind \in Kinds
      /\ \/ Len(outbox[s]) = 1 /\ outbox[s] = <<kind>>
         \/ /\ Len(outbox[s]) # 1 /\ after[s] = "settle" /\ kind = "payload"
            /\ Tail(outbox[s]) = <<"completed">>
         \/ /\ Len(outbox[s]) # 1 /\ after[s] = "replayed" /\ kind \in {"started", "payload"}
            /\ Tail(outbox[s]) \in Replay
         \/ /\ Len(outbox[s]) # 1 /\ after[s] = "undecodable" /\ kind = "started"
            /\ Tail(outbox[s]) = <<"payload">>
  <2>1. <<>> \in Seq(Kinds) /\ Replay \subseteq Seq(Kinds)
    BY Boxes
  <2>2. ASSUME NEW k \in Kinds, outbox[s] = <<k>>
        PROVE  /\ Tail(outbox[s]) \in Seq(Kinds) /\ kind \in Kinds
               /\ Len(outbox[s]) = 1 /\ outbox[s] = <<kind>>
    BY <2>1, <2>2, Rest
  <2>3. CASE outbox[s] = <<"payload", "completed">>
    BY <1>2, <2>1, <2>3, Rest DEF Replay, Partial, Kinds
  <2>4. CASE outbox[s] = <<"started", "payload", "completed">>
    BY <1>2, <2>1, <2>4, Rest DEF Replay, Closing, Partial, Kinds
  <2>5. CASE outbox[s] = <<"started", "payload">>
    BY <1>2, <2>1, <2>5, Rest, Boxes DEF Replay, Closing, Partial, Kinds
  <2>. QED
    BY <1>2, <2>2, <2>3, <2>4, <2>5 DEF Closing, Replay, Partial, Kinds, Finals
<1>4. cand[s] <= Len(Candidates) /\ Provider(s) \in Providers
  <2>1. cand[s] \in 1..Len(Candidates)
    BY <1>1, StreamAssumption DEF Good, ControlOK, Typed
  <2>. QED
    BY <2>1, StreamAssumption DEF Provider
<1>5. /\ outbox' = [outbox EXCEPT ![s] = Tail(outbox[s])]
      /\ pc' = [pc EXCEPT ![s] = IF Len(outbox[s]) = 1 THEN after[s] ELSE "emit"]
      /\ from' = [from EXCEPT ![s] = IF kind # "payload" THEN from[s] ELSE from[s] \cup {Source(s)}]
      /\ final' = [final EXCEPT ![s] = IF kind \in Finals THEN kind ELSE final[s]]
      /\ UNCHANGED <<cand, after, started, payload, row, charges, rowLost, usageLost>>
  BY DEF HandlerTakesEvent, Source
<1>6. Typed'
  <2>1. /\ (IF Len(outbox[s]) = 1 THEN after[s] ELSE "emit") \in Places
        /\ (IF kind # "payload" THEN from[s] ELSE from[s] \cup {Source(s)})
             \in SUBSET (Providers \cup {Cached})
        /\ (IF kind \in Finals THEN kind ELSE final[s]) \in {"none"} \cup Finals
    BY <1>1, <1>4 DEF Ends, Places, Source
  <2>2. /\ outbox' \in [Streams -> Seq(Kinds)] /\ pc' \in [Streams -> Places]
        /\ from' \in [Streams -> SUBSET (Providers \cup {Cached})]
        /\ final' \in [Streams -> {"none"} \cup Finals]
    BY <1>3, <1>5, <2>1 DEF Typed
  <2>. QED
    BY <2>2 DEF HandlerTakesEvent, Typed
<1>7. Only(s)
  BY <1>5 DEF Typed, Only, Same
<1>8. /\ outbox'[s] = Tail(outbox[s])
      /\ pc'[s] = IF Len(outbox[s]) = 1 THEN after[s] ELSE "emit"
      /\ from'[s] = IF kind # "payload" THEN from[s] ELSE from[s] \cup {Source(s)}
      /\ final'[s] = IF kind \in Finals THEN kind ELSE final[s]
  BY <1>5 DEF Typed
<1>9. SourceOK(s)'
  <2>1. from[s] = {} \/ from[s] = {Source(s)}
    BY DEF Good, SourceOK
  <2>2. Source(s)' = Source(s)
    BY <1>5 DEF Source, Provider
  <2>3. from'[s] = {} \/ from'[s] = {Source(s)'}
    BY <1>8, <2>1, <2>2
  <2>4. after[s] = "plugins" => from'[s] = {}
    BY <1>1, <1>2, <1>8, Rest DEF Good, SourceOK, Kinds
  <2>5. after[s] = "read" => payload[s]
    BY <1>1 DEF Good, EmitOK
  <2>. QED
    BY <1>2, <1>5, <1>8, <2>3, <2>4, <2>5 DEF SourceOK
<1>10. ControlOK(s)' /\ EmitOK(s)'
  BY <1>1, <1>2, <1>3, <1>4, <1>5, <1>8 DEF Good, ControlOK, EmitOK, Reading, Closing, Partial
<1>11. BooksOK(s)'
  <2>1. Open(s)' = Open(s) /\ Stored(s)' = Stored(s)
    BY <1>5 DEF Open, Stored
  <2>2. pc'[s] # "done"
    BY <1>2, <1>8
  <2>3. after[s] = "settle" /\ kind = "completed" => Stored(s)
    BY <1>1, <1>3, Rest DEF Good, BooksOK
  <2>4. after[s] \in {"plugins", "undecodable", "read"} => kind \notin Finals
    BY <1>2, Rest DEF Finals, Kinds, Partial
  <2>5. after[s] = "settle" /\ pc'[s] = "emit" => Stored(s)
    BY <1>1, <1>3, <1>8, Rest DEF Good, BooksOK
  <2>. QED
    BY <1>1, <1>2, <1>5, <1>8, <2>1, <2>2, <2>3, <2>4, <2>5 DEF Good, BooksOK, Reading, Finals
<1>. QED
  BY <1>6, <1>7, <1>9, <1>10, <1>11 DEF Good

-----------------------------------------------------------------------------
(* Loads.                                                                   *)

\* A provider serves the stream.
Serves(s) ==
    /\ pc[s] \in {"emit", "plugins", "read", "drain", "settle", "replayed", "undecodable"}
    /\ started[s]

Counts == load \in [Providers -> Nat]

\* The attempts at a provider can be counted.
LEMMA AttemptsFinite ==
  ASSUME NEW p
  PROVE  /\ IsFiniteSet(Attempts(p)) /\ Cardinality(Attempts(p)) \in Nat
         /\ Cardinality(Attempts(p)) <= Cardinality(Streams)
<1>1. Attempts(p) \in SUBSET Streams
  BY DEF Attempts
<1>. QED
  BY <1>1, StreamAssumption, FS_Subset, FS_CardinalityType

\* A step of one stream leaves the other streams among the attempts.
LEMMA OthersServed ==
  ASSUME NEW s \in Streams, Only(s), NEW p
  PROVE  /\ Attempts(p) \ {s} = Attempts(p)' \ {s}
         /\ s \in Attempts(p) <=> Serves(s) /\ Provider(s) = p
         /\ s \in Attempts(p)' <=> Serves(s)' /\ Provider(s)' = p
BY DEF Only, Same, Attempts, Serves, Provider

\* The stream is served as before.
LEMMA LoadStays ==
  ASSUME NEW s \in Streams, Only(s), Counts, LoadOK, UNCHANGED load,
         Serves(s)' <=> Serves(s), Serves(s) => cand'[s] = cand[s]
  PROVE  LoadOK' /\ Counts'
<1>1. ASSUME NEW p PROVE Attempts(p)' = Attempts(p)
  <2>1. s \in Attempts(p)' <=> s \in Attempts(p)
    BY OthersServed DEF Provider
  <2>. QED
    BY <2>1, OthersServed
<1>2. \A p \in Providers : Cardinality(Attempts(p)') = Cardinality(Attempts(p))
  BY <1>1
<1>. QED
  BY <1>2 DEF LoadOK, Counts

\* IncrementLoad for a stream that the provider begins to serve.
LEMMA LoadEnters ==
  ASSUME NEW s \in Streams, Only(s), Counts, LoadOK, Provider(s) \in Providers,
         IncrementLoad(Provider(s)), ~Serves(s), Serves(s)', cand'[s] = cand[s]
  PROVE  LoadOK' /\ Counts'
<1>0. PICK q \in Providers : q = Provider(s)
  OBVIOUS
<1>1. /\ \A p \in Providers : p # q => load'[p] = load[p]
      /\ load'[q] = load[q] + 1 /\ load[q] \in Nat /\ Counts'
  BY <1>0 DEF IncrementLoad, Counts
<1>2. Provider(s)' = q
  BY <1>0 DEF Provider
<1>3. ASSUME NEW p \in Providers, p # q PROVE Cardinality(Attempts(p)') = Cardinality(Attempts(p))
  <2>1. s \notin Attempts(p) /\ s \notin Attempts(p)'
    BY <1>0, <1>2, <1>3, OthersServed
  <2>2. Attempts(p)' = Attempts(p)
    BY <2>1, OthersServed
  <2>. QED
    BY <2>2
<1>4. Cardinality(Attempts(q)') = Cardinality(Attempts(q)) + 1
  <2>1. s \notin Attempts(q) /\ s \in Attempts(q)'
    BY <1>0, <1>2, OthersServed
  <2>2. Attempts(q)' = Attempts(q) \cup {s}
    BY <2>1, OthersServed
  <2>3. Cardinality(Attempts(q) \cup {s}) = Cardinality(Attempts(q)) + 1
    BY <2>1, AttemptsFinite, FS_AddElement
  <2>. QED
    BY <2>2, <2>3
<1>5. Cardinality(Attempts(q)) \in Nat
  BY AttemptsFinite
<1>6. ASSUME NEW p \in Providers
      PROVE  /\ load'[p] <= Cardinality(Attempts(p)')
             /\ ~Retry => load'[p] = Cardinality(Attempts(p)')
  <2>1. CASE p = q
    BY <1>1, <1>4, <1>5, <2>1 DEF LoadOK
  <2>2. CASE p # q
    BY <1>1, <1>3, <2>2 DEF LoadOK
  <2>. QED
    BY <2>1, <2>2
<1>. QED
  BY <1>1, <1>6 DEF LoadOK

\* DecrementLoad for a stream that its provider no longer serves.
LEMMA LoadLeaves ==
  ASSUME NEW s \in Streams, Only(s), Counts, LoadOK, Provider(s) \in Providers,
         DecrementLoad(Provider(s)), Serves(s), ~Serves(s)'
  PROVE  LoadOK' /\ Counts'
<1>0. PICK q \in Providers : q = Provider(s)
  OBVIOUS
<1>1. /\ \A p \in Providers : p # q => load'[p] = load[p]
      /\ load'[q] = IF load[q] > 0 THEN load[q] - 1 ELSE 0
      /\ load[q] \in Nat /\ Counts'
  BY <1>0 DEF DecrementLoad, Counts
<1>2. ASSUME NEW p \in Providers, p # q PROVE Cardinality(Attempts(p)') = Cardinality(Attempts(p))
  <2>1. s \notin Attempts(p) /\ s \notin Attempts(p)'
    BY <1>0, <1>2, OthersServed
  <2>2. Attempts(p)' = Attempts(p)
    BY <2>1, OthersServed
  <2>. QED
    BY <2>2
<1>3. Cardinality(Attempts(q)') = Cardinality(Attempts(q)) - 1 /\ Cardinality(Attempts(q)) # 0
  <2>1. s \in Attempts(q) /\ s \notin Attempts(q)'
    BY <1>0, OthersServed
  <2>2. Attempts(q)' = Attempts(q) \ {s}
    BY <2>1, OthersServed
  <2>3. Cardinality(Attempts(q) \ {s}) = Cardinality(Attempts(q)) - 1
    BY <2>1, AttemptsFinite, FS_RemoveElement
  <2>. QED
    BY <2>1, <2>2, <2>3, AttemptsFinite, FS_EmptySet
<1>4. Cardinality(Attempts(q)) \in Nat
  BY AttemptsFinite
<1>5. ASSUME NEW p \in Providers
      PROVE  /\ load'[p] <= Cardinality(Attempts(p)')
             /\ ~Retry => load'[p] = Cardinality(Attempts(p)')
  <2>1. CASE p = q
    BY <1>1, <1>3, <1>4, <2>1 DEF LoadOK
  <2>2. CASE p # q
    BY <1>1, <1>2, <2>2 DEF LoadOK
  <2>. QED
    BY <2>1, <2>2
<1>. QED
  BY <1>1, <1>5 DEF LoadOK

\* A retry is served again without a place in the load.
LEMMA LoadRejoins ==
  ASSUME NEW s \in Streams, Only(s), Counts, LoadOK, UNCHANGED load, Retry, ~Serves(s)
  PROVE  LoadOK' /\ Counts'
<1>1. ASSUME NEW p \in Providers PROVE load'[p] <= Cardinality(Attempts(p)')
  <2>1. s \notin Attempts(p)
    BY OthersServed
  <2>2. Attempts(p)' = Attempts(p) \/ Attempts(p)' = Attempts(p) \cup {s}
    BY <2>1, OthersServed
  <2>3. Cardinality(Attempts(p) \cup {s}) = Cardinality(Attempts(p)) + 1
    BY <2>1, AttemptsFinite, FS_AddElement
  <2>4. load[p] <= Cardinality(Attempts(p)) /\ load[p] \in Nat /\ Cardinality(Attempts(p)) \in Nat
    BY AttemptsFinite DEF LoadOK, Counts
  <2>5. \/ Cardinality(Attempts(p)') = Cardinality(Attempts(p))
        \/ Cardinality(Attempts(p)') = Cardinality(Attempts(p)) + 1
    BY <2>2, <2>3
  <2>. QED
    BY <2>4, <2>5
<1>. QED
  BY <1>1 DEF LoadOK, Counts

\* Every step of a stream keeps the loads.
LEMMA LoadStep ==
  ASSUME Typed, Counts, LoadOK, NEW s \in Streams, Good(s), Only(s),
         \/ RefuseStream(s) \/ StartStream(s) \/ StartCachedStream(s)
         \/ Goroutine(s) \/ Upstream(s) \/ Handler(s) \/ HandlerLeaves(s) \/ Disconnect(s)
  PROVE  LoadOK' /\ Counts'
<1> USE DEF flow, source, client, stored, history, rows, usage
<1>1. pc[s] \notin {"next", "done"} => Provider(s) \in Providers
  BY StreamAssumption DEF Good, ControlOK, Typed, Provider
<1>2. cand[s] <= Len(Candidates) => Provider(s) \in Providers
  BY StreamAssumption DEF Typed, Provider
<1>3. CASE RefuseStream(s) \/ StartStream(s) \/ StartCachedStream(s)
  <2>1. ~started[s] /\ ~started'[s] /\ UNCHANGED load
    BY <1>3 DEF RefuseStream, StartStream, StartCachedStream, Good, ControlOK
  <2>. QED
    BY <2>1, LoadStays DEF Serves
<1>4. CASE SkipCandidate(s) \/ RateLimited(s) \/ NoProvider(s) \/ RetryCancelled(s)
  <2>1. pc[s] \in {"next", "delay"} /\ pc'[s] \in {"next", "done"} /\ UNCHANGED load
    <3>1. CASE SkipCandidate(s)
      BY <3>1, NextAt DEF SkipCandidate
    <3>2. CASE RateLimited(s) \/ NoProvider(s) \/ RetryCancelled(s)
      BY <3>2, FailAt DEF RateLimited, NoProvider, RetryCancelled
    <3>. QED
      BY <1>4, <3>1, <3>2
  <2>. QED
    BY <2>1, LoadStays DEF Serves
<1>5. CASE UseCandidate(s)
  <2>1. /\ pc[s] = "next" /\ cand[s] <= Len(Candidates) /\ UNCHANGED cand
        /\ IncrementLoad(Provider(s))
    BY <1>5 DEF UseCandidate
  <2>2. pc'[s] \in {"plugins", "emit"} /\ started'[s]
    BY <1>5 DEF UseCandidate, Goto, Emit, Typed
  <2>. QED
    BY <1>2, <2>1, <2>2, LoadEnters DEF Serves
<1>6. CASE PluginBlocks(s)
  <2>1. /\ pc[s] = "plugins" /\ started[s] /\ DecrementLoad(Provider(s)) /\ NextCandidate(s)
        /\ cand[s] <= Len(Candidates)
    BY <1>6 DEF PluginBlocks, Good, ControlOK
  <2>2. pc'[s] = "next"
    BY <2>1, NextAt
  <2>. QED
    BY <1>1, <2>1, <2>2, LoadLeaves DEF Serves
<1>7. CASE PluginAnswers(s) \/ OpenUpstream(s) \/ ReadPayload(s) \/ FinalizeStream(s)
  <2>1. /\ pc[s] \in {"plugins", "read"} /\ pc'[s] \in {"emit", "read"}
        /\ UNCHANGED <<cand, started, load>>
    BY <1>7 DEF PluginAnswers, Replays, OpenUpstream, ReadPayload, FinalizeStream, Goto, Emit, Typed
  <2>. QED
    BY <2>1, LoadStays DEF Serves
<1>8. CASE OutputBudgetTooLow(s) \/ DrainEnds(s)
  <2>1. /\ pc[s] \in {"read", "drain"} /\ started[s] /\ DecrementLoad(Provider(s)) /\ Fail(s)
    BY <1>8 DEF OutputBudgetTooLow, DrainEnds, Cancel, Good, ControlOK
  <2>2. pc'[s] = "done"
    BY <2>1, FailAt
  <2>. QED
    BY <1>1, <2>1, <2>2, LoadLeaves DEF Serves
<1>9. CASE PostCheckBlocks(s)
  <2>1. pc[s] = "read" /\ started[s] /\ UNCHANGED <<cand, started>>
    BY <1>9 DEF PostCheckBlocks, Good, ControlOK
  <2>2. CASE Emit(s, <<"filtered">>, "settle") /\ UNCHANGED load
    <3>1. pc'[s] = "emit"
      BY <2>2 DEF Emit, Typed
    <3>. QED
      BY <2>1, <2>2, <3>1, LoadStays DEF Serves
  <2>3. CASE Fail(s) /\ DecrementLoad(Provider(s))
    <3>1. pc'[s] = "done"
      BY <2>3, FailAt
    <3>. QED
      BY <1>1, <2>1, <2>3, <3>1, LoadLeaves DEF Serves
  <2>. QED
    BY <1>9, <2>2, <2>3 DEF PostCheckBlocks
<1>10. CASE ReadError(s)
  <2>1. pc[s] = "read" /\ started[s] /\ DecrementLoad(Provider(s)) /\ cand[s] <= Len(Candidates)
    BY <1>10 DEF ReadError, ReleaseFailed, Good, ControlOK
  <2>2. Goto(s, "delay") \/ NextCandidate(s) \/ Fail(s)
    BY <1>10 DEF ReadError
  <2>3. pc'[s] \in {"delay", "next", "done"}
    BY <2>1, <2>2, NextAt, FailAt, GotoAt DEF Places
  <2>. QED
    BY <1>1, <2>1, <2>3, LoadLeaves DEF Serves
<1>11. CASE RetryUpstream(s)
  <2>1. pc[s] = "delay" /\ Retry /\ UNCHANGED load
    BY <1>11 DEF RetryUpstream, Good, ControlOK
  <2>. QED
    BY <2>1, LoadRejoins DEF Serves
<1>12. CASE ReadCtxDone(s)
  <2>1. pc[s] = "read" /\ started[s] /\ UNCHANGED <<cand, started>>
    BY <1>12 DEF ReadCtxDone, Good, ControlOK
  <2>2. CASE Goto(s, "drain") /\ UNCHANGED load
    <3>1. pc'[s] = "drain"
      BY <2>2, GotoAt DEF Places
    <3>. QED
      BY <2>1, <2>2, <3>1, LoadStays DEF Serves
  <2>3. CASE Cancel(s)
    <3>1. pc'[s] = "done" /\ DecrementLoad(Provider(s))
      BY <2>3, FailAt DEF Cancel
    <3>. QED
      BY <1>1, <2>1, <3>1, LoadLeaves DEF Serves
  <2>. QED
    BY <1>12, <2>2, <2>3 DEF ReadCtxDone
<1>13. CASE Settle(s)
  <2>1. pc[s] = "settle" /\ started[s] /\ DecrementLoad(Provider(s)) /\ Goto(s, "done")
    BY <1>13 DEF Settle, Good, ControlOK
  <2>2. pc'[s] = "done"
    BY <2>1, GotoAt DEF Places
  <2>. QED
    BY <1>1, <2>1, <2>2, LoadLeaves DEF Serves
<1>14. CASE ReplayEnds(s)
  <2>1. pc[s] \in {"replayed", "undecodable"} /\ UNCHANGED <<cand, started>>
    BY <1>14 DEF ReplayEnds
  <2>2. pc'[s] = "done"
    BY <1>14, GotoAt, FailAt DEF ReplayEnds, Places
  <2>3. CASE started[s]
    BY <1>1, <1>14, <2>1, <2>2, <2>3, LoadLeaves DEF ReplayEnds, Serves
  <2>4. CASE ~started[s]
    BY <1>14, <2>1, <2>2, <2>4, LoadStays DEF ReplayEnds, Serves
  <2>. QED
    BY <2>3, <2>4
<1>15. CASE Upstream(s) \/ HandlerTakesError(s) \/ HandlerSeesEnd(s) \/ HandlerLeaves(s) \/ Disconnect(s)
  <2>1. UNCHANGED <<pc, started, cand, load>>
    BY <1>15 DEF Upstream, UpstreamEnds, UpstreamFails, UpstreamCloses, HandlerTakesError,
       HandlerSeesEnd, HandlerLeaves, Disconnect
  <2>. QED
    BY <2>1, LoadStays DEF Serves
<1>16. CASE HandlerTakesEvent(s)
  <2>1. pc[s] = "emit" /\ after[s] # "done" /\ after[s] \in Ends /\ UNCHANGED <<started, cand, load>>
    BY <1>16 DEF HandlerTakesEvent, Good, EmitOK, Typed
  <2>2. pc'[s] \in {"emit", after[s]}
    BY <1>16 DEF HandlerTakesEvent, Typed
  <2>. QED
    BY <2>1, <2>2, LoadStays DEF Serves, Ends
<1>. QED
  BY <1>3, <1>4, <1>5, <1>6, <1>7, <1>8, <1>9, <1>10, <1>11, <1>12, <1>13, <1>14, <1>15, <1>16
     DEF Goroutine, Handler

-----------------------------------------------------------------------------
(* The theorems.                                                            *)

\* The types are those of Typed and the bound of the loads.
LEMMA TypeSplit ==
  ASSUME LoadOK
  PROVE  TypeOK <=> Typed /\ Counts
<1>1. ASSUME Counts PROVE load \in [Providers -> 0..Cardinality(Streams)]
  <2>1. Cardinality(Streams) \in Nat
    BY StreamAssumption, FS_CardinalityType
  <2>2. \A p \in Providers : load[p] \in 0..Cardinality(Streams)
    BY <1>1, <2>1, AttemptsFinite DEF LoadOK, Counts
  <2>. QED
    BY <1>1, <2>2 DEF Counts
<1>2. ASSUME load \in [Providers -> 0..Cardinality(Streams)] PROVE Counts
  BY <1>2 DEF Counts
<1>. QED
  BY <1>1, <1>2 DEF TypeOK, Typed, Places, Ends, Kinds, Rows, Usage

\* The strengthening with the types taken apart.
Whole == Typed /\ Counts /\ LoadOK /\ \A s \in Streams : Good(s)

\* The first state satisfies the strengthening.
LEMMA InitWhole == Init => Whole
<1> SUFFICES ASSUME Init PROVE Whole
  OBVIOUS
<1>1. Len(Candidates) \in Nat /\ Len(Candidates) >= 1 /\ MaxEvents \in Nat
  BY StreamAssumption
<1>2. /\ retrying \in [Streams -> BOOLEAN] /\ started \in [Streams -> BOOLEAN]
      /\ payload \in [Streams -> BOOLEAN] /\ errCh \in [Streams -> BOOLEAN]
      /\ ctxDone \in [Streams -> BOOLEAN]
      /\ rowLost \in [Streams -> BOOLEAN] /\ usageLost \in [Streams -> BOOLEAN]
  BY DEF Init
<1>3. <<>> \in Seq(Kinds)
  OBVIOUS
<1>4. Typed
  BY <1>1, <1>2, <1>3 DEF Init, Typed, Places, Ends, Rows, Usage, Finals
<1>5. \A s \in Streams : Good(s)
  BY <1>1 DEF Init, Good, ControlOK, EmitOK, SourceOK, BooksOK, Open, Reading
<1>6. ASSUME NEW p \in Providers PROVE load[p] = 0 /\ Cardinality(Attempts(p)) = 0
  <2>1. Attempts(p) = {}
    BY DEF Init, Attempts
  <2>. QED
    BY <2>1, FS_EmptySet DEF Init
<1>7. Counts /\ LoadOK
  BY <1>6 DEF Init, Counts, LoadOK
<1>. QED
  BY <1>4, <1>5, <1>7 DEF Whole

\* Every step preserves the strengthening.
LEMMA StepWhole == Whole /\ [Next]_vars => Whole'
<1> SUFFICES ASSUME Whole, [Next]_vars PROVE Whole'
  OBVIOUS
<1>1. CASE UNCHANGED vars
  <2>1. Typed' /\ Counts' /\ \A s \in Streams : Good(s)'
    <3>1. \A s \in Streams : Same(s)
      BY <1>1 DEF vars, Same
    <3>2. Typed' /\ Counts'
      BY <1>1 DEF vars, Whole, Typed, Counts
    <3>. QED
      BY <3>1, <3>2, Untouched DEF Whole
  <2>2. \A p \in Providers : Attempts(p)' = Attempts(p)
    BY <1>1 DEF vars, Attempts, Provider
  <2>3. \A p \in Providers : Cardinality(Attempts(p)') = Cardinality(Attempts(p))
    BY <2>2
  <2>4. LoadOK'
    BY <1>1, <2>3 DEF vars, Whole, LoadOK
  <2>. QED
    BY <2>1, <2>4 DEF Whole
<1>2. CASE Next
  <2>1. PICK s \in Streams :
          \/ RefuseStream(s) \/ StartStream(s) \/ StartCachedStream(s)
          \/ Goroutine(s) \/ Upstream(s) \/ Handler(s) \/ HandlerLeaves(s) \/ Disconnect(s)
    BY <1>2 DEF Next
  <2>2. Typed' /\ Only(s) /\ Good(s)'
    BY <2>1, BeginStep, LoopStep, ReadStep, EndStep, OutsideStep, TakeStep
       DEF Whole, Goroutine, Handler
  <2>3. \A t \in Streams : Good(t)'
    BY <2>2, Untouched DEF Whole, Only
  <2>4. LoadOK' /\ Counts'
    BY <2>1, <2>2, LoadStep DEF Whole
  <2>. QED
    BY <2>2, <2>3, <2>4 DEF Whole
<1>. QED
  BY <1>1, <1>2

\* The strengthening holds throughout.
LEMMA Invariance == Spec => []IInv
<1>1. Whole => IInv
  BY TypeSplit DEF Whole, IInv
<1>. QED
  BY <1>1, InitWhole, StepWhole, PTL DEF Spec

\* The bookkeeping of runStreamWithFallback and finalizeStream, whatever fails, is retried or
\* disconnects: types and bounds, row and charge agree in the end, a completion is stored first.
THEOREM SettledCorrect == Spec => []StreamSettled
<1>1. IInv => StreamSettled
  BY DEF IInv, StreamSettled, ChargeMatchesRow, StoredBeforeCompleted, Good, BooksOK, Agreed, Stored
<1>. QED
  BY <1>1, Invariance, PTL

\* The content that one client receives comes from one provider or one cached response.
THEOREM SourceCorrect == Spec => []OneSource
<1>1. ASSUME IInv PROVE OneSource
  <2> SUFFICES ASSUME NEW s \in Streams PROVE Cardinality(from[s]) <= 1
    BY DEF OneSource
  <2>1. from[s] = {} \/ from[s] = {Source(s)}
    BY <1>1 DEF IInv, Good, SourceOK
  <2>2. Cardinality({}) = 0 /\ Cardinality({Source(s)}) = 1
    BY FS_EmptySet, FS_Singleton
  <2>. QED
    BY <2>1, <2>2
<1>. QED
  BY <1>1, Invariance, PTL

\* Without retries the load of a provider is the number of streams that it serves.
THEOREM LoadCorrect == Spec => [](~Retry => LoadExact)
<1>1. IInv => (~Retry => LoadExact)
  BY DEF IInv, LoadOK, LoadExact
<1>. QED
  BY <1>1, Invariance, PTL

\* The same for the streams that are checked without retries beside those with them.
THEOREM PlainLoadCorrect ==
  ASSUME ~Retry
  PROVE  StreamSpec => []PlainLoadExact
<1> DEFINE P == part = "plain" => Whole
<1>1. StreamInit => P
  BY InitWhole DEF StreamInit
<1>2. P /\ [StreamNext]_<<vars, part>> => P'
  <2> SUFFICES ASSUME P, [StreamNext]_<<vars, part>>, part' = "plain" PROVE Whole'
    OBVIOUS
  <2>1. part = "plain" /\ [Next]_vars
    BY DEF StreamNext
  <2>. QED
    BY <2>1, StepWhole
<1>3. P => PlainLoadExact
  BY TypeSplit DEF Whole, LoadOK, LoadExact, PlainLoadExact
<1>. QED
  BY <1>1, <1>2, <1>3, PTL DEF StreamSpec
=============================================================================

------------------------------ MODULE EventBus ------------------------------
(***************************************************************************)
(* The persistence event bus of internal/pkg/eventbus/bus.go: a buffered   *)
(* channel with worker goroutines, an optional Kafka topic (one partition  *)
(* with one reader of the consumer group), and Close.  Every event is      *)
(* published once, by a goroutine of its own.                              *)
(***************************************************************************)
EXTENDS Naturals, Sequences, SequencesExt

CONSTANTS
    Events,
    Handled,       \* events whose type has a registered handler
    Workers,
    Idle, Gone,    \* a worker without an event; a worker that has returned
    Buffer,        \* capacity of the channel
    Kafka,         \* a Kafka writer and reader are configured
    SlowHandlers,  \* handlers may outlast the 30 s that Close waits
    MaxCrash       \* bound: crashes of the process

ASSUME BusAssumption ==
    /\ Handled \subseteq Events
    /\ Idle \notin Events /\ Gone \notin Events /\ Idle # Gone
    /\ Buffer \in Nat \ {0}
    /\ Kafka \in BOOLEAN
    /\ SlowHandlers \in BOOLEAN
    /\ MaxCrash \in Nat

VARIABLES
    pub,        \* progress of the publication of an event
    queue,      \* the events in the channel
    worker,     \* the event a worker runs, Idle or Gone
    closed,     \* the flag read by Publish and PublishEvent
    chOpen,     \* close(b.ch) has not been executed
    ctxDone,    \* the context of the workers and readers is cancelled
    closer,     \* progress of Close
    log,        \* the Kafka partition
    committed,  \* committed offset of the consumer group
    pos,        \* messages fetched by the reader
    reader,     \* what the reader is doing
    runs,       \* history: handler invocations of an event
    ok,         \* history: a handler of the event has returned nil
    crashes     \* crashes so far

busVars   == <<queue, worker, closed, chOpen, ctxDone, closer>>
kafkaVars == <<log, committed, pos, reader>>
vars == <<pub, queue, worker, closed, chOpen, ctxDone, closer,
          log, committed, pos, reader, runs, ok, crashes>>

Init ==
    /\ pub = [e \in Events |-> "ready"]
    /\ queue = <<>>
    /\ worker = [w \in Workers |-> Idle]
    /\ closed = FALSE
    /\ chOpen = TRUE
    /\ ctxDone = FALSE
    /\ closer = "open"
    /\ log = <<>>
    /\ committed = 0
    /\ pos = 0
    /\ reader = IF Kafka THEN "fetch" ELSE "gone"
    /\ runs = [e \in Events |-> 0]
    /\ ok = [e \in Events |-> FALSE]
    /\ crashes = 0

\* A handler runs on e and returns nil or an error; panics are recovered.
Invoke(e) ==
    /\ runs' = [runs EXCEPT ![e] = @ + 1]
    /\ \E success \in BOOLEAN : ok' = [ok EXCEPT ![e] = @ \/ success]

Move(e, to) == pub' = [pub EXCEPT ![e] = to]

-----------------------------------------------------------------------------
(* PublishEvent.                                                            *)

PublishEvent(e) ==
    /\ pub[e] = "ready"
    /\ Move(e, IF closed THEN "refused" ELSE IF Kafka THEN "write" ELSE "local")
    /\ UNCHANGED <<busVars, kafkaVars, runs, ok, crashes>>

\* The write succeeds, fails, or fails after the broker has stored the message;
\* Close closes the writer last.
WriteKafka(e) ==
    /\ pub[e] = "write"
    /\ \/ /\ closer \notin {"returned", "timedout"}
          /\ Move(e, "logged") \/ Move(e, "local")
          /\ log' = Append(log, e)
       \/ Move(e, "local") /\ UNCHANGED log
    /\ UNCHANGED <<busVars, committed, pos, reader, runs, ok, crashes>>

\* dispatchEventInMemory up to the flag of Publish.
DispatchEventInMemory(e) ==
    /\ pub[e] = "local"
    /\ Move(e, IF e \notin Handled THEN "refused" ELSE IF closed THEN "inline" ELSE "send")
    /\ UNCHANGED <<busVars, kafkaVars, runs, ok, crashes>>

WhenSent == "queued"

\* Mutant: a full channel drops the event.
WhenFull_Drops == "refused"
WhenFull == "inline"

HasRoom == Len(queue) < Buffer

\* The select of Publish.  A send on a closed channel panics.
SendToChannel(e) ==
    /\ pub[e] = "send"
    /\ \/ ~chOpen /\ Move(e, "panicked") /\ UNCHANGED queue
       \/ chOpen /\ HasRoom /\ Move(e, WhenSent) /\ queue' = Append(queue, e)
       \/ chOpen /\ ~HasRoom /\ Move(e, WhenFull) /\ UNCHANGED queue
    /\ UNCHANGED <<worker, closed, chOpen, ctxDone, closer, kafkaVars, runs, ok, crashes>>

\* The channel was full or the bus is closing: the handler runs here.
RunInline(e) ==
    /\ pub[e] = "inline"
    /\ Move(e, "inlined")
    /\ Invoke(e)
    /\ UNCHANGED <<busVars, kafkaVars, crashes>>

-----------------------------------------------------------------------------
(* workerLoop.                                                              *)

TakeFromChannel(w) ==
    /\ worker[w] = Idle
    /\ queue # <<>>
    /\ worker' = [worker EXCEPT ![w] = Head(queue)]
    /\ queue' = Tail(queue)
    /\ UNCHANGED <<pub, closed, chOpen, ctxDone, closer, kafkaVars, runs, ok, crashes>>

InvokeHandler(w) ==
    /\ worker[w] \in Events
    /\ Invoke(worker[w])
    /\ worker' = [worker EXCEPT ![w] = Idle]
    /\ UNCHANGED <<pub, queue, closed, chOpen, ctxDone, closer, kafkaVars, crashes>>

\* The channel is closed and empty, or the context is done and it is empty.
MayReturn == queue = <<>> /\ (~chOpen \/ ctxDone)

WorkerReturns(w) ==
    /\ worker[w] = Idle
    /\ MayReturn
    /\ worker' = [worker EXCEPT ![w] = Gone]
    /\ UNCHANGED <<pub, queue, closed, chOpen, ctxDone, closer, kafkaVars, runs, ok, crashes>>

-----------------------------------------------------------------------------
(* kafkaReaderLoop.                                                         *)

\* FetchMessage moves on to the next message whatever became of the last one.
FetchMessage ==
    /\ reader = "fetch"
    /\ ~ctxDone
    /\ pos < Len(log)
    /\ pos' = pos + 1
    /\ reader' = "handle"
    /\ UNCHANGED <<pub, busVars, log, committed, runs, ok, crashes>>

\* handleKafkaMessage: a message without a handler is committed unhandled; an
\* error of the handler leaves the message uncommitted.
HandleKafkaMessage ==
    LET e == log[pos] IN
    /\ reader = "handle"
    /\ IF e \in Handled
       THEN /\ runs' = [runs EXCEPT ![e] = @ + 1]
            /\ \E success \in BOOLEAN :
                 /\ ok' = [ok EXCEPT ![e] = @ \/ success]
                 /\ reader' = IF success THEN "commit" ELSE "fetch"
       ELSE reader' = "commit" /\ UNCHANGED <<runs, ok>>
    /\ UNCHANGED <<pub, busVars, log, committed, pos, crashes>>

\* Mutant: the offset after the fetched message is committed.
CommitOffset_Next == IF pos < Len(log) THEN pos + 1 ELSE pos
CommitOffset == pos

\* CommitMessages fails when the context is cancelled, and may fail anyway.
CommitMessages ==
    /\ reader = "commit"
    /\ reader' = "fetch"
    /\ \/ ~ctxDone /\ committed' = CommitOffset
       \/ UNCHANGED committed
    /\ UNCHANGED <<pub, busVars, log, pos, runs, ok, crashes>>

ReaderReturns ==
    /\ reader = "fetch"
    /\ ctxDone
    /\ reader' = "gone"
    /\ UNCHANGED <<pub, busVars, log, committed, pos, runs, ok, crashes>>

-----------------------------------------------------------------------------
(* Close and crashes.                                                       *)

CloseSetsFlag ==
    /\ closer = "open"
    /\ closed' = TRUE
    /\ closer' = IF Kafka THEN "cancel" ELSE "close"
    /\ UNCHANGED <<pub, queue, worker, chOpen, ctxDone, kafkaVars, runs, ok, crashes>>

\* With Kafka the context is cancelled before the channel is closed.
CloseCancels ==
    /\ closer = "cancel"
    /\ ctxDone' = TRUE
    /\ closer' = "close"
    /\ UNCHANGED <<pub, queue, worker, closed, chOpen, kafkaVars, runs, ok, crashes>>

CloseClosesChannel ==
    /\ closer = "close"
    /\ chOpen' = FALSE
    /\ closer' = "wait"
    /\ UNCHANGED <<pub, queue, worker, closed, ctxDone, kafkaVars, runs, ok, crashes>>

CloseReturns ==
    /\ closer = "wait"
    /\ (\A w \in Workers : worker[w] = Gone) /\ reader = "gone"
    /\ closer' = "returned"
    /\ ctxDone' = TRUE
    /\ UNCHANGED <<pub, queue, worker, closed, chOpen, kafkaVars, runs, ok, crashes>>

CloseTimesOut ==
    /\ closer = "wait"
    /\ SlowHandlers
    /\ closer' = "timedout"
    /\ ctxDone' = TRUE
    /\ UNCHANGED <<pub, queue, worker, closed, chOpen, kafkaVars, runs, ok, crashes>>

\* The process dies and a new one starts.  The channel is lost; the reader
\* resumes at the committed offset.
Crash ==
    /\ crashes < MaxCrash
    /\ crashes' = crashes + 1
    /\ pub' = [e \in Events |-> IF pub[e] \in {"ready", "logged"} THEN pub[e] ELSE "lost"]
    /\ queue' = <<>>
    /\ worker' = [w \in Workers |-> Idle]
    /\ closed' = FALSE /\ chOpen' = TRUE /\ ctxDone' = FALSE /\ closer' = "open"
    /\ pos' = committed
    /\ reader' = IF Kafka THEN "fetch" ELSE "gone"
    /\ UNCHANGED <<log, committed, runs, ok>>

Publisher(e) ==
    \/ PublishEvent(e)
    \/ WriteKafka(e)
    \/ DispatchEventInMemory(e)
    \/ SendToChannel(e)
    \/ RunInline(e)

WorkerStep(w) == TakeFromChannel(w) \/ InvokeHandler(w) \/ WorkerReturns(w)

ReaderStep == FetchMessage \/ HandleKafkaMessage \/ CommitMessages \/ ReaderReturns

CloseStep ==
    \/ CloseCancels
    \/ CloseClosesChannel
    \/ CloseReturns

Terminated == closer \in {"returned", "timedout"} /\ UNCHANGED vars

Next ==
    \/ \E e \in Events : Publisher(e)
    \/ \E w \in Workers : WorkerStep(w)
    \/ ReaderStep
    \/ CloseSetsFlag
    \/ CloseStep
    \/ CloseTimesOut
    \/ Crash
    \/ Terminated

Spec == Init /\ [][Next]_vars

\* Goroutines that can run do; nothing makes a caller publish or Close begin.
Fairness ==
    /\ \A e \in Events : WF_vars(pub[e] # "ready" /\ Publisher(e))
    /\ \A w \in Workers : WF_vars(WorkerStep(w))
    /\ WF_vars(ReaderStep)
    /\ WF_vars(CloseStep)

FairSpec == Spec /\ Fairness

-----------------------------------------------------------------------------
(* Properties.                                                              *)

\* The channel, the goroutines and the partition keep their types.
TypeOK ==
    /\ pub \in [Events -> {"ready", "write", "logged", "local", "send", "queued", "inline",
                           "inlined", "refused", "panicked", "lost"}]
    /\ queue \in Seq(Events) /\ Len(queue) <= Buffer
    /\ worker \in [Workers -> Events \cup {Idle, Gone}]
    /\ closed \in BOOLEAN /\ chOpen \in BOOLEAN /\ ctxDone \in BOOLEAN
    /\ closer \in {"open", "cancel", "close", "wait", "returned", "timedout"}
    /\ log \in Seq(Events)
    /\ committed \in 0..Len(log) /\ pos \in 0..Len(log)
    /\ reader \in {"fetch", "handle", "commit", "gone"}
    /\ runs \in [Events -> Nat]
    /\ ok \in [Events -> BOOLEAN]
    /\ crashes \in Nat

\* An event that never reached Kafka is handled at most once, whether the
\* channel took it, was full or was closing.
HandledAtMostOnce ==
    \A e \in Events : ~Contains(log, e) => runs[e] <= 1

\* The committed offset never passes a message that was not given to its
\* handler, also across crashes.
CommittedWasHandled ==
    \A o \in 1..committed : log[o] \in Handled => runs[log[o]] > 0

\* What the bus does with an event, by channel or by topic: nothing twice unless Kafka has it,
\* and nothing passed over by a committed offset.
DeliverySound == TypeOK /\ HandledAtMostOnce /\ CommittedWasHandled

\* Once PublishEvent has taken the in-memory path its event is handled, even
\* while the bus closes, unless the send panics or the process dies.
DispatchedIsHandled ==
    \A e \in Handled :
        pub[e] \in {"local", "send", "queued", "inline"} ~>
            runs[e] > 0 \/ pub[e] \in {"panicked", "lost"}

\* Close comes to an end: it never waits for ever for workers or the reader.
CloseEnds == closer \notin {"open", "timedout"} ~> closer \in {"returned", "timedout", "open"}

\* A message whose handler returned an error is not committed.
FailedIsNotCommitted ==
    \A o \in 1..committed : log[o] \in Handled => ok[log[o]]

=============================================================================

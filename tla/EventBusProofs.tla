--------------------------- MODULE EventBusProofs ---------------------------
(***************************************************************************)
(* Proofs about EventBus for any number of events and workers, any channel  *)
(* and any number of crashes, with and without Kafka.                       *)
(***************************************************************************)
EXTENDS EventBus, TLAPS

-----------------------------------------------------------------------------
(* The strengthening: where an event that the channel took is.              *)

\* The channel holds an event once, and only one that a publisher has sent.
ChannelOnce ==
    /\ \A i, j \in 1..Len(queue) : queue[i] = queue[j] => i = j
    /\ \A i \in 1..Len(queue) : pub[queue[i]] = "queued"

\* A worker runs an event that was sent, that is no longer in the channel and that no
\* other worker runs.
WorkerAlone ==
    \A w \in Workers : worker[w] \in Events =>
        /\ pub[worker[w]] = "queued"
        /\ \A i \in 1..Len(queue) : queue[i] # worker[w]
        /\ \A v \in Workers : worker[v] = worker[w] => v = w

\* Where a publisher is before its event has been given to a handler.
Before == {"ready", "write", "local", "send", "inline"}

\* The event is still to be run: its publisher, the channel or a worker has it.
Waiting(e) ==
    \/ pub[e] \in Before
    \/ \E i \in 1..Len(queue) : queue[i] = e
    \/ \E w \in Workers : worker[w] = e

\* An event that Kafka does not have is run at most once, and not before its turn.
RunOnce ==
    \A e \in Events : ~Contains(log, e) =>
        runs[e] <= 1 /\ (Waiting(e) => runs[e] = 0)

\* What the reader has passed was given to its handler, but for the message in hand.
FetchedWasHandled ==
    /\ reader = "handle" => pos > 0
    /\ \A o \in 1..pos : log[o] \in Handled =>
          runs[log[o]] > 0 \/ (reader = "handle" /\ o = pos)

IInv ==
    /\ TypeOK
    /\ ChannelOnce
    /\ WorkerAlone
    /\ RunOnce
    /\ FetchedWasHandled
    /\ CommittedWasHandled

-----------------------------------------------------------------------------
(* Types.                                                                   *)

States == {"ready", "write", "logged", "local", "send", "queued", "inline", "inlined",
           "refused", "panicked", "lost"}

\* A publisher moves on.
LEMMA MoveType ==
  ASSUME TypeOK, NEW e \in Events, NEW to \in States, Move(e, to)
  PROVE  pub' \in [Events -> States]
BY DEF TypeOK, Move, States

\* A handler runs: its count goes up by one.
LEMMA InvokeType ==
  ASSUME TypeOK, NEW e \in Events, Invoke(e)
  PROVE  /\ runs' \in [Events -> Nat]
         /\ ok' \in [Events -> BOOLEAN]
         /\ runs'[e] = runs[e] + 1
         /\ \A f \in Events : f # e => runs'[f] = runs[f]
<1>1. runs' = [runs EXCEPT ![e] = runs[e] + 1]
  BY DEF Invoke
<1>2. runs[e] \in Nat
  BY DEF TypeOK
<1>3. PICK success \in BOOLEAN : ok' = [ok EXCEPT ![e] = ok[e] \/ success]
  BY DEF Invoke
<1>4. ok' \in [Events -> BOOLEAN]
  BY <1>3 DEF TypeOK
<1>5. runs \in [Events -> Nat]
  BY DEF TypeOK
<1>. QED
  BY <1>1, <1>2, <1>4, <1>5

\* An event is appended to a sequence of events.
LEMMA AppendType ==
  ASSUME NEW q \in Seq(Events), NEW e \in Events
  PROVE  /\ Append(q, e) \in Seq(Events)
         /\ Len(Append(q, e)) = Len(q) + 1
         /\ \A i \in 1..Len(q) : Append(q, e)[i] = q[i]
         /\ Append(q, e)[Len(q) + 1] = e
         /\ Len(q) \in Nat
OBVIOUS

\* The first event is taken from a sequence of events.
LEMMA TailType ==
  ASSUME NEW q \in Seq(Events), q # <<>>
  PROVE  /\ Head(q) \in Events
         /\ Tail(q) \in Seq(Events)
         /\ Len(Tail(q)) = Len(q) - 1
         /\ \A i \in 1..(Len(q) - 1) : Tail(q)[i] = q[i + 1]
         /\ Head(q) = q[1]
         /\ Len(q) \in Nat \ {0}
OBVIOUS

\* The first state has its types.
LEMMA InitType == Init => TypeOK
<1> SUFFICES ASSUME Init PROVE TypeOK
  OBVIOUS
<1>1. queue \in Seq(Events) /\ Len(queue) <= Buffer /\ log \in Seq(Events) /\ Len(log) = 0
  BY BusAssumption DEF Init
<1>2. reader \in {"fetch", "gone"}
  BY DEF Init
<1>3. ok \in [Events -> BOOLEAN] /\ closed \in BOOLEAN /\ chOpen \in BOOLEAN /\ ctxDone \in BOOLEAN
  BY DEF Init
<1>4. pub \in [Events -> States] /\ worker \in [Workers -> Events \cup {Idle, Gone}]
      /\ runs \in [Events -> Nat]
  BY DEF Init, States
<1>. QED
  BY <1>1, <1>2, <1>3, <1>4 DEF Init, TypeOK, States

\* Every step keeps the types; the channel stays within its capacity.
LEMMA StepType == TypeOK /\ [Next]_vars => TypeOK'
<1> SUFFICES ASSUME TypeOK, [Next]_vars PROVE TypeOK'
  OBVIOUS
<1> USE DEF busVars, kafkaVars
<1>1. ASSUME NEW e \in Events, PublishEvent(e) PROVE TypeOK'
  <2>1. pub' \in [Events -> States]
    BY <1>1, MoveType DEF PublishEvent, States
  <2>. QED
    BY <1>1, <2>1 DEF PublishEvent, TypeOK, States
<1>2. ASSUME NEW e \in Events, WriteKafka(e) PROVE TypeOK'
  <2>1. pub' \in [Events -> States]
    BY <1>2, MoveType DEF WriteKafka, States
  <2>2. log' \in Seq(Events) /\ Len(log') >= Len(log) /\ Len(log) \in Nat /\ Len(log') \in Nat
    <3>1. log \in Seq(Events)
      BY DEF TypeOK
    <3>2. log' = log \/ log' = Append(log, e)
      BY <1>2 DEF WriteKafka
    <3>. QED
      BY <3>1, <3>2, AppendType
  <2>3. committed' \in 0..Len(log') /\ pos' \in 0..Len(log')
    BY <1>2, <2>2 DEF WriteKafka, TypeOK
  <2>. QED
    BY <1>2, <2>1, <2>2, <2>3 DEF WriteKafka, TypeOK, States
<1>3. ASSUME NEW e \in Events, DispatchEventInMemory(e) PROVE TypeOK'
  <2>1. pub' \in [Events -> States]
    BY <1>3, MoveType DEF DispatchEventInMemory, States
  <2>. QED
    BY <1>3, <2>1 DEF DispatchEventInMemory, TypeOK, States
<1>4. ASSUME NEW e \in Events, SendToChannel(e) PROVE TypeOK'
  <2>1. pub' \in [Events -> States]
    BY <1>4, MoveType DEF SendToChannel, States, WhenSent, WhenFull
  <2>2. queue' \in Seq(Events) /\ Len(queue') <= Buffer
    <3>1. queue \in Seq(Events) /\ Len(queue) <= Buffer
      BY DEF TypeOK
    <3>2. CASE UNCHANGED queue
      BY <3>1, <3>2
    <3>3. CASE HasRoom /\ queue' = Append(queue, e)
      BY <3>1, <3>3, AppendType, BusAssumption DEF HasRoom
    <3>. QED
      BY <1>4, <3>2, <3>3 DEF SendToChannel
  <2>. QED
    BY <1>4, <2>1, <2>2 DEF SendToChannel, TypeOK, States
<1>5. ASSUME NEW e \in Events, RunInline(e) PROVE TypeOK'
  <2>1. pub' \in [Events -> States]
    BY <1>5, MoveType DEF RunInline, States
  <2>2. runs' \in [Events -> Nat] /\ ok' \in [Events -> BOOLEAN]
    BY <1>5, InvokeType DEF RunInline
  <2>. QED
    BY <1>5, <2>1, <2>2 DEF RunInline, TypeOK, States
<1>6. ASSUME NEW w \in Workers, TakeFromChannel(w) PROVE TypeOK'
  <2>1. queue' \in Seq(Events) /\ Len(queue') <= Buffer /\ Head(queue) \in Events
    BY <1>6, TailType, BusAssumption DEF TakeFromChannel, TypeOK
  <2>2. worker' \in [Workers -> Events \cup {Idle, Gone}]
    BY <1>6, <2>1 DEF TakeFromChannel, TypeOK
  <2>. QED
    BY <1>6, <2>1, <2>2 DEF TakeFromChannel, TypeOK
<1>7. ASSUME NEW w \in Workers, InvokeHandler(w) PROVE TypeOK'
  <2>1. runs' \in [Events -> Nat] /\ ok' \in [Events -> BOOLEAN]
    BY <1>7, InvokeType DEF InvokeHandler
  <2>2. worker' \in [Workers -> Events \cup {Idle, Gone}]
    BY <1>7 DEF InvokeHandler, TypeOK
  <2>. QED
    BY <1>7, <2>1, <2>2 DEF InvokeHandler, TypeOK
<1>8. ASSUME NEW w \in Workers, WorkerReturns(w) PROVE TypeOK'
  <2>1. worker' \in [Workers -> Events \cup {Idle, Gone}]
    BY <1>8 DEF WorkerReturns, TypeOK
  <2>. QED
    BY <1>8, <2>1 DEF WorkerReturns, TypeOK
<1>9. CASE FetchMessage
  <2>1. pos' \in 0..Len(log)
    BY <1>9 DEF FetchMessage, TypeOK
  <2>. QED
    BY <1>9, <2>1 DEF FetchMessage, TypeOK
<1>10. CASE HandleKafkaMessage
  <2>1. runs' \in [Events -> Nat]
    <3>1. runs \in [Events -> Nat]
      BY DEF TypeOK
    <3>2. runs' = runs \/ \E e \in Events : runs' = [runs EXCEPT ![e] = @ + 1]
      BY <1>10 DEF HandleKafkaMessage, TypeOK
    <3> QED BY <3>1, <3>2
  <2>2. ok' \in [Events -> BOOLEAN]
    <3>1. CASE UNCHANGED ok
      BY <3>1 DEF TypeOK
    <3>2. ASSUME NEW success \in BOOLEAN, ok' = [ok EXCEPT ![log[pos]] = ok[log[pos]] \/ success]
          PROVE  ok' \in [Events -> BOOLEAN]
      BY <3>2 DEF TypeOK
    <3>. QED
      BY <1>10, <3>1, <3>2 DEF HandleKafkaMessage
  <2>3. reader' \in {"fetch", "commit"}
    BY <1>10 DEF HandleKafkaMessage
  <2>. QED
    BY <1>10, <2>1, <2>2, <2>3 DEF HandleKafkaMessage, TypeOK
<1>11. CASE CommitMessages
  <2>1. committed' \in 0..Len(log)
    BY <1>11 DEF CommitMessages, CommitOffset, TypeOK
  <2>. QED
    BY <1>11, <2>1 DEF CommitMessages, TypeOK
<1>12. CASE ReaderReturns
  BY <1>12 DEF ReaderReturns, TypeOK
<1>13. CASE CloseSetsFlag
  BY <1>13 DEF CloseSetsFlag, TypeOK
<1>14. CASE CloseStep \/ CloseTimesOut
  BY <1>14 DEF CloseStep, CloseCancels, CloseClosesChannel, CloseReturns, CloseTimesOut, TypeOK
<1>15. CASE Crash
  <2>1. pub' \in [Events -> States]
    BY <1>15 DEF Crash, TypeOK, States
  <2>2. queue' \in Seq(Events) /\ Len(queue') <= Buffer
    BY <1>15, BusAssumption DEF Crash
  <2>3. worker' \in [Workers -> Events \cup {Idle, Gone}]
    BY <1>15 DEF Crash
  <2>4. reader' \in {"fetch", "gone"} /\ pos' \in 0..Len(log) /\ crashes' \in Nat
    BY <1>15 DEF Crash, TypeOK
  <2>. QED
    BY <1>15, <2>1, <2>2, <2>3, <2>4 DEF Crash, TypeOK, States
<1>16. CASE UNCHANGED vars
  BY <1>16 DEF vars, TypeOK
<1>. QED
  BY <1>1, <1>2, <1>3, <1>4, <1>5, <1>6, <1>7, <1>8, <1>9, <1>10, <1>11, <1>12, <1>13, <1>14,
     <1>15, <1>16
     DEF Next, Publisher, WorkerStep, ReaderStep, Terminated

-----------------------------------------------------------------------------
(* The channel and the workers.                                             *)

\* A publisher that is not at the channel moves: neither the channel nor a worker has its event.
LEMMA PublisherAlone ==
  ASSUME TypeOK, ChannelOnce, WorkerAlone, UNCHANGED <<queue, worker>>,
         NEW e \in Events, pub[e] # "queued", NEW to \in States, Move(e, to)
  PROVE  ChannelOnce' /\ WorkerAlone'
<1>1. \A f \in Events : f # e => pub'[f] = pub[f]
  BY DEF TypeOK, Move
<1>2. \A i \in 1..Len(queue) : queue[i] \in Events
  BY DEF TypeOK
<1>. QED
  BY <1>1, <1>2 DEF ChannelOnce, WorkerAlone

\* Nothing of the channel, the workers or the publishers changes.
LEMMA ChannelUnchanged ==
  ASSUME ChannelOnce, WorkerAlone, UNCHANGED <<queue, worker, pub>>
  PROVE  ChannelOnce' /\ WorkerAlone'
BY DEF ChannelOnce, WorkerAlone

\* Every step keeps an event in one place: its publisher, the channel or one worker.
LEMMA StepChannel ==
  ASSUME TypeOK, ChannelOnce, WorkerAlone, [Next]_vars
  PROVE  ChannelOnce' /\ WorkerAlone'
<1> USE DEF busVars, kafkaVars
<1>1. ASSUME NEW e \in Events, PublishEvent(e) \/ WriteKafka(e) \/ DispatchEventInMemory(e) \/ RunInline(e)
      PROVE  ChannelOnce' /\ WorkerAlone'
  <2>1. UNCHANGED <<queue, worker>> /\ pub[e] # "queued"
    BY <1>1 DEF PublishEvent, WriteKafka, DispatchEventInMemory, RunInline
  <2>2. \E to \in States : Move(e, to)
    BY <1>1 DEF PublishEvent, WriteKafka, DispatchEventInMemory, RunInline, States
  <2>. QED
    BY <2>1, <2>2, PublisherAlone
<1>2. ASSUME NEW e \in Events, SendToChannel(e) PROVE ChannelOnce' /\ WorkerAlone'
  <2>1. pub[e] = "send" /\ UNCHANGED worker
    BY <1>2 DEF SendToChannel
  <2>2. CASE UNCHANGED queue
    <3>1. \E to \in States : Move(e, to)
      BY <1>2 DEF SendToChannel, WhenSent, WhenFull, States
    <3>. QED
      BY <2>1, <2>2, <3>1, PublisherAlone
  <2>3. CASE Move(e, "queued") /\ queue' = Append(queue, e)
    <3>1. pub' = [pub EXCEPT ![e] = "queued"] /\ pub \in [Events -> States] /\ queue \in Seq(Events)
      BY <2>3 DEF Move, TypeOK, States
    <3>2. /\ Len(queue') = Len(queue) + 1 /\ Len(queue) \in Nat
          /\ \A i \in 1..Len(queue) : queue'[i] = queue[i] /\ queue[i] # e /\ queue[i] \in Events
          /\ queue'[Len(queue) + 1] = e
      BY <2>1, <2>3, <3>1, AppendType DEF ChannelOnce
    <3>3. \A w \in Workers : worker[w] # e
      BY <2>1 DEF WorkerAlone
    <3>4. ChannelOnce'
      BY <3>1, <3>2 DEF ChannelOnce
    <3>5. WorkerAlone'
      BY <2>1, <3>1, <3>2, <3>3 DEF WorkerAlone
    <3>. QED
      BY <3>4, <3>5
  <2>. QED
    BY <1>2, <2>2, <2>3 DEF SendToChannel, WhenSent
<1>3. ASSUME NEW w \in Workers, TakeFromChannel(w) PROVE ChannelOnce' /\ WorkerAlone'
  <2>1. /\ worker' = [worker EXCEPT ![w] = queue[1]] /\ UNCHANGED pub
        /\ Len(queue') = Len(queue) - 1 /\ Len(queue) \in Nat \ {0}
        /\ \A i \in 1..(Len(queue) - 1) : queue'[i] = queue[i + 1]
        /\ queue[1] \in Events
    BY <1>3, TailType DEF TakeFromChannel, TypeOK
  <2>2. ChannelOnce'
    <3>1. \A i \in 1..Len(queue') : i + 1 \in 1..Len(queue) /\ queue'[i] = queue[i + 1]
      BY <2>1
    <3>2. \A i, j \in 1..Len(queue') : queue'[i] = queue'[j] => i + 1 = j + 1
      BY <3>1 DEF ChannelOnce
    <3>3. \A i, j \in 1..Len(queue') : i + 1 = j + 1 => i = j
      BY <2>1
    <3>4. \A i \in 1..Len(queue') : pub'[queue'[i]] = "queued"
      BY <2>1, <3>1 DEF ChannelOnce
    <3> QED BY <3>2, <3>3, <3>4 DEF ChannelOnce
  <2>3. \A i \in 1..Len(queue') : queue'[i] # queue[1] /\ \A v \in Workers : worker[v] # queue'[i]
    <3> SUFFICES ASSUME NEW i \in 1..Len(queue') PROVE queue'[i] # queue[1] /\ \A v \in Workers : worker[v] # queue'[i]
      OBVIOUS
    <3>1. i + 1 \in 1..Len(queue) /\ 1 \in 1..Len(queue) /\ queue'[i] = queue[i + 1] /\ i + 1 # 1
      BY <2>1
    <3>2. queue[i + 1] \in Events
      BY <3>1 DEF TypeOK
    <3>. QED
      BY <3>1, <3>2 DEF ChannelOnce, WorkerAlone
  <2>4. \A v \in Workers : worker[v] # queue[1] /\ pub[queue[1]] = "queued"
    BY <2>1 DEF ChannelOnce, WorkerAlone
  <2>5. worker \in [Workers -> Events \cup {Idle, Gone}]
    BY DEF TypeOK
  <2>6. WorkerAlone'
    <3> SUFFICES ASSUME NEW v \in Workers, worker'[v] \in Events
                 PROVE  /\ pub'[worker'[v]] = "queued"
                        /\ \A i \in 1..Len(queue') : queue'[i] # worker'[v]
                        /\ \A u \in Workers : worker'[u] = worker'[v] => u = v
      BY DEF WorkerAlone
    <3>1. CASE v = w
      BY <2>1, <2>3, <2>4, <2>5, <3>1
    <3>2. CASE v # w
      BY <2>1, <2>3, <2>4, <2>5, <3>2 DEF WorkerAlone
    <3>. QED
      BY <3>1, <3>2
  <2>. QED
    BY <2>2, <2>6
<1>4. ASSUME NEW w \in Workers, InvokeHandler(w) \/ WorkerReturns(w)
      PROVE  ChannelOnce' /\ WorkerAlone'
  <2>1. UNCHANGED <<queue, pub>> /\ \A v \in Workers : worker'[v] = worker[v] \/ worker'[v] \notin Events
    BY <1>4, BusAssumption DEF InvokeHandler, WorkerReturns, TypeOK
  <2>. QED
    BY <2>1 DEF ChannelOnce, WorkerAlone
<1>5. CASE ReaderStep \/ CloseSetsFlag \/ CloseStep \/ CloseTimesOut \/ UNCHANGED vars
  <2>1. UNCHANGED <<queue, worker, pub>>
    BY <1>5 DEF ReaderStep, FetchMessage, HandleKafkaMessage, CommitMessages, ReaderReturns,
       CloseSetsFlag, CloseStep, CloseCancels, CloseClosesChannel, CloseReturns, CloseTimesOut, vars
  <2>. QED
    BY <2>1, ChannelUnchanged
<1>6. CASE Crash
  <2>1. Len(queue') = 0 /\ \A w \in Workers : worker'[w] \notin Events
    BY <1>6, BusAssumption DEF Crash
  <2>. QED
    BY <2>1 DEF ChannelOnce, WorkerAlone
<1>. QED
  BY <1>1, <1>2, <1>3, <1>4, <1>5, <1>6 DEF Next, Publisher, WorkerStep, Terminated

-----------------------------------------------------------------------------
(* Handler runs.                                                            *)

\* The partition only grows, and an event outside it either keeps its count and waits no
\* more than before, or was waiting, is run and waits no longer.
RunFrame ==
    \A f \in Events :
        /\ Contains(log, f) => Contains(log', f)
        /\ ~Contains(log', f) =>
              \/ runs'[f] = runs[f] /\ (Waiting(f)' => Waiting(f))
              \/ runs'[f] = runs[f] + 1 /\ Waiting(f) /\ ~Waiting(f)'

\* What RunFrame describes preserves RunOnce.
LEMMA RunKept ==
  ASSUME TypeOK, RunOnce, RunFrame
  PROVE  RunOnce'
<1> SUFFICES ASSUME NEW f \in Events, ~Contains(log', f)
             PROVE  runs'[f] <= 1 /\ (Waiting(f)' => runs'[f] = 0)
  BY DEF RunOnce
<1>1. ~Contains(log, f) /\ runs[f] \in Nat
  BY DEF RunFrame, TypeOK
<1>2. runs[f] <= 1 /\ (Waiting(f) => runs[f] = 0)
  BY <1>1 DEF RunOnce
<1>3. \/ runs'[f] = runs[f] /\ (Waiting(f)' => Waiting(f))
      \/ runs'[f] = runs[f] + 1 /\ Waiting(f) /\ ~Waiting(f)'
  BY DEF RunFrame
<1>. QED
  BY <1>1, <1>2, <1>3

\* A publisher before its turn moves, and neither the channel nor a worker gets its event.
LEMMA RunPublisher ==
  ASSUME TypeOK, NEW e \in Events, pub[e] \in Before, NEW to \in States, Move(e, to),
         UNCHANGED <<queue, worker, runs>>,
         \A f \in Events : Contains(log, f) => Contains(log', f)
  PROVE  RunFrame
<1>1. \A f \in Events : f # e => pub'[f] = pub[f]
  BY DEF TypeOK, Move
<1>. QED
  BY <1>1 DEF RunFrame, Waiting

\* Every step runs an event outside the partition only when its turn comes.
LEMMA StepRunOnce ==
  ASSUME TypeOK, ChannelOnce, WorkerAlone, RunOnce, FetchedWasHandled, [Next]_vars
  PROVE  RunOnce'
<1> SUFFICES RunFrame
  BY RunKept
<1> USE DEF busVars, kafkaVars
<1>1. ASSUME NEW e \in Events, PublishEvent(e) \/ DispatchEventInMemory(e) PROVE RunFrame
  <2>1. \E to \in States : Move(e, to)
    BY <1>1 DEF PublishEvent, DispatchEventInMemory, States
  <2>2. pub[e] \in Before /\ UNCHANGED <<queue, worker, runs, log>>
    BY <1>1 DEF PublishEvent, DispatchEventInMemory, Before
  <2>. QED
    BY <2>1, <2>2, RunPublisher
<1>2. ASSUME NEW e \in Events, WriteKafka(e) PROVE RunFrame
  <2>1. \E to \in States : Move(e, to)
    BY <1>2 DEF WriteKafka, States
  <2>2. pub[e] \in Before /\ UNCHANGED <<queue, worker, runs>>
    BY <1>2 DEF WriteKafka, Before
  <2>3. log \in Seq(Events) /\ (log' = log \/ log' = Append(log, e))
    BY <1>2 DEF WriteKafka, TypeOK
  <2>4. \A f \in Events : Contains(log, f) => Contains(log', f)
    BY <2>3, AppendType DEF Contains
  <2>. QED
    BY <2>1, <2>2, <2>4, RunPublisher
<1>3. ASSUME NEW e \in Events, SendToChannel(e) PROVE RunFrame
  <2>1. pub[e] \in Before /\ UNCHANGED <<worker, runs, log>>
    BY <1>3 DEF SendToChannel, Before
  <2>2. \A f \in Events : f # e => pub'[f] = pub[f]
    BY <1>3 DEF SendToChannel, Move, TypeOK
  <2>3. \A i \in 1..Len(queue') : queue'[i] = e \/ \E j \in 1..Len(queue) : queue[j] = queue'[i]
    <3>1. queue \in Seq(Events) /\ (queue' = queue \/ queue' = Append(queue, e))
      BY <1>3 DEF SendToChannel, TypeOK
    <3>2. CASE queue' = queue
      BY <3>2
    <3>3. CASE queue' = Append(queue, e)
      BY <3>1, <3>3, AppendType
    <3>. QED
      BY <3>1, <3>2, <3>3
  <2>. QED
    BY <2>1, <2>2, <2>3 DEF RunFrame, Waiting
<1>4. ASSUME NEW e \in Events, RunInline(e) PROVE RunFrame
  <2>1. pub[e] = "inline" /\ UNCHANGED <<queue, worker, log>>
    BY <1>4 DEF RunInline
  <2>2. pub'[e] = "inlined" /\ \A f \in Events : f # e => pub'[f] = pub[f]
    BY <1>4 DEF RunInline, Move, TypeOK
  <2>3. runs'[e] = runs[e] + 1 /\ \A f \in Events : f # e => runs'[f] = runs[f]
    BY <1>4, InvokeType DEF RunInline
  <2>4. Waiting(e)
    BY <2>1 DEF Waiting, Before
  <2>5. ~Waiting(e)'
    BY <2>1, <2>2 DEF Waiting, Before, ChannelOnce, WorkerAlone
  <2>6. \A f \in Events : f # e => (Waiting(f)' => Waiting(f))
    BY <2>1, <2>2 DEF Waiting
  <2>. QED
    BY <2>1, <2>3, <2>4, <2>5, <2>6 DEF RunFrame
<1>5. ASSUME NEW w \in Workers, TakeFromChannel(w) PROVE RunFrame
  <2>1. UNCHANGED <<pub, runs, log>>
    BY <1>5 DEF TakeFromChannel
  <2>2. /\ worker' = [worker EXCEPT ![w] = queue[1]]
        /\ Len(queue') = Len(queue) - 1 /\ Len(queue) \in Nat \ {0}
        /\ \A i \in 1..(Len(queue) - 1) : queue'[i] = queue[i + 1]
    BY <1>5, TailType DEF TakeFromChannel, TypeOK
  <2>3. worker \in [Workers -> Events \cup {Idle, Gone}]
    BY DEF TypeOK
  <2>4. \A f \in Events : Waiting(f)' => Waiting(f)
    BY <2>1, <2>2, <2>3 DEF Waiting
  <2>. QED
    BY <2>1, <2>4 DEF RunFrame
<1>6. ASSUME NEW w \in Workers, InvokeHandler(w) PROVE RunFrame
  <2>1. UNCHANGED <<pub, queue, log>> /\ worker[w] \in Events
    BY <1>6 DEF InvokeHandler
  <2>2. /\ runs'[worker[w]] = runs[worker[w]] + 1
        /\ \A f \in Events : f # worker[w] => runs'[f] = runs[f]
    BY <1>6, <2>1, InvokeType DEF InvokeHandler
  <2>3. worker' = [worker EXCEPT ![w] = Idle] /\ worker \in [Workers -> Events \cup {Idle, Gone}]
    BY <1>6 DEF InvokeHandler, TypeOK
  <2>4. Waiting(worker[w])
    BY DEF Waiting
  <2>5. ~\E v \in Workers : worker'[v] = worker[w]
    BY <2>1, <2>3, BusAssumption DEF WorkerAlone
  <2>6. \A f \in Events : f = worker[w] => ~Waiting(f)'
    BY <2>1, <2>5 DEF Waiting, Before, WorkerAlone
  <2>7. \A f \in Events : Waiting(f)' => Waiting(f)
    BY <2>1, <2>3, BusAssumption DEF Waiting
  <2>. QED
    BY <2>1, <2>2, <2>4, <2>6, <2>7 DEF RunFrame
<1>7. ASSUME NEW w \in Workers, WorkerReturns(w) PROVE RunFrame
  <2>1. UNCHANGED <<pub, queue, log, runs>>
    BY <1>7 DEF WorkerReturns
  <2>2. worker' = [worker EXCEPT ![w] = Gone] /\ worker \in [Workers -> Events \cup {Idle, Gone}]
    BY <1>7 DEF WorkerReturns, TypeOK
  <2>. QED
    BY <2>1, <2>2, BusAssumption DEF RunFrame, Waiting
<1>8. CASE HandleKafkaMessage
  <2>1. UNCHANGED <<pub, queue, worker, log>>
    BY <1>8 DEF HandleKafkaMessage
  <2>2. runs' = runs \/ (log[pos] \in Events /\ runs' = [runs EXCEPT ![log[pos]] = @ + 1])
    BY <1>8, BusAssumption DEF HandleKafkaMessage
  <2>3. \A f \in Events : ~Contains(log, f) => runs'[f] = runs[f]
    <3>1. CASE pos \in 1..Len(log)
      BY <2>2, <3>1 DEF Contains, TypeOK
    <3>2. CASE pos = 0
      BY <1>8, <3>2 DEF HandleKafkaMessage, FetchedWasHandled, TypeOK
    <3>. QED
      BY <3>1, <3>2 DEF TypeOK
  <2>. QED
    BY <2>1, <2>3 DEF RunFrame, Waiting
<1>9. CASE FetchMessage \/ CommitMessages \/ ReaderReturns \/ CloseSetsFlag \/ CloseStep
           \/ CloseTimesOut \/ UNCHANGED vars
  <2>1. UNCHANGED <<pub, queue, worker, log, runs>>
    BY <1>9 DEF FetchMessage, CommitMessages, ReaderReturns, CloseSetsFlag, CloseStep, CloseCancels,
       CloseClosesChannel, CloseReturns, CloseTimesOut, vars
  <2>. QED
    BY <2>1 DEF RunFrame, Waiting
<1>10. CASE Crash
  <2>1. UNCHANGED <<log, runs>> /\ Len(queue') = 0
    BY <1>10 DEF Crash
  <2>2. \A w \in Workers : worker'[w] \notin Events
    BY <1>10, BusAssumption DEF Crash
  <2>3. \A f \in Events : pub'[f] \in Before => pub[f] \in Before
    BY <1>10 DEF Crash, Before
  <2>. QED
    BY <2>1, <2>2, <2>3 DEF RunFrame, Waiting
<1>. QED
  BY <1>1, <1>2, <1>3, <1>4, <1>5, <1>6, <1>7, <1>8, <1>9, <1>10
     DEF Next, Publisher, WorkerStep, ReaderStep, Terminated

-----------------------------------------------------------------------------
(* The reader and the committed offset.                                     *)

\* No step takes back a handler run or changes a stored message.
Grows ==
    /\ \A f \in Events : runs[f] > 0 => runs'[f] > 0
    /\ Len(log') >= Len(log) /\ \A o \in 1..Len(log) : log'[o] = log[o]

\* Every step of the bus only adds handler runs and messages.
LEMMA StepGrows ==
  ASSUME TypeOK, [Next]_vars
  PROVE  Grows /\ Len(log) \in Nat /\ Len(log') \in Nat
<1> USE DEF busVars, kafkaVars
<1>1. log \in Seq(Events) /\ Len(log) \in Nat /\ \A f \in Events : runs[f] \in Nat
  BY DEF TypeOK
<1>2. ASSUME NEW e \in Events, WriteKafka(e) PROVE Grows /\ Len(log') \in Nat
  <2>1. UNCHANGED runs /\ (log' = log \/ log' = Append(log, e))
    BY <1>2 DEF WriteKafka
  <2>. QED
    BY <1>1, <2>1, AppendType DEF Grows
<1>3. ASSUME NEW e \in Events, Invoke(e), UNCHANGED log PROVE Grows
  <2>1. runs'[e] = runs[e] + 1 /\ \A f \in Events : f # e => runs'[f] = runs[f]
    BY <1>3, InvokeType
  <2>. QED
    BY <1>1, <1>3, <2>1 DEF Grows
<1>4. ASSUME NEW e \in Events, RunInline(e) PROVE Grows /\ UNCHANGED log
  BY <1>3, <1>4 DEF RunInline
<1>5. ASSUME NEW w \in Workers, InvokeHandler(w) PROVE Grows /\ UNCHANGED log
  BY <1>3, <1>5 DEF InvokeHandler
<1>6. CASE HandleKafkaMessage
  <2>1. UNCHANGED log /\ (runs' = runs \/ runs' = [runs EXCEPT ![log[pos]] = runs[log[pos]] + 1])
    BY <1>6 DEF HandleKafkaMessage
  <2>. DEFINE e == log[pos]
  <2>2. \A f \in Events : runs[f] > 0 => runs'[f] > 0
    <3>1. runs \in [Events -> Nat]
      BY DEF TypeOK
    <3>2. ASSUME NEW f \in Events, f = e, runs' = [runs EXCEPT ![e] = runs[e] + 1]
          PROVE  runs'[f] = runs[f] + 1
      BY <3>1, <3>2
    <3>3. ASSUME NEW f \in Events, f # e, runs' = [runs EXCEPT ![e] = runs[e] + 1]
          PROVE  runs'[f] = runs[f]
      BY <3>1, <3>3
    <3>. QED
      BY <1>1, <2>1, <3>2, <3>3
  <2>. QED
    BY <1>1, <2>1, <2>2 DEF Grows
<1>7. ASSUME UNCHANGED <<runs, log>> PROVE Grows
  BY <1>7, <1>1 DEF Grows
<1>8. ASSUME NEW e \in Events, PublishEvent(e) \/ DispatchEventInMemory(e) \/ SendToChannel(e)
      PROVE  UNCHANGED <<runs, log>>
  BY <1>8 DEF PublishEvent, DispatchEventInMemory, SendToChannel
<1>9. ASSUME NEW w \in Workers, TakeFromChannel(w) \/ WorkerReturns(w) PROVE UNCHANGED <<runs, log>>
  BY <1>9 DEF TakeFromChannel, WorkerReturns
<1>10. CASE FetchMessage \/ CommitMessages \/ ReaderReturns \/ CloseSetsFlag \/ CloseStep
            \/ CloseTimesOut \/ Crash \/ UNCHANGED vars
  <2>1. UNCHANGED <<runs, log>>
    BY <1>10 DEF FetchMessage, CommitMessages, ReaderReturns, CloseSetsFlag, CloseStep, CloseCancels,
       CloseClosesChannel, CloseReturns, CloseTimesOut, Crash, vars
  <2>. QED
    BY <1>1, <1>7, <2>1
<1>. QED
  BY <1>1, <1>2, <1>4, <1>5, <1>6, <1>7, <1>8, <1>9, <1>10
     DEF Next, Publisher, WorkerStep, ReaderStep, Terminated, HandleKafkaMessage

\* A step that leaves the reader and its offsets alone keeps what was handled behind them.
LEMMA ReaderUnchanged ==
  ASSUME TypeOK, FetchedWasHandled, CommittedWasHandled, Grows,
         Len(log) \in Nat, Len(log') \in Nat,
         UNCHANGED <<committed, pos, reader>>
  PROVE  FetchedWasHandled' /\ CommittedWasHandled'
<1>1. \A o \in 1..Len(log) : log[o] \in Events /\ log'[o] = log[o]
  BY DEF TypeOK, Grows
<1>2. pos \in 0..Len(log) /\ committed \in 0..Len(log)
  BY DEF TypeOK
<1>3. FetchedWasHandled'
  BY <1>1, <1>2 DEF FetchedWasHandled, Grows
<1>4. CommittedWasHandled'
  BY <1>1, <1>2 DEF CommittedWasHandled, Grows
<1>. QED
  BY <1>3, <1>4

\* Every step keeps the handled prefix behind the reader and the committed offset.
LEMMA StepReader ==
  ASSUME TypeOK, FetchedWasHandled, CommittedWasHandled, [Next]_vars
  PROVE  FetchedWasHandled' /\ CommittedWasHandled'
<1> USE DEF busVars, kafkaVars
<1>1. Grows /\ Len(log) \in Nat /\ Len(log') \in Nat
  BY StepGrows
<1>2. pos \in 0..Len(log) /\ committed \in 0..Len(log) /\ \A o \in 1..Len(log) : log[o] \in Events
  BY DEF TypeOK
<1>3. CASE UNCHANGED <<committed, pos, reader>>
  BY <1>1, <1>3, ReaderUnchanged
<1>4. CASE FetchMessage
  <2>1. /\ pos' = pos + 1 /\ reader = "fetch" /\ reader' = "handle"
        /\ UNCHANGED <<log, runs, committed>>
    BY <1>4 DEF FetchMessage
  <2>2. FetchedWasHandled'
    BY <1>2, <2>1 DEF FetchedWasHandled
  <2>. QED
    BY <2>1, <2>2 DEF CommittedWasHandled
<1>5. CASE HandleKafkaMessage
  <2>1. reader = "handle" /\ reader' # "handle" /\ pos \in 1..Len(log) /\ UNCHANGED <<log, pos, committed>>
    BY <1>2, <1>5 DEF HandleKafkaMessage, FetchedWasHandled
  <2>2. log[pos] \in Handled => runs'[log[pos]] > 0
    BY <1>2, <1>5, <2>1 DEF HandleKafkaMessage, TypeOK
  <2>3. FetchedWasHandled'
    BY <1>1, <1>2, <2>1, <2>2 DEF FetchedWasHandled, Grows
  <2>4. CommittedWasHandled'
    BY <1>1, <1>2, <2>1 DEF CommittedWasHandled, Grows
  <2>. QED
    BY <2>3, <2>4
<1>6. CASE CommitMessages
  <2>1. /\ reader = "commit" /\ reader' = "fetch" /\ UNCHANGED <<log, runs, pos>>
        /\ committed' = pos \/ committed' = committed
    BY <1>6 DEF CommitMessages, CommitOffset
  <2>2. FetchedWasHandled'
    BY <2>1 DEF FetchedWasHandled
  <2>3. CommittedWasHandled'
    BY <2>1 DEF FetchedWasHandled, CommittedWasHandled
  <2>. QED
    BY <2>2, <2>3
<1>7. CASE ReaderReturns
  BY <1>7 DEF ReaderReturns, FetchedWasHandled, CommittedWasHandled
<1>8. CASE Crash
  <2>1. pos' = committed /\ reader' # "handle" /\ UNCHANGED <<log, runs, committed>>
    BY <1>8 DEF Crash
  <2>. QED
    BY <2>1 DEF FetchedWasHandled, CommittedWasHandled
<1>9. ASSUME NEW e \in Events, Publisher(e) PROVE UNCHANGED <<committed, pos, reader>>
  BY <1>9 DEF Publisher, PublishEvent, WriteKafka, DispatchEventInMemory, SendToChannel, RunInline
<1>10. ASSUME NEW w \in Workers, WorkerStep(w) PROVE UNCHANGED <<committed, pos, reader>>
  BY <1>10 DEF WorkerStep, TakeFromChannel, InvokeHandler, WorkerReturns
<1>11. ASSUME CloseSetsFlag \/ CloseStep \/ CloseTimesOut \/ UNCHANGED vars
       PROVE  UNCHANGED <<committed, pos, reader>>
  BY <1>11 DEF CloseSetsFlag, CloseStep, CloseCancels, CloseClosesChannel, CloseReturns,
     CloseTimesOut, vars
<1>. QED
  BY <1>3, <1>4, <1>5, <1>6, <1>7, <1>8, <1>9, <1>10, <1>11 DEF Next, ReaderStep, Terminated

-----------------------------------------------------------------------------
(* The theorems.                                                            *)

\* The strengthening holds throughout.
LEMMA Invariance == Spec => []IInv
<1>1. Init => IInv
  <2> SUFFICES ASSUME Init PROVE IInv
    OBVIOUS
  <2>1. TypeOK
    BY InitType
  <2>2. Len(queue) = 0 /\ \A w \in Workers : worker[w] \notin Events
    BY BusAssumption DEF Init
  <2>3. RunOnce
    BY DEF Init, RunOnce
  <2>4. FetchedWasHandled /\ CommittedWasHandled
    BY DEF Init, FetchedWasHandled, CommittedWasHandled
  <2>. QED
    BY <2>1, <2>2, <2>3, <2>4 DEF IInv, ChannelOnce, WorkerAlone
<1>2. IInv /\ [Next]_vars => IInv'
  BY StepType, StepChannel, StepRunOnce, StepReader DEF IInv
<1>. QED
  BY <1>1, <1>2, PTL DEF Spec

\* Whatever the channel, the workers, Close, the reader of the topic and crashes do: an event
\* that Kafka does not have is given to its handler at most once, the committed offset passes
\* no message whose handler has not run, and the channel never holds more than its capacity.
THEOREM DeliveryCorrect == Spec => []DeliverySound
<1>1. IInv => DeliverySound
  BY DEF IInv, DeliverySound, HandledAtMostOnce, RunOnce
<1>. QED
  BY <1>1, Invariance, PTL

\* The channel holds no event twice, a worker's event has left the channel, and no two
\* workers run the same event.
THEOREM ChannelExclusive == Spec => [](ChannelOnce /\ WorkerAlone)
<1>1. IInv => ChannelOnce /\ WorkerAlone
  BY DEF IInv
<1>. QED
  BY <1>1, Invariance, PTL

=============================================================================

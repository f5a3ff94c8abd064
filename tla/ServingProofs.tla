---------------------------- MODULE ServingProofs ----------------------------
(***************************************************************************)
(* Proofs about a response that is not streamed (SyncResponses) and what   *)
(* surrounds it: the order of the gateway's shutdown (GatewayLifecycle),   *)
(* the providers that requests are routed to (ProviderRegistry), the       *)
(* caches of identities (IdentityCache) and the inference orchestrator     *)
(* (InferenceOrchestrator).                                                *)
(***************************************************************************)
EXTENDS GatewayLifecycle, SyncResponses, ProviderRegistry, IdentityCache, InferenceOrchestrator,
        FiniteSetTheorems, TLAPS

-----------------------------------------------------------------------------
(* GatewayLifecycle.                                                       *)

LifeStages == {"starting", "serving", "shutdown", "draining", "hooks", "exited"}

LifeTypes ==
    /\ life \in LifeStages /\ hooksRun \in 0 .. 6
    /\ listener \in {"unset", "set", "open", "closed"}
    /\ signalled \in BOOLEAN /\ deadline \in BOOLEAN /\ tooEarly \in BOOLEAN
    /\ busAt \in {"open", "closed", "cancelled", "shut"} /\ databaseOpen \in BOOLEAN
    /\ kafka \in BOOLEAN /\ workersLeft \in BOOLEAN /\ busLate \in BOOLEAN
    /\ handling \in [Requests -> {"none", "running", "publishing", "answered", "cut"}]
    /\ record \in [Requests -> {"none", "queued", "stranded", "loose", "stored", "lost", "dropped"}]

\* Neither the bus nor the goroutines beside it hold more than they may.
LifeRoom ==
    /\ Cardinality(InChannel) <= BusRoom
    /\ Cardinality(InState("loose")) <= LooseRoom

\* Hooks run after the shutdown; once the bus's hook, the second, has returned, the bus is
\* closed, and empty unless its time was up; the database closes after the last.
HooksInOrder ==
    /\ hooksRun >= 1 => life \in {"hooks", "exited"}
    /\ hooksRun >= 2 => busAt = "shut"
    /\ \A r \in Requests : hooksRun >= 2 /\ record[r] = "queued" => busLate
    /\ ~databaseOpen => hooksRun = 6

\* Workers leave an open channel only under Kafka, and a record is stranded only by that;
\* one is dropped only by a Close that ran out of time.
BusLosses ==
    /\ busAt = "cancelled" => kafka
    /\ workersLeft => kafka
    /\ \A r \in Requests : record[r] = "stranded" => kafka
    /\ \A r \in Requests : record[r] = "dropped" => busLate

\* A shutdown that found its server has closed the listener, and waits for the
\* requests in hand unless its time is up.
ShutdownWaits ==
    /\ life \in {"draining", "hooks", "exited"} => tooEarly \/ listener = "closed"
    /\ life = "hooks" => tooEarly \/ deadline \/ \A r \in Requests : r \notin InHand
    /\ life = "exited" => \A r \in Requests : r \notin InHand

LifeInv == LifeTypes /\ LifeRoom /\ HooksInOrder /\ BusLosses /\ ShutdownWaits

\* The bus's hook is the second of six (app.go, the order of registration).
LEMMA HookOrder ==
    /\ Len(Hooks) = 6
    /\ \A n \in 0 .. 5 : Hooks[n + 1] = "eventbus" <=> n = 1
<1>1. Len(Hooks) = 6
  BY DEF Hooks
<1>2. /\ Hooks[1] # "eventbus" /\ Hooks[2] = "eventbus" /\ Hooks[3] # "eventbus"
      /\ Hooks[4] # "eventbus" /\ Hooks[5] # "eventbus" /\ Hooks[6] # "eventbus"
  BY DEF Hooks
<1>3. ASSUME NEW n \in 0 .. 5
      PROVE  Hooks[n + 1] = "eventbus" <=> n = 1
  <2>1. n = 0 \/ n = 1 \/ n = 2 \/ n = 3 \/ n = 4 \/ n = 5
    OBVIOUS
  <2> QED BY <2>1, <1>2
<1> QED BY <1>1, <1>3

LEMMA InStateFinite ==
    /\ IsFiniteSet(InState("loose")) /\ Cardinality(InState("loose")) \in Nat
    /\ IsFiniteSet(InChannel) /\ Cardinality(InChannel) \in Nat
<1>1. InState("loose") \subseteq Requests /\ InChannel \subseteq Requests
  BY DEF InState, InChannel
<1> QED BY <1>1, FS_Subset, FS_CardinalityType, LifeAssumption DEF LifeAssumption

\* A step that brings no request to a place, or one where there was room, respects the room.
LEMMA RoomKept ==
    ASSUME NEW place, NEW room \in Nat,
           IsFiniteSet(place), Cardinality(place) <= room,
           NEW next, next \subseteq place
    PROVE  Cardinality(next) <= room
<1>1. Cardinality(next) <= Cardinality(place) /\ IsFiniteSet(next)
  BY FS_Subset
<1>2. Cardinality(next) \in Nat /\ Cardinality(place) \in Nat
  BY <1>1, FS_CardinalityType
<1> QED BY <1>1, <1>2

LEMMA RoomTaken ==
    ASSUME NEW place, NEW room \in Nat, NEW r,
           IsFiniteSet(place), Cardinality(place) < room,
           NEW next, next \subseteq place \cup {r}
    PROVE  Cardinality(next) <= room
<1>1. /\ IsFiniteSet(place \cup {r})
      /\ Cardinality(place \cup {r}) = IF r \in place THEN Cardinality(place)
                                      ELSE Cardinality(place) + 1
  BY FS_AddElement
<1>2. Cardinality(next) <= Cardinality(place \cup {r}) /\ IsFiniteSet(next)
  BY <1>1, FS_Subset
<1>3. Cardinality(next) \in Nat /\ Cardinality(place) \in Nat
  BY <1>2, FS_CardinalityType
<1> QED BY <1>1, <1>2, <1>3

LEMMA LifeInitially == LifeInit => LifeInv
<1> SUFFICES ASSUME LifeInit PROVE LifeInv
  OBVIOUS
<1>0. LifeTypes
  <2>1. handling \in [Requests -> {"none", "running", "publishing", "answered", "cut"}]
    BY DEF LifeInit
  <2>2. record \in [Requests -> {"none", "queued", "stranded", "loose", "stored", "lost", "dropped"}]
    BY DEF LifeInit
  <2>3. life \in LifeStages /\ hooksRun \in 0 .. 6 /\ listener \in {"unset", "set", "open", "closed"}
    BY DEF LifeInit, LifeStages
  <2>4. /\ signalled \in BOOLEAN /\ deadline \in BOOLEAN /\ tooEarly \in BOOLEAN
        /\ kafka \in BOOLEAN /\ workersLeft \in BOOLEAN /\ busLate \in BOOLEAN
        /\ databaseOpen \in BOOLEAN /\ busAt \in {"open", "closed", "cancelled", "shut"}
    BY DEF LifeInit
  <2> QED BY <2>1, <2>2, <2>3, <2>4 DEF LifeTypes
<1>1. HooksInOrder /\ ShutdownWaits /\ BusLosses
  BY DEF LifeInit, HooksInOrder, ShutdownWaits, BusLosses
<1>2. InChannel = {} /\ InState("loose") = {}
  BY DEF LifeInit, InState, InChannel
<1>3. LifeRoom
  BY <1>2, FS_EmptySet, LifeAssumption DEF LifeRoom, LifeAssumption
<1> QED BY <1>0, <1>1, <1>3 DEF LifeInv

LEMMA LossesKept ==
    ASSUME BusLosses, UNCHANGED <<kafka, busAt, workersLeft, busLate>>, record' = record
    PROVE  BusLosses'
BY Zenon DEF BusLosses

\* The steps of Run, of the server and of the bus's Close change no record but at the exit.
LEMMA RunStep ==
    ASSUME LifeInv,
           \/ StartServer \/ ServerFails \/ BeginRun \/ Signal \/ SeeSignal \/ BeginShutdown
           \/ EndShutdown \/ TimeLimit \/ RunHook \/ CloseDatabase
           \/ CloseBus \/ WorkersLeave \/ BusLimit
    PROVE  LifeInv'
<1> USE DEF LifeInv, LifeTypes, LifeStages, HooksInOrder, ShutdownWaits, Alive, busVars
<1>1. LifeRoom' /\ record' = record /\ handling' = handling /\ InHand' = InHand
  BY DEF LifeRoom, InState, InChannel, InHand, StartServer, ServerFails, BeginRun, Signal, SeeSignal,
         BeginShutdown, EndShutdown, TimeLimit, RunHook, CloseDatabase, CloseBus, WorkersLeave, BusLimit
<1>11. CASE /\ UNCHANGED <<kafka, busAt, workersLeft, busLate>>
            /\ \/ StartServer \/ ServerFails \/ BeginRun \/ Signal \/ SeeSignal
               \/ BeginShutdown \/ EndShutdown \/ TimeLimit \/ RunHook \/ CloseDatabase
  <2>0. BusLosses'
    <3> HIDE DEF LifeTypes, LifeRoom, HooksInOrder, ShutdownWaits
    <3>1. UNCHANGED <<kafka, busAt, workersLeft, busLate>>
      BY <1>11, Zenon
    <3>2. record' = record
      BY <1>1, Zenon
    <3>3. BusLosses
      BY Zenon
    <3> QED BY <3>1, <3>2, <3>3, LossesKept, Zenon
  <2>2. CASE StartServer
    BY <1>1, <1>11, <2>0, <2>2 DEF StartServer
  <2>3. CASE ServerFails
    BY <1>1, <1>11, <2>0, <2>3 DEF ServerFails
  <2>4. CASE BeginRun \/ SeeSignal
    BY <1>1, <1>11, <2>0, <2>4 DEF BeginRun, SeeSignal
  <2>9. CASE Signal \/ TimeLimit
    <3>1. CASE Signal
      <4>1. LifeTypes'
        BY <1>1, <1>11, <3>1 DEF Signal
      <4>2. HooksInOrder' /\ ShutdownWaits'
        BY <1>1, <1>11, <3>1 DEF Signal
      <4> QED BY <1>1, <2>0, <4>1, <4>2
    <3>2. CASE TimeLimit
      <4>1. LifeTypes'
        BY <1>1, <1>11, <3>2 DEF TimeLimit
      <4>2. HooksInOrder' /\ ShutdownWaits'
        BY <1>1, <1>11, <3>2 DEF TimeLimit
      <4> QED BY <1>1, <2>0, <4>1, <4>2
    <3> QED BY <2>9, <3>1, <3>2
  <2>5. CASE BeginShutdown
    <3>1. LifeTypes'
      <4>1. CASE listener = "unset"
        BY <1>1, <1>11, <2>5, <4>1 DEF BeginShutdown
      <4>2. CASE listener # "unset"
        BY <1>1, <1>11, <2>5, <4>2 DEF BeginShutdown
      <4> QED BY <4>1, <4>2
    <3>2. HooksInOrder' /\ ShutdownWaits'
      BY <1>1, <1>11, <2>5 DEF BeginShutdown
    <3> QED BY <1>1, <2>0, <3>1, <3>2
  <2>6. CASE EndShutdown
    BY <1>1, <1>11, <2>0, <2>6 DEF EndShutdown, Drained
  <2>7. CASE RunHook
    <3>1. hooksRun \in 0 .. 5 /\ (AtBusHook <=> hooksRun = 1)
      BY <2>7, HookOrder DEF RunHook, AtBusHook
    <3>2. hooksRun = 1 => busAt = "shut" /\ \A r \in Requests : record[r] = "queued" => busLate
      BY <2>7, <3>1 DEF RunHook, InState
    <3> QED BY <1>1, <1>11, <2>0, <2>7, <3>1, <3>2 DEF RunHook
  <2>8. CASE CloseDatabase
    <3>1. hooksRun = 6 /\ life = "hooks"
      BY <2>8, HookOrder DEF CloseDatabase, MayClose
    <3>2. LifeTypes'
      <4>1. databaseOpen' \in BOOLEAN /\ life' = life /\ hooksRun' = hooksRun /\ listener' = listener
            /\ UNCHANGED <<signalled, deadline, tooEarly>>
        BY <2>8 DEF CloseDatabase
      <4> QED BY <1>1, <1>11, <4>1
    <3>3. HooksInOrder' /\ ShutdownWaits'
      BY <1>1, <1>11, <2>8, <3>1 DEF CloseDatabase
    <3> QED BY <1>1, <2>0, <3>2, <3>3
  <2> QED BY <1>11, <2>2, <2>3, <2>4, <2>5, <2>6, <2>7, <2>8, <2>9
<1>12. CASE CloseBus
  <2>1. hooksRun = 1 /\ life = "hooks"
    BY <1>12, HookOrder DEF CloseBus, AtBusHook
  <2>2. LifeTypes' /\ HooksInOrder' /\ ShutdownWaits'
    BY <1>1, <1>12, <2>1 DEF CloseBus
  <2>3. BusLosses'
    BY <1>1, <1>12 DEF CloseBus, BusLosses
  <2> QED BY <1>1, <2>2, <2>3
<1>13. CASE WorkersLeave
  <2>1. BusLosses'
    BY <1>1, <1>13 DEF WorkersLeave, BusLosses
  <2>2. HooksInOrder' /\ ShutdownWaits'
    BY <1>1, <1>13 DEF WorkersLeave
  <2>3. LifeTypes'
    BY <1>1, <1>13 DEF WorkersLeave
  <2> QED BY <1>1, <2>1, <2>2, <2>3
<1>14. CASE BusLimit
  <2>1. BusLosses'
    BY <1>1, <1>14 DEF BusLimit, BusLosses
  <2>2. HooksInOrder' /\ ShutdownWaits'
    BY <1>1, <1>14 DEF BusLimit
  <2>3. LifeTypes'
    BY <1>1, <1>14 DEF BusLimit
  <2> QED BY <1>1, <2>1, <2>2, <2>3
<1> QED BY <1>11, <1>12, <1>13, <1>14
        DEF StartServer, ServerFails, BeginRun, Signal, SeeSignal, BeginShutdown, EndShutdown,
            TimeLimit, RunHook, CloseDatabase

LEMMA ExitStep ==
    ASSUME LifeInv, ExitProcess
    PROVE  LifeInv'
<1> USE DEF LifeInv, LifeTypes, LifeStages, ExitProcess, busVars
<1>0. /\ hooksRun = 6 /\ hooksRun' = 6 /\ ~databaseOpen
      /\ \A r \in Requests : record'[r] = IF record[r] = "queued" THEN "dropped"
                                          ELSE IF record[r] = "loose" THEN "lost" ELSE record[r]
      /\ \A r \in Requests : record'[r] # "queued"
  BY HookOrder DEF Written
<1>1. InChannel' \subseteq InChannel /\ InState("loose")' \subseteq InState("loose")
  BY <1>0 DEF InState, InChannel
<1>2. LifeRoom'
  BY <1>1, InStateFinite, RoomKept, LifeAssumption DEF LifeRoom, LifeAssumption
<1>3. record' \in [Requests -> {"none", "queued", "stranded", "loose", "stored", "lost", "dropped"}]
  BY <1>0 DEF Written
<1>4. LifeTypes'
  BY <1>3
<1>5. HooksInOrder'
  BY <1>0 DEF HooksInOrder
<1>6. BusLosses'
  BY <1>0 DEF BusLosses, HooksInOrder
<1>7. ShutdownWaits'
  BY DEF ShutdownWaits, InHand
<1> QED BY <1>2, <1>4, <1>5, <1>6, <1>7

\* A record changes place for one request: what the room and the losses need of it.
LEMMA PlacedStep ==
    ASSUME LifeInv, NEW r \in Requests, NEW to,
           record' = [record EXCEPT ![r] = to],
           UNCHANGED <<busVars, databaseOpen, hooksRun, life>>,
           to \in {"stored", "lost", "loose", "queued", "stranded", "dropped"},
           to = "loose" => Cardinality(InState("loose")) < LooseRoom,
           to \in {"queued", "stranded"} => Cardinality(InChannel) < BusRoom,
           to = "queued" => busAt # "shut",
           to = "stranded" => kafka,
           to = "dropped" => busLate
    PROVE  LifeRoom' /\ HooksInOrder' /\ BusLosses'
<1> USE DEF LifeInv, LifeTypes
<1> USE LifeAssumption DEF LifeAssumption
<1>1. InChannel' \subseteq InChannel \cup {r} /\ (to \notin {"queued", "stranded"} => InChannel' \subseteq InChannel)
  BY DEF InChannel, InState
<1>2. /\ InState("loose")' \subseteq InState("loose") \cup {r}
      /\ to # "loose" => InState("loose")' \subseteq InState("loose")
  BY DEF InState
<1>3. Cardinality(InChannel') <= BusRoom
  BY <1>1, InStateFinite, RoomKept, RoomTaken DEF LifeRoom
<1>4. Cardinality(InState("loose")') <= LooseRoom
  BY <1>2, InStateFinite, RoomKept, RoomTaken DEF LifeRoom
<1>5. HooksInOrder'
  BY DEF HooksInOrder, busVars
<1>6. BusLosses'
  BY DEF BusLosses, busVars
<1> QED BY <1>3, <1>4, <1>5, <1>6 DEF LifeRoom

LEMMA RequestStep ==
    ASSUME LifeInv, NEW r \in Requests, Accept(r) \/ AnswerRequest(r) \/ Publish(r) \/ WriteRecord(r)
    PROVE  LifeInv'
<1> USE DEF LifeInv, LifeTypes, LifeStages, Alive, busVars
<1> USE LifeAssumption DEF LifeAssumption
<1>0. /\ Aside \in {"loose", "stored", "lost"}
      /\ Aside = "loose" => Cardinality(InState("loose")) < LooseRoom
  BY DEF Aside
<1>1. CASE Accept(r)
  <2>1. record' = record /\ handling' = [handling EXCEPT ![r] = "running"] /\ listener = "open"
        /\ UNCHANGED <<busVars, databaseOpen, hooksRun, life, tooEarly, listener, deadline, signalled>>
    BY <1>1 DEF Accept
  <2>2. LifeRoom' /\ HooksInOrder' /\ BusLosses'
    BY <2>1 DEF LifeRoom, HooksInOrder, BusLosses, InChannel, InState
  <2>3. ShutdownWaits'
    BY <1>1, <2>1 DEF ShutdownWaits, InHand, Accept
  <2>4. LifeTypes'
    BY <2>1
  <2> QED BY <2>2, <2>3, <2>4
<1>2. CASE WriteRecord(r)
  <2>1. Written(r) \in {"stored", "lost", "dropped"} /\ (Written(r) = "dropped" => busLate)
    BY <1>2 DEF Written, HooksInOrder
  <2>2. LifeRoom' /\ HooksInOrder' /\ BusLosses'
    BY <1>2, <2>1, PlacedStep DEF WriteRecord
  <2>3. LifeTypes' /\ ShutdownWaits'
    BY <1>2, <2>1 DEF WriteRecord, ShutdownWaits, InHand
  <2> QED BY <2>2, <2>3
<1>3. CASE AnswerRequest(r)
  <2>0. /\ r \in InHand /\ life # "exited"
        /\ UNCHANGED <<busVars, databaseOpen, hooksRun, life, tooEarly, listener, deadline, signalled>>
    BY <1>3 DEF AnswerRequest, InHand
  <2>1. CASE record' = record /\ handling' = [handling EXCEPT ![r] = "publishing"]
    <3>1. LifeRoom' /\ HooksInOrder' /\ BusLosses'
      BY <2>0, <2>1 DEF LifeRoom, HooksInOrder, BusLosses, InChannel, InState
    <3>2. InHand' \subseteq InHand
      BY <2>0, <2>1 DEF InHand
    <3>3. LifeTypes' /\ ShutdownWaits'
      BY <2>0, <2>1, <3>2 DEF ShutdownWaits
    <3> QED BY <3>1, <3>3
  <2>2. CASE record' = [record EXCEPT ![r] = Aside] /\ handling' = [handling EXCEPT ![r] = "answered"]
    <3>1. LifeRoom' /\ HooksInOrder' /\ BusLosses'
      BY <1>0, <2>0, <2>2, PlacedStep
    <3>2. InHand' \subseteq InHand
      BY <2>0, <2>2 DEF InHand
    <3>3. LifeTypes' /\ ShutdownWaits'
      BY <1>0, <2>0, <2>2, <3>2 DEF ShutdownWaits
    <3> QED BY <3>1, <3>3
  <2> QED BY <1>3, <2>1, <2>2 DEF AnswerRequest
<1>4. CASE Publish(r)
  <2>0. /\ r \in InHand /\ life # "exited"
        /\ UNCHANGED <<busVars, databaseOpen, hooksRun, life, tooEarly, listener, deadline, signalled>>
        /\ handling' = [handling EXCEPT ![r] = "answered"] \/ handling' = [handling EXCEPT ![r] = "cut"]
    BY <1>4 DEF Publish, InHand
  <2>1. PICK to \in {"stored", "lost", "loose", "queued", "stranded"} :
           /\ record' = [record EXCEPT ![r] = to]
           /\ to = "loose" => Cardinality(InState("loose")) < LooseRoom
           /\ to \in {"queued", "stranded"} => Cardinality(InChannel) < BusRoom /\ busAt # "shut"
           /\ to = "stranded" => kafka
    BY <1>0, <1>4 DEF Publish, BusLosses
  <2>2. LifeRoom' /\ HooksInOrder' /\ BusLosses'
    BY <2>0, <2>1, PlacedStep
  <2>3. InHand' \subseteq InHand
    BY <2>0 DEF InHand
  <2>4. LifeTypes' /\ ShutdownWaits'
    BY <2>0, <2>1, <2>3 DEF ShutdownWaits
  <2> QED BY <2>2, <2>4
<1> QED BY <1>1, <1>2, <1>3, <1>4

LEMMA LifeInductive == LifeInv /\ [LifeNext]_lifeVars => LifeInv'
<1> SUFFICES ASSUME LifeInv, [LifeNext]_lifeVars PROVE LifeInv'
  OBVIOUS
<1>1. CASE UNCHANGED lifeVars
  BY <1>1 DEF lifeVars, LifeInv, LifeTypes, LifeRoom, HooksInOrder, BusLosses, ShutdownWaits, InState,
              InChannel, InHand
<1>2. CASE LifeNext
  BY <1>2, RunStep, ExitStep, RequestStep DEF LifeNext
<1> QED BY <1>1, <1>2

LEMMA LifeConcludes == LifeInv => LifeSound
<1> SUFFICES ASSUME LifeInv PROVE LifeSound
  OBVIOUS
<1> USE DEF LifeInv, LifeTypes, LifeStages, LifeRoom, HooksInOrder, ShutdownWaits
<1>1. LifeTypeOK
  BY HookOrder DEF LifeTypeOK
<1>2. TakenIsStored
  BY DEF TakenIsStored, BusLosses
<1>3. ServedBeforeHooks
  BY DEF ServedBeforeHooks, InHand
<1> QED BY <1>1, <1>2, <1>3 DEF LifeSound

\* For any number of requests, any room of the bus and any number of goroutines beside it:
\* requests are served before the hooks run unless the time limit or a signal before
\* the server's start intervened, and what the bus has taken is handed to its handler
\* before the database closes, unless the bus's Close ran out of its time or, under
\* Kafka, the record came after the workers had left (runtime.go Run, app.go, bus.go).
THEOREM LifeCorrect == LifeSpec => []LifeSound
<1>1. LifeInit => LifeInv
  BY LifeInitially
<1>2. LifeInv /\ [LifeNext]_lifeVars => LifeInv'
  BY LifeInductive
<1>3. LifeInv => LifeSound
  BY LifeConcludes
<1> QED BY <1>1, <1>2, <1>3, PTL DEF LifeSpec

-----------------------------------------------------------------------------
(* SyncResponses.                                                           *)

\* The values of a request's fields, of its result, and of the row.
SrPcs == {"idle", "admit", "cache", "plan", "try", "call", "got", "consume", "usage", "publish", "callback", "answer",
          "done"}
Results == {"none", "ok", "blocked", "error", "invalid_previous", "invalid_tools", "refused", "cached", "no_provider",
            "rate_limited", "tool_error", "output_budget", "budget", "blocked_error", "blocked_budget"}
Answered == {"ok", "blocked"}
SrRecs == [pc : SrPcs, at : 1 .. NCand + 1, fb : BOOLEAN, got : {"none", "ok", "error"}, prev : Reqs \cup {Nobody2},
           rounds : 0 .. MaxLoopRounds, block : BOOLEAN, res : Results]
RowStates == {"none", "in_progress", "error", "completed"}

\* What holds of a request with the record r, the row st, n charges and k callbacks sent: upd
\* and cbk, its update and its callback are on the bus; own, its callback has a goroutine;
\* tn, a write of it failed; cause, it met an upstream failure or a call that was cut off.
ReqSound(r, st, n, k, upd, cbk, own, tn, cause) ==
    /\ r.pc \in {"idle", "admit", "cache", "plan"} => st = "none" /\ ~r.fb
    /\ r.pc \in {"idle", "admit", "cache", "plan", "try", "call", "got", "consume"} => n = 0
    /\ r.pc \in {"idle", "admit", "cache", "plan", "try", "call", "got", "consume", "usage", "publish"} =>
          ~upd /\ ~cbk /\ ~own /\ k = 0
    /\ r.pc \in {"try", "call", "got", "consume", "usage", "publish"} => st \in {"in_progress", "error"}
    /\ r.pc # "done" => r.res = "none"
    /\ r.pc \in {"call", "got"} => r.at \in Cand
    /\ r.fb \/ (r.pc = "got" /\ r.got = "error") => cause
    /\ r.pc = "try" /\ r.fb /\ st = "in_progress" => tn
    /\ r.pc \in {"usage", "publish", "callback", "answer"} => n = 1
    /\ r.pc = "callback" => ~cbk /\ ~own /\ k = 0
    /\ r.pc \in {"callback", "answer"} \/ r.res \in Answered => n = 1 /\ (upd \/ st = "completed" \/ tn)
    /\ r.pc = "answer" \/ r.res \in Answered =>
          (cbk /\ ~own /\ k = 0) \/ (~cbk /\ own /\ k = 0) \/ (~cbk /\ ~own /\ k = 1)
    /\ r.pc = "done" /\ r.res \notin Answered =>
          ~upd /\ ~cbk /\ ~own /\ k = 0 /\ n <= 1 /\ st # "completed" /\ (st = "in_progress" => tn)
    /\ r.res = "error" => cause \/ tn
    /\ r.res = "blocked_error" => tn

ReqOf(q) == ReqSound(sr[q], srow[q], charges[q], called[q], <<"update", q>> \in jobs, <<"callback", q>> \in jobs,
                     q \in persistPool, q \in torn, q \in upfail \cup cut)

\* Values, and the room on the bus and in the pool.
SrTypes ==
    /\ sr \in [Reqs -> SrRecs] /\ srow \in [Reqs -> RowStates]
    /\ charges \in [Reqs -> Nat] /\ called \in [Reqs -> Nat]
    /\ gone \subseteq Reqs /\ persistPool \subseteq Reqs /\ jobs \subseteq {"update", "callback"} \X Reqs
    /\ flight \in [sfKeys -> Reqs \cup {Nobody2}] /\ tries \in [sfKeys -> 0 .. MaxRetries]

Rooms ==
    /\ IsFiniteSet(persistPool) /\ Cardinality(persistPool) <= PersistSlots
    /\ IsFiniteSet(jobs) /\ Cardinality(jobs) <= BusSize

\* A call under way has an owner among those that wait for it.
CallsOwned ==
    \A p \in sfKeys : IF flight[p] = Nobody2 THEN \A q \in Reqs : sr[q].pc = "call" => sfKey(q) # p
                      ELSE sr[flight[p]].pc = "call" /\ sfKey(flight[p]) = p

\* The inductive invariant.
SrInv == SrTypes /\ Rooms /\ CallsOwned /\ \A q \in Reqs : ReqOf(q)

-----------------------------------------------------------------------------
\* What a request that is not changed itself keeps.
Back(q, r, st, n, tn) ==
    ReqSound(r, st, n, called[q], <<"update", q>> \in jobs, <<"callback", q>> \in jobs, q \in persistPool, tn,
             q \in upfail \cup cut)

LEMMA SrFacts ==
    ASSUME SrInv, NEW q \in Reqs
    PROVE  /\ sr \in [Reqs -> SrRecs] /\ sr[q] \in SrRecs /\ srow \in [Reqs -> RowStates] /\ srow[q] \in RowStates
           /\ charges \in [Reqs -> Nat] /\ charges[q] \in Nat /\ called[q] \in Nat
           /\ Back(q, sr[q], srow[q], charges[q], q \in torn)
<1>1. sr \in [Reqs -> SrRecs] /\ srow \in [Reqs -> RowStates] /\ charges \in [Reqs -> Nat] /\ called \in [Reqs -> Nat]
    BY DEF SrInv, SrTypes
<1>2. ReqOf(q)
    BY DEF SrInv
<1>3. Back(q, sr[q], srow[q], charges[q], q \in torn)
    BY <1>2 DEF ReqOf, Back
<1> QED BY <1>1, <1>3

\* A step of one request: the others keep everything.
LEMMA RowsStep ==
    ASSUME SrInv, NEW q \in Reqs, NEW r \in SrRecs, sr' = [sr EXCEPT ![q] = r],
           NEW st \in RowStates, srow' = [srow EXCEPT ![q] = st],
           NEW n \in Nat, charges' = [charges EXCEPT ![q] = n],
           NEW k \in Nat, called' = [called EXCEPT ![q] = k],
           gone' \subseteq Reqs, persistPool' \subseteq Reqs, jobs' \subseteq {"update", "callback"} \X Reqs, Rooms',
           \A x \in Reqs \ {q} : /\ (<<"update", x>> \in jobs') = (<<"update", x>> \in jobs)
                                 /\ (<<"callback", x>> \in jobs') = (<<"callback", x>> \in jobs)
                                 /\ (x \in persistPool') = (x \in persistPool),
           torn \subseteq torn', torn' \subseteq torn \cup {q},
           flight' \in [sfKeys -> Reqs \cup {Nobody2}], UNCHANGED <<tries, upfail, cut>>, CallsOwned',
           ReqSound(r, st, n, k, <<"update", q>> \in jobs', <<"callback", q>> \in jobs', q \in persistPool',
                    q \in torn', q \in upfail \cup cut)
    PROVE  SrInv'
<1>1. SrTypes
    BY DEF SrInv
<1>2. sr'[q] = r /\ srow'[q] = st /\ charges'[q] = n /\ called'[q] = k
    BY <1>1 DEF SrTypes
<1>3. \A x \in Reqs \ {q} : sr'[x] = sr[x] /\ srow'[x] = srow[x] /\ charges'[x] = charges[x] /\ called'[x] = called[x]
    BY <1>1 DEF SrTypes
<1>4. SrTypes'
    BY <1>1 DEF SrTypes
<1>6. ReqOf(q)'
    BY <1>2 DEF ReqOf
<1>7. ASSUME NEW x \in Reqs \ {q} PROVE ReqOf(x)'
  <2>1. ReqOf(x)
      BY DEF SrInv
  <2>2. (x \in torn') = (x \in torn)
      OBVIOUS
  <2>3. (x \in (upfail \cup cut)') = (x \in upfail \cup cut)
      OBVIOUS
  <2>4. /\ (<<"update", x>> \in jobs') = (<<"update", x>> \in jobs)
        /\ (<<"callback", x>> \in jobs') = (<<"callback", x>> \in jobs)
        /\ (x \in persistPool') = (x \in persistPool)
      OBVIOUS
  <2>5. sr'[x] = sr[x] /\ srow'[x] = srow[x] /\ charges'[x] = charges[x] /\ called'[x] = called[x]
      BY <1>3
  <2> QED BY <2>1, <2>2, <2>3, <2>4, <2>5 DEF ReqOf
<1> QED BY <1>4, <1>6, <1>7 DEF SrInv

\* The same when the request neither joins nor leaves a call.
LEMMA OwnStep ==
    ASSUME SrInv, NEW q \in Reqs, NEW r \in SrRecs, sr' = [sr EXCEPT ![q] = r],
           r = sr[q] \/ (r.pc # "call" /\ sr[q].pc # "call"),
           NEW st \in RowStates, srow' = [srow EXCEPT ![q] = st],
           NEW n \in Nat, charges' = [charges EXCEPT ![q] = n],
           NEW k \in Nat, called' = [called EXCEPT ![q] = k],
           gone' \subseteq Reqs, persistPool' \subseteq Reqs, jobs' \subseteq {"update", "callback"} \X Reqs, Rooms',
           \A x \in Reqs \ {q} : /\ (<<"update", x>> \in jobs') = (<<"update", x>> \in jobs)
                                 /\ (<<"callback", x>> \in jobs') = (<<"callback", x>> \in jobs)
                                 /\ (x \in persistPool') = (x \in persistPool),
           torn \subseteq torn', torn' \subseteq torn \cup {q},
           UNCHANGED <<flight, tries, upfail, cut>>,
           ReqSound(r, st, n, k, <<"update", q>> \in jobs', <<"callback", q>> \in jobs', q \in persistPool',
                    q \in torn', q \in upfail \cup cut)
    PROVE  SrInv'
<1>1. SrTypes /\ CallsOwned
    BY DEF SrInv
<1>2. sr'[q] = r /\ \A x \in Reqs \ {q} : sr'[x] = sr[x]
    BY <1>1 DEF SrTypes
<1>3. \A x \in Reqs : (sr'[x].pc = "call") = (sr[x].pc = "call")
    BY <1>2
<1>4. \A x \in Reqs : sr[x].pc = "call" => sfKey(x)' = sfKey(x)
    BY <1>2 DEF sfKey
<1>5. flight' = flight /\ \A p \in sfKeys : flight[p] \in Reqs \cup {Nobody2}
    BY <1>1 DEF SrTypes
<1>6. \A p \in sfKeys : IF flight[p] = Nobody2 THEN \A x \in Reqs : sr'[x].pc = "call" => sfKey(x)' # p
                        ELSE sr'[flight[p]].pc = "call" /\ sfKey(flight[p])' = p
  <2> TAKE p \in sfKeys
  <2>1. CASE flight[p] = Nobody2
      BY <2>1, <1>1, <1>3, <1>4 DEF CallsOwned
  <2>2. CASE flight[p] # Nobody2
      BY <2>2, <1>1, <1>3, <1>4, <1>5 DEF CallsOwned
  <2> QED BY <2>1, <2>2
<1>7. CallsOwned'
    BY <1>5, <1>6 DEF CallsOwned, sfKey
<1>8. flight' \in [sfKeys -> Reqs \cup {Nobody2}]
    BY <1>1 DEF SrTypes
<1> QED BY <1>7, <1>8, RowsStep

\* The same for a step that leaves the bus, the pool and the callbacks alone.
LEMMA QuietReq ==
    ASSUME SrInv, NEW q \in Reqs, NEW r \in SrRecs, sr' = [sr EXCEPT ![q] = r],
           r = sr[q] \/ (r.pc # "call" /\ sr[q].pc # "call"),
           NEW st \in RowStates, srow' = [srow EXCEPT ![q] = st],
           NEW n \in Nat, charges' = [charges EXCEPT ![q] = n],
           gone' \subseteq Reqs,
           torn \subseteq torn', torn' \subseteq torn \cup {q},
           UNCHANGED <<calls, back, told>>,
           Back(q, r, st, n, q \in torn')
    PROVE  SrInv'
<1>1. SrTypes /\ Rooms
    BY DEF SrInv
<1>2. called[q] \in Nat /\ called' = [called EXCEPT ![q] = called[q]]
    BY <1>1 DEF SrTypes, back
<1>3. persistPool' \subseteq Reqs /\ jobs' \subseteq {"update", "callback"} \X Reqs
    BY <1>1 DEF SrTypes, back
<1>4. Rooms'
    BY <1>1 DEF Rooms, back
<1>5. jobs' = jobs /\ persistPool' = persistPool
    BY DEF back
<1>6. ReqSound(r, st, n, called[q], <<"update", q>> \in jobs', <<"callback", q>> \in jobs', q \in persistPool',
               q \in torn', q \in upfail \cup cut)
    BY <1>5 DEF Back
<1>7. UNCHANGED <<flight, tries, upfail, cut>>
    BY DEF calls, told
<1> QED BY <1>2, <1>3, <1>4, <1>5, <1>6, <1>7, OwnStep

-----------------------------------------------------------------------------
LEMMA Rewritten ==
    ASSUME SrInv, NEW q \in Reqs
    PROVE  /\ UNCHANGED srow => srow' = [srow EXCEPT ![q] = srow[q]]
           /\ UNCHANGED charges => charges' = [charges EXCEPT ![q] = charges[q]]
           /\ UNCHANGED sr => sr' = [sr EXCEPT ![q] = sr[q]]
           /\ UNCHANGED called => called' = [called EXCEPT ![q] = called[q]]
           /\ UNCHANGED gone => gone' \subseteq Reqs
BY DEF SrInv, SrTypes

LEMMA WritesFacts ==
    ASSUME NEW q \in Reqs, NEW ok \in BOOLEAN, Writes(q, ok)
    PROVE  torn \subseteq torn' /\ torn' \subseteq torn \cup {q} /\ (~ok => q \in torn') /\ (ok => torn' = torn)
BY DEF Writes

LEMMA RowFacts ==
    ASSUME SrInv, NEW q \in Reqs, NEW ok \in BOOLEAN, NEW st \in RowStates, UpdateRow(q, ok, st)
    PROVE  \E v \in RowStates : srow' = [srow EXCEPT ![q] = v] /\ (ok => v = st) /\ (~ok => v = srow[q])
<1>1. srow \in [Reqs -> RowStates] /\ srow[q] \in RowStates
    BY SrFacts
<1>2. CASE ok
    BY <1>2 DEF UpdateRow
<1>3. CASE ~ok
  <2>1. srow' = srow
      BY <1>3 DEF UpdateRow
  <2>2. srow' = [srow EXCEPT ![q] = srow[q]]
      BY <2>1, <1>1
  <2> QED BY <2>2, <1>1, <1>3
<1> QED BY <1>2, <1>3

LEMMA GoesFacts ==
    ASSUME SrInv, NEW q \in Reqs, NEW c \in SrPcs, Goes(q, c)
    PROVE  \E r \in SrRecs : /\ sr' = [sr EXCEPT ![q] = r]
                             /\ r.pc = c /\ r.at = sr[q].at /\ r.got = sr[q].got /\ r.prev = sr[q].prev
                             /\ r.res = sr[q].res /\ r.fb = sr[q].fb
<1>1. sr \in [Reqs -> SrRecs] /\ sr[q] \in SrRecs
    BY SrFacts
<1>2. PICK r : r = [sr[q] EXCEPT !.pc = c]
    OBVIOUS
<1>3. r \in SrRecs
    BY <1>1, <1>2 DEF SrRecs
<1>4. r.pc = c /\ r.at = sr[q].at /\ r.got = sr[q].got /\ r.prev = sr[q].prev /\ r.res = sr[q].res
    BY <1>1, <1>2 DEF SrRecs
<1>5. r.fb = sr[q].fb
    BY <1>1, <1>2, Zenon DEF SrRecs
<1>6. sr' = [sr EXCEPT ![q] = r]
    BY <1>2, Zenon DEF Goes
<1> QED BY <1>3, <1>4, <1>5, <1>6

LEMMA EndsFacts ==
    ASSUME SrInv, NEW q \in Reqs, NEW v \in Results, Ends(q, v)
    PROVE  \E r \in SrRecs : sr' = [sr EXCEPT ![q] = r] /\ r.pc = "done" /\ r.res = v /\ r.fb = sr[q].fb
<1>1. sr \in [Reqs -> SrRecs] /\ sr[q] \in SrRecs
    BY SrFacts
<1>2. PICK r : r = [sr[q] EXCEPT !.pc = "done", !.res = v]
    OBVIOUS
<1>3. r \in SrRecs
    BY <1>1, <1>2 DEF SrRecs, SrPcs
<1>4. r.pc = "done" /\ r.res = v
    BY <1>1, <1>2 DEF SrRecs
<1>5. r.fb = sr[q].fb
    BY <1>1, <1>2, Zenon DEF SrRecs
<1>6. sr' = [sr EXCEPT ![q] = r]
    BY <1>1, <1>2 DEF Ends
<1> QED BY <1>3, <1>4, <1>5, <1>6

-----------------------------------------------------------------------------
LEMMA CreateKeeps ==
    ASSUME SrInv, NEW q \in Reqs, NEW prev \in Reqs \cup {Nobody2}, Create(q, prev)
    PROVE  SrInv'
<1> USE SrAssumption DEF SrAssumption
<1>1. PICK r : /\ r = IF Hydrates(prev) THEN [NoReq EXCEPT !.pc = "admit", !.prev = prev]
                      ELSE [NoReq EXCEPT !.pc = "done", !.res = "invalid_previous", !.prev = prev]
               /\ sr' = [sr EXCEPT ![q] = r]
    BY Zenon DEF Create
<1>2. r \in SrRecs /\ r.fb = FALSE
  <2>1. 1 \in 1 .. NCand + 1 /\ 0 \in 0 .. MaxLoopRounds
      OBVIOUS
  <2>2. CASE Hydrates(prev)
    <3>1. r = [pc |-> "admit", at |-> 1, fb |-> FALSE, got |-> "none", prev |-> prev, rounds |-> 0,
               block |-> FALSE, res |-> "none"]
        BY <1>1, <2>2 DEF NoReq
    <3> QED BY <2>1, <3>1 DEF SrRecs, SrPcs, Results
  <2>3. CASE ~Hydrates(prev)
    <3>1. r = [pc |-> "done", at |-> 1, fb |-> FALSE, got |-> "none", prev |-> prev, rounds |-> 0,
               block |-> FALSE, res |-> "invalid_previous"]
        BY <1>1, <2>3 DEF NoReq
    <3> QED BY <2>1, <3>1 DEF SrRecs, SrPcs, Results
  <2> QED BY <2>2, <2>3
<1>3. (r.pc = "admit" /\ r.res = "none") \/ (r.pc = "done" /\ r.res = "invalid_previous")
    BY <1>1 DEF NoReq
<1>4. Back(q, r, srow[q], charges[q], q \in torn)
    BY <1>2, <1>3, SrFacts DEF Create, Back, ReqSound, Answered
<1>5. sr[q].pc = "idle" /\ UNCHANGED <<srow, charges, gone, calls, back, told, torn>>
    BY DEF Create
<1> QED BY <1>1, <1>2, <1>3, <1>4, <1>5, SrFacts, Rewritten, QuietReq

LEMMA HydrationKeeps ==
    ASSUME SrInv, NEW q \in Reqs, NEW prev \in Reqs \cup {Nobody2}, HydrationFails(q, prev)
    PROVE  SrInv'
<1> USE SrAssumption DEF SrAssumption
<1>1. PICK r : /\ r = [NoReq EXCEPT !.pc = "done", !.res = "error", !.prev = prev]
               /\ sr' = [sr EXCEPT ![q] = r]
    BY Zenon DEF HydrationFails
<1>2. r \in SrRecs /\ r.fb = FALSE /\ r.pc = "done" /\ r.res = "error"
  <2>1. 1 \in 1 .. NCand + 1 /\ 0 \in 0 .. MaxLoopRounds
      OBVIOUS
  <2>2. r = [pc |-> "done", at |-> 1, fb |-> FALSE, got |-> "none", prev |-> prev, rounds |-> 0,
             block |-> FALSE, res |-> "error"]
      BY <1>1 DEF NoReq
  <2> QED BY <2>1, <2>2 DEF SrRecs, SrPcs, Results
<1>3. sr[q].pc = "idle" /\ Writes(q, FALSE) /\ UNCHANGED <<srow, charges, gone, calls, back, told>>
    BY DEF HydrationFails
<1>4. torn \subseteq torn' /\ torn' \subseteq torn \cup {q} /\ q \in torn'
    BY <1>3, WritesFacts
<1>5. Back(q, r, srow[q], charges[q], q \in torn')
    BY <1>2, <1>3, <1>4, SrFacts DEF Back, ReqSound, Answered
<1> QED BY <1>1, <1>2, <1>3, <1>4, <1>5, SrFacts, Rewritten, QuietReq

\* What a failed persistSuccess ends a request with.
LEMMA PersistFacts ==
    ASSUME NEW q \in Reqs, NEW res \in {"error", "budget"}, PersistFails(q, res)
    PROVE  \E v \in Results : /\ Ends(q, v)
                              /\ res = "error" => v \in {"error", "blocked_error"}
                              /\ res = "budget" => v \in {"budget", "blocked_budget"}
BY DEF PersistFails, Results

LEMMA RefuseToolsKeeps ==
    ASSUME SrInv, NEW q \in Reqs, RefuseTools(q)
    PROVE  SrInv'
<1>1. sr[q].pc = "admit" /\ Ends(q, "invalid_tools") /\ UNCHANGED <<srow, charges, gone, calls, back, told, torn>>
    BY DEF RefuseTools
<1>2. PICK r \in SrRecs : sr' = [sr EXCEPT ![q] = r] /\ r.pc = "done" /\ r.res = "invalid_tools" /\ r.fb = sr[q].fb
    BY <1>1, EndsFacts DEF Results
<1>3. Back(q, r, srow[q], charges[q], q \in torn)
    BY <1>1, <1>2, SrFacts DEF Back, ReqSound, Answered
<1> QED BY <1>1, <1>2, <1>3, SrFacts, Rewritten, QuietReq

LEMMA AdmitKeeps ==
    ASSUME SrInv, NEW q \in Reqs, NEW ok \in BOOLEAN, AdmitCreate(q, ok)
    PROVE  SrInv'
<1>1. sr[q].pc = "admit" /\ UNCHANGED <<srow, charges, gone, calls, back, told, torn>>
    BY DEF AdmitCreate
<1>2. \E r \in SrRecs : /\ sr' = [sr EXCEPT ![q] = r] /\ r.fb = sr[q].fb
                        /\ (r.pc = "cache" /\ r.res = sr[q].res) \/ (r.pc = "done" /\ r.res = "refused")
  <2>1. CASE ok
      BY <2>1, GoesFacts DEF AdmitCreate, SrPcs
  <2>2. CASE ~ok
      BY <2>2, EndsFacts DEF AdmitCreate, Results
  <2> QED BY <2>1, <2>2
<1>3. PICK r \in SrRecs : /\ sr' = [sr EXCEPT ![q] = r] /\ r.fb = sr[q].fb
                          /\ (r.pc = "cache" /\ r.res = sr[q].res) \/ (r.pc = "done" /\ r.res = "refused")
    BY <1>2
<1>4. Back(q, r, srow[q], charges[q], q \in torn)
    BY <1>1, <1>3, SrFacts DEF Back, ReqSound, Answered
<1> QED BY <1>1, <1>3, <1>4, SrFacts, Rewritten, QuietReq

LEMMA LookupKeeps ==
    ASSUME SrInv, NEW q \in Reqs, LookupShared(q)
    PROVE  SrInv'
<1>1. sr[q].pc = "cache" /\ UNCHANGED <<srow, charges, gone, calls, back, told, torn>>
    BY DEF LookupShared
<1>2. Ends(q, "cached") \/ Goes(q, "plan")
    BY DEF LookupShared
<1>3. PICK r \in SrRecs : /\ sr' = [sr EXCEPT ![q] = r] /\ r.fb = sr[q].fb
                          /\ (r.pc = "plan" /\ r.res = sr[q].res) \/ (r.pc = "done" /\ r.res = "cached")
  <2>1. CASE Ends(q, "cached")
      BY <2>1, EndsFacts DEF Results
  <2>2. CASE Goes(q, "plan")
      BY <2>2, GoesFacts DEF SrPcs
  <2> QED BY <1>2, <2>1, <2>2
<1>4. Back(q, r, srow[q], charges[q], q \in torn)
    BY <1>1, <1>3, SrFacts DEF Back, ReqSound, Answered
<1> QED BY <1>1, <1>3, <1>4, SrFacts, Rewritten, QuietReq

LEMMA PlanKeeps ==
    ASSUME SrInv, NEW q \in Reqs, NEW found \in BOOLEAN, NEW ok \in BOOLEAN, PlanCreate(q, found, ok)
    PROVE  SrInv'
<1>1. sr[q].pc = "plan" /\ UNCHANGED <<charges, gone, calls, back, told>>
    BY DEF PlanCreate
<1>2. CASE ~found
  <2>1. Ends(q, "no_provider") /\ UNCHANGED <<srow, torn>>
      BY <1>2 DEF PlanCreate
  <2>2. PICK r \in SrRecs : sr' = [sr EXCEPT ![q] = r] /\ r.pc = "done" /\ r.res = "no_provider" /\ r.fb = sr[q].fb
      BY <2>1, EndsFacts DEF Results
  <2>3. Back(q, r, srow[q], charges[q], q \in torn)
      BY <1>1, <2>2, SrFacts DEF Back, ReqSound, Answered
  <2> QED BY <1>1, <2>1, <2>2, <2>3, SrFacts, Rewritten, QuietReq
<1>3. CASE found
  <2>1. Writes(q, ok) /\ UpdateRow(q, ok, "in_progress") /\ IF ok THEN Goes(q, "try") ELSE Ends(q, "error")
      BY <1>3 DEF PlanCreate
  <2>2. PICK v \in RowStates : srow' = [srow EXCEPT ![q] = v] /\ (ok => v = "in_progress") /\ (~ok => v = srow[q])
      BY <2>1, RowFacts DEF RowStates
  <2>3. PICK r \in SrRecs : /\ sr' = [sr EXCEPT ![q] = r] /\ r.fb = sr[q].fb
                            /\ ok => r.pc = "try" /\ r.res = sr[q].res
                            /\ ~ok => r.pc = "done" /\ r.res = "error"
    <3>1. CASE ok
        BY <2>1, <3>1, GoesFacts DEF SrPcs
    <3>2. CASE ~ok
        BY <2>1, <3>2, EndsFacts DEF Results
    <3> QED BY <3>1, <3>2
  <2>4. torn \subseteq torn' /\ torn' \subseteq torn \cup {q} /\ (~ok => q \in torn')
      BY <2>1, WritesFacts
  <2>5. Back(q, r, v, charges[q], q \in torn')
      BY <1>1, <2>2, <2>3, <2>4, SrFacts DEF Back, ReqSound, Answered
  <2>6. r.pc # "call"
      BY <2>3
  <2> QED BY <1>1, <2>2, <2>3, <2>4, <2>5, <2>6, SrFacts, Rewritten, QuietReq
<1> QED BY <1>2, <1>3

\* A request that ends with its row in error, charged or not.
LEMMA FailsKeeps ==
    ASSUME SrInv, NEW q \in Reqs, NEW ok \in BOOLEAN, NEW v \in Results \ {"ok", "blocked", "error", "blocked_error", "none"},
           sr[q].pc \in {"try", "got", "consume"},
           Writes(q, ok), UpdateRow(q, ok, "error"), Ends(q, v),
           NEW n \in {charges[q], charges[q] + 1}, charges' = [charges EXCEPT ![q] = n],
           UNCHANGED <<gone, calls, back, told>>
    PROVE  SrInv'
<1>1. PICK st \in RowStates : srow' = [srow EXCEPT ![q] = st] /\ (ok => st = "error") /\ (~ok => st = srow[q])
    BY RowFacts DEF RowStates
<1>2. PICK r \in SrRecs : sr' = [sr EXCEPT ![q] = r] /\ r.pc = "done" /\ r.res = v /\ r.fb = sr[q].fb
    BY EndsFacts
<1>3. torn \subseteq torn' /\ torn' \subseteq torn \cup {q} /\ (~ok => q \in torn')
    BY WritesFacts
<1>0. charges[q] = 0
    BY SrFacts DEF Back, ReqSound
<1>4. charges[q] = 0 /\ n \in Nat /\ n <= 1
    BY <1>0
<1>5. r.fb => q \in upfail \cup cut
    BY <1>2, SrFacts DEF Back, ReqSound
<1>6. Back(q, r, st, n, q \in torn')
    BY <1>1, <1>2, <1>3, <1>4, <1>5, SrFacts DEF Back, ReqSound, Answered
<1> QED BY <1>1, <1>2, <1>3, <1>4, <1>6, SrFacts, Rewritten, QuietReq

LEMMA SkipKeeps ==
    ASSUME SrInv, NEW q \in Reqs, SkipCandidate(q)
    PROVE  SrInv'
<1> USE SrAssumption DEF SrAssumption
<1>1. sr[q].pc = "try" /\ sr[q].at \in 1 .. NCand /\ UNCHANGED <<srow, charges, gone, calls, back, told, torn>>
    BY DEF SkipCandidate, Trying, Cand
<1>2. PICK r : r = [sr[q] EXCEPT !.at = sr[q].at + 1]
    OBVIOUS
<1>3. r \in SrRecs /\ r.pc = "try" /\ r.res = sr[q].res
    BY <1>1, <1>2, SrFacts DEF SrRecs
<1>4. r.fb = sr[q].fb
    BY <1>2, SrFacts, Zenon DEF SrRecs
<1>5. sr' = [sr EXCEPT ![q] = r]
    BY <1>2, Zenon DEF SkipCandidate
<1>6. Back(q, r, srow[q], charges[q], q \in torn)
    BY <1>1, <1>3, <1>4, SrFacts DEF Back, ReqSound, Answered
<1>7. r.pc # "call" /\ sr[q].pc # "call"
    BY <1>1, <1>3
<1> QED BY <1>1, <1>3, <1>5, <1>6, <1>7, SrFacts, Rewritten, QuietReq

LEMMA RateLimitedKeeps ==
    ASSUME SrInv, NEW q \in Reqs, NEW ok \in BOOLEAN, RateLimited(q, ok)
    PROVE  SrInv'
<1>1. /\ sr[q].pc = "try" /\ Writes(q, ok) /\ UpdateRow(q, ok, "error") /\ Ends(q, "rate_limited")
      /\ UNCHANGED <<charges, gone, calls, back, told>>
    BY DEF RateLimited, Trying
<1>2. "rate_limited" \in Results \ {"ok", "blocked", "error", "blocked_error", "none"}
    BY DEF Results
<1>3. charges' = [charges EXCEPT ![q] = charges[q]]
    BY <1>1, Rewritten
<1> QED BY <1>1, <1>2, <1>3, FailsKeeps

LEMMA CallFailedKeeps ==
    ASSUME SrInv, NEW q \in Reqs, NEW ok \in BOOLEAN, CallFailed(q, ok)
    PROVE  SrInv'
<1> USE SrAssumption DEF SrAssumption
<1>1. /\ sr[q].pc = "got" /\ sr[q].got = "error" /\ Writes(q, ok) /\ UpdateRow(q, ok, "error")
      /\ UNCHANGED <<charges, gone, calls, back, told>>
    BY DEF CallFailed
<1>2. PICK st \in RowStates : srow' = [srow EXCEPT ![q] = st] /\ (ok => st = "error") /\ (~ok => st = srow[q])
    BY <1>1, RowFacts DEF RowStates
<1>3. torn \subseteq torn' /\ torn' \subseteq torn \cup {q} /\ (~ok => q \in torn')
    BY <1>1, WritesFacts
<1>4. sr[q].at \in Cand /\ q \in upfail \cup cut /\ sr[q].res = "none" /\ charges[q] = 0
    BY <1>1, SrFacts DEF Back, ReqSound
<1>5. PICK r : r = [sr[q] EXCEPT !.pc = "try", !.at = sr[q].at + 1, !.fb = TRUE, !.got = "none"]
    OBVIOUS
<1>6. r \in SrRecs /\ r.pc = "try" /\ r.res = "none" /\ r.got = "none"
  <2>1. sr[q].at + 1 \in 1 .. NCand + 1
      BY <1>4 DEF Cand
  <2>2. PICK a \in 1 .. NCand + 1 : a = sr[q].at + 1
      BY <2>1
  <2>3. r = [sr[q] EXCEPT !.pc = "try", !.at = a, !.fb = TRUE, !.got = "none"]
      BY <1>5, <2>2
  <2>4. sr[q] \in SrRecs
      BY SrFacts
  <2>5. r = [pc |-> "try", at |-> a, fb |-> TRUE, got |-> "none", prev |-> sr[q].prev, rounds |-> sr[q].rounds,
             block |-> sr[q].block, res |-> sr[q].res]
      BY <2>3, <2>4 DEF SrRecs
  <2>6. /\ sr[q].prev \in Reqs \cup {Nobody2} /\ sr[q].rounds \in 0 .. MaxLoopRounds /\ sr[q].block \in BOOLEAN
        /\ sr[q].res \in Results
      BY <2>4 DEF SrRecs
  <2>7. r \in SrRecs
      BY <2>2, <2>5, <2>6, Zenon DEF SrRecs, SrPcs
  <2> QED BY <1>4, <2>5, <2>7
<1>7. sr' = [sr EXCEPT ![q] = r]
    BY <1>5, SrFacts DEF CallFailed, SrRecs
<1>8. Back(q, r, st, charges[q], q \in torn')
    BY <1>1, <1>2, <1>3, <1>4, <1>6, SrFacts DEF Back, ReqSound, Answered
<1>9. r.pc # "call" /\ sr[q].pc # "call"
    BY <1>1, <1>6
<1> QED BY <1>1, <1>2, <1>3, <1>6, <1>7, <1>8, <1>9, SrFacts, Rewritten, QuietReq

LEMMA NoneLeftKeeps ==
    ASSUME SrInv, NEW q \in Reqs, NEW ok \in BOOLEAN, NoCandidateLeft(q, ok)
    PROVE  SrInv'
<1>1. sr[q].pc = "try" /\ UNCHANGED <<charges, gone, calls, back, told>>
    BY DEF NoCandidateLeft
<1>2. CASE sr[q].fb
  <2>1. Ends(q, "error") /\ UNCHANGED <<srow, torn>>
      BY <1>2 DEF NoCandidateLeft
  <2>2. PICK r \in SrRecs : sr' = [sr EXCEPT ![q] = r] /\ r.pc = "done" /\ r.res = "error" /\ r.fb = sr[q].fb
      BY <2>1, EndsFacts DEF Results
  <2>3. q \in upfail \cup cut /\ (srow[q] = "in_progress" => q \in torn)
      BY <1>1, <1>2, SrFacts DEF Back, ReqSound
  <2>4. Back(q, r, srow[q], charges[q], q \in torn)
      BY <1>1, <2>2, <2>3, SrFacts DEF Back, ReqSound, Answered
  <2> QED BY <1>1, <2>1, <2>2, <2>4, SrFacts, Rewritten, QuietReq
<1>3. CASE ~sr[q].fb
  <2>1. Writes(q, ok) /\ UpdateRow(q, ok, "error") /\ Ends(q, "no_provider")
      BY <1>3 DEF NoCandidateLeft, NoneLeftRow
  <2>2. "no_provider" \in Results \ {"ok", "blocked", "error", "blocked_error", "none"}
      BY DEF Results
  <2>3. charges' = [charges EXCEPT ![q] = charges[q]]
      BY <1>1, Rewritten
  <2> QED BY <1>1, <2>1, <2>2, <2>3, FailsKeeps
<1> QED BY <1>2, <1>3

-----------------------------------------------------------------------------
LEMMA ToolRoundKeeps ==
    ASSUME SrInv, NEW q \in Reqs, ToolRound(q)
    PROVE  SrInv'
<1> USE SrAssumption DEF SrAssumption
<1>1. /\ sr[q].pc = "got" /\ sr[q].got = "ok" /\ sr[q].rounds < MaxLoopRounds
      /\ UNCHANGED <<srow, charges, gone, calls, back, told, torn>>
    BY DEF ToolRound
<1>2. PICK r : r = [sr[q] EXCEPT !.rounds = sr[q].rounds + 1]
    OBVIOUS
<1>3. r \in SrRecs /\ r.pc = "got" /\ r.res = sr[q].res /\ r.at = sr[q].at /\ r.got = "ok"
    BY <1>1, <1>2, SrFacts DEF SrRecs
<1>4. r.fb = sr[q].fb
    BY <1>2, SrFacts, Zenon DEF SrRecs
<1>5. sr' = [sr EXCEPT ![q] = r]
    BY <1>2, Zenon DEF ToolRound
<1>6. Back(q, r, srow[q], charges[q], q \in torn)
    BY <1>1, <1>3, <1>4, SrFacts DEF Back, ReqSound, Answered
<1>7. r.pc # "call" /\ sr[q].pc # "call"
    BY <1>1, <1>3
<1> QED BY <1>1, <1>3, <1>5, <1>6, <1>7, SrFacts, Rewritten, QuietReq

LEMMA ToolFailsKeeps ==
    ASSUME SrInv, NEW q \in Reqs, NEW ok \in BOOLEAN, ToolLoopFails(q, ok)
    PROVE  SrInv'
<1>1. /\ sr[q].pc = "got" /\ Writes(q, ok) /\ UpdateRow(q, ok, "error") /\ Ends(q, "tool_error")
      /\ UNCHANGED <<charges, gone, calls, back, told>>
    BY DEF ToolLoopFails
<1>2. "tool_error" \in Results \ {"ok", "blocked", "error", "blocked_error", "none"}
    BY DEF Results
<1>3. charges' = [charges EXCEPT ![q] = charges[q]]
    BY <1>1, Rewritten
<1> QED BY <1>1, <1>2, <1>3, FailsKeeps

LEMMA FailsChargedKeeps ==
    ASSUME SrInv, NEW q \in Reqs, NEW ok \in BOOLEAN, NEW paid \in BOOLEAN,
           OutputBudgetError(q, ok, paid) \/ BudgetExceeded(q, ok, paid)
    PROVE  SrInv'
<1>1. /\ sr[q].pc \in {"got", "consume"} /\ FailsCharged(q, ok, paid) /\ UNCHANGED <<gone, calls, back, told>>
      /\ Ends(q, "output_budget") \/ PersistFails(q, "budget")
    BY DEF OutputBudgetError, BudgetExceeded
<1>2. PICK v \in {"output_budget", "budget", "blocked_budget"} : Ends(q, v)
    BY <1>1, PersistFacts
<1>3. PICK n : n = IF paid THEN charges[q] + 1 ELSE charges[q]
    OBVIOUS
<1>4. n \in {charges[q], charges[q] + 1} /\ charges' = [charges EXCEPT ![q] = n]
    BY <1>1, <1>3 DEF FailsCharged
<1>5. v \in Results \ {"ok", "blocked", "error", "blocked_error", "none"}
    BY <1>2 DEF Results
<1>6. Writes(q, ok) /\ UpdateRow(q, ok, "error")
    BY <1>1 DEF FailsCharged
<1> QED BY <1>1, <1>2, <1>4, <1>5, <1>6, FailsKeeps

LEMMA PostCallKeeps ==
    ASSUME SrInv, NEW q \in Reqs, NEW block \in BOOLEAN, PostCall(q, block)
    PROVE  SrInv'
<1>1. /\ sr[q].pc = "got" /\ sr[q].got = "ok" /\ UNCHANGED <<srow, charges, gone, calls, back, told, torn>>
    BY DEF PostCall
<1>2. PICK r : r = [sr[q] EXCEPT !.pc = "consume", !.block = block]
    OBVIOUS
<1>3. r \in SrRecs /\ r.pc = "consume" /\ r.res = sr[q].res
    BY <1>2, SrFacts DEF SrRecs, SrPcs
<1>4. r.fb = sr[q].fb
    BY <1>2, SrFacts, Zenon DEF SrRecs
<1>5. sr' = [sr EXCEPT ![q] = r]
    BY <1>2, SrFacts DEF PostCall
<1>6. Back(q, r, srow[q], charges[q], q \in torn)
    BY <1>1, <1>3, <1>4, SrFacts DEF Back, ReqSound, Answered
<1>7. r.pc # "call" /\ sr[q].pc # "call"
    BY <1>1, <1>3
<1> QED BY <1>1, <1>3, <1>5, <1>6, <1>7, SrFacts, Rewritten, QuietReq

LEMMA ConsumeKeeps ==
    ASSUME SrInv, NEW q \in Reqs, NEW ok \in BOOLEAN, ConsumeBudgets(q, ok)
    PROVE  SrInv'
<1>1. sr[q].pc = "consume" /\ Writes(q, ok) /\ UNCHANGED <<srow, gone, calls, back, told>>
    BY DEF ConsumeBudgets
<1>2. PICK n : n = IF ok THEN charges[q] + 1 ELSE charges[q]
    OBVIOUS
<1>3. charges' = [charges EXCEPT ![q] = n]
    BY <1>2 DEF ConsumeBudgets
<1>4. torn \subseteq torn' /\ torn' \subseteq torn \cup {q} /\ (~ok => q \in torn') /\ (ok => torn' = torn)
    BY <1>1, WritesFacts
<1>0. charges[q] = 0
    BY <1>1, SrFacts DEF Back, ReqSound
<1>5. charges[q] = 0 /\ n \in Nat /\ (ok => n = 1) /\ (~ok => n = 0)
    BY <1>0, <1>2
<1>6. PICK r \in SrRecs : /\ sr' = [sr EXCEPT ![q] = r] /\ r.fb = sr[q].fb
                          /\ ok => r.pc = "usage" /\ r.res = sr[q].res
                          /\ ~ok => r.pc = "done" /\ r.res \in {"error", "blocked_error"}
  <2>1. CASE ok
      BY <2>1, GoesFacts DEF SrPcs, ConsumeBudgets
  <2>2. CASE ~ok
    <3>1. PICK v \in Results : Ends(q, v) /\ v \in {"error", "blocked_error"}
        BY <2>2, PersistFacts DEF ConsumeBudgets
    <3> QED BY <2>2, <3>1, EndsFacts
  <2> QED BY <2>1, <2>2
<1>7. Back(q, r, srow[q], n, q \in torn')
    BY <1>1, <1>4, <1>5, <1>6, SrFacts DEF Back, ReqSound, Answered
<1>8. r.pc # "call" /\ sr[q].pc # "call"
    BY <1>1, <1>6
<1> QED BY <1>1, <1>3, <1>4, <1>5, <1>6, <1>7, <1>8, SrFacts, Rewritten, QuietReq

LEMMA UsageKeeps ==
    ASSUME SrInv, NEW q \in Reqs, NEW ok \in BOOLEAN, ChargeUsage(q, ok)
    PROVE  SrInv'
<1>1. sr[q].pc = "usage" /\ Writes(q, ok) /\ UNCHANGED <<srow, charges, gone, calls, back, told>>
    BY DEF ChargeUsage
<1>2. torn \subseteq torn' /\ torn' \subseteq torn \cup {q} /\ (~ok => q \in torn') /\ (ok => torn' = torn)
    BY <1>1, WritesFacts
<1>3. PICK r \in SrRecs : /\ sr' = [sr EXCEPT ![q] = r] /\ r.fb = sr[q].fb
                          /\ ok => r.pc = "publish" /\ r.res = sr[q].res
                          /\ ~ok => r.pc = "done" /\ r.res \in {"error", "blocked_error"}
  <2>1. CASE ok
      BY <2>1, GoesFacts DEF SrPcs, ChargeUsage
  <2>2. CASE ~ok
    <3>1. PICK v \in Results : Ends(q, v) /\ v \in {"error", "blocked_error"}
        BY <2>2, PersistFacts DEF ChargeUsage, UsageFailed
    <3> QED BY <2>2, <3>1, EndsFacts
  <2> QED BY <2>1, <2>2
<1>4. Back(q, r, srow[q], charges[q], q \in torn')
    BY <1>1, <1>2, <1>3, SrFacts DEF Back, ReqSound, Answered
<1>5. r.pc # "call" /\ sr[q].pc # "call"
    BY <1>1, <1>3
<1> QED BY <1>1, <1>2, <1>3, <1>4, <1>5, SrFacts, Rewritten, QuietReq

-----------------------------------------------------------------------------
LEMMA CompletesFacts ==
    ASSUME SrInv, NEW q \in Reqs, NEW ok \in BOOLEAN, Completes(q, ok)
    PROVE  /\ torn \subseteq torn' /\ torn' \subseteq torn \cup {q}
           /\ \E st \in RowStates : /\ srow' = [srow EXCEPT ![q] = st]
                                    /\ st = "completed" \/ (st = srow[q] /\ q \in torn')
<1>1. CASE ok
    BY <1>1 DEF Completes, RowStates
<1>2. CASE ~ok
    BY <1>2, SrFacts, Rewritten DEF Completes
<1> QED BY <1>1, <1>2

\* A job more, where there is room.
LEMMA PutJob ==
    ASSUME SrInv, NEW j \in {"update", "callback"} \X Reqs, ~Busy, jobs' = jobs \cup {j}, UNCHANGED persistPool
    PROVE  Rooms' /\ jobs' \subseteq {"update", "callback"} \X Reqs /\ persistPool' \subseteq Reqs
<1> USE SrAssumption DEF SrAssumption
<1>1. Rooms /\ jobs \subseteq {"update", "callback"} \X Reqs /\ persistPool \subseteq Reqs
    BY DEF SrInv, SrTypes
<1>2. IsFiniteSet(jobs) /\ Cardinality(jobs) \in Nat
    BY <1>1, FS_CardinalityType DEF Rooms
<1>3. Cardinality(jobs) < BusSize
    BY <1>2 DEF Busy
<1>4. IsFiniteSet(jobs') /\ (Cardinality(jobs') = Cardinality(jobs) \/ Cardinality(jobs') = Cardinality(jobs) + 1)
    BY <1>2, FS_AddElement
<1>5. Rooms'
    BY <1>1, <1>2, <1>3, <1>4 DEF Rooms
<1> QED BY <1>1, <1>5

\* A job or a goroutine less.
LEMMA TakeJob ==
    ASSUME SrInv, NEW J, NEW P, jobs' = jobs \ J, persistPool' = persistPool \ P
    PROVE  Rooms' /\ jobs' \subseteq {"update", "callback"} \X Reqs /\ persistPool' \subseteq Reqs
<1> USE SrAssumption DEF SrAssumption
<1>1. Rooms /\ jobs \subseteq {"update", "callback"} \X Reqs /\ persistPool \subseteq Reqs
    BY DEF SrInv, SrTypes
<1>2. IsFiniteSet(jobs) /\ IsFiniteSet(persistPool) /\ jobs' \subseteq jobs /\ persistPool' \subseteq persistPool
    BY <1>1 DEF Rooms
<1>3. /\ IsFiniteSet(jobs') /\ Cardinality(jobs') \in Nat /\ Cardinality(jobs) \in Nat
      /\ Cardinality(jobs') <= Cardinality(jobs)
    BY <1>2, FS_Subset, FS_CardinalityType
<1>4. /\ IsFiniteSet(persistPool') /\ Cardinality(persistPool') \in Nat /\ Cardinality(persistPool) \in Nat
      /\ Cardinality(persistPool') <= Cardinality(persistPool)
    BY <1>2, FS_Subset, FS_CardinalityType
<1>5. Rooms'
    BY <1>1, <1>3, <1>4 DEF Rooms
<1> QED BY <1>1, <1>2, <1>5

LEMMA PublishKeeps ==
    ASSUME SrInv, NEW q \in Reqs, NEW ok \in BOOLEAN, PublishCompletion(q, ok)
    PROVE  SrInv'
<1>1. sr[q].pc = "publish" /\ UNCHANGED <<charges, gone, calls, persistPool, called, told>>
    BY DEF PublishCompletion
<1>2. PICK r \in SrRecs : sr' = [sr EXCEPT ![q] = r] /\ r.pc = "callback" /\ r.res = sr[q].res /\ r.fb = sr[q].fb
    BY GoesFacts DEF PublishCompletion, SrPcs
<1>3. CASE Busy
  <2>1. Completes(q, ok) /\ UNCHANGED jobs
      BY <1>3 DEF PublishCompletion
  <2>2. PICK st \in RowStates : srow' = [srow EXCEPT ![q] = st] /\ (st = "completed" \/ (st = srow[q] /\ q \in torn'))
      BY <2>1, CompletesFacts
  <2>3. torn \subseteq torn' /\ torn' \subseteq torn \cup {q}
      BY <2>1, CompletesFacts
  <2>4. Back(q, r, st, charges[q], q \in torn')
      BY <1>1, <1>2, <2>2, <2>3, SrFacts DEF Back, ReqSound, Answered
  <2>5. UNCHANGED <<calls, back, told>>
      BY <1>1, <2>1 DEF back
  <2> QED BY <1>1, <1>2, <2>2, <2>3, <2>4, <2>5, SrFacts, Rewritten, QuietReq
<1>4. CASE ~Busy
  <2>1. jobs' = jobs \cup {<<"update", q>>} /\ UNCHANGED <<srow, torn>>
      BY <1>4 DEF PublishCompletion
  <2>2. Rooms' /\ jobs' \subseteq {"update", "callback"} \X Reqs /\ persistPool' \subseteq Reqs
      BY <1>1, <1>4, <2>1, PutJob
  <2>3. /\ <<"update", q>> \in jobs' /\ (<<"callback", q>> \in jobs') = (<<"callback", q>> \in jobs)
        /\ \A x \in Reqs \ {q} : /\ (<<"update", x>> \in jobs') = (<<"update", x>> \in jobs)
                                 /\ (<<"callback", x>> \in jobs') = (<<"callback", x>> \in jobs)
      BY <2>1
  <2>4. ReqSound(r, srow[q], charges[q], called[q], <<"update", q>> \in jobs', <<"callback", q>> \in jobs',
                 q \in persistPool', q \in torn', q \in upfail \cup cut)
      BY <1>1, <1>2, <2>1, <2>3, SrFacts DEF Back, ReqSound, Answered
  <2>5. UNCHANGED <<flight, tries, upfail, cut>>
      BY <1>1 DEF calls, told
  <2>6. /\ srow' = [srow EXCEPT ![q] = srow[q]] /\ charges' = [charges EXCEPT ![q] = charges[q]]
        /\ called' = [called EXCEPT ![q] = called[q]] /\ gone' \subseteq Reqs
      BY <1>1, <2>1, Rewritten
  <2>7. /\ srow[q] \in RowStates /\ charges[q] \in Nat /\ called[q] \in Nat /\ r.pc # "call" /\ sr[q].pc # "call"
        /\ torn \subseteq torn' /\ torn' \subseteq torn \cup {q}
      BY <1>1, <1>2, <2>1, SrFacts
  <2>8. \A x \in Reqs \ {q} : /\ (<<"update", x>> \in jobs') = (<<"update", x>> \in jobs)
                              /\ (<<"callback", x>> \in jobs') = (<<"callback", x>> \in jobs)
                              /\ (x \in persistPool') = (x \in persistPool)
      BY <1>1, <2>3
  <2> QED BY <1>2, <2>2, <2>4, <2>5, <2>6, <2>7, <2>8, OwnStep
<1> QED BY <1>3, <1>4

LEMMA CallbackKeeps ==
    ASSUME SrInv, NEW q \in Reqs, publishOrInline(q)
    PROVE  SrInv'
<1> USE SrAssumption DEF SrAssumption
<1>1. sr[q].pc = "callback" /\ UNCHANGED <<srow, charges, gone, flight, tries, upfail, cut, torn>>
    BY DEF publishOrInline, calls, told
<1>2. PICK r \in SrRecs : sr' = [sr EXCEPT ![q] = r] /\ r.pc = "answer" /\ r.res = sr[q].res /\ r.fb = sr[q].fb
    BY GoesFacts DEF publishOrInline, SrPcs
<1>3. called \in [Reqs -> Nat] /\ called[q] = 0 /\ <<"callback", q>> \notin jobs /\ q \notin persistPool
    BY <1>1, SrFacts DEF Back, ReqSound, SrInv, SrTypes
<1>4. CASE ~Busy
  <2>1. jobs' = jobs \cup {<<"callback", q>>} /\ UNCHANGED <<persistPool, called>>
      BY <1>4 DEF publishOrInline
  <2>2. Rooms' /\ jobs' \subseteq {"update", "callback"} \X Reqs /\ persistPool' \subseteq Reqs
      BY <1>4, <2>1, PutJob
  <2>3. /\ <<"callback", q>> \in jobs' /\ (<<"update", q>> \in jobs') = (<<"update", q>> \in jobs)
        /\ \A x \in Reqs \ {q} : /\ (<<"update", x>> \in jobs') = (<<"update", x>> \in jobs)
                                 /\ (<<"callback", x>> \in jobs') = (<<"callback", x>> \in jobs)
      BY <2>1
  <2>4. ReqSound(r, srow[q], charges[q], called[q], <<"update", q>> \in jobs', <<"callback", q>> \in jobs',
                 q \in persistPool', q \in torn', q \in upfail \cup cut)
      BY <1>1, <1>2, <1>3, <2>1, <2>3, SrFacts DEF Back, ReqSound, Answered
  <2>6. /\ srow' = [srow EXCEPT ![q] = srow[q]] /\ charges' = [charges EXCEPT ![q] = charges[q]]
        /\ called' = [called EXCEPT ![q] = called[q]] /\ gone' \subseteq Reqs
      BY <1>1, <2>1, Rewritten
  <2>7. /\ srow[q] \in RowStates /\ charges[q] \in Nat /\ called[q] \in Nat /\ r.pc # "call" /\ sr[q].pc # "call"
        /\ torn \subseteq torn' /\ torn' \subseteq torn \cup {q}
      BY <1>1, <1>2, SrFacts
  <2>8. \A x \in Reqs \ {q} : /\ (<<"update", x>> \in jobs') = (<<"update", x>> \in jobs)
                              /\ (<<"callback", x>> \in jobs') = (<<"callback", x>> \in jobs)
                              /\ (x \in persistPool') = (x \in persistPool)
      BY <2>1, <2>3
  <2> QED BY <1>1, <1>2, <2>2, <2>4, <2>6, <2>7, <2>8, OwnStep
<1>5. CASE Busy /\ Cardinality(persistPool) < PersistSlots
  <2>1. persistPool' = persistPool \cup {q} /\ UNCHANGED <<jobs, called>>
      BY <1>5 DEF publishOrInline
  <2>2. Rooms /\ jobs \subseteq {"update", "callback"} \X Reqs /\ persistPool \subseteq Reqs
      BY DEF SrInv, SrTypes
  <2>3. IsFiniteSet(persistPool) /\ Cardinality(persistPool) \in Nat
      BY <2>2, FS_CardinalityType DEF Rooms
  <2>4. IsFiniteSet(persistPool') /\ Cardinality(persistPool') = Cardinality(persistPool) + 1
      BY <2>1, <2>3, <1>3, FS_AddElement
  <2>5. Rooms'
      BY <1>5, <2>1, <2>2, <2>3, <2>4 DEF Rooms
  <2>6. ReqSound(r, srow[q], charges[q], called[q], <<"update", q>> \in jobs', <<"callback", q>> \in jobs',
                 q \in persistPool', q \in torn', q \in upfail \cup cut)
      BY <1>1, <1>2, <1>3, <2>1, SrFacts DEF Back, ReqSound, Answered
  <2>7. \A x \in Reqs \ {q} : (x \in persistPool') = (x \in persistPool)
      BY <2>1
  <2>8. jobs' \subseteq {"update", "callback"} \X Reqs /\ persistPool' \subseteq Reqs
      BY <2>1, <2>2
  <2> QED BY <1>1, <1>2, <2>1, <2>5, <2>6, <2>7, <2>8, SrFacts, Rewritten, OwnStep
<1>6. CASE Busy /\ ~(Cardinality(persistPool) < PersistSlots)
  <2>1. called' = [called EXCEPT ![q] = called[q] + 1] /\ UNCHANGED <<jobs, persistPool>>
      BY <1>6 DEF publishOrInline, RunInline
  <2>2. Rooms' /\ jobs' \subseteq {"update", "callback"} \X Reqs /\ persistPool' \subseteq Reqs
      BY <2>1 DEF SrInv, SrTypes, Rooms
  <2>3. called' = [called EXCEPT ![q] = 1]
      BY <2>1, <1>3
  <2>4. ReqSound(r, srow[q], charges[q], 1, <<"update", q>> \in jobs', <<"callback", q>> \in jobs',
                 q \in persistPool', q \in torn', q \in upfail \cup cut)
      BY <1>1, <1>2, <1>3, <2>1, SrFacts DEF Back, ReqSound, Answered
  <2> QED BY <1>1, <1>2, <2>1, <2>2, <2>3, <2>4, SrFacts, Rewritten, OwnStep
<1> QED BY <1>4, <1>5, <1>6

LEMMA AnswerKeeps ==
    ASSUME SrInv, NEW q \in Reqs, AnswerCreate(q)
    PROVE  SrInv'
<1>1. sr[q].pc = "answer" /\ UNCHANGED <<srow, charges, gone, calls, back, told, torn>>
    BY DEF AnswerCreate
<1>2. PICK v \in Answered : Ends(q, v)
    BY DEF AnswerCreate, Answered
<1>3. PICK r \in SrRecs : sr' = [sr EXCEPT ![q] = r] /\ r.pc = "done" /\ r.res = v /\ r.fb = sr[q].fb
    BY <1>2, EndsFacts DEF Answered, Results
<1>4. Back(q, r, srow[q], charges[q], q \in torn)
    BY <1>1, <1>2, <1>3, SrFacts DEF Back, ReqSound, Answered
<1>5. r.pc # "call" /\ sr[q].pc # "call"
    BY <1>1, <1>3
<1> QED BY <1>1, <1>3, <1>4, <1>5, SrFacts, Rewritten, QuietReq

LEMMA RunUpdateKeeps ==
    ASSUME SrInv, NEW q \in Reqs, NEW ok \in BOOLEAN, RunUpdate(q, ok)
    PROVE  SrInv'
<1>1. /\ <<"update", q>> \in jobs /\ jobs' = jobs \ {<<"update", q>>} /\ Completes(q, ok)
      /\ UNCHANGED <<sr, charges, gone, flight, tries, persistPool, called, upfail, cut>>
    BY DEF RunUpdate, calls, told
<1>2. PICK st \in RowStates : srow' = [srow EXCEPT ![q] = st] /\ (st = "completed" \/ (st = srow[q] /\ q \in torn'))
    BY <1>1, CompletesFacts
<1>3. torn \subseteq torn' /\ torn' \subseteq torn \cup {q}
    BY <1>1, CompletesFacts
<1>4. persistPool' = persistPool \ {}
    BY <1>1
<1>5. Rooms' /\ jobs' \subseteq {"update", "callback"} \X Reqs /\ persistPool' \subseteq Reqs
    BY <1>1, <1>4, TakeJob
<1>6. /\ <<"update", q>> \notin jobs' /\ (<<"callback", q>> \in jobs') = (<<"callback", q>> \in jobs)
      /\ \A x \in Reqs \ {q} : /\ (<<"update", x>> \in jobs') = (<<"update", x>> \in jobs)
                               /\ (<<"callback", x>> \in jobs') = (<<"callback", x>> \in jobs)
    BY <1>1
<1>7. sr[q].pc \in {"callback", "answer"} \/ (sr[q].pc = "done" /\ sr[q].res \in Answered)
    BY <1>1, SrFacts DEF Back, ReqSound, SrRecs, SrPcs
<1>8. ReqSound(sr[q], st, charges[q], called[q], <<"update", q>> \in jobs', <<"callback", q>> \in jobs',
               q \in persistPool', q \in torn', q \in upfail \cup cut)
    BY <1>1, <1>2, <1>3, <1>6, <1>7, SrFacts DEF Back, ReqSound, Answered
<1>9. /\ sr' = [sr EXCEPT ![q] = sr[q]] /\ charges' = [charges EXCEPT ![q] = charges[q]]
      /\ called' = [called EXCEPT ![q] = called[q]] /\ gone' \subseteq Reqs
    BY <1>1, Rewritten
<1>10. \A x \in Reqs \ {q} : /\ (<<"update", x>> \in jobs') = (<<"update", x>> \in jobs)
                             /\ (<<"callback", x>> \in jobs') = (<<"callback", x>> \in jobs)
                             /\ (x \in persistPool') = (x \in persistPool)
    BY <1>1, <1>6
<1>11. sr[q] \in SrRecs /\ charges[q] \in Nat /\ called[q] \in Nat
    BY SrFacts
<1> QED BY <1>1, <1>2, <1>3, <1>5, <1>8, <1>9, <1>10, <1>11, OwnStep

LEMMA RunCallbackKeeps ==
    ASSUME SrInv, NEW q \in Reqs, RunCallback(q)
    PROVE  SrInv'
<1>1. UNCHANGED <<sr, srow, charges, gone, flight, tries, upfail, cut, torn>>
    BY DEF RunCallback, calls, told
<1>2. called' = [called EXCEPT ![q] = called[q] + 1]
    BY DEF RunCallback
<1>3. CASE <<"callback", q>> \in jobs /\ jobs' = jobs \ {<<"callback", q>>} /\ UNCHANGED persistPool
  <2>1. persistPool' = persistPool \ {}
      BY <1>3
  <2>2. Rooms' /\ jobs' \subseteq {"update", "callback"} \X Reqs /\ persistPool' \subseteq Reqs
      BY <1>3, <2>1, TakeJob
  <2>3. /\ <<"callback", q>> \notin jobs' /\ (<<"update", q>> \in jobs') = (<<"update", q>> \in jobs)
        /\ \A x \in Reqs \ {q} : /\ (<<"update", x>> \in jobs') = (<<"update", x>> \in jobs)
                                 /\ (<<"callback", x>> \in jobs') = (<<"callback", x>> \in jobs)
      BY <1>3
  <2>4. /\ sr[q].pc = "answer" \/ (sr[q].pc = "done" /\ sr[q].res \in Answered)
        /\ called[q] = 0 /\ q \notin persistPool
      BY <1>3, SrFacts DEF Back, ReqSound, SrRecs, SrPcs
  <2>5. called' = [called EXCEPT ![q] = 1]
      BY <1>2, <2>4
  <2>6. ReqSound(sr[q], srow[q], charges[q], 1, <<"update", q>> \in jobs', <<"callback", q>> \in jobs',
                 q \in persistPool', q \in torn', q \in upfail \cup cut)
      BY <1>1, <1>3, <2>3, <2>4, SrFacts DEF Back, ReqSound, Answered
  <2> QED BY <1>1, <1>3, <2>2, <2>3, <2>5, <2>6, SrFacts, Rewritten, OwnStep
<1>4. CASE q \in persistPool /\ persistPool' = persistPool \ {q} /\ UNCHANGED jobs
  <2>1. jobs' = jobs \ {}
      BY <1>4
  <2>2. Rooms' /\ jobs' \subseteq {"update", "callback"} \X Reqs /\ persistPool' \subseteq Reqs
      BY <1>4, <2>1, TakeJob
  <2>3. q \notin persistPool' /\ \A x \in Reqs \ {q} : (x \in persistPool') = (x \in persistPool)
      BY <1>4
  <2>4. /\ sr[q].pc = "answer" \/ (sr[q].pc = "done" /\ sr[q].res \in Answered)
        /\ called[q] = 0 /\ <<"callback", q>> \notin jobs
      BY <1>4, SrFacts DEF Back, ReqSound, SrRecs, SrPcs
  <2>5. called' = [called EXCEPT ![q] = 1]
      BY <1>2, <2>4
  <2>6. ReqSound(sr[q], srow[q], charges[q], 1, <<"update", q>> \in jobs', <<"callback", q>> \in jobs',
                 q \in persistPool', q \in torn', q \in upfail \cup cut)
      BY <1>1, <1>4, <2>3, <2>4, SrFacts DEF Back, ReqSound, Answered
  <2> QED BY <1>1, <1>4, <2>2, <2>3, <2>5, <2>6, SrFacts, Rewritten, OwnStep
<1> QED BY <1>3, <1>4 DEF RunCallback

LEMMA LeavesKeeps ==
    ASSUME SrInv, NEW q \in Reqs, CallerLeaves(q)
    PROVE  SrInv'
<1>1. gone' = gone \cup {q} /\ UNCHANGED <<sr, srow, charges, calls, back, told, torn>>
    BY DEF CallerLeaves
<1>2. gone' \subseteq Reqs
    BY <1>1 DEF SrInv, SrTypes
<1> QED BY <1>1, <1>2, SrFacts, Rewritten, QuietReq

-----------------------------------------------------------------------------
(* Shared calls.                                                            *)

LEMMA CallProviderKeeps ==
    ASSUME SrInv, NEW q \in Reqs, NEW ok \in BOOLEAN, CallProvider(q, ok)
    PROVE  SrInv'
<1> USE SrAssumption DEF SrAssumption
<1>1. /\ sr[q].pc = "try" /\ sr[q].at \in Cand /\ Goes(q, "call")
      /\ UNCHANGED <<charges, gone, tries, jobs, persistPool, called, upfail, cut>>
    BY DEF CallProvider, Trying, back, told
<1>2. PICK r \in SrRecs : /\ sr' = [sr EXCEPT ![q] = r]
                          /\ r.pc = "call" /\ r.at = sr[q].at /\ r.got = sr[q].got /\ r.prev = sr[q].prev
                          /\ r.res = sr[q].res /\ r.fb = sr[q].fb
    BY <1>1, GoesFacts DEF SrPcs
<1>3. /\ torn \subseteq torn' /\ torn' \subseteq torn \cup {q}
      /\ \E st \in RowStates : srow' = [srow EXCEPT ![q] = st] /\ st \in {"in_progress", srow[q]}
  <2>1. CASE sr[q].fb
    <3>1. Writes(q, ok) /\ UpdateRow(q, ok, "in_progress")
        BY <2>1 DEF CallProvider
    <3>2. \E st \in RowStates : srow' = [srow EXCEPT ![q] = st] /\ (ok => st = "in_progress") /\ (~ok => st = srow[q])
        BY <3>1, RowFacts DEF RowStates
    <3> QED BY <3>1, <3>2, WritesFacts
  <2>2. CASE ~sr[q].fb
    <3>1. UNCHANGED <<srow, torn>>
        BY <2>2 DEF CallProvider
    <3> QED BY <3>1, Rewritten, SrFacts
  <2> QED BY <2>1, <2>2
<1>4. PICK st \in RowStates : srow' = [srow EXCEPT ![q] = st] /\ st \in {"in_progress", srow[q]}
    BY <1>3
<1>5. SrTypes /\ CallsOwned /\ Rooms
    BY DEF SrInv
<1>6. PICK p : p = sfKey(q)
    OBVIOUS
<1>7. PICK o : o = IF flight[p] = Nobody2 THEN q ELSE flight[p]
    OBVIOUS
<1>8. p \in sfKeys /\ flight' = [flight EXCEPT ![p] = o]
  <2>1. sfKey(q) \in sfKeys
      BY <1>1, SrFacts DEF sfKey, sfKeys, SrRecs
  <2>2. flight' = [flight EXCEPT ![sfKey(q)] = IF flight[sfKey(q)] = Nobody2 THEN q ELSE flight[sfKey(q)]]
      BY Zenon DEF CallProvider
  <2> QED BY <2>1, <2>2, <1>6, <1>7
<1>9. flight[p] \in Reqs \cup {Nobody2} /\ o \in Reqs
    BY <1>5, <1>7, <1>8 DEF SrTypes
<1>10. /\ flight' \in [sfKeys -> Reqs \cup {Nobody2}] /\ flight'[p] = o
       /\ \A s \in sfKeys \ {p} : flight'[s] = flight[s]
    BY <1>5, <1>8, <1>9 DEF SrTypes
<1>11. sr'[q] = r /\ \A x \in Reqs \ {q} : sr'[x] = sr[x]
    BY <1>2, <1>5 DEF SrTypes
<1>12. \A x \in Reqs : sfKey(x)' = sfKey(x)
    BY <1>2, <1>11 DEF sfKey
<1>13. sr'[q].pc = "call" /\ \A x \in Reqs \ {q} : sr'[x].pc = sr[x].pc
    BY <1>2, <1>11
<1>14. sr'[o].pc = "call" /\ sfKey(o) = p
    BY <1>5, <1>6, <1>7, <1>8, <1>9, <1>13 DEF CallsOwned
<1>15. \A s \in sfKeys : IF flight'[s] = Nobody2 THEN \A x \in Reqs : sr'[x].pc = "call" => sfKey(x) # s
                         ELSE sr'[flight'[s]].pc = "call" /\ sfKey(flight'[s]) = s
  <2> TAKE s \in sfKeys
  <2>1. CASE s = p
      BY <2>1, <1>9, <1>10, <1>14
  <2>2. CASE s # p
    <3>1. flight'[s] = flight[s] /\ flight[s] \in Reqs \cup {Nobody2}
        BY <2>2, <1>5, <1>10 DEF SrTypes
    <3>2. CASE flight[s] = Nobody2
        BY <3>1, <3>2, <2>2, <1>5, <1>6, <1>13 DEF CallsOwned
    <3>3. CASE flight[s] # Nobody2
        BY <3>1, <3>3, <2>2, <1>5, <1>13 DEF CallsOwned
    <3> QED BY <3>2, <3>3
  <2> QED BY <2>1, <2>2
<1>16. CallsOwned'
  <2>1. \A s \in sfKeys : flight'[s] \in Reqs \cup {Nobody2}
      BY <1>10
  <2> QED BY <1>12, <1>15, <2>1 DEF CallsOwned
<1>17. ReqSound(r, st, charges[q], called[q], <<"update", q>> \in jobs', <<"callback", q>> \in jobs', q \in persistPool',
                q \in torn', q \in upfail \cup cut)
    BY <1>1, <1>2, <1>3, <1>4, SrFacts DEF Back, ReqSound, Answered
<1>18. Rooms' /\ jobs' \subseteq {"update", "callback"} \X Reqs /\ persistPool' \subseteq Reqs /\ gone' \subseteq Reqs
    BY <1>1, <1>5 DEF SrTypes, Rooms
<1>19. /\ charges' = [charges EXCEPT ![q] = charges[q]] /\ called' = [called EXCEPT ![q] = called[q]]
       /\ charges[q] \in Nat /\ called[q] \in Nat
    BY <1>1, Rewritten, SrFacts
<1>20. \A x \in Reqs \ {q} : /\ (<<"update", x>> \in jobs') = (<<"update", x>> \in jobs)
                             /\ (<<"callback", x>> \in jobs') = (<<"callback", x>> \in jobs)
                             /\ (x \in persistPool') = (x \in persistPool)
    BY <1>1
<1>21. UNCHANGED <<tries, upfail, cut>>
    BY <1>1
<1> QED BY <1>2, <1>3, <1>4, <1>10, <1>16, <1>17, <1>18, <1>19, <1>20, <1>21, RowsStep

\* A call that is over, for all that share it; when it failed, they have a cause.
LEMMA LandsKeeps ==
    ASSUME SrInv, NEW p \in sfKeys, NEW g \in {"ok", "error"}, Lands(p, g),
           upfail \cup cut \subseteq (upfail \cup cut)', g = "error" => Sharing(p) \subseteq (upfail \cup cut)'
    PROVE  SrInv'
<1> USE SrAssumption DEF SrAssumption
<1>1. SrTypes /\ CallsOwned /\ Rooms
    BY DEF SrInv
<1>2. /\ sr' = [q \in Reqs |-> IF q \in Sharing(p) THEN [sr[q] EXCEPT !.pc = "got", !.got = g] ELSE sr[q]]
      /\ flight' = [flight EXCEPT ![p] = Nobody2] /\ tries' = [tries EXCEPT ![p] = 0]
      /\ UNCHANGED <<srow, charges, gone, jobs, persistPool, called, torn>>
    BY DEF Lands, back
<1>3. ASSUME NEW x \in Reqs, x \notin Sharing(p)
      PROVE  sr'[x] = sr[x]
    BY <1>2, <1>3
<1>4. ASSUME NEW x \in Reqs, x \in Sharing(p)
      PROVE  /\ sr'[x] \in SrRecs /\ sr'[x].pc = "got" /\ sr'[x].got = g /\ sr'[x].at = sr[x].at
             /\ sr'[x].res = sr[x].res /\ sr'[x].fb = sr[x].fb /\ sr[x].pc = "call"
  <2>1. sr[x] \in SrRecs /\ sr[x].pc = "call"
      BY <1>1, <1>4 DEF SrTypes, Sharing
  <2>2. sr'[x] = [sr[x] EXCEPT !.pc = "got", !.got = g]
      BY <1>2, <1>4
  <2>3. PICK t : t = [sr[x] EXCEPT !.pc = "got", !.got = g]
      OBVIOUS
  <2>4. t \in SrRecs /\ t.pc = "got" /\ t.got = g /\ t.at = sr[x].at /\ t.res = sr[x].res
      BY <2>1, <2>3 DEF SrRecs, SrPcs
  <2>5. t.fb = sr[x].fb
      BY <2>1, <2>3, Zenon DEF SrRecs
  <2> QED BY <2>1, <2>2, <2>3, <2>4, <2>5
<1>5. sr' \in [Reqs -> SrRecs]
  <2>1. \A x \in Reqs : sr'[x] \in SrRecs
      BY <1>1, <1>3, <1>4 DEF SrTypes
  <2>2. DOMAIN sr' = Reqs
      BY <1>2
  <2>3. sr' = [x \in Reqs |-> sr'[x]]
      BY <1>2, <2>2
  <2> QED BY <2>1, <2>3
<1>6. SrTypes'
  <2>1. flight' \in [sfKeys -> Reqs \cup {Nobody2}]
      BY <1>1, <1>2 DEF SrTypes
  <2>2. tries' \in [sfKeys -> 0 .. MaxRetries]
    <3>1. tries \in [sfKeys -> 0 .. MaxRetries] /\ 0 \in 0 .. MaxRetries
        BY <1>1 DEF SrTypes
    <3> QED BY <3>1, <1>2
  <2>3. /\ srow \in [Reqs -> RowStates] /\ charges \in [Reqs -> Nat] /\ called \in [Reqs -> Nat]
        /\ gone \subseteq Reqs /\ persistPool \subseteq Reqs /\ jobs \subseteq {"update", "callback"} \X Reqs
      BY <1>1 DEF SrTypes
  <2>4. UNCHANGED <<srow, charges, gone, jobs, persistPool, called>>
      BY <1>2
  <2> QED BY <1>5, <2>1, <2>2, <2>3, <2>4 DEF SrTypes
<1>7. Rooms'
    BY <1>1, <1>2 DEF Rooms
<1>8. \A x \in Reqs : sr'[x].pc = "call" => sr'[x] = sr[x] /\ sfKey(x) # p
    BY <1>3, <1>4 DEF Sharing
<1>9. \A x \in Reqs : sr[x].pc = "call" /\ sfKey(x) # p => sr'[x] = sr[x]
    BY <1>3 DEF Sharing
<1>10. flight'[p] = Nobody2 /\ \A s \in sfKeys \ {p} : flight'[s] = flight[s] /\ flight[s] \in Reqs \cup {Nobody2}
    BY <1>1, <1>2 DEF SrTypes
<1>11. CallsOwned'
  <2> SUFFICES ASSUME NEW s \in sfKeys
               PROVE  IF flight'[s] = Nobody2 THEN \A q \in Reqs : sr'[q].pc = "call" => <<sr'[q].at, sr'[q].prev>> # s
                      ELSE sr'[flight'[s]].pc = "call" /\ <<sr'[flight'[s]].at, sr'[flight'[s]].prev>> = s
      BY DEF CallsOwned, sfKey
  <2>1. CASE s = p
      BY <2>1, <1>8, <1>10 DEF sfKey
  <2>2. CASE s # p
    <3>1. flight'[s] = flight[s] /\ flight[s] \in Reqs \cup {Nobody2}
        BY <2>2, <1>10
    <3>2. CASE flight[s] = Nobody2
        BY <3>1, <3>2, <1>1, <1>8 DEF CallsOwned, sfKey
    <3>3. CASE flight[s] # Nobody2
      <4>1. flight[s] \in Reqs /\ sr[flight[s]].pc = "call" /\ sfKey(flight[s]) = s
          BY <3>1, <3>3, <1>1 DEF CallsOwned
      <4>2. sr'[flight[s]] = sr[flight[s]]
          BY <4>1, <1>9, <2>2
      <4> QED BY <4>1, <4>2, <3>1, <3>3 DEF sfKey
    <3> QED BY <3>2, <3>3
  <2> QED BY <2>1, <2>2
<1>12. ASSUME NEW x \in Reqs PROVE ReqOf(x)'
  <2>1. ReqOf(x)
      BY DEF SrInv
  <2>2. UNCHANGED <<srow, charges, jobs, persistPool, called, torn>>
      BY <1>2
  <2>3. x \in upfail \cup cut => x \in (upfail \cup cut)'
      OBVIOUS
  <2>4. ReqSound(sr'[x], srow[x], charges[x], called[x], <<"update", x>> \in jobs, <<"callback", x>> \in jobs,
                 x \in persistPool, x \in torn, x \in (upfail \cup cut)')
    <3>1. CASE x \in Sharing(p)
      <4>1. g = "error" => x \in (upfail \cup cut)'
          BY <3>1
      <4> QED BY <1>4, <2>1, <2>3, <3>1, <4>1 DEF ReqOf, ReqSound, Answered
    <3>2. CASE x \notin Sharing(p)
        BY <1>3, <2>1, <2>3, <3>2 DEF ReqOf, ReqSound
    <3> QED BY <3>1, <3>2
  <2> QED BY <2>2, <2>4 DEF ReqOf
<1> QED BY <1>6, <1>7, <1>11, <1>12 DEF SrInv

LEMMA UpstreamKeeps ==
    ASSUME SrInv, NEW p \in sfKeys, UpstreamAnswers(p) \/ UpstreamFails(p) \/ UpstreamRetries(p) \/ UpstreamCut(p)
    PROVE  SrInv'
<1> USE SrAssumption DEF SrAssumption
<1>1. CASE UpstreamAnswers(p)
  <2>1. Lands(p, "ok") /\ UNCHANGED <<upfail, cut>>
      BY <1>1 DEF UpstreamAnswers, told
  <2> QED BY <2>1, LandsKeeps
<1>2. CASE UpstreamFails(p)
  <2>1. Lands(p, "error") /\ upfail' = upfail \cup Sharing(p) /\ UNCHANGED cut
      BY <1>2 DEF UpstreamFails, Sharing
  <2> QED BY <2>1, LandsKeeps
<1>3. CASE UpstreamCut(p)
  <2>1. Lands(p, "error") /\ cut' = cut \cup Sharing(p) /\ UNCHANGED upfail
      BY <1>3 DEF UpstreamCut, Sharing
  <2> QED BY <2>1, LandsKeeps
<1>4. CASE UpstreamRetries(p)
  <2>1. /\ tries[p] < MaxRetries /\ tries' = [tries EXCEPT ![p] = @ + 1]
        /\ UNCHANGED <<sr, srow, charges, gone, flight, jobs, persistPool, called, upfail, cut, torn>>
      BY <1>4 DEF UpstreamRetries, back, told
  <2>2. SrTypes'
      BY <2>1 DEF SrInv, SrTypes
  <2>3. Rooms' /\ CallsOwned'
      BY <2>1 DEF SrInv, Rooms, CallsOwned, sfKey
  <2>4. \A q \in Reqs : ReqOf(q)'
      BY <2>1 DEF SrInv, ReqOf
  <2> QED BY <2>2, <2>3, <2>4 DEF SrInv
<1> QED BY <1>1, <1>2, <1>3, <1>4

-----------------------------------------------------------------------------
LEMMA SrInitially ==
    ASSUME SrInit
    PROVE  SrInv
<1> USE SrAssumption DEF SrAssumption
<1>1. SrTypes
    BY DEF SrInit, SrTypes, NoReq, SrRecs, SrPcs, Results, RowStates
<1>2. Rooms
    BY FS_EmptySet DEF SrInit, Rooms
<1>3. \A q \in Reqs : sr[q] = NoReq
    BY DEF SrInit
<1>4. CallsOwned
    BY <1>3 DEF SrInit, CallsOwned, NoReq
<1>5. \A q \in Reqs : ReqOf(q)
    BY <1>3 DEF SrInit, ReqOf, ReqSound, NoReq, Answered
<1> QED BY <1>1, <1>2, <1>4, <1>5 DEF SrInv

LEMMA SrStep ==
    ASSUME SrInv, [SrNext]_srVars
    PROVE  SrInv'
<1>1. CASE UNCHANGED srVars
  <2>1. UNCHANGED <<sr, srow, charges, gone, flight, tries, jobs, persistPool, called, upfail, cut, torn>>
      BY <1>1 DEF srVars
  <2> QED BY <2>1 DEF SrInv, SrTypes, Rooms, CallsOwned, sfKey, ReqOf
<1>2. CASE \E p \in sfKeys : UpstreamAnswers(p) \/ UpstreamFails(p) \/ UpstreamRetries(p) \/ UpstreamCut(p)
    BY <1>2, UpstreamKeeps
<1>3. CASE \E q \in Reqs, prev \in Reqs \cup {Nobody2} : Create(q, prev) \/ HydrationFails(q, prev)
    BY <1>3, CreateKeeps, HydrationKeeps
<1>4. CASE \E q \in Reqs, ok \in BOOLEAN :
              \/ AdmitCreate(q, ok) \/ RateLimited(q, ok) \/ CallProvider(q, ok) \/ CallFailed(q, ok)
              \/ NoCandidateLeft(q, ok) \/ ToolLoopFails(q, ok)
    BY <1>4, AdmitKeeps, RateLimitedKeeps, CallProviderKeeps, CallFailedKeeps, NoneLeftKeeps, ToolFailsKeeps
<1>5. CASE \E q \in Reqs, ok \in BOOLEAN :
              \/ ConsumeBudgets(q, ok) \/ ChargeUsage(q, ok) \/ PublishCompletion(q, ok) \/ RunUpdate(q, ok)
    BY <1>5, ConsumeKeeps, UsageKeeps, PublishKeeps, RunUpdateKeeps
<1>6. CASE \E q \in Reqs, ok \in BOOLEAN, b \in BOOLEAN :
              PlanCreate(q, b, ok) \/ OutputBudgetError(q, ok, b) \/ BudgetExceeded(q, ok, b)
    BY <1>6, PlanKeeps, FailsChargedKeeps
<1>7. CASE \E q \in Reqs : RefuseTools(q) \/ LookupShared(q) \/ SkipCandidate(q) \/ ToolRound(q)
    BY <1>7, RefuseToolsKeeps, LookupKeeps, SkipKeeps, ToolRoundKeeps
<1>8. CASE \E q \in Reqs, block \in BOOLEAN : PostCall(q, block)
    BY <1>8, PostCallKeeps
<1>9. CASE \E q \in Reqs : publishOrInline(q) \/ AnswerCreate(q) \/ RunCallback(q) \/ CallerLeaves(q)
    BY <1>9, CallbackKeeps, AnswerKeeps, RunCallbackKeeps, LeavesKeeps
<1> QED BY <1>1, <1>2, <1>3, <1>4, <1>5, <1>6, <1>7, <1>8, <1>9, Zenon DEF SrNext

LEMMA SrImplies ==
    ASSUME SrInv
    PROVE  CreateSound
<1> USE SrAssumption DEF SrAssumption
<1>1. SrTypes /\ Rooms /\ CallsOwned
    BY DEF SrInv
<1>2. \A q \in Reqs : /\ sr[q] \in SrRecs /\ srow[q] \in RowStates
                      /\ Back(q, sr[q], srow[q], charges[q], q \in torn) /\ charges[q] \in Nat /\ called[q] \in Nat
    BY SrFacts
<1>3. SrTypeOK
  <2>1. \A q \in Reqs : /\ sr[q].pc \in SrPcs /\ sr[q].at \in 1 .. NCand + 1 /\ srow[q] \in RowStates
                        /\ sr[q].rounds \in 0 .. MaxLoopRounds
      BY <1>2 DEF SrRecs
  <2>2. \A p \in sfKeys : /\ tries[p] \in 0 .. MaxRetries
                          /\ Sharing(p) # {} <=> flight[p] # Nobody2
                          /\ flight[p] # Nobody2 => flight[p] \in Sharing(p)
    <3> TAKE p \in sfKeys
    <3>1. flight[p] \in Reqs \cup {Nobody2} /\ tries[p] \in 0 .. MaxRetries
        BY <1>1 DEF SrTypes
    <3>2. CASE flight[p] = Nobody2
      <4>1. Sharing(p) = {}
          BY <3>2, <1>1 DEF CallsOwned, Sharing
      <4> QED BY <4>1, <3>1, <3>2
    <3>3. CASE flight[p] # Nobody2
      <4>1. flight[p] \in Sharing(p)
          BY <3>1, <3>3, <1>1 DEF CallsOwned, Sharing
      <4> QED BY <4>1, <3>1, <3>3
    <3> QED BY <3>2, <3>3
  <2>3. /\ gone \subseteq Reqs /\ persistPool \subseteq Reqs /\ Cardinality(persistPool) <= PersistSlots
        /\ jobs \subseteq {"update", "callback"} \X Reqs /\ Cardinality(jobs) <= BusSize
      BY <1>1 DEF SrTypes, Rooms
  <2> QED BY <2>1, <2>2, <2>3 DEF SrTypeOK, SrPcs, RowStates
<1>4. ChargedOnce
  <2> SUFFICES ASSUME NEW q \in Reqs
               PROVE  /\ charges[q] <= 1 /\ (sr[q].res \in {"ok", "blocked"} \/ srow[q] = "completed" => charges[q] = 1)
                      /\ sr[q].res = "blocked_error" => q \in torn
      BY DEF ChargedOnce
  <2>1. sr[q].pc \in SrPcs
      BY <1>2 DEF SrRecs
  <2>2. Back(q, sr[q], srow[q], charges[q], q \in torn) /\ charges[q] \in Nat
      BY <1>2
  <2>3. charges[q] = 0 \/ charges[q] = 1 \/ (sr[q].pc = "done" /\ sr[q].res \notin Answered /\ charges[q] <= 1)
      BY <2>1, <2>2 DEF Back, ReqSound, SrPcs
  <2>4. sr[q].res \in Answered \/ srow[q] = "completed" => charges[q] = 1
      BY <2>1, <2>2 DEF Back, ReqSound, SrPcs
  <2>5. sr[q].res = "blocked_error" => q \in torn
      BY <2>2 DEF Back, ReqSound
  <2> QED BY <2>3, <2>4, <2>5 DEF Answered
<1>5. RowSettles
    BY <1>2 DEF RowSettles, Back, ReqSound, Answered
<1>6. FailsWithCause
    BY <1>2 DEF FailsWithCause, Back, ReqSound
<1>7. CallbackOnce
  <2> SUFFICES ASSUME NEW q \in Reqs
               PROVE  /\ called[q] <= 1
                      /\ sr[q].res \in {"ok", "blocked"} /\ <<"callback", q>> \notin jobs /\ q \notin persistPool
                            => called[q] = 1
                      /\ sr[q].res \in {"blocked_error", "blocked_budget", "error", "budget"} => called[q] = 0
      BY DEF CallbackOnce
  <2>1. sr[q].pc \in SrPcs
      BY <1>2 DEF SrRecs
  <2>2. Back(q, sr[q], srow[q], charges[q], q \in torn) /\ called[q] \in Nat
      BY <1>2
  <2>3. called[q] = 0 \/ called[q] = 1
      BY <2>1, <2>2 DEF Back, ReqSound, SrPcs
  <2>4. sr[q].res \in Answered /\ <<"callback", q>> \notin jobs /\ q \notin persistPool => called[q] = 1
      BY <2>1, <2>2 DEF Back, ReqSound, SrPcs
  <2>5. sr[q].res \in {"blocked_error", "blocked_budget", "error", "budget"} => called[q] = 0
      BY <2>1, <2>2 DEF Back, ReqSound, SrPcs, Answered
  <2> QED BY <2>3, <2>4, <2>5 DEF Answered
<1> QED BY <1>3, <1>4, <1>5, <1>6, <1>7 DEF CreateSound

\* CreateSound, for any requests, candidates, retries, tool rounds and faults, and any room on the
\* bus and in the pool, while requests share calls and clients leave at any moment.
THEOREM CreateCorrect == SrSpec => []CreateSound
<1>1. SrInit => SrInv
    BY SrInitially
<1>2. SrInv /\ [SrNext]_srVars => SrInv'
    BY SrStep
<1>3. SrInv => CreateSound
    BY SrImplies
<1> QED BY <1>1, <1>2, <1>3, PTL DEF SrSpec

-----------------------------------------------------------------------------
(* ProviderRegistry.                                                        *)

OpPcs == {"idle", "manager", "store", "remove", "append", "append2", "unlist", "unlist2"}
RegRecs == Records \cup {Absent}
OpRecs == [pc : OpPcs, name : Names \cup {""}, rec : RegRecs, prev : RegRecs, prevErr : BOOLEAN, tenant : BOOLEAN,
           alone : BOOLEAN, names : SUBSET Names, listAlone : BOOLEAN]
CheckRecs == [pc : {"idle", "probe", "store", "apply"}, name : Names \cup {""}, status : Health, rec : RegRecs,
              alone : BOOLEAN]
PStats == {NoStat} \cup [is : {"there"}, status : Health, load : Nat]

StatsGood ==
    /\ pstat \in [Names -> PStats] /\ routed \in [Names -> 0 .. MaxRoutes]
    /\ \A n \in Names : pstat[n].load <= routed[n]
    /\ \A n \in inst : pstat[n].is = "there"

RegTypes ==
    /\ inst \subseteq Names /\ reg \in [Names -> RegRecs] /\ row \in [Names -> RegRecs]
    /\ failures \in [Names -> 0 .. FailureThreshold] /\ tame \in [Names -> BOOLEAN]
    /\ regOp \in [RegCallers -> OpRecs] /\ \A c \in RegCallers : regOp[c].pc # "idle" => regOp[c].name \in Names
    /\ check \in [Checks -> CheckRecs] /\ \A k \in Checks : check[k].pc # "idle" => check[k].name \in Names

\* Who is at a provider.
AtC(c, n) == regOp[c].pc \in {"manager", "store", "remove"} /\ regOp[c].name = n
AtK(k, n) == check[k].pc \in {"store", "apply"} /\ check[k].name = n

\* Instance and statistics are as a record says.
Held(n, rec) == (n \in inst <=> rec.on) /\ (n \in inst => pstat[n].status = rec.health)
Synced(n) == reg[n] = row[n] /\ Held(n, row[n])

\* Nobody has changed the provider in one place only.
Clean(n) ==
    /\ \A c \in RegCallers : AtC(c, n) => regOp[c].pc = "manager"
    /\ \A k \in Checks : AtK(k, n) => check[k].pc = "store"

\* Who is alone at a provider knows how it was and where it is changed.
RegCallGood(c, n) ==
    AtC(c, n) /\ regOp[c].alone =>
        /\ \A d \in RegCallers : AtC(d, n) => d = c
        /\ \A k \in Checks : ~AtK(k, n)
        /\ regOp[c].pc \in {"manager", "store"} /\ tame[n] => regOp[c].prev = row[n] /\ ~regOp[c].prevErr
        /\ regOp[c].pc = "store" => reg[n] = regOp[c].rec /\ Held(n, regOp[c].rec)
        /\ regOp[c].pc = "remove" => row[n] = Absent

RegCheckGood(k, n) ==
    AtK(k, n) /\ check[k].alone =>
        /\ \A j \in Checks : AtK(j, n) => j = k
        /\ \A c \in RegCallers : ~AtC(c, n)
        /\ check[k].pc = "apply" /\ tame[n] =>
              check[k].rec = row[n] /\ row[n].health = check[k].status /\ (n \in inst <=> row[n].on)

ProviderGood(n) ==
    /\ tame[n] /\ Clean(n) => Synced(n)
    /\ \A c \in RegCallers : RegCallGood(c, n)
    /\ \A k \in Checks : RegCheckGood(k, n)

ProvidersGood == \A n \in Names : ProviderGood(n)

\* Who is alone at the tenant's list has read it as it is.
TenantListGood ==
    /\ tenantListed \subseteq Names /\ wanted \subseteq Names /\ (listTame => tenantListed = wanted)
    /\ \A c \in RegCallers : regOp[c].pc \in {"append2", "unlist2"} /\ regOp[c].listAlone =>
          /\ regOp[c].names = tenantListed
          /\ \A d \in RegCallers : regOp[d].pc \in {"append2", "unlist2"} => d = c

RegInv == RegTypes /\ StatsGood /\ ProvidersGood /\ TenantListGood

LEMMA RegDefaults ==
    /\ NoRegCall \in OpRecs /\ NoRegCall.pc = "idle" /\ NoCheck \in CheckRecs /\ NoCheck.pc = "idle"
    /\ NoStat.load = 0 /\ NoStat.status = "healthy" /\ NoStat.is = "absent"
    /\ Absent.health = "healthy" /\ ~Absent.on
    /\ \A on \in BOOLEAN : DefaultRegistryRecordFromConfig(on) \in Records
<1>1. Absent.health = "healthy" /\ Absent.on = FALSE
  BY DEF Absent
<1>2. NoRegCall \in OpRecs /\ NoRegCall.pc = "idle"
  BY DEF NoRegCall, OpRecs, OpPcs, RegRecs
<1>3. NoCheck \in CheckRecs /\ NoCheck.pc = "idle"
  BY DEF NoCheck, CheckRecs, Health, RegRecs
<1>4. NoStat.load = 0 /\ NoStat.status = "healthy" /\ NoStat.is = "absent"
  BY DEF NoStat
<1>5. \A on \in BOOLEAN : DefaultRegistryRecordFromConfig(on) \in Records
  BY DEF DefaultRegistryRecordFromConfig, Records, Health
<1> QED BY <1>1, <1>2, <1>3, <1>4, <1>5

\* The calls and the checks at a provider do what they did.
CallsSame(n) ==
    \A c \in RegCallers :
        /\ AtC(c, n)' <=> AtC(c, n)
        /\ AtC(c, n) => /\ regOp'[c].pc = regOp[c].pc /\ regOp'[c].rec = regOp[c].rec
                        /\ regOp'[c].prev = regOp[c].prev /\ regOp'[c].prevErr = regOp[c].prevErr
                        /\ regOp'[c].alone => regOp[c].alone
ChecksSame(n) ==
    \A k \in Checks :
        /\ AtK(k, n)' <=> AtK(k, n)
        /\ AtK(k, n) => /\ check'[k].pc = check[k].pc /\ check'[k].rec = check[k].rec
                        /\ check'[k].status = check[k].status
                        /\ check'[k].alone => check[k].alone

\* A provider that a step does not change stays good.
LEMMA KeepProvider ==
    ASSUME NEW n \in Names, ProviderGood(n), CallsSame(n), ChecksSame(n), tame'[n] => tame[n],
           reg'[n] = reg[n], row'[n] = row[n], n \in inst' <=> n \in inst,
           n \in inst => pstat'[n].status = pstat[n].status \/ pstat'[n].status = reg[n].health
    PROVE  ProviderGood(n)'
<1>1. Clean(n)' => Clean(n)
  BY DEF Clean, CallsSame, ChecksSame
<1>2. Synced(n) => Synced(n)'
  BY DEF Synced, Held
<1>3. \A c \in RegCallers : RegCallGood(c, n)'
  <2> SUFFICES ASSUME NEW c \in RegCallers, AtC(c, n)', regOp'[c].alone
               PROVE  /\ \A d \in RegCallers : AtC(d, n)' => d = c
                      /\ \A k \in Checks : ~AtK(k, n)'
                      /\ regOp'[c].pc \in {"manager", "store"} /\ tame'[n] => regOp'[c].prev = row'[n] /\ ~regOp'[c].prevErr
                      /\ regOp'[c].pc = "store" => reg'[n] = regOp'[c].rec /\ Held(n, regOp[c].rec)'
                      /\ regOp'[c].pc = "remove" => row'[n] = Absent
    BY DEF RegCallGood
  <2>1. AtC(c, n) /\ regOp[c].alone /\ RegCallGood(c, n)
    BY DEF CallsSame, ProviderGood
  <2>2. /\ regOp'[c].pc = regOp[c].pc /\ regOp'[c].rec = regOp[c].rec
        /\ regOp'[c].prev = regOp[c].prev /\ regOp'[c].prevErr = regOp[c].prevErr
    BY <2>1 DEF CallsSame
  <2>3. /\ \A d \in RegCallers : AtC(d, n)' => d = c
        /\ \A k \in Checks : ~AtK(k, n)'
    BY <2>1 DEF CallsSame, ChecksSame, RegCallGood
  <2>4. regOp'[c].pc \in {"manager", "store"} /\ tame'[n] => regOp'[c].prev = row'[n] /\ ~regOp'[c].prevErr
    BY <2>1, <2>2 DEF RegCallGood
  <2>5. regOp'[c].pc = "store" => reg'[n] = regOp'[c].rec /\ Held(n, regOp[c].rec)'
    BY <2>1, <2>2 DEF RegCallGood, Held
  <2>6. regOp'[c].pc = "remove" => row'[n] = Absent
    BY <2>1, <2>2 DEF RegCallGood
  <2> QED BY <2>3, <2>4, <2>5, <2>6
<1>4. \A k \in Checks : RegCheckGood(k, n)'
  <2> SUFFICES ASSUME NEW k \in Checks, AtK(k, n)', check'[k].alone
               PROVE  /\ \A j \in Checks : AtK(j, n)' => j = k
                      /\ \A c \in RegCallers : ~AtC(c, n)'
                      /\ check'[k].pc = "apply" /\ tame'[n] =>
                            check'[k].rec = row'[n] /\ row'[n].health = check'[k].status /\ (n \in inst' <=> row'[n].on)
    BY DEF RegCheckGood
  <2>1. AtK(k, n) /\ check[k].alone /\ RegCheckGood(k, n)
    BY DEF ChecksSame, ProviderGood
  <2>2. check'[k].pc = check[k].pc /\ check'[k].rec = check[k].rec /\ check'[k].status = check[k].status
    BY <2>1 DEF ChecksSame
  <2>3. (\A j \in Checks : AtK(j, n)' => j = k) /\ \A c \in RegCallers : ~AtC(c, n)'
    BY <2>1 DEF CallsSame, ChecksSame, RegCheckGood
  <2>4. check'[k].pc = "apply" /\ tame'[n] =>
            check'[k].rec = row'[n] /\ row'[n].health = check'[k].status /\ (n \in inst' <=> row'[n].on)
    BY <2>1, <2>2 DEF RegCheckGood
  <2> QED BY <2>3, <2>4
<1> QED BY <1>1, <1>2, <1>3, <1>4 DEF ProviderGood

\* One call moves elsewhere than at provider n.
LEMMA OneCallMoves ==
    ASSUME RegTypes, NEW n, NEW c \in RegCallers, NEW r, regOp' = [regOp EXCEPT ![c] = r], ~AtC(c, n),
           r.pc \in {"manager", "store", "remove"} => r.name # n
    PROVE  CallsSame(n)
<1>1. regOp'[c] = r /\ \A d \in RegCallers : d # c => regOp'[d] = regOp[d]
  BY DEF RegTypes
<1>2. ~AtC(c, n)'
  BY <1>1 DEF AtC
<1>3. ASSUME NEW d \in RegCallers, d # c
      PROVE  /\ AtC(d, n)' <=> AtC(d, n)
             /\ AtC(d, n) => /\ regOp'[d].pc = regOp[d].pc /\ regOp'[d].rec = regOp[d].rec
                             /\ regOp'[d].prev = regOp[d].prev /\ regOp'[d].prevErr = regOp[d].prevErr
                             /\ regOp'[d].alone => regOp[d].alone
  BY <1>1, <1>3 DEF AtC
<1> QED BY <1>2, <1>3 DEF CallsSame

LEMMA OneCheckMoves ==
    ASSUME RegTypes, NEW n, NEW k \in Checks, NEW r, check' = [check EXCEPT ![k] = r], ~AtK(k, n),
           r.pc \in {"store", "apply"} => r.name # n
    PROVE  ChecksSame(n)
<1>1. check'[k] = r /\ \A j \in Checks : j # k => check'[j] = check[j]
  BY DEF RegTypes
<1>2. ~AtK(k, n)'
  BY <1>1 DEF AtK
<1>3. ASSUME NEW j \in Checks, j # k
      PROVE  /\ AtK(j, n)' <=> AtK(j, n)
             /\ AtK(j, n) => /\ check'[j].pc = check[j].pc /\ check'[j].rec = check[j].rec
                             /\ check'[j].status = check[j].status
                             /\ check'[j].alone => check[j].alone
  BY <1>1, <1>3 DEF AtK
<1> QED BY <1>2, <1>3 DEF ChecksSame

LEMMA CallsRest == ASSUME NEW n, regOp' = regOp PROVE CallsSame(n)
BY DEF CallsSame, AtC

LEMMA ChecksRest == ASSUME NEW n, check' = check PROVE ChecksSame(n)
BY DEF ChecksSame, AtK

\* Those at a provider that another one joins.
LEMMA JoinedFacts ==
    ASSUME RegTypes, NEW n, NEW ops, ops = Joined(n, regOp), NEW d \in RegCallers
    PROVE  /\ ops \in [RegCallers -> OpRecs]
           /\ ops[d].pc = regOp[d].pc /\ ops[d].name = regOp[d].name /\ ops[d].rec = regOp[d].rec
           /\ ops[d].prev = regOp[d].prev /\ ops[d].names = regOp[d].names
           /\ ops[d].prevErr = regOp[d].prevErr /\ ops[d].listAlone = regOp[d].listAlone
           /\ ops[d].alone => regOp[d].alone /\ ~AtC(d, n)
<1>0. \A e \in RegCallers : regOp[e] \in OpRecs
  BY DEF RegTypes
<1>1. ASSUME NEW e \in RegCallers PROVE [regOp[e] EXCEPT !.alone = FALSE] \in OpRecs
  BY <1>0 DEF OpRecs
<1>2. ops \in [RegCallers -> OpRecs]
  BY <1>0, <1>1 DEF Joined
<1>3. CASE d \in AtProvider(n)
  <2>1. PICK r : r = [regOp[d] EXCEPT !.alone = FALSE]
    OBVIOUS
  <2>2. ops[d] = r
    BY <1>3, <2>1 DEF Joined
  <2>3. /\ r.pc = regOp[d].pc /\ r.name = regOp[d].name /\ r.rec = regOp[d].rec
        /\ r.prev = regOp[d].prev /\ r.names = regOp[d].names
    BY <1>0, <2>1 DEF OpRecs
  <2>4. r.prevErr = regOp[d].prevErr /\ r.listAlone = regOp[d].listAlone
    BY <1>0, <2>1, Zenon DEF OpRecs
  <2>5. r.alone = FALSE
    BY <1>0, <2>1 DEF OpRecs
  <2> QED BY <1>2, <2>2, <2>3, <2>4, <2>5, Zenon
<1>4. CASE d \notin AtProvider(n)
  <2>1. ops[d] = regOp[d]
    BY <1>4 DEF Joined
  <2>2. ~AtC(d, n)
    BY <1>4 DEF AtProvider, AtC
  <2> QED BY <1>2, <2>1, <2>2
<1> QED BY <1>3, <1>4

LEMMA JoinedChecksFacts ==
    ASSUME RegTypes, NEW n, NEW cks, cks = JoinedChecks(n, check), NEW d \in Checks
    PROVE  /\ cks \in [Checks -> CheckRecs]
           /\ cks[d].pc = check[d].pc /\ cks[d].name = check[d].name /\ cks[d].rec = check[d].rec
           /\ cks[d].status = check[d].status
           /\ cks[d].alone => check[d].alone /\ ~AtK(d, n)
<1>0. \A e \in Checks : check[e] \in CheckRecs
  BY DEF RegTypes
<1>1. ASSUME NEW e \in Checks PROVE [check[e] EXCEPT !.alone = FALSE] \in CheckRecs
  BY <1>0 DEF CheckRecs
<1>2. cks \in [Checks -> CheckRecs]
  BY <1>0, <1>1 DEF JoinedChecks
<1>3. CASE d \in AtProvider(n)
  <2>1. PICK r : r = [check[d] EXCEPT !.alone = FALSE]
    OBVIOUS
  <2>2. cks[d] = r
    BY <1>3, <2>1 DEF JoinedChecks
  <2>3. r.pc = check[d].pc /\ r.name = check[d].name /\ r.rec = check[d].rec /\ r.status = check[d].status
    BY <1>0, <2>1 DEF CheckRecs
  <2>4. r.alone = FALSE
    BY <1>0, <2>1 DEF CheckRecs
  <2> QED BY <1>2, <2>2, <2>3, <2>4, Zenon
<1>4. CASE d \notin AtProvider(n)
  <2>1. cks[d] = check[d]
    BY <1>4 DEF JoinedChecks
  <2>2. ~AtK(d, n)
    BY <1>4 DEF AtProvider, AtK
  <2> QED BY <1>2, <2>1, <2>2
<1> QED BY <1>3, <1>4

\* A step that keeps the tenant's list and those at it.
LEMMA KeepList ==
    ASSUME TenantListGood, UNCHANGED unlisted,
           \A c \in RegCallers : regOp'[c].pc \in {"append2", "unlist2"} =>
               /\ regOp[c].pc \in {"append2", "unlist2"} /\ regOp'[c].names = regOp[c].names
               /\ regOp'[c].listAlone => regOp[c].listAlone
    PROVE  TenantListGood'
BY DEF TenantListGood, unlisted

\* Who is with another one at a provider is not alone.
LEMMA NotAlone ==
    ASSUME NEW n \in Names, ProviderGood(n)
    PROVE  /\ \A c, d \in RegCallers : AtC(c, n) /\ AtC(d, n) /\ c # d => ~regOp[d].alone
           /\ \A c \in RegCallers, k \in Checks : AtC(c, n) /\ AtK(k, n) => ~regOp[c].alone /\ ~check[k].alone
           /\ \A j, k \in Checks : AtK(j, n) /\ AtK(k, n) /\ j # k => ~check[k].alone
BY DEF ProviderGood, RegCallGood, RegCheckGood

\* What the manager does to one provider.
LEMMA UpsertEffect ==
    ASSUME RegTypes, StatsGood, NEW n \in Names, NEW rec \in RegRecs, UpsertRuntimeProvider(n, rec), routed' = routed
    PROVE  /\ inst' \subseteq Names /\ reg' \in [Names -> RegRecs] /\ reg'[n] = rec
           /\ n \in inst' <=> rec.on
           /\ n \in inst' => pstat'[n].status = rec.health
           /\ \A m \in Names : m # n => reg'[m] = reg[m] /\ (m \in inst' <=> m \in inst) /\ pstat'[m] = pstat[m]
           /\ StatsGood'
<1>0. /\ inst \subseteq Names /\ reg \in [Names -> RegRecs] /\ pstat \in [Names -> PStats]
      /\ routed \in [Names -> 0 .. MaxRoutes]
  BY DEF RegTypes, StatsGood
<1>1. /\ inst' = IF rec.on THEN inst \cup {n} ELSE inst \ {n}
      /\ pstat' = IF rec.on THEN Register(pstat, n, rec.health) ELSE pstat
      /\ reg' = [reg EXCEPT ![n] = rec]
  BY DEF UpsertRuntimeProvider
<1>2. reg' \in [Names -> RegRecs] /\ reg'[n] = rec /\ \A m \in Names : m # n => reg'[m] = reg[m]
  BY <1>0, <1>1
<1>3. /\ inst' \subseteq Names /\ (n \in inst' <=> rec.on)
      /\ \A m \in Names : m # n => (m \in inst' <=> m \in inst)
  BY <1>0, <1>1
<1>4. CASE rec.on
  <2>1. PICK s : s = [is |-> "there", status |-> rec.health, load |-> 0]
    OBVIOUS
  <2>2. pstat' = [pstat EXCEPT ![n] = s]
    BY <1>1, <1>4, <2>1 DEF Register
  <2>3. rec.health \in Health
    BY RegDefaults DEF RegRecs, Records, Health
  <2>4. s \in PStats /\ s.is = "there" /\ s.status = rec.health /\ s.load = 0
    BY <2>1, <2>3 DEF PStats
  <2>5. pstat' \in [Names -> PStats] /\ pstat'[n] = s /\ \A m \in Names : m # n => pstat'[m] = pstat[m]
    BY <1>0, <2>2, <2>4
  <2>6. 0 <= routed[n]
    BY <1>0
  <2>7. \A m \in Names : pstat'[m].load <= routed'[m]
    BY <2>4, <2>5, <2>6 DEF StatsGood
  <2>8. \A m \in inst' : pstat'[m].is = "there"
    BY <1>3, <2>4, <2>5 DEF StatsGood
  <2> QED BY <1>0, <1>2, <1>3, <2>4, <2>5, <2>7, <2>8 DEF StatsGood
<1>5. CASE ~rec.on
  <2>1. pstat' = pstat /\ n \notin inst'
    BY <1>1, <1>5
  <2> QED BY <1>2, <1>3, <2>1 DEF StatsGood
<1> QED BY <1>4, <1>5

LEMMA RemoveEffect ==
    ASSUME RegTypes, StatsGood, NEW n \in Names, RemoveRuntimeProvider(n), routed' = routed
    PROVE  /\ inst' \subseteq Names /\ reg' \in [Names -> RegRecs] /\ reg'[n] = Absent /\ n \notin inst'
           /\ \A m \in Names : m # n => reg'[m] = reg[m] /\ (m \in inst' <=> m \in inst) /\ pstat'[m] = pstat[m]
           /\ StatsGood'
<1>0. /\ inst \subseteq Names /\ reg \in [Names -> RegRecs] /\ pstat \in [Names -> PStats]
      /\ routed \in [Names -> 0 .. MaxRoutes]
  BY DEF RegTypes, StatsGood
<1>1. inst' = inst \ {n} /\ reg' = [reg EXCEPT ![n] = Absent] /\ pstat' = [pstat EXCEPT ![n] = NoStat]
  BY DEF RemoveRuntimeProvider, Unregister
<1>2. reg' \in [Names -> RegRecs] /\ reg'[n] = Absent /\ \A m \in Names : m # n => reg'[m] = reg[m]
  BY <1>0, <1>1 DEF RegRecs
<1>3. pstat' \in [Names -> PStats] /\ pstat'[n] = NoStat /\ \A m \in Names : m # n => pstat'[m] = pstat[m]
  BY <1>0, <1>1 DEF PStats
<1>4. 0 <= routed[n] /\ NoStat.load = 0
  BY <1>0, RegDefaults
<1>5. \A m \in Names : pstat'[m].load <= routed'[m]
  BY <1>3, <1>4 DEF StatsGood
<1>6. \A m \in inst' : pstat'[m].is = "there"
  BY <1>0, <1>1, <1>3 DEF StatsGood
<1> QED BY <1>0, <1>1, <1>2, <1>3, <1>5, <1>6 DEF StatsGood

\* A call that comes to a provider.
LEMMA Joining ==
    ASSUME RegInv, NEW c \in RegCallers, NEW n \in Names, NEW r \in OpRecs,
           regOp[c].pc = "idle", r.pc \in {"manager", "remove"}, r.name = n, r.alone => AtProvider(n) = {},
           regOp' = [Joined(n, regOp) EXCEPT ![c] = r], check' = JoinedChecks(n, check),
           UNCHANGED <<inst, reg, pstat, unlisted, failures, routed>>,
           row' \in [Names -> RegRecs], \A m \in Names : m # n => row'[m] = row[m],
           tame' \in [Names -> BOOLEAN], \A m \in Names : tame'[m] => tame[m],
           r.pc = "manager" => row' = row /\ (tame'[n] => r.prev = row[n] /\ ~r.prevErr),
           r.pc = "remove" => row'[n] = Absent
    PROVE  RegInv'
<1>0. RegTypes /\ ProvidersGood
  BY DEF RegInv
<1>1. PICK ops : ops = Joined(n, regOp)
  OBVIOUS
<1>2. ops \in [RegCallers -> OpRecs] /\ regOp' = [ops EXCEPT ![c] = r]
  BY <1>0, <1>1, JoinedFacts
<1>3a. regOp' \in [RegCallers -> OpRecs]
  BY <1>2
<1>3b. regOp'[c] = r /\ \A d \in RegCallers : d # c => regOp'[d] = ops[d]
  BY <1>2
<1>3. regOp' \in [RegCallers -> OpRecs] /\ regOp'[c] = r /\ \A d \in RegCallers : d # c => regOp'[d] = ops[d]
  BY <1>3a, <1>3b
<1>4. \A d \in RegCallers : d # c =>
          /\ regOp'[d].pc = regOp[d].pc /\ regOp'[d].name = regOp[d].name /\ regOp'[d].rec = regOp[d].rec
          /\ regOp'[d].prev = regOp[d].prev /\ regOp'[d].names = regOp[d].names
          /\ regOp'[d].prevErr = regOp[d].prevErr /\ regOp'[d].listAlone = regOp[d].listAlone
          /\ regOp'[d].alone => regOp[d].alone /\ ~AtC(d, n)
  <2>1. \A d \in RegCallers :
          /\ ops[d].pc = regOp[d].pc /\ ops[d].name = regOp[d].name /\ ops[d].rec = regOp[d].rec
          /\ ops[d].prev = regOp[d].prev /\ ops[d].names = regOp[d].names
          /\ ops[d].prevErr = regOp[d].prevErr /\ ops[d].listAlone = regOp[d].listAlone
          /\ ops[d].alone => regOp[d].alone /\ ~AtC(d, n)
    BY <1>0, <1>1, JoinedFacts
  <2>2. \A d \in RegCallers : d # c => regOp'[d] = ops[d]
    BY <1>3
  <2> QED BY <2>1, <2>2
<1>5. /\ check' \in [Checks -> CheckRecs]
      /\ \A k \in Checks : /\ check'[k].pc = check[k].pc /\ check'[k].name = check[k].name /\ check'[k].rec = check[k].rec
                           /\ check'[k].status = check[k].status
                           /\ check'[k].alone => check[k].alone /\ ~AtK(k, n)
  <2>1. check' \in [Checks -> CheckRecs]
    <3>0. \A e \in Checks : check[e] \in CheckRecs
      BY <1>0 DEF RegTypes
    <3>1. ASSUME NEW e \in Checks PROVE [check[e] EXCEPT !.alone = FALSE] \in CheckRecs
      BY <3>0 DEF CheckRecs
    <3> QED BY <3>0, <3>1 DEF JoinedChecks
  <2>2. ASSUME NEW k \in Checks
        PROVE  /\ check'[k].pc = check[k].pc /\ check'[k].name = check[k].name /\ check'[k].rec = check[k].rec
               /\ check'[k].status = check[k].status
               /\ check'[k].alone => check[k].alone /\ ~AtK(k, n)
    <3>1. PICK cks : cks = JoinedChecks(n, check)
      OBVIOUS
    <3>2. /\ cks[k].pc = check[k].pc /\ cks[k].name = check[k].name /\ cks[k].rec = check[k].rec
          /\ cks[k].status = check[k].status
          /\ cks[k].alone => check[k].alone /\ ~AtK(k, n)
      BY <1>0, <3>1, JoinedChecksFacts
    <3>3. check' = cks
      BY <3>1
    <3> QED BY <3>2, <3>3, Zenon
  <2> QED BY <2>1, <2>2
<1>6. RegTypes'
  BY <1>0, <1>3, <1>4, <1>5 DEF RegTypes
<1>7. StatsGood'
  BY DEF RegInv, StatsGood
<1>8. TenantListGood'
  <2>1. \A d \in RegCallers : regOp'[d].pc \in {"append2", "unlist2"} =>
               /\ regOp[d].pc \in {"append2", "unlist2"} /\ regOp'[d].names = regOp[d].names
               /\ regOp'[d].listAlone => regOp[d].listAlone
    BY <1>3, <1>4
  <2> QED BY <2>1, KeepList DEF RegInv
<1>9. \A m, d : d \in RegCallers /\ d # c => (AtC(d, m)' <=> AtC(d, m))
  BY <1>4 DEF AtC
<1>10. \A m, k : k \in Checks => (AtK(k, m)' <=> AtK(k, m))
  BY <1>5 DEF AtK
<1>11. AtC(c, n)' /\ \A m : ~AtC(c, m) /\ (m # n => ~AtC(c, m)')
  BY <1>3 DEF AtC
<1>12. ASSUME NEW m \in Names, m # n PROVE ProviderGood(m)'
  <2>1. CallsSame(m)
    <3>1. ASSUME NEW d \in RegCallers
          PROVE  /\ AtC(d, m)' <=> AtC(d, m)
                 /\ AtC(d, m) => /\ regOp'[d].pc = regOp[d].pc /\ regOp'[d].rec = regOp[d].rec
                                 /\ regOp'[d].prev = regOp[d].prev /\ regOp'[d].prevErr = regOp[d].prevErr
                                 /\ regOp'[d].alone => regOp[d].alone
      <4>1. CASE d = c
        BY <1>11, <1>12, <4>1
      <4>2. CASE d # c
        BY <1>4, <1>9, <4>2
      <4> QED BY <4>1, <4>2
    <3> QED BY <3>1 DEF CallsSame
  <2>2. ChecksSame(m)
    BY <1>5, <1>10 DEF ChecksSame
  <2>3. ProviderGood(m) /\ (tame'[m] => tame[m]) /\ row'[m] = row[m]
    BY <1>0, <1>12 DEF ProvidersGood
  <2> QED BY <2>1, <2>2, <2>3, KeepProvider
<1>13. ProviderGood(n)'
  <2>0. ProviderGood(n)
    BY <1>0 DEF ProvidersGood
  <2>1. tame'[n] /\ Clean(n)' => Synced(n)'
    <3> SUFFICES ASSUME tame'[n], Clean(n)' PROVE Synced(n)'
      OBVIOUS
    <3>1. r.pc = "manager"
      BY <1>3, <1>11 DEF Clean
    <3>2. Clean(n)
      <4>1. \A d \in RegCallers : AtC(d, n) => regOp[d].pc = "manager"
        BY <1>4, <1>9, <1>11 DEF Clean
      <4>2. \A k \in Checks : AtK(k, n) => check[k].pc = "store"
        BY <1>5, <1>10 DEF Clean
      <4> QED BY <4>1, <4>2 DEF Clean
    <3>3. Synced(n)
      BY <2>0, <3>2 DEF ProviderGood
    <3> QED BY <3>1, <3>3 DEF Synced, Held
  <2>2. ASSUME NEW d \in RegCallers PROVE RegCallGood(d, n)'
    <3>1. CASE d # c
      BY <1>4, <1>9, <3>1 DEF RegCallGood
    <3>2. CASE d = c /\ r.alone
      <4>1. (\A e \in RegCallers : ~AtC(e, n)) /\ \A k \in Checks : ~AtK(k, n)
        BY <3>2 DEF AtProvider, AtC, AtK
      <4>2. (\A e \in RegCallers : AtC(e, n)' => e = c) /\ \A k \in Checks : ~AtK(k, n)'
        BY <1>9, <1>10, <4>1
      <4>3. regOp'[c].pc \in {"manager", "store"} /\ tame'[n] => regOp'[c].prev = row'[n] /\ ~regOp'[c].prevErr
        BY <1>3
      <4>4. regOp'[c].pc # "store" /\ (regOp'[c].pc = "remove" => row'[n] = Absent)
        BY <1>3
      <4> QED BY <3>2, <4>2, <4>3, <4>4 DEF RegCallGood
    <3>3. CASE d = c /\ ~r.alone
      BY <1>3, <3>3 DEF RegCallGood
    <3> QED BY <3>1, <3>2, <3>3
  <2>3. \A k \in Checks : RegCheckGood(k, n)'
    BY <1>5, <1>10 DEF RegCheckGood
  <2> QED BY <2>1, <2>2, <2>3 DEF ProviderGood
<1>14. ProvidersGood'
  BY <1>12, <1>13 DEF ProvidersGood
<1> QED BY <1>6, <1>7, <1>8, <1>14 DEF RegInv

LEMMA RegBeginUpsert ==
    ASSUME RegInv, NEW c \in RegCallers, NEW n \in Names, NEW rec \in Records, NEW tenant \in BOOLEAN, NEW err \in BOOLEAN,
           regOp[c].pc = "idle", BeginUpsert(c, n, rec, tenant, err)
    PROVE  RegInv'
<1>0. row \in [Names -> RegRecs] /\ tame \in [Names -> BOOLEAN]
  BY DEF RegInv, RegTypes
<1>1. PICK r : r = [NoRegCall EXCEPT !.pc = "manager", !.name = n, !.rec = rec, !.tenant = tenant, !.prevErr = err,
                            !.prev = IF err THEN Absent ELSE row[n], !.alone = AtProvider(n) = {}]
  OBVIOUS
<1>2. r = [pc |-> "manager", name |-> n, rec |-> rec, prev |-> IF err THEN Absent ELSE row[n], prevErr |-> err,
           tenant |-> tenant, alone |-> (AtProvider(n) = {}), names |-> {}, listAlone |-> TRUE]
  BY <1>1 DEF NoRegCall
<1>3. r \in OpRecs /\ r.pc = "manager" /\ r.name = n /\ r.prev = IF err THEN Absent ELSE row[n]
  BY <1>0, <1>2 DEF OpRecs, OpPcs, RegRecs
<1>4. r.prevErr = err /\ r.alone = (AtProvider(n) = {})
  BY <1>2, Zenon
<1>5. /\ regOp' = [Joined(n, regOp) EXCEPT ![c] = r] /\ check' = JoinedChecks(n, check)
      /\ UNCHANGED <<inst, reg, row, pstat, unlisted, failures, routed>> /\ tame' = [tame EXCEPT ![n] = @ /\ ~err]
  BY <1>1, Zenon DEF BeginUpsert
<1>6. tame' \in [Names -> BOOLEAN] /\ (\A m \in Names : tame'[m] => tame[m]) /\ (tame'[n] => ~err)
  BY <1>0, <1>5
<1>7. r.alone => AtProvider(n) = {}
  BY <1>4, Zenon
<1>8. tame'[n] => r.prev = row[n] /\ ~r.prevErr
  BY <1>3, <1>4, <1>6
<1> QED BY <1>0, <1>3, <1>5, <1>6, <1>7, <1>8, Joining

LEMMA RegDelete ==
    ASSUME RegInv, NEW c \in RegCallers, NEW n \in Names, Delete(c, n)
    PROVE  RegInv'
<1>0. row \in [Names -> RegRecs] /\ tame \in [Names -> BOOLEAN]
  BY DEF RegInv, RegTypes
<1>1. PICK r : r = [NoRegCall EXCEPT !.pc = "remove", !.name = n, !.alone = AtProvider(n) = {}]
  OBVIOUS
<1>2. r = [pc |-> "remove", name |-> n, rec |-> Absent, prev |-> Absent, prevErr |-> FALSE,
           tenant |-> FALSE, alone |-> (AtProvider(n) = {}), names |-> {}, listAlone |-> TRUE]
  BY <1>1 DEF NoRegCall
<1>3. r \in OpRecs /\ r.pc = "remove" /\ r.name = n
  BY <1>2 DEF OpRecs, OpPcs, RegRecs
<1>4. r.alone = (AtProvider(n) = {})
  BY <1>2, Zenon
<1>5. /\ regOp[c].pc = "idle" /\ regOp' = [Joined(n, regOp) EXCEPT ![c] = r] /\ check' = JoinedChecks(n, check)
      /\ UNCHANGED <<inst, reg, pstat, unlisted, failures, routed, tame>> /\ row' = [row EXCEPT ![n] = Absent]
  BY <1>1, Zenon DEF Delete
<1>6. row' \in [Names -> RegRecs] /\ row'[n] = Absent /\ \A m \in Names : m # n => row'[m] = row[m]
  BY <1>0, <1>5 DEF RegRecs
<1>7. r.alone => AtProvider(n) = {}
  BY <1>4, Zenon
<1>8. tame' \in [Names -> BOOLEAN] /\ \A m \in Names : tame'[m] => tame[m]
  BY <1>0, <1>5
<1> QED BY <1>3, <1>5, <1>6, <1>7, <1>8, Joining

\* The other providers when a call moves at its own, or leaves it.
LEMMA OthersKept ==
    ASSUME RegInv, NEW c \in RegCallers, NEW n \in Names, NEW r, regOp' = [regOp EXCEPT ![c] = r],
           regOp[c].name = n, regOp[c].pc # "idle", r.pc \in {"manager", "store", "remove"} => r.name = n, check' = check,
           \A m \in Names : m # n => /\ reg'[m] = reg[m] /\ row'[m] = row[m] /\ (m \in inst' <=> m \in inst)
                                     /\ pstat'[m] = pstat[m] /\ (tame'[m] => tame[m])
    PROVE  \A m \in Names : m # n => ProviderGood(m)'
<1> SUFFICES ASSUME NEW m \in Names, m # n PROVE ProviderGood(m)'
  OBVIOUS
<1>1. CallsSame(m)
  <2>1. ~AtC(c, m) /\ (r.pc \in {"manager", "store", "remove"} => r.name # m)
    BY DEF AtC
  <2>2. RegTypes
    BY DEF RegInv
  <2> QED BY <2>1, <2>2, OneCallMoves
<1>2. ChecksSame(m)
  BY ChecksRest
<1>3. ProviderGood(m)
  BY DEF RegInv, ProvidersGood
<1> QED BY <1>1, <1>2, <1>3, KeepProvider

LEMMA RegUpsertManager ==
    ASSUME RegInv, NEW c \in RegCallers, UpsertManager(c)
    PROVE  RegInv'
<1>n. PICK n \in Names : n = regOp[c].name
  BY DEF UpsertManager, RegInv, RegTypes
<1>0. /\ regOp[c].pc = "manager" /\ regOp[c].name = n /\ regOp[c] \in OpRecs /\ regOp[c].rec \in RegRecs
      /\ UpsertRuntimeProvider(n, regOp[c].rec)
      /\ UNCHANGED <<row, unlisted, failures, check, routed, tame>>
  BY <1>n DEF UpsertManager, RegInv, RegTypes, OpRecs
<1>1. PICK r : r = [regOp[c] EXCEPT !.pc = "store"]
  OBVIOUS
<1>2. /\ r \in OpRecs /\ r.pc = "store" /\ r.name = n /\ r.rec = regOp[c].rec /\ r.prev = regOp[c].prev
      /\ r.names = regOp[c].names
  BY <1>0, <1>1 DEF OpRecs, OpPcs
<1>3. r.prevErr = regOp[c].prevErr /\ r.alone = regOp[c].alone
  BY <1>0, <1>1, Zenon DEF OpRecs
<1>4. regOp' = [regOp EXCEPT ![c] = r]
  BY <1>1 DEF UpsertManager
<1>5. regOp' \in [RegCallers -> OpRecs] /\ regOp'[c] = r /\ \A d \in RegCallers : d # c => regOp'[d] = regOp[d]
  BY <1>2, <1>4 DEF RegInv, RegTypes
<1>6. PICK rec : rec = regOp[c].rec
  OBVIOUS
<1>7. /\ inst' \subseteq Names /\ reg' \in [Names -> RegRecs] /\ reg'[n] = rec
      /\ n \in inst' <=> rec.on
      /\ n \in inst' => pstat'[n].status = rec.health
      /\ \A m \in Names : m # n => reg'[m] = reg[m] /\ (m \in inst' <=> m \in inst) /\ pstat'[m] = pstat[m]
      /\ StatsGood'
  BY <1>0, <1>6, UpsertEffect DEF RegInv
<1>8. RegTypes'
  BY <1>0, <1>2, <1>5, <1>7 DEF RegInv, RegTypes
<1>9. TenantListGood'
  <2>1. \A d \in RegCallers : regOp'[d].pc \in {"append2", "unlist2"} =>
               /\ regOp[d].pc \in {"append2", "unlist2"} /\ regOp'[d].names = regOp[d].names
               /\ regOp'[d].listAlone => regOp[d].listAlone
    BY <1>2, <1>5
  <2> QED BY <1>0, <2>1, KeepList DEF RegInv
<1>10. \A m \in Names : m # n => ProviderGood(m)'
  BY <1>0, <1>2, <1>4, <1>7, OthersKept
<1>11. ProviderGood(n)'
  <2>0. ProviderGood(n) /\ AtC(c, n) /\ AtC(c, n)'
    BY <1>0, <1>2, <1>5 DEF AtC, RegInv, ProvidersGood
  <2>1. \A d \in RegCallers : AtC(d, n)' <=> AtC(d, n)
    BY <1>5, <2>0 DEF AtC
  <2>2. \A k \in Checks : AtK(k, n)' <=> AtK(k, n)
    BY <1>0 DEF AtK
  <2>3. ~Clean(n)'
    BY <1>2, <1>5, <2>0 DEF Clean
  <2>4. ASSUME NEW d \in RegCallers, d # c PROVE RegCallGood(d, n)'
    <3>1. AtC(d, n) => ~regOp[d].alone
      BY <2>0, <2>4, <1>0, NotAlone
    <3> QED BY <1>5, <2>1, <2>4, <3>1 DEF RegCallGood
  <2>5. RegCallGood(c, n)'
    <3> SUFFICES ASSUME regOp'[c].alone
                 PROVE  /\ \A d \in RegCallers : AtC(d, n)' => d = c
                        /\ \A k \in Checks : ~AtK(k, n)'
                        /\ regOp'[c].pc \in {"manager", "store"} /\ tame'[n] => regOp'[c].prev = row'[n] /\ ~regOp'[c].prevErr
                        /\ regOp'[c].pc = "store" => reg'[n] = regOp'[c].rec /\ Held(n, regOp[c].rec)'
                        /\ regOp'[c].pc = "remove" => row'[n] = Absent
      BY <2>0, <1>0, <1>2, <1>5 DEF RegCallGood
    <3>1. regOp[c].alone
      BY <1>3, <1>5
    <3>2. /\ \A d \in RegCallers : AtC(d, n) => d = c
          /\ \A k \in Checks : ~AtK(k, n)
          /\ tame[n] => regOp[c].prev = row[n] /\ ~regOp[c].prevErr
      BY <1>0, <2>0, <3>1 DEF ProviderGood, RegCallGood
    <3>3. reg'[n] = regOp'[c].rec /\ regOp'[c].rec = rec /\ regOp'[c].prev = regOp[c].prev
      BY <1>2, <1>5, <1>6, <1>7
    <3>4. regOp'[c].prevErr = regOp[c].prevErr
      BY <1>3, <1>5
    <3>5. Held(n, regOp[c].rec)'
      BY <1>2, <1>5, <1>7, <3>3 DEF Held
    <3>6. regOp'[c].pc = "store"
      BY <1>2, <1>5
    <3> QED BY <1>0, <2>1, <2>2, <3>2, <3>3, <3>4, <3>5, <3>6
  <2>6. \A k \in Checks : RegCheckGood(k, n)'
    <3>1. \A k \in Checks : AtK(k, n) => ~check[k].alone
      BY <1>0, <2>0, NotAlone
    <3> QED BY <1>0, <2>2, <3>1 DEF RegCheckGood
  <2> QED BY <2>3, <2>4, <2>5, <2>6 DEF ProviderGood
<1>12. ProvidersGood'
  BY <1>10, <1>11 DEF ProvidersGood
<1> QED BY <1>7, <1>8, <1>9, <1>12 DEF RegInv

\* What a step at n leaves: the other providers as they were, and n in step if it was made alone.
StepAt(n) ==
    /\ inst' \subseteq Names /\ reg' \in [Names -> RegRecs] /\ row' \in [Names -> RegRecs] /\ tame' \in [Names -> BOOLEAN]
    /\ \A m \in Names : m # n => /\ reg'[m] = reg[m] /\ row'[m] = row[m] /\ (m \in inst' <=> m \in inst)
                                 /\ pstat'[m] = pstat[m] /\ (tame'[m] => tame[m])
    /\ tame'[n] => /\ reg'[n] = row'[n] /\ (n \in inst' <=> row'[n].on)
                   /\ (n \in inst' => pstat'[n].status = row'[n].health)

\* A call that leaves its provider.
LEMMA LeavesProvider ==
    ASSUME RegInv, NEW c \in RegCallers, NEW n \in Names, NEW r \in OpRecs,
           regOp[c].pc \in {"manager", "store", "remove"}, regOp[c].name = n, r.pc \in {"idle", "append", "unlist"}, r.pc # "idle" => r.name = n,
           regOp' = [regOp EXCEPT ![c] = r], UNCHANGED <<unlisted, failures, check>>, StatsGood',
           StepAt(n)
    PROVE  RegInv'
<1>0. /\ inst' \subseteq Names /\ reg' \in [Names -> RegRecs] /\ row' \in [Names -> RegRecs] /\ tame' \in [Names -> BOOLEAN]
      /\ \A m \in Names : m # n => /\ reg'[m] = reg[m] /\ row'[m] = row[m] /\ (m \in inst' <=> m \in inst)
                                   /\ pstat'[m] = pstat[m] /\ (tame'[m] => tame[m])
      /\ tame'[n] => /\ reg'[n] = row'[n] /\ (n \in inst' <=> row'[n].on)
                     /\ (n \in inst' => pstat'[n].status = row'[n].health)
  BY DEF StepAt
<1>1. regOp' \in [RegCallers -> OpRecs] /\ regOp'[c] = r /\ \A d \in RegCallers : d # c => regOp'[d] = regOp[d]
  BY DEF RegInv, RegTypes
<1>2. RegTypes'
  BY <1>0, <1>1 DEF RegInv, RegTypes
<1>3. TenantListGood'
  <2>1. \A d \in RegCallers : regOp'[d].pc \in {"append2", "unlist2"} =>
               /\ regOp[d].pc \in {"append2", "unlist2"} /\ regOp'[d].names = regOp[d].names
               /\ regOp'[d].listAlone => regOp[d].listAlone
    BY <1>1
  <2> QED BY <2>1, KeepList DEF RegInv
<1>4. \A m \in Names : m # n => ProviderGood(m)'
  BY <1>0, OthersKept
<1>5. ProviderGood(n)'
  <2>0. ProviderGood(n) /\ AtC(c, n) /\ ~AtC(c, n)'
    BY <1>1 DEF AtC, RegInv, ProvidersGood
  <2>1. tame'[n] => Synced(n)'
    BY <1>0 DEF Synced, Held
  <2>2. ASSUME NEW d \in RegCallers PROVE RegCallGood(d, n)'
    <3>1. CASE d = c
      BY <2>0, <3>1 DEF RegCallGood
    <3>2. CASE d # c
      <4>1. (AtC(d, n)' <=> AtC(d, n)) /\ regOp'[d] = regOp[d]
        BY <1>1, <3>2 DEF AtC
      <4>2. AtC(d, n) => ~regOp[d].alone
        BY <2>0, <3>2, NotAlone
      <4> QED BY <4>1, <4>2 DEF RegCallGood
    <3> QED BY <3>1, <3>2
  <2>3. \A k \in Checks : RegCheckGood(k, n)'
    <3>1. \A k \in Checks : (AtK(k, n)' <=> AtK(k, n)) /\ (AtK(k, n) => ~check[k].alone)
      BY <2>0, NotAlone DEF AtK
    <3> QED BY <3>1 DEF RegCheckGood
  <2> QED BY <2>1, <2>2, <2>3 DEF ProviderGood
<1>6. ProvidersGood'
  BY <1>4, <1>5 DEF ProvidersGood
<1> QED BY <1>2, <1>3, <1>6 DEF RegInv

LEMMA RegUpsertStore ==
    ASSUME RegInv, NEW c \in RegCallers, UpsertStore(c)
    PROVE  RegInv'
<1>n. PICK n \in Names : n = regOp[c].name
  BY DEF UpsertStore, RegInv, RegTypes
<1>0. /\ regOp[c].pc = "store" /\ regOp[c].name = n /\ regOp[c] \in OpRecs /\ regOp[c].rec \in RegRecs
      /\ regOp[c].alone \in BOOLEAN
      /\ UNCHANGED <<inst, reg, pstat, unlisted, failures, check, routed>>
  BY <1>n DEF UpsertStore, Leaves, RegInv, RegTypes, OpRecs
<1>1. PICK r : r = IF regOp[c].tenant THEN [regOp[c] EXCEPT !.pc = "append"] ELSE NoRegCall
  OBVIOUS
<1>2. r \in OpRecs /\ r.pc \in {"idle", "append", "unlist"} /\ (r.pc # "idle" => r.name = n)
  BY <1>0, <1>1, RegDefaults DEF OpRecs, OpPcs
<1>3. regOp' = [regOp EXCEPT ![c] = r]
  BY <1>1, Zenon DEF UpsertStore, Leaves
<1>4. tame' = [tame EXCEPT ![n] = regOp[c].alone] /\ row' = [row EXCEPT ![n] = regOp[c].rec]
  <2>1. row' = [row EXCEPT ![n] = regOp[c].rec]
    BY <1>n DEF UpsertStore
  <2>2. tame' = [tame EXCEPT ![n] = regOp[c].alone /\ (TRUE \/ tame[n])]
    BY <1>n, Zenon DEF UpsertStore, Leaves
  <2>3. (regOp[c].alone /\ (TRUE \/ tame[n])) = regOp[c].alone
    BY <1>0
  <2> QED BY <2>1, <2>2, <2>3, Zenon
<1>5. inst \subseteq Names /\ reg \in [Names -> RegRecs] /\ row \in [Names -> RegRecs] /\ tame \in [Names -> BOOLEAN]
  BY DEF RegInv, RegTypes
<1>6. /\ tame' \in [Names -> BOOLEAN] /\ row' \in [Names -> RegRecs] /\ row'[n] = regOp[c].rec
      /\ \A m \in Names : m # n => row'[m] = row[m]
  BY <1>0, <1>4, <1>5
<1>7. tame'[n] = regOp[c].alone /\ \A m \in Names : m # n => tame'[m] = tame[m]
  BY <1>4, <1>5, Zenon
<1>8. tame'[n] => /\ reg[n] = row'[n] /\ (n \in inst <=> row'[n].on)
                  /\ (n \in inst => pstat[n].status = row'[n].health)
  <2>1. AtC(c, n) /\ RegCallGood(c, n)
    BY <1>0 DEF AtC, RegInv, ProvidersGood, ProviderGood
  <2>2. regOp[c].alone => reg[n] = regOp[c].rec /\ Held(n, regOp[c].rec)
    BY <1>0, <2>1 DEF RegCallGood
  <2> QED BY <1>6, <1>7, <2>2 DEF Held
<1>9. StatsGood'
  BY <1>0 DEF RegInv, StatsGood
<1>10. StepAt(n)
  BY <1>0, <1>5, <1>6, <1>7, <1>8 DEF StepAt
<1>11. UNCHANGED <<unlisted, failures, check>> /\ regOp[c].pc \in {"manager", "store", "remove"} /\ regOp[c].name = n
  BY <1>0
<1> QED BY <1>2, <1>3, <1>9, <1>10, <1>11, LeavesProvider

LEMMA RegUpsertRefused ==
    ASSUME RegInv, NEW c \in RegCallers, UpsertRefused(c)
    PROVE  RegInv'
<1>n. PICK n \in Names : n = regOp[c].name
  BY DEF UpsertRefused, RegInv, RegTypes
<1>0. /\ regOp[c].pc = "manager" /\ regOp[c].name = n /\ regOp[c] \in OpRecs /\ regOp[c].alone \in BOOLEAN
      /\ regOp' = [regOp EXCEPT ![c] = NoRegCall]
      /\ UNCHANGED <<inst, reg, row, pstat, unlisted, failures, check, routed>>
  BY <1>n DEF UpsertRefused, RegInv, RegTypes, OpRecs
<1>1. NoRegCall \in OpRecs /\ NoRegCall.pc = "idle"
  BY RegDefaults
<1>2. inst \subseteq Names /\ reg \in [Names -> RegRecs] /\ row \in [Names -> RegRecs] /\ tame \in [Names -> BOOLEAN]
  BY DEF RegInv, RegTypes
<1>3. tame' = [tame EXCEPT ![n] = @ /\ regOp[c].alone]
  BY <1>n DEF UpsertRefused
<1>4. tame' \in [Names -> BOOLEAN] /\ (\A m \in Names : tame'[m] => tame[m]) /\ (tame'[n] => regOp[c].alone)
  BY <1>0, <1>2, <1>3
<1>5. tame'[n] => Synced(n)
  <2>1. AtC(c, n) /\ RegCallGood(c, n) /\ ProviderGood(n)
    BY <1>0 DEF AtC, RegInv, ProvidersGood, ProviderGood
  <2>2. regOp[c].alone => Clean(n)
    BY <1>0, <2>1 DEF RegCallGood, Clean
  <2> QED BY <1>4, <2>1, <2>2 DEF ProviderGood
<1>6. StatsGood'
  BY <1>0 DEF RegInv, StatsGood
<1>7. StepAt(n)
  BY <1>0, <1>2, <1>4, <1>5 DEF StepAt, Synced, Held
<1>8. UNCHANGED <<unlisted, failures, check>> /\ regOp[c].pc \in {"manager", "store", "remove"} /\ regOp[c].name = n
      /\ NoRegCall.pc \in {"idle", "append", "unlist"} /\ (NoRegCall.pc # "idle" => NoRegCall.name = n)
  BY <1>0, <1>1
<1> QED BY <1>0, <1>1, <1>6, <1>7, <1>8, LeavesProvider

LEMMA RegUpsertUnread ==
    ASSUME RegInv, NEW c \in RegCallers, UpsertUnread(c)
    PROVE  RegInv'
<1>n. PICK n \in Names : n = regOp[c].name
  BY DEF UpsertUnread, RegInv, RegTypes
<1>0. /\ regOp[c].pc = "store" /\ regOp[c].name = n /\ regOp[c] \in OpRecs /\ regOp[c].rec \in RegRecs
      /\ regOp[c].alone \in BOOLEAN /\ regOp' = [regOp EXCEPT ![c] = NoRegCall]
      /\ UNCHANGED <<inst, reg, pstat, unlisted, failures, check, routed>>
  BY <1>n DEF UpsertUnread, RegInv, RegTypes, OpRecs
<1>1. NoRegCall \in OpRecs /\ NoRegCall.pc = "idle"
  BY RegDefaults
<1>2. inst \subseteq Names /\ reg \in [Names -> RegRecs] /\ row \in [Names -> RegRecs] /\ tame \in [Names -> BOOLEAN]
  BY DEF RegInv, RegTypes
<1>3. tame' = [tame EXCEPT ![n] = regOp[c].alone] /\ row' = [row EXCEPT ![n] = regOp[c].rec]
  BY <1>n DEF UpsertUnread
<1>4. /\ tame' \in [Names -> BOOLEAN] /\ row' \in [Names -> RegRecs] /\ row'[n] = regOp[c].rec
      /\ \A m \in Names : m # n => row'[m] = row[m]
  BY <1>0, <1>2, <1>3
<1>5. tame'[n] = regOp[c].alone /\ \A m \in Names : m # n => tame'[m] = tame[m]
  BY <1>2, <1>3, Zenon
<1>6. tame'[n] => /\ reg[n] = row'[n] /\ (n \in inst <=> row'[n].on)
                  /\ (n \in inst => pstat[n].status = row'[n].health)
  <2>1. AtC(c, n) /\ RegCallGood(c, n)
    BY <1>0 DEF AtC, RegInv, ProvidersGood, ProviderGood
  <2>2. regOp[c].alone => reg[n] = regOp[c].rec /\ Held(n, regOp[c].rec)
    BY <1>0, <2>1 DEF RegCallGood
  <2> QED BY <1>4, <1>5, <2>2 DEF Held
<1>7. StatsGood'
  BY <1>0 DEF RegInv, StatsGood
<1>8. StepAt(n)
  BY <1>0, <1>2, <1>4, <1>5, <1>6 DEF StepAt
<1>9. UNCHANGED <<unlisted, failures, check>> /\ regOp[c].pc \in {"manager", "store", "remove"} /\ regOp[c].name = n
      /\ NoRegCall.pc \in {"idle", "append", "unlist"} /\ (NoRegCall.pc # "idle" => NoRegCall.name = n)
  BY <1>0, <1>1
<1> QED BY <1>0, <1>1, <1>7, <1>8, <1>9, LeavesProvider

\* What Compensate does to its provider and the others.
LEMMA CompensateEffect ==
    ASSUME RegTypes, StatsGood, NEW o \in OpRecs, NEW n \in Names, o.name = n, Compensate(o), routed' = routed
    PROVE  /\ inst' \subseteq Names /\ reg' \in [Names -> RegRecs] /\ StatsGood'
           /\ \A m \in Names : m # n => reg'[m] = reg[m] /\ (m \in inst' <=> m \in inst) /\ pstat'[m] = pstat[m]
<1>0. o.prev \in RegRecs
  BY DEF OpRecs
<1>1. CASE UpsertRuntimeProvider(n, o.prev)
  BY <1>0, <1>1, UpsertEffect
<1>2. CASE RemoveRuntimeProvider(n)
  BY <1>2, RemoveEffect
<1> QED BY <1>1, <1>2 DEF Compensate

LEMMA RegUpsertLost ==
    ASSUME RegInv, NEW c \in RegCallers, UpsertLost(c)
    PROVE  RegInv'
<1>n. PICK n \in Names : n = regOp[c].name
  BY DEF UpsertLost, RegInv, RegTypes
<1>0. /\ regOp[c].pc = "store" /\ regOp[c].name = n /\ regOp[c] \in OpRecs /\ regOp[c].rec \in RegRecs
      /\ regOp' = [regOp EXCEPT ![c] = NoRegCall] /\ Compensate(regOp[c])
      /\ UNCHANGED <<unlisted, failures, check, routed>>
  BY <1>n DEF UpsertLost, RegInv, RegTypes, OpRecs
<1>1. NoRegCall \in OpRecs /\ NoRegCall.pc = "idle"
  BY RegDefaults
<1>2. row \in [Names -> RegRecs] /\ tame \in [Names -> BOOLEAN]
  BY DEF RegInv, RegTypes
<1>3. tame' = [tame EXCEPT ![n] = FALSE] /\ row' = [row EXCEPT ![n] = regOp[c].rec]
  BY <1>n DEF UpsertLost
<1>4. /\ tame' \in [Names -> BOOLEAN] /\ row' \in [Names -> RegRecs] /\ ~tame'[n]
      /\ \A m \in Names : m # n => row'[m] = row[m] /\ (tame'[m] => tame[m])
  BY <1>0, <1>2, <1>3
<1>5. /\ inst' \subseteq Names /\ reg' \in [Names -> RegRecs] /\ StatsGood'
      /\ \A m \in Names : m # n => reg'[m] = reg[m] /\ (m \in inst' <=> m \in inst) /\ pstat'[m] = pstat[m]
  BY <1>0, CompensateEffect DEF RegInv
<1>6. StepAt(n)
  BY <1>4, <1>5 DEF StepAt
<1>7. UNCHANGED <<unlisted, failures, check>> /\ regOp[c].pc \in {"manager", "store", "remove"} /\ regOp[c].name = n
      /\ NoRegCall.pc \in {"idle", "append", "unlist"} /\ (NoRegCall.pc # "idle" => NoRegCall.name = n)
  BY <1>0, <1>1
<1> QED BY <1>0, <1>1, <1>5, <1>6, <1>7, LeavesProvider

LEMMA RegDeleteLost ==
    ASSUME RegInv, NEW c \in RegCallers, DeleteLost(c)
    PROVE  RegInv'
<1>n. PICK n \in Names : n = regOp[c].name
  BY DEF DeleteLost, RegInv, RegTypes
<1>0. /\ regOp[c].pc = "remove" /\ regOp[c].name = n /\ regOp' = [regOp EXCEPT ![c] = NoRegCall]
      /\ UNCHANGED <<inst, reg, row, pstat, unlisted, failures, check, routed>>
  BY <1>n DEF DeleteLost
<1>1. NoRegCall \in OpRecs /\ NoRegCall.pc = "idle"
  BY RegDefaults
<1>2. inst \subseteq Names /\ reg \in [Names -> RegRecs] /\ row \in [Names -> RegRecs] /\ tame \in [Names -> BOOLEAN]
  BY DEF RegInv, RegTypes
<1>3. tame' = [tame EXCEPT ![n] = FALSE]
  BY <1>n DEF DeleteLost
<1>4. tame' \in [Names -> BOOLEAN] /\ ~tame'[n] /\ \A m \in Names : tame'[m] => tame[m]
  BY <1>2, <1>3
<1>5. StatsGood'
  BY <1>0 DEF RegInv, StatsGood
<1>6. StepAt(n)
  BY <1>0, <1>2, <1>4 DEF StepAt
<1>7. UNCHANGED <<unlisted, failures, check>> /\ regOp[c].pc \in {"manager", "store", "remove"} /\ regOp[c].name = n
      /\ NoRegCall.pc \in {"idle", "append", "unlist"} /\ (NoRegCall.pc # "idle" => NoRegCall.name = n)
  BY <1>0, <1>1
<1> QED BY <1>0, <1>1, <1>5, <1>6, <1>7, LeavesProvider

LEMMA RegUpsertFails ==
    ASSUME RegInv, NEW c \in RegCallers, UpsertFails(c)
    PROVE  RegInv'
<1>n. PICK n \in Names : n = regOp[c].name
  BY DEF UpsertFails, RegInv, RegTypes
<1>0. /\ regOp[c].pc = "store" /\ regOp[c].name = n /\ regOp[c] \in OpRecs /\ regOp[c].prev \in RegRecs
      /\ regOp[c].alone \in BOOLEAN /\ UNCHANGED <<row, unlisted, failures, check, routed>>
  BY <1>n DEF UpsertFails, Leaves, RegInv, RegTypes, OpRecs
<1>1. regOp' = [regOp EXCEPT ![c] = NoRegCall]
  BY Zenon DEF UpsertFails, Leaves
<1>2. NoRegCall \in OpRecs /\ NoRegCall.pc = "idle"
  BY RegDefaults
<1>3. inst \subseteq Names /\ reg \in [Names -> RegRecs] /\ row \in [Names -> RegRecs] /\ tame \in [Names -> BOOLEAN]
  BY DEF RegInv, RegTypes
<1>4. tame' = [tame EXCEPT ![n] = regOp[c].alone /\ (FALSE \/ @)]
  BY <1>n, Zenon DEF UpsertFails, Leaves
<1>5. tame' \in [Names -> BOOLEAN] /\ (\A m \in Names : tame'[m] => tame[m]) /\ (tame'[n] => regOp[c].alone)
  BY <1>0, <1>3, <1>4
<1>6. tame'[n] => regOp[c].prev = row[n] /\ ~regOp[c].prevErr
  <2>1. AtC(c, n) /\ RegCallGood(c, n)
    BY <1>0 DEF AtC, RegInv, ProvidersGood, ProviderGood
  <2> QED BY <1>0, <1>5, <2>1 DEF RegCallGood
<1>7. CASE UpsertRuntimeProvider(n, regOp[c].prev)
  <2>1. PICK rec : rec = regOp[c].prev
    OBVIOUS
  <2>2. /\ inst' \subseteq Names /\ reg' \in [Names -> RegRecs] /\ reg'[n] = rec
        /\ n \in inst' <=> rec.on
        /\ n \in inst' => pstat'[n].status = rec.health
        /\ \A m \in Names : m # n => reg'[m] = reg[m] /\ (m \in inst' <=> m \in inst) /\ pstat'[m] = pstat[m]
        /\ StatsGood'
    BY <1>0, <1>7, <2>1, UpsertEffect DEF RegInv
  <2>3. tame'[n] => /\ reg'[n] = row'[n] /\ (n \in inst' <=> row'[n].on)
                    /\ (n \in inst' => pstat'[n].status = row'[n].health)
    BY <1>0, <1>6, <2>1, <2>2
  <2>4. row' \in [Names -> RegRecs] /\ \A m \in Names : row'[m] = row[m]
    BY <1>0, <1>3
  <2>5. StepAt(n)
    BY <1>5, <2>2, <2>3, <2>4 DEF StepAt
  <2>6. UNCHANGED <<unlisted, failures, check>> /\ regOp[c].pc \in {"manager", "store", "remove"} /\ regOp[c].name = n
        /\ NoRegCall.pc \in {"idle", "append", "unlist"} /\ (NoRegCall.pc # "idle" => NoRegCall.name = n)
    BY <1>0, <1>2
  <2> QED BY <1>1, <1>2, <2>2, <2>5, <2>6, LeavesProvider
<1>8. CASE RemoveRuntimeProvider(n) /\ (regOp[c].prevErr \/ regOp[c].prev = Absent)
  <2>1. /\ inst' \subseteq Names /\ reg' \in [Names -> RegRecs] /\ reg'[n] = Absent /\ n \notin inst'
        /\ \A m \in Names : m # n => reg'[m] = reg[m] /\ (m \in inst' <=> m \in inst) /\ pstat'[m] = pstat[m]
        /\ StatsGood'
    BY <1>0, <1>8, RemoveEffect DEF RegInv
  <2>2. tame'[n] => row'[n] = Absent
    BY <1>0, <1>6, <1>8
  <2>3. tame'[n] => /\ reg'[n] = row'[n] /\ (n \in inst' <=> row'[n].on)
                    /\ (n \in inst' => pstat'[n].status = row'[n].health)
    BY <2>1, <2>2, RegDefaults
  <2>4. row' \in [Names -> RegRecs] /\ \A m \in Names : row'[m] = row[m]
    BY <1>0, <1>3
  <2>5. StepAt(n)
    BY <1>5, <2>1, <2>3, <2>4 DEF StepAt
  <2>6. UNCHANGED <<unlisted, failures, check>> /\ regOp[c].pc \in {"manager", "store", "remove"} /\ regOp[c].name = n
        /\ NoRegCall.pc \in {"idle", "append", "unlist"} /\ (NoRegCall.pc # "idle" => NoRegCall.name = n)
    BY <1>0, <1>2
  <2> QED BY <1>1, <1>2, <2>1, <2>5, <2>6, LeavesProvider
<1>9. Compensate(regOp[c])
  BY DEF UpsertFails
<1> QED BY <1>0, <1>7, <1>8, <1>9 DEF Compensate

LEMMA RegDeleteRemove ==
    ASSUME RegInv, NEW c \in RegCallers, DeleteRemove(c)
    PROVE  RegInv'
<1>n. PICK n \in Names : n = regOp[c].name
  BY DEF DeleteRemove, RegInv, RegTypes
<1>0. /\ regOp[c].pc = "remove" /\ regOp[c].name = n /\ regOp[c] \in OpRecs /\ regOp[c].alone \in BOOLEAN
      /\ RemoveRuntimeProvider(n) /\ UNCHANGED <<row, unlisted, failures, check, routed>>
  BY <1>n DEF DeleteRemove, RegInv, RegTypes, OpRecs
<1>1. PICK r : r = [regOp[c] EXCEPT !.pc = "unlist"]
  OBVIOUS
<1>2. r \in OpRecs /\ r.pc = "unlist" /\ r.name = n
  BY <1>0, <1>1 DEF OpRecs, OpPcs
<1>3. regOp' = [regOp EXCEPT ![c] = r]
  BY <1>1 DEF DeleteRemove
<1>4. inst \subseteq Names /\ reg \in [Names -> RegRecs] /\ row \in [Names -> RegRecs] /\ tame \in [Names -> BOOLEAN]
  BY DEF RegInv, RegTypes
<1>5. tame' = [tame EXCEPT ![n] = regOp[c].alone]
  BY <1>n DEF DeleteRemove
<1>6. tame' \in [Names -> BOOLEAN] /\ \A m \in Names : m # n => tame'[m] = tame[m]
  BY <1>0, <1>4, <1>5
<1>7. tame'[n] = regOp[c].alone
  BY <1>4, <1>5, Zenon
<1>8. /\ inst' \subseteq Names /\ reg' \in [Names -> RegRecs] /\ reg'[n] = Absent /\ n \notin inst'
      /\ \A m \in Names : m # n => reg'[m] = reg[m] /\ (m \in inst' <=> m \in inst) /\ pstat'[m] = pstat[m]
      /\ StatsGood'
  BY <1>0, RemoveEffect DEF RegInv
<1>9. tame'[n] => row'[n] = Absent
  <2>1. AtC(c, n) /\ RegCallGood(c, n)
    BY <1>0 DEF AtC, RegInv, ProvidersGood, ProviderGood
  <2> QED BY <1>0, <1>7, <2>1 DEF RegCallGood
<1>10. tame'[n] => /\ reg'[n] = row'[n] /\ (n \in inst' <=> row'[n].on)
                   /\ (n \in inst' => pstat'[n].status = row'[n].health)
  BY <1>8, <1>9, RegDefaults
<1>11. row' \in [Names -> RegRecs] /\ \A m \in Names : row'[m] = row[m]
  BY <1>0, <1>4
<1>12. StepAt(n)
  BY <1>6, <1>8, <1>10, <1>11 DEF StepAt
<1>13. UNCHANGED <<unlisted, failures, check>> /\ regOp[c].pc \in {"manager", "store", "remove"} /\ regOp[c].name = n
  BY <1>0
<1> QED BY <1>2, <1>3, <1>8, <1>12, <1>13, LeavesProvider

\* A step of the tenant's list, or one that only counts.
LEMMA ElsewhereStep ==
    ASSUME RegInv, UNCHANGED <<inst, reg, row, tame>>, \A n \in Names : CallsSame(n) /\ ChecksSame(n),
           \A n \in Names : pstat'[n].status = pstat[n].status
    PROVE  ProvidersGood'
<1> SUFFICES ASSUME NEW n \in Names PROVE ProviderGood(n)'
  BY DEF ProvidersGood
<1>1. ProviderGood(n)
  BY DEF RegInv, ProvidersGood
<1> QED BY <1>1, KeepProvider

LEMMA RegReadTenantList ==
    ASSUME RegInv, NEW c \in RegCallers, ReadTenantList(c)
    PROVE  RegInv'
<1>0. /\ regOp[c].pc \in {"append", "unlist"} /\ regOp \in [RegCallers -> OpRecs]
      /\ UNCHANGED <<inst, reg, row, pstat, unlisted, failures, check, routed, tame>>
  BY DEF ReadTenantList, RegInv, RegTypes
<1>1. PICK r : r = [regOp[c] EXCEPT !.pc = IF @ = "append" THEN "append2" ELSE "unlist2",
                                    !.names = tenantListed, !.listAlone = AtList = {}]
  OBVIOUS
<1>2. /\ r.pc \in {"append2", "unlist2"} /\ r.name = regOp[c].name /\ r.names = tenantListed
      /\ r \in OpRecs
  <2>1. tenantListed \in SUBSET Names /\ regOp[c] \in OpRecs /\ (AtList = {}) \in BOOLEAN
    BY <1>0 DEF RegInv, TenantListGood
  <2> QED BY <1>0, <1>1, <2>1 DEF OpRecs, OpPcs
<1>3. r.listAlone = (AtList = {})
  <2>1. regOp[c] \in OpRecs
    BY <1>0
  <2> QED BY <1>1, <2>1, Zenon DEF OpRecs
<1>4. /\ regOp'[c] = r
      /\ \A d \in RegCallers : d # c /\ d \in AtList => regOp'[d] = [regOp[d] EXCEPT !.listAlone = FALSE]
      /\ \A d \in RegCallers : d # c /\ d \notin AtList => regOp'[d] = regOp[d]
      /\ regOp' = [d \in RegCallers |-> regOp'[d]]
  BY <1>1, Zenon DEF ReadTenantList
<1>5. ASSUME NEW d \in RegCallers, d # c
      PROVE  /\ regOp'[d] \in OpRecs
             /\ regOp'[d].pc = regOp[d].pc /\ regOp'[d].name = regOp[d].name /\ regOp'[d].rec = regOp[d].rec
             /\ regOp'[d].prev = regOp[d].prev
             /\ regOp'[d].prevErr = regOp[d].prevErr /\ regOp'[d].alone = regOp[d].alone
             /\ regOp'[d].pc \in {"append2", "unlist2"} => ~regOp'[d].listAlone
  <2>1. regOp[d] \in OpRecs
    BY <1>0
  <2>2. CASE d \in AtList
    <3>1. PICK q : q = [regOp[d] EXCEPT !.listAlone = FALSE]
      OBVIOUS
    <3>2. q \in OpRecs /\ q.pc = regOp[d].pc /\ q.name = regOp[d].name /\ q.rec = regOp[d].rec /\ q.prev = regOp[d].prev
      BY <2>1, <3>1 DEF OpRecs
    <3>3. q.prevErr = regOp[d].prevErr /\ q.alone = regOp[d].alone
      BY <2>1, <3>1, Zenon DEF OpRecs
    <3>4. q.listAlone = FALSE
      BY <2>1, <3>1 DEF OpRecs
    <3>5. regOp'[d] = q
      BY <1>4, <1>5, <2>2, <3>1
    <3> QED BY <3>2, <3>3, <3>4, <3>5
  <2>3. CASE d \notin AtList
    <3>1. regOp[d].pc \notin {"append2", "unlist2"}
      BY <2>3 DEF AtList
    <3> QED BY <1>4, <1>5, <2>1, <2>3, <3>1
  <2> QED BY <2>2, <2>3
<1>6. RegTypes'
  <2>1. regOp' \in [RegCallers -> OpRecs]
    BY <1>2, <1>4, <1>5
  <2>2. \A d \in RegCallers : regOp'[d].pc # "idle" => regOp'[d].name \in Names
    BY <1>0, <1>2, <1>4, <1>5 DEF RegInv, RegTypes
  <2> QED BY <1>0, <2>1, <2>2 DEF RegInv, RegTypes
<1>7. StatsGood'
  BY <1>0 DEF RegInv, StatsGood
<1>8. TenantListGood'
  <2>1. \A d \in RegCallers : regOp'[d].pc \in {"append2", "unlist2"} /\ regOp'[d].listAlone => d = c
    BY <1>5
  <2>2. regOp'[c].listAlone => \A d \in RegCallers : regOp'[d].pc \in {"append2", "unlist2"} => d = c
    <3>1. regOp'[c].listAlone => AtList = {}
      BY <1>3, <1>4
    <3>2. AtList = {} => \A d \in RegCallers : regOp[d].pc \notin {"append2", "unlist2"}
      BY DEF AtList
    <3> QED BY <1>5, <3>1, <3>2
  <2>3. regOp'[c].names = tenantListed
    BY <1>2, <1>4
  <2> QED BY <1>0, <2>1, <2>2, <2>3 DEF RegInv, TenantListGood, unlisted
<1>9. ASSUME NEW n \in Names PROVE CallsSame(n) /\ ChecksSame(n)
  <2>1. ChecksSame(n)
    BY <1>0, ChecksRest
  <2>2. ~AtC(c, n) /\ ~AtC(c, n)'
    BY <1>0, <1>2, <1>4 DEF AtC
  <2>3. \A d \in RegCallers : d # c => (AtC(d, n)' <=> AtC(d, n))
    BY <1>5 DEF AtC
  <2> QED BY <1>5, <2>1, <2>2, <2>3 DEF CallsSame
<1>10. ProvidersGood'
  BY <1>0, <1>9, ElsewhereStep
<1> QED BY <1>6, <1>7, <1>8, <1>10 DEF RegInv

\* A call ends that was not at a provider.
LEMMA EndsElsewhere ==
    ASSUME RegInv, NEW c \in RegCallers, regOp[c].pc \in {"append", "unlist", "append2", "unlist2"},
           regOp' = [regOp EXCEPT ![c] = NoRegCall],
           UNCHANGED <<inst, reg, row, pstat, failures, check, routed, tame>>
    PROVE  /\ RegTypes' /\ StatsGood' /\ ProvidersGood'
           /\ regOp'[c].pc = "idle" /\ \A d \in RegCallers : d # c => regOp'[d] = regOp[d]
<1>1. regOp' \in [RegCallers -> OpRecs] /\ regOp'[c] = NoRegCall /\ \A d \in RegCallers : d # c => regOp'[d] = regOp[d]
  BY RegDefaults DEF RegInv, RegTypes
<1>2. RegTypes'
  BY <1>1, RegDefaults DEF RegInv, RegTypes
<1>3. StatsGood'
  BY DEF RegInv, StatsGood
<1>4. ASSUME NEW n \in Names PROVE CallsSame(n) /\ ChecksSame(n)
  <2>1. ~AtC(c, n) /\ NoRegCall.pc \notin {"manager", "store", "remove"} /\ RegTypes
    BY RegDefaults DEF AtC, RegInv
  <2> QED BY <2>1, OneCallMoves, ChecksRest
<1>5. ProvidersGood'
  BY <1>4, ElsewhereStep
<1> QED BY <1>1, <1>2, <1>3, <1>5, RegDefaults

LEMMA RegListFails ==
    ASSUME RegInv, NEW c \in RegCallers, ListFails(c)
    PROVE  RegInv'
<1>0. /\ regOp[c].pc \in {"append", "unlist", "append2", "unlist2"} /\ regOp' = [regOp EXCEPT ![c] = NoRegCall]
      /\ UNCHANGED <<inst, reg, row, pstat, unlisted, failures, check, routed, tame>>
  BY DEF ListFails
<1>1. /\ RegTypes' /\ StatsGood' /\ ProvidersGood'
      /\ regOp'[c].pc = "idle" /\ \A d \in RegCallers : d # c => regOp'[d] = regOp[d]
  BY <1>0, EndsElsewhere
<1>2. TenantListGood'
  <2>1. \A d \in RegCallers : regOp'[d].pc \in {"append2", "unlist2"} =>
               /\ regOp[d].pc \in {"append2", "unlist2"} /\ regOp'[d].names = regOp[d].names
               /\ regOp'[d].listAlone => regOp[d].listAlone
    BY <1>1
  <2> QED BY <1>0, <2>1, KeepList DEF RegInv
<1> QED BY <1>1, <1>2 DEF RegInv

LEMMA RegWriteTenantList ==
    ASSUME RegInv, NEW c \in RegCallers, WriteTenantList(c)
    PROVE  RegInv'
<1>0. /\ regOp[c].pc \in {"append2", "unlist2"} /\ regOp' = [regOp EXCEPT ![c] = NoRegCall]
      /\ UNCHANGED <<inst, reg, row, pstat, failures, check, routed, tame>>
  BY DEF WriteTenantList
<1>1. /\ RegTypes' /\ StatsGood' /\ ProvidersGood'
      /\ regOp'[c].pc = "idle" /\ \A d \in RegCallers : d # c => regOp'[d] = regOp[d]
  BY <1>0, EndsElsewhere
<1>2. PICK n \in Names : n = regOp[c].name
  BY <1>0 DEF RegInv, RegTypes
<1>3. /\ tenantListed' = IF regOp[c].pc = "append2" /\ n \in regOp[c].names THEN tenantListed ELSE NewNames(regOp[c])
      /\ wanted' = IF regOp[c].pc = "append2" THEN wanted \cup {n} ELSE wanted \ {n}
      /\ listTame' => listTame /\ regOp[c].listAlone
  BY <1>2 DEF WriteTenantList
<1>4. regOp[c].names \subseteq Names /\ tenantListed \subseteq Names /\ wanted \subseteq Names
  <2>1. regOp[c] \in OpRecs
    BY DEF RegInv, RegTypes
  <2> QED BY <2>1 DEF OpRecs, RegInv, TenantListGood
<1>5. tenantListed' \subseteq Names /\ wanted' \subseteq Names
  BY <1>2, <1>3, <1>4 DEF NewNames
<1>6. listTame' => tenantListed' = wanted'
  <2> SUFFICES ASSUME listTame' PROVE tenantListed' = wanted'
    OBVIOUS
  <2>1. tenantListed = wanted /\ regOp[c].names = tenantListed
    BY <1>0, <1>3 DEF RegInv, TenantListGood
  <2> QED BY <1>0, <1>2, <1>3, <2>1 DEF NewNames
<1>7. \A d \in RegCallers : regOp'[d].pc \in {"append2", "unlist2"} => ~regOp'[d].listAlone
  BY <1>0, <1>1 DEF RegInv, TenantListGood
<1>8. TenantListGood'
  BY <1>5, <1>6, <1>7 DEF TenantListGood
<1> QED BY <1>1, <1>8 DEF RegInv

LEMMA RegStartProbe ==
    ASSUME RegInv, NEW k \in Checks, NEW n \in Names, StartProbe(k, n)
    PROVE  RegInv'
<1>0. check[k].pc = "idle" /\ UNCHANGED <<inst, reg, row, pstat, unlisted, failures, regOp, routed, tame>>
  BY DEF StartProbe
<1>1. PICK r : r = [NoCheck EXCEPT !.pc = "probe", !.name = n]
  OBVIOUS
<1>2. r = [pc |-> "probe", name |-> n, status |-> "healthy", rec |-> Absent, alone |-> TRUE]
  BY <1>1 DEF NoCheck
<1>3. r \in CheckRecs /\ r.pc = "probe" /\ r.name = n
  BY <1>2 DEF CheckRecs, Health, RegRecs
<1>4. check' = [check EXCEPT ![k] = r]
  BY <1>1 DEF StartProbe
<1>5. RegTypes'
  BY <1>0, <1>3, <1>4 DEF RegInv, RegTypes
<1>6. StatsGood' /\ TenantListGood'
  BY <1>0 DEF RegInv, StatsGood, TenantListGood, unlisted
<1>7. ASSUME NEW m \in Names PROVE CallsSame(m) /\ ChecksSame(m)
  <2>1. ~AtK(k, m) /\ RegTypes
    BY <1>0 DEF AtK, RegInv
  <2> QED BY <1>0, <1>3, <1>4, <2>1, OneCheckMoves, CallsRest
<1>8. ProvidersGood'
  BY <1>0, <1>7, ElsewhereStep
<1> QED BY <1>5, <1>6, <1>8 DEF RegInv

LEMMA RegCreateForTenant ==
    ASSUME RegInv, NEW c \in RegCallers, NEW n \in Names, NEW on \in BOOLEAN, NEW err \in BOOLEAN, CreateForTenant(c, n, on, err)
    PROVE  RegInv'
<1>1. PICK rec \in Records : rec = DefaultRegistryRecordFromConfig(on)
  BY RegDefaults
<1>2. regOp[c].pc = "idle" /\ BeginUpsert(c, n, rec, TRUE, err)
  BY <1>1 DEF CreateForTenant
<1> QED BY <1>2, RegBeginUpsert

\* A patched record is a record.
LEMMA PatchFacts ==
    ASSUME NEW rec \in Records, NEW p \in Patches
    PROVE  mergeRegistryPatch(rec, p[1], p[2]) \in Records
<1>1. CASE \E f \in {"on", "drain"}, b \in BOOLEAN : p = <<f, b>>
  <2>1. PICK f \in {"on", "drain"}, b \in BOOLEAN : p = <<f, b>>
    BY <1>1
  <2>2. p[1] = f /\ p[2] = b
    BY <2>1, Zenon
  <2>3. [rec EXCEPT !["on"] = b] \in Records /\ [rec EXCEPT !["drain"] = b] \in Records
    BY DEF Records
  <2>4. mergeRegistryPatch(rec, f, b) \in Records
    BY <2>3, Zenon DEF mergeRegistryPatch
  <2> QED BY <2>2, <2>4, Zenon
<1>2. CASE \E h \in Health : p = <<"health", h>>
  <2>1. PICK h \in Health : p = <<"health", h>>
    BY <1>2
  <2>2. p[1] = "health" /\ p[2] = h
    BY <2>1
  <2>3. [rec EXCEPT !["health"] = h] \in Records
    BY DEF Records
  <2> QED BY <2>2, <2>3, Zenon DEF mergeRegistryPatch
<1> QED BY <1>1, <1>2 DEF Patches

LEMMA RegUpdate ==
    ASSUME RegInv, NEW c \in RegCallers, NEW n \in Names, NEW p \in Patches, Update(c, n, p[1], p[2])
    PROVE  RegInv'
<1>1. row[n] \in Records
  <2>1. row[n] \in RegRecs /\ row[n] # Absent
    BY DEF RegInv, RegTypes, Update
  <2> QED BY <2>1 DEF RegRecs
<1>2. PICK rec \in Records : rec = mergeRegistryPatch(row[n], p[1], p[2])
  BY <1>1, PatchFacts
<1>3. regOp[c].pc = "idle" /\ BeginUpsert(c, n, rec, FALSE, FALSE)
  BY <1>2 DEF Update
<1> QED BY <1>3, RegBeginUpsert

LEMMA SetStatusEffect ==
    ASSUME StatsGood, inst \subseteq Names, NEW n \in Names, NEW status \in Health, pstat' = SetStatus(pstat, n, status),
           UNCHANGED <<inst, routed>>
    PROVE  /\ StatsGood'
           /\ n \in inst => pstat'[n].status = status
           /\ \A m \in Names : m # n => pstat'[m] = pstat[m]
<1>1. CASE pstat[n].is = "there"
  <2>1. pstat[n] \in [is : {"there"}, status : Health, load : Nat]
    <3>1. pstat[n] \in PStats
      BY DEF StatsGood
    <3> QED BY <1>1, <3>1, RegDefaults DEF PStats
  <2>2. PICK s : s = [pstat[n] EXCEPT !.status = status]
    OBVIOUS
  <2>3. /\ s \in [is : {"there"}, status : Health, load : Nat]
        /\ s.is = "there" /\ s.status = status /\ s.load = pstat[n].load
    BY <2>1, <2>2
  <2>4. pstat' = [pstat EXCEPT ![n] = s]
    BY <1>1, <2>2 DEF SetStatus
  <2>5. pstat' \in [Names -> PStats] /\ pstat'[n] = s /\ \A m \in Names : m # n => pstat'[m] = pstat[m]
    BY <2>3, <2>4 DEF StatsGood, PStats
  <2>6. \A m \in Names : pstat'[m].load = pstat[m].load /\ (pstat[m].is = "there" => pstat'[m].is = "there")
    BY <2>3, <2>5
  <2> QED BY <2>3, <2>5, <2>6 DEF StatsGood
<1>2. CASE pstat[n].is # "there"
  <2>1. pstat' = pstat /\ n \notin inst
    BY <1>2 DEF SetStatus, StatsGood
  <2> QED BY <2>1 DEF StatsGood
<1> QED BY <1>1, <1>2

\* The other providers when a check moves at its own, or leaves it.
LEMMA OthersChecked ==
    ASSUME RegInv, NEW k \in Checks, NEW n \in Names, NEW r, check' = [check EXCEPT ![k] = r],
           check[k].name = n, r.pc \in {"store", "apply"} => r.name = n, regOp' = regOp,
           \A m \in Names : m # n => /\ reg'[m] = reg[m] /\ row'[m] = row[m] /\ (m \in inst' <=> m \in inst)
                                     /\ pstat'[m] = pstat[m] /\ (tame'[m] => tame[m])
    PROVE  \A m \in Names : m # n => ProviderGood(m)'
<1> SUFFICES ASSUME NEW m \in Names, m # n PROVE ProviderGood(m)'
  OBVIOUS
<1>1. ChecksSame(m)
  <2>1. ~AtK(k, m) /\ (r.pc \in {"store", "apply"} => r.name # m)
    BY DEF AtK
  <2>2. RegTypes
    BY DEF RegInv
  <2> QED BY <2>1, <2>2, OneCheckMoves
<1>2. CallsSame(m)
  BY CallsRest
<1>3. ProviderGood(m)
  BY DEF RegInv, ProvidersGood
<1> QED BY <1>1, <1>2, <1>3, KeepProvider

\* A check that leaves its provider.
LEMMA CheckLeaves ==
    ASSUME RegInv, NEW k \in Checks, NEW n \in Names, check[k].name = n, check[k].pc \in {"store", "apply"},
           check' = [check EXCEPT ![k] = NoCheck], UNCHANGED <<inst, unlisted, failures, regOp>>, StatsGood',
           reg' \in [Names -> RegRecs], row' \in [Names -> RegRecs], tame' \in [Names -> BOOLEAN],
           \A m \in Names : m # n => /\ reg'[m] = reg[m] /\ row'[m] = row[m] /\ (m \in inst' <=> m \in inst)
                                     /\ pstat'[m] = pstat[m] /\ (tame'[m] => tame[m]),
           tame'[n] /\ Clean(n)' => Synced(n)'
    PROVE  RegInv'
<1>1. check' \in [Checks -> CheckRecs] /\ check'[k] = NoCheck /\ \A j \in Checks : j # k => check'[j] = check[j]
  BY RegDefaults DEF RegInv, RegTypes
<1>2. RegTypes'
  BY <1>1, RegDefaults DEF RegInv, RegTypes
<1>3. TenantListGood'
  BY DEF RegInv, TenantListGood, unlisted
<1>4. \A m \in Names : m # n => ProviderGood(m)'
  <2>1. NoCheck.pc \notin {"store", "apply"}
    BY RegDefaults
  <2> QED BY <2>1, OthersChecked
<1>5. ProviderGood(n)'
  <2>0. ProviderGood(n) /\ AtK(k, n) /\ ~AtK(k, n)'
    BY <1>1, RegDefaults DEF AtK, RegInv, ProvidersGood
  <2>1. \A c \in RegCallers : RegCallGood(c, n)'
    <3>1. \A c \in RegCallers : (AtC(c, n)' <=> AtC(c, n)) /\ (AtC(c, n) => ~regOp[c].alone)
      BY <2>0, NotAlone DEF AtC
    <3> QED BY <3>1 DEF RegCallGood
  <2>2. ASSUME NEW j \in Checks PROVE RegCheckGood(j, n)'
    <3>1. CASE j = k
      BY <2>0, <3>1 DEF RegCheckGood
    <3>2. CASE j # k
      <4>1. (AtK(j, n)' <=> AtK(j, n)) /\ check'[j] = check[j]
        BY <1>1, <3>2 DEF AtK
      <4>2. AtK(j, n) => ~check[j].alone
        BY <2>0, <3>2, NotAlone
      <4> QED BY <4>1, <4>2 DEF RegCheckGood
    <3> QED BY <3>1, <3>2
  <2> QED BY <2>1, <2>2 DEF ProviderGood
<1>6. ProvidersGood'
  BY <1>4, <1>5 DEF ProvidersGood
<1> QED BY <1>2, <1>3, <1>6 DEF RegInv

LEMMA RegCheckApplies ==
    ASSUME RegInv, NEW k \in Checks, CheckApplies(k)
    PROVE  RegInv'
<1>n. PICK n \in Names : n = check[k].name
  BY DEF CheckApplies, RegInv, RegTypes
<1>0. /\ check[k].pc = "apply" /\ check[k].name = n /\ check[k].rec \in RegRecs /\ check[k].status \in Health
      /\ check[k].alone \in BOOLEAN /\ check' = [check EXCEPT ![k] = NoCheck]
      /\ UNCHANGED <<inst, row, unlisted, failures, regOp, routed>>
  BY <1>n DEF CheckApplies, RegInv, RegTypes, CheckRecs
<1>1. PICK status \in Health : status = check[k].status
  BY <1>0
<1>2. reg' = [reg EXCEPT ![n] = check[k].rec] /\ pstat' = SetStatus(pstat, n, status)
  BY <1>n, <1>1 DEF CheckApplies, ApplyRegistry
<1>3. inst \subseteq Names /\ reg \in [Names -> RegRecs] /\ row \in [Names -> RegRecs] /\ tame \in [Names -> BOOLEAN]
  BY DEF RegInv, RegTypes
<1>4. reg' \in [Names -> RegRecs] /\ reg'[n] = check[k].rec /\ \A m \in Names : m # n => reg'[m] = reg[m]
  BY <1>0, <1>2, <1>3
<1>5. /\ StatsGood'
      /\ n \in inst => pstat'[n].status = status
      /\ \A m \in Names : m # n => pstat'[m] = pstat[m]
  BY <1>0, <1>2, <1>3, SetStatusEffect DEF RegInv
<1>6. tame' = [tame EXCEPT ![n] = @ /\ check[k].alone]
  BY <1>n DEF CheckApplies
<1>7. tame' \in [Names -> BOOLEAN] /\ (\A m \in Names : tame'[m] => tame[m]) /\ (tame'[n] => check[k].alone)
  BY <1>0, <1>3, <1>6
<1>8. tame'[n] => Synced(n)'
  <2>1. AtK(k, n) /\ RegCheckGood(k, n)
    BY <1>0 DEF AtK, RegInv, ProvidersGood, ProviderGood
  <2>2. tame'[n] => check[k].rec = row[n] /\ row[n].health = check[k].status /\ (n \in inst <=> row[n].on)
    BY <1>0, <1>7, <2>1 DEF RegCheckGood
  <2> QED BY <1>0, <1>1, <1>4, <1>5, <2>2 DEF Synced, Held
<1>9. \A m \in Names : m # n => /\ reg'[m] = reg[m] /\ row'[m] = row[m] /\ (m \in inst' <=> m \in inst)
                                /\ pstat'[m] = pstat[m] /\ (tame'[m] => tame[m])
  BY <1>0, <1>4, <1>5, <1>7
<1>10. row' \in [Names -> RegRecs]
  BY <1>0, <1>3
<1> QED BY <1>0, <1>4, <1>5, <1>7, <1>8, <1>9, <1>10, CheckLeaves

LEMMA RegCheckLost ==
    ASSUME RegInv, NEW k \in Checks, CheckLost(k)
    PROVE  RegInv'
<1>n. PICK n \in Names : n = check[k].name
  BY DEF CheckLost, RegInv, RegTypes
<1>0. /\ check[k].pc = "store" /\ check[k].name = n /\ check[k].status \in Health
      /\ check' = [check EXCEPT ![k] = NoCheck] /\ row[n] # Absent
      /\ UNCHANGED <<inst, reg, pstat, unlisted, failures, regOp, routed>>
  BY <1>n DEF CheckLost, RegInv, RegTypes, CheckRecs
<1>1. inst \subseteq Names /\ reg \in [Names -> RegRecs] /\ row \in [Names -> RegRecs] /\ tame \in [Names -> BOOLEAN]
  BY DEF RegInv, RegTypes
<1>2. PICK new : new = [row[n] EXCEPT !.health = check[k].status]
  OBVIOUS
<1>3. new \in RegRecs
  BY <1>0, <1>1, <1>2 DEF RegRecs, Records
<1>4. row' = [row EXCEPT ![n] = new] /\ tame' = [tame EXCEPT ![n] = FALSE]
  BY <1>n, <1>1, <1>2 DEF CheckLost
<1>5. row' \in [Names -> RegRecs] /\ \A m \in Names : m # n => row'[m] = row[m]
  BY <1>1, <1>3, <1>4
<1>6. tame' \in [Names -> BOOLEAN] /\ ~tame'[n] /\ \A m \in Names : tame'[m] => tame[m]
  BY <1>1, <1>4
<1>7. StatsGood'
  BY <1>0 DEF RegInv, StatsGood
<1>8. \A m \in Names : m # n => /\ reg'[m] = reg[m] /\ row'[m] = row[m] /\ (m \in inst' <=> m \in inst)
                                /\ pstat'[m] = pstat[m] /\ (tame'[m] => tame[m])
  BY <1>0, <1>5, <1>6
<1> QED BY <1>0, <1>1, <1>5, <1>6, <1>7, <1>8, CheckLeaves

LEMMA RegCheckStores ==
    ASSUME RegInv, NEW k \in Checks, CheckStores(k)
    PROVE  RegInv'
<1>n. PICK n \in Names : n = check[k].name
  BY DEF CheckStores, RegInv, RegTypes
<1>0. /\ check[k].pc = "store" /\ check[k].name = n /\ check[k] \in CheckRecs /\ check[k].status \in Health
      /\ UNCHANGED <<inst, reg, pstat, unlisted, failures, regOp, routed, tame>>
  BY <1>n DEF CheckStores, RegInv, RegTypes, CheckRecs
<1>1. inst \subseteq Names /\ reg \in [Names -> RegRecs] /\ row \in [Names -> RegRecs] /\ tame \in [Names -> BOOLEAN]
  BY DEF RegInv, RegTypes
<1>2. PICK new : new = [row[n] EXCEPT !.health = check[k].status]
  OBVIOUS
<1>3. StatsGood'
  BY <1>0 DEF RegInv, StatsGood
<1>4. ProviderGood(n) /\ AtK(k, n)
  BY <1>0 DEF AtK, RegInv, ProvidersGood
<1>5. CASE check' = [check EXCEPT ![k] = NoCheck] /\ row' = row
  <2>1. Clean(n)' => Clean(n)
    <3>1. \A j \in Checks : j # k => check'[j] = check[j]
      BY <1>5 DEF RegInv, RegTypes
    <3>2. ASSUME Clean(n)', NEW j \in Checks, AtK(j, n) PROVE check[j].pc = "store"
      BY <1>0, <3>1, <3>2 DEF Clean, AtK
    <3> QED BY <1>0, <3>2 DEF Clean, AtC
  <2>2. tame'[n] /\ Clean(n)' => Synced(n)'
    BY <1>0, <1>4, <1>5, <2>1 DEF ProviderGood, Synced, Held
  <2>3. \A m \in Names : m # n => /\ reg'[m] = reg[m] /\ row'[m] = row[m] /\ (m \in inst' <=> m \in inst)
                                  /\ pstat'[m] = pstat[m] /\ (tame'[m] => tame[m])
    BY <1>0, <1>5
  <2>4. reg' \in [Names -> RegRecs] /\ row' \in [Names -> RegRecs] /\ tame' \in [Names -> BOOLEAN]
    BY <1>0, <1>1, <1>5
  <2> QED BY <1>0, <1>3, <1>5, <2>2, <2>3, <2>4, CheckLeaves
<1>6. CASE /\ row[n] # Absent /\ row' = [row EXCEPT ![n] = new]
           /\ check' = [check EXCEPT ![k].pc = "apply", ![k].rec = new]
  <2>1. PICK r : r = [check[k] EXCEPT !.pc = "apply", !.rec = new]
    OBVIOUS
  <2>2. row[n] \in Records
    BY <1>1, <1>6 DEF RegRecs
  <2>3. new \in Records /\ new.health = check[k].status
    BY <1>0, <1>2, <2>2 DEF Records
  <2>4. new.on = row[n].on
    BY <1>2, <2>2, Zenon DEF Records
  <2>5. r \in CheckRecs /\ r.pc = "apply" /\ r.name = n /\ r.rec = new /\ r.status = check[k].status
    BY <1>0, <2>1, <2>3 DEF CheckRecs, RegRecs
  <2>6. r.alone = check[k].alone
    BY <1>0, <2>1, Zenon DEF CheckRecs
  <2>7. check' = [check EXCEPT ![k] = r]
    BY <1>6, <2>1 DEF RegInv, RegTypes
  <2>8. check' \in [Checks -> CheckRecs] /\ check'[k] = r /\ \A j \in Checks : j # k => check'[j] = check[j]
    BY <2>5, <2>7 DEF RegInv, RegTypes
  <2>9. row' \in [Names -> RegRecs] /\ row'[n] = new /\ \A m \in Names : m # n => row'[m] = row[m]
    BY <1>1, <1>6, <2>3 DEF RegRecs
  <2>10. RegTypes'
    BY <1>0, <2>5, <2>8, <2>9 DEF RegInv, RegTypes
  <2>11. TenantListGood'
    BY <1>0 DEF RegInv, TenantListGood, unlisted
  <2>12. \A m \in Names : m # n => ProviderGood(m)'
    <3>1. \A m \in Names : m # n => /\ reg'[m] = reg[m] /\ row'[m] = row[m] /\ (m \in inst' <=> m \in inst)
                                    /\ pstat'[m] = pstat[m] /\ (tame'[m] => tame[m])
      BY <1>0, <2>9
    <3> QED BY <1>0, <2>5, <2>7, <3>1, OthersChecked
  <2>13. ProviderGood(n)'
    <3>1. ~Clean(n)'
      BY <2>5, <2>8 DEF Clean, AtK
    <3>2. \A c \in RegCallers : RegCallGood(c, n)'
      <4>1. \A c \in RegCallers : (AtC(c, n)' <=> AtC(c, n)) /\ (AtC(c, n) => ~regOp[c].alone)
        BY <1>0, <1>4, NotAlone DEF AtC
      <4> QED BY <1>0, <4>1 DEF RegCallGood
    <3>3. \A j \in Checks : AtK(j, n)' <=> AtK(j, n)
      BY <1>4, <2>5, <2>8 DEF AtK
    <3>4. ASSUME NEW j \in Checks, j # k PROVE RegCheckGood(j, n)'
      <4>1. AtK(j, n) => ~check[j].alone
        BY <1>4, <3>4, NotAlone
      <4> QED BY <2>8, <3>3, <3>4, <4>1 DEF RegCheckGood
    <3>5. RegCheckGood(k, n)'
      <4> SUFFICES ASSUME check'[k].alone
                   PROVE  /\ \A j \in Checks : AtK(j, n)' => j = k
                          /\ \A c \in RegCallers : ~AtC(c, n)'
                          /\ tame'[n] =>
                              check'[k].rec = row'[n] /\ row'[n].health = check'[k].status /\ (n \in inst' <=> row'[n].on)
        BY DEF RegCheckGood
      <4>1. check[k].alone
        BY <2>6, <2>8
      <4>2. (\A j \in Checks : AtK(j, n) => j = k) /\ \A c \in RegCallers : ~AtC(c, n)
        BY <1>4, <4>1 DEF ProviderGood, RegCheckGood
      <4>3. (\A j \in Checks : AtK(j, n)' => j = k) /\ \A c \in RegCallers : ~AtC(c, n)'
        BY <1>0, <3>3, <4>2 DEF AtC
      <4>4. Clean(n)
        BY <1>0, <4>2 DEF Clean
      <4>5. tame[n] => (n \in inst <=> row[n].on)
        BY <1>4, <4>4 DEF ProviderGood, Synced, Held
      <4>6. check'[k].rec = row'[n] /\ row'[n].health = check'[k].status
        BY <2>3, <2>5, <2>8, <2>9
      <4>7. tame'[n] => (n \in inst' <=> row'[n].on)
        BY <1>0, <2>4, <2>9, <4>5
      <4> QED BY <4>3, <4>6, <4>7
    <3> QED BY <3>1, <3>2, <3>4, <3>5 DEF ProviderGood
  <2>14. ProvidersGood'
    BY <2>12, <2>13 DEF ProvidersGood
  <2> QED BY <1>3, <2>10, <2>11, <2>14 DEF RegInv
<1> QED BY <1>n, <1>2, <1>5, <1>6 DEF CheckStores

\* A check that comes to a provider.
LEMMA CheckJoining ==
    ASSUME RegInv, NEW k \in Checks, NEW n \in Names, NEW r \in CheckRecs, check[k].pc = "probe", check[k].name = n,
           r.pc = "store", r.name = n, r.alone => AtProvider(n) = {},
           NEW cks, cks = JoinedChecks(n, check), check' = [cks EXCEPT ![k] = r], regOp' = Joined(n, regOp),
           UNCHANGED <<inst, reg, row, pstat, unlisted, routed, tame>>, failures' \in [Names -> 0 .. FailureThreshold]
    PROVE  RegInv'
<1>0. RegTypes /\ ProvidersGood
  BY DEF RegInv
<1>1. PICK ops : ops = Joined(n, regOp)
  OBVIOUS
<1>2. regOp' = ops
  BY <1>1
<1>3. \A d \in RegCallers :
          /\ ops[d].pc = regOp[d].pc /\ ops[d].name = regOp[d].name /\ ops[d].rec = regOp[d].rec
          /\ ops[d].prev = regOp[d].prev /\ ops[d].names = regOp[d].names
          /\ ops[d].prevErr = regOp[d].prevErr /\ ops[d].listAlone = regOp[d].listAlone
          /\ ops[d].alone => regOp[d].alone /\ ~AtC(d, n)
  BY <1>0, <1>1, JoinedFacts
<1>4. /\ regOp' \in [RegCallers -> OpRecs]
      /\ \A d \in RegCallers :
          /\ regOp'[d].pc = regOp[d].pc /\ regOp'[d].name = regOp[d].name /\ regOp'[d].rec = regOp[d].rec
          /\ regOp'[d].prev = regOp[d].prev /\ regOp'[d].names = regOp[d].names
          /\ regOp'[d].prevErr = regOp[d].prevErr /\ regOp'[d].listAlone = regOp[d].listAlone
          /\ regOp'[d].alone => regOp[d].alone /\ ~AtC(d, n)
  <2>1. regOp' \in [RegCallers -> OpRecs]
    <3>0. \A e \in RegCallers : regOp[e] \in OpRecs
      BY <1>0 DEF RegTypes
    <3>1. ASSUME NEW e \in RegCallers PROVE [regOp[e] EXCEPT !.alone = FALSE] \in OpRecs
      BY <3>0 DEF OpRecs
    <3> QED BY <3>0, <3>1 DEF Joined
  <2>2. \A d \in RegCallers : regOp'[d] = ops[d]
    BY <1>2
  <2> QED BY <1>3, <2>1, <2>2
<1>5. /\ cks \in [Checks -> CheckRecs]
      /\ \A j \in Checks : /\ cks[j].pc = check[j].pc /\ cks[j].name = check[j].name /\ cks[j].rec = check[j].rec
                           /\ cks[j].status = check[j].status
                           /\ cks[j].alone => check[j].alone /\ ~AtK(j, n)
  BY <1>0, JoinedChecksFacts
<1>6. check' \in [Checks -> CheckRecs] /\ check'[k] = r /\ \A j \in Checks : j # k => check'[j] = cks[j]
  BY <1>5
<1>7. \A j \in Checks : j # k => /\ check'[j].pc = check[j].pc /\ check'[j].name = check[j].name
                                 /\ check'[j].rec = check[j].rec /\ check'[j].status = check[j].status
                                 /\ check'[j].alone => check[j].alone /\ ~AtK(j, n)
  BY <1>5, <1>6
<1>8. RegTypes'
  BY <1>0, <1>4, <1>6, <1>7 DEF RegTypes
<1>9. StatsGood'
  BY DEF RegInv, StatsGood
<1>10. TenantListGood'
  <2>1. \A d \in RegCallers : regOp'[d].pc \in {"append2", "unlist2"} =>
               /\ regOp[d].pc \in {"append2", "unlist2"} /\ regOp'[d].names = regOp[d].names
               /\ regOp'[d].listAlone => regOp[d].listAlone
    BY <1>4
  <2> QED BY <2>1, KeepList DEF RegInv
<1>11. \A m, d : d \in RegCallers => (AtC(d, m)' <=> AtC(d, m))
  BY <1>4 DEF AtC
<1>12. \A m, j : j \in Checks /\ j # k => (AtK(j, m)' <=> AtK(j, m))
  BY <1>7 DEF AtK
<1>13. AtK(k, n)' /\ \A m : ~AtK(k, m) /\ (m # n => ~AtK(k, m)')
  BY <1>6 DEF AtK
<1>14. ASSUME NEW m \in Names, m # n PROVE ProviderGood(m)'
  <2>1. ChecksSame(m)
    <3>1. ASSUME NEW j \in Checks
          PROVE  /\ AtK(j, m)' <=> AtK(j, m)
                 /\ AtK(j, m) => /\ check'[j].pc = check[j].pc /\ check'[j].rec = check[j].rec
                                 /\ check'[j].status = check[j].status
                                 /\ check'[j].alone => check[j].alone
      <4>1. CASE j = k
        BY <1>13, <1>14, <4>1
      <4>2. CASE j # k
        BY <1>7, <1>12, <4>2
      <4> QED BY <4>1, <4>2
    <3> QED BY <3>1 DEF ChecksSame
  <2>2. CallsSame(m)
    BY <1>4, <1>11 DEF CallsSame
  <2>3. ProviderGood(m)
    BY <1>0 DEF ProvidersGood
  <2> QED BY <2>1, <2>2, <2>3, KeepProvider
<1>15. ProviderGood(n)'
  <2>0. ProviderGood(n)
    BY <1>0 DEF ProvidersGood
  <2>1. tame'[n] /\ Clean(n)' => Synced(n)'
    <3>1. Clean(n)' => Clean(n)
      <4>1. ASSUME Clean(n)', NEW d \in RegCallers, AtC(d, n) PROVE regOp[d].pc = "manager"
        BY <1>4, <1>11, <4>1 DEF Clean
      <4>2. ASSUME Clean(n)', NEW j \in Checks, AtK(j, n) PROVE check[j].pc = "store"
        BY <1>7, <1>12, <1>13, <4>2 DEF Clean
      <4> QED BY <4>1, <4>2 DEF Clean
    <3> QED BY <2>0, <3>1 DEF ProviderGood, Synced, Held
  <2>2. \A d \in RegCallers : RegCallGood(d, n)'
    BY <1>4, <1>11 DEF RegCallGood
  <2>3. ASSUME NEW j \in Checks PROVE RegCheckGood(j, n)'
    <3>1. CASE j # k
      BY <1>7, <1>12, <3>1 DEF RegCheckGood
    <3>2. CASE j = k /\ r.alone
      <4>1. (\A e \in RegCallers : ~AtC(e, n)) /\ \A i \in Checks : ~AtK(i, n)
        BY <3>2 DEF AtProvider, AtC, AtK
      <4>2. (\A e \in RegCallers : ~AtC(e, n)') /\ \A i \in Checks : AtK(i, n)' => i = k
        BY <1>11, <1>12, <4>1
      <4> QED BY <1>6, <3>2, <4>2 DEF RegCheckGood
    <3>3. CASE j = k /\ ~r.alone
      BY <1>6, <3>3 DEF RegCheckGood
    <3> QED BY <3>1, <3>2, <3>3
  <2> QED BY <2>1, <2>2, <2>3 DEF ProviderGood
<1>16. ProvidersGood'
  BY <1>14, <1>15 DEF ProvidersGood
<1> QED BY <1>8, <1>9, <1>10, <1>16 DEF RegInv

\* A check ends without having come to its provider.
LEMMA ProbeEnds ==
    ASSUME RegInv, NEW k \in Checks, NEW n \in Names, check[k].pc = "probe", check' = [check EXCEPT ![k] = NoCheck],
           UNCHANGED <<inst, reg, row, unlisted, regOp, routed, tame>>, failures' \in [Names -> 0 .. FailureThreshold],
           StatsGood', \A m \in Names : m # n => pstat'[m] = pstat[m],
           n \in inst => pstat'[n].status = pstat[n].status \/ pstat'[n].status = reg[n].health
    PROVE  RegInv'
<1>1. check' \in [Checks -> CheckRecs] /\ check'[k] = NoCheck /\ \A j \in Checks : j # k => check'[j] = check[j]
  BY RegDefaults DEF RegInv, RegTypes
<1>2. RegTypes'
  BY <1>1, RegDefaults DEF RegInv, RegTypes
<1>3. TenantListGood'
  BY DEF RegInv, TenantListGood, unlisted
<1>4. ASSUME NEW m \in Names PROVE ProviderGood(m)'
  <2>1. ~AtK(k, m) /\ NoCheck.pc \notin {"store", "apply"} /\ RegTypes /\ ProviderGood(m)
    BY RegDefaults DEF AtK, RegInv, ProvidersGood
  <2>2. CallsSame(m) /\ ChecksSame(m)
    BY <2>1, OneCheckMoves, CallsRest
  <2>3. m \in inst => pstat'[m].status = pstat[m].status \/ pstat'[m].status = reg[m].health
    OBVIOUS
  <2> QED BY <2>1, <2>2, <2>3, KeepProvider
<1>5. ProvidersGood'
  BY <1>4 DEF ProvidersGood
<1> QED BY <1>2, <1>3, <1>5 DEF RegInv

LEMMA RegProbeAnswers ==
    ASSUME RegInv, NEW k \in Checks, NEW ok \in BOOLEAN, ProbeAnswers(k, ok)
    PROVE  RegInv'
<1>n. PICK n \in Names : n = check[k].name
  BY DEF ProbeAnswers, RegInv, RegTypes
<1>0. /\ check[k].pc = "probe" /\ check[k].name = n /\ check \in [Checks -> CheckRecs] /\ check[k] \in CheckRecs
      /\ inst \subseteq Names /\ failures \in [Names -> 0 .. FailureThreshold]
      /\ UNCHANGED <<inst, reg, row, unlisted, routed, tame>>
  BY <1>n DEF ProbeAnswers, RegInv, RegTypes
<1>1. PICK count : count = IF ok THEN 0 ELSE IF failures[n] < FailureThreshold THEN failures[n] + 1 ELSE failures[n]
  OBVIOUS
<1>2. PICK next : next = IF ok THEN "healthy" ELSE failureStatus(count)
  OBVIOUS
<1>3. next \in Health
  BY <1>2 DEF failureStatus, Health
<1>4. count \in 0 .. FailureThreshold
  BY <1>0, <1>1, RegAssumption
<1>5. IF reg[n] = Absent THEN check' = [check EXCEPT ![k] = NoCheck] /\ UNCHANGED <<pstat, failures, regOp>>
      ELSE /\ failures' = [failures EXCEPT ![n] = count]
           /\ IF reg[n].health = next
              THEN /\ pstat' = SetStatus(pstat, n, next)
                   /\ check' = [check EXCEPT ![k] = NoCheck]
                   /\ UNCHANGED regOp
              ELSE /\ regOp' = Joined(n, regOp)
                   /\ check' = [JoinedChecks(n, check) EXCEPT ![k] =
                         [@ EXCEPT !.pc = "store", !.status = next, !.alone = AtProvider(n) = {}]]
                   /\ UNCHANGED pstat
  BY <1>n, <1>1, <1>2, Zenon DEF ProbeAnswers
<1>6. CASE reg[n] = Absent
  <2>1. check' = [check EXCEPT ![k] = NoCheck] /\ UNCHANGED <<pstat, failures, regOp>>
    BY <1>5, <1>6
  <2>2. StatsGood'
    BY <1>0, <2>1 DEF RegInv, StatsGood
  <2> QED BY <1>0, <2>1, <2>2, ProbeEnds
<1>7. CASE reg[n] # Absent /\ reg[n].health = next
  <2>1. /\ failures' = [failures EXCEPT ![n] = count] /\ pstat' = SetStatus(pstat, n, next)
        /\ check' = [check EXCEPT ![k] = NoCheck] /\ UNCHANGED regOp
    BY <1>5, <1>7
  <2>2. failures' \in [Names -> 0 .. FailureThreshold]
    BY <1>0, <1>4, <2>1
  <2>3. /\ StatsGood'
        /\ n \in inst => pstat'[n].status = next
        /\ \A m \in Names : m # n => pstat'[m] = pstat[m]
    BY <1>0, <1>3, <2>1, SetStatusEffect DEF RegInv
  <2> QED BY <1>0, <1>7, <2>1, <2>2, <2>3, ProbeEnds
<1>8. CASE reg[n] # Absent /\ reg[n].health # next
  <2>1. PICK cks : cks = JoinedChecks(n, check)
    OBVIOUS
  <2>2. PICK r : r = [cks[k] EXCEPT !.pc = "store", !.status = next, !.alone = AtProvider(n) = {}]
    OBVIOUS
  <2>3. cks \in [Checks -> CheckRecs] /\ cks[k].name = n
    BY <1>0, <2>1, JoinedChecksFacts DEF RegInv
  <2>4. r \in CheckRecs /\ r.pc = "store" /\ r.name = n
    <3>1. cks[k] \in CheckRecs /\ (AtProvider(n) = {}) \in BOOLEAN
      BY <2>3
    <3> QED BY <1>3, <2>2, <2>3, <3>1 DEF CheckRecs
  <2>5. r.alone = (AtProvider(n) = {})
    <3>1. cks[k] \in CheckRecs
      BY <2>3
    <3> QED BY <2>2, <3>1, Zenon DEF CheckRecs
  <2>6. check' = [cks EXCEPT ![k] = r]
    BY <1>5, <1>8, <2>1, <2>2, <2>3, Zenon
  <2>7. regOp' = Joined(n, regOp) /\ UNCHANGED pstat /\ failures' = [failures EXCEPT ![n] = count]
    BY <1>5, <1>8
  <2>8. failures' \in [Names -> 0 .. FailureThreshold]
    BY <1>0, <1>4, <2>7
  <2>9. r.alone => AtProvider(n) = {}
    BY <2>5, Zenon
  <2> QED BY <1>0, <2>1, <2>4, <2>6, <2>7, <2>8, <2>9, CheckJoining
<1> QED BY <1>6, <1>7, <1>8

\* A reload: nobody is alone, and no provider is said to be as its row.
LEMMA RegScattered ==
    ASSUME RegInv, Scattered, UNCHANGED <<row, unlisted, failures>>, inst' \subseteq Names, reg' \in [Names -> RegRecs],
           StatsGood'
    PROVE  RegInv'
<1>1. /\ regOp' = [c \in RegCallers |-> [regOp[c] EXCEPT !.alone = FALSE]]
      /\ check' = [k \in Checks |-> [check[k] EXCEPT !.alone = FALSE]]
      /\ tame' = [n \in Names |-> FALSE]
  BY DEF Scattered
<1>2. ASSUME NEW c \in RegCallers
      PROVE  /\ regOp'[c] \in OpRecs /\ regOp'[c].pc = regOp[c].pc /\ regOp'[c].name = regOp[c].name
             /\ regOp'[c].names = regOp[c].names /\ regOp'[c].alone = FALSE /\ regOp'[c].listAlone = regOp[c].listAlone
  <2>1. PICK r : r = [regOp[c] EXCEPT !.alone = FALSE]
    OBVIOUS
  <2>2. regOp[c] \in OpRecs /\ regOp'[c] = r
    BY <1>1, <2>1 DEF RegInv, RegTypes
  <2>3. r \in OpRecs /\ r.pc = regOp[c].pc /\ r.name = regOp[c].name /\ r.names = regOp[c].names
    BY <2>1, <2>2 DEF OpRecs
  <2>4. r.listAlone = regOp[c].listAlone
    BY <2>1, <2>2, Zenon DEF OpRecs
  <2>5. r.alone = FALSE
    BY <2>1, <2>2 DEF OpRecs
  <2> QED BY <2>2, <2>3, <2>4, <2>5, Zenon
<1>3. ASSUME NEW k \in Checks
      PROVE  check'[k] \in CheckRecs /\ check'[k].pc = check[k].pc /\ check'[k].name = check[k].name /\ check'[k].alone = FALSE
  <2>1. check[k] \in CheckRecs /\ check'[k] = [check[k] EXCEPT !.alone = FALSE]
    BY <1>1 DEF RegInv, RegTypes
  <2> QED BY <2>1 DEF CheckRecs
<1>4. regOp' \in [RegCallers -> OpRecs] /\ check' \in [Checks -> CheckRecs] /\ tame' \in [Names -> BOOLEAN]
  <2>1. regOp' = [c \in RegCallers |-> regOp'[c]] /\ check' = [k \in Checks |-> check'[k]]
    BY <1>1
  <2> QED BY <1>1, <1>2, <1>3, <2>1
<1>5. RegTypes'
  <2>1. /\ \A c \in RegCallers : regOp'[c].pc # "idle" => regOp'[c].name \in Names
        /\ \A k \in Checks : check'[k].pc # "idle" => check'[k].name \in Names
    BY <1>2, <1>3 DEF RegInv, RegTypes
  <2> QED BY <1>4, <2>1 DEF RegInv, RegTypes
<1>6. TenantListGood'
  <2>1. \A d \in RegCallers : regOp'[d].pc \in {"append2", "unlist2"} =>
               /\ regOp[d].pc \in {"append2", "unlist2"} /\ regOp'[d].names = regOp[d].names
               /\ regOp'[d].listAlone => regOp[d].listAlone
    BY <1>2
  <2> QED BY <2>1, KeepList DEF RegInv
<1>7. ProvidersGood'
  <2>1. ASSUME NEW n \in Names PROVE ProviderGood(n)'
    <3>1. ~tame'[n]
      BY <1>1
    <3>2. (\A c \in RegCallers : RegCallGood(c, n)') /\ \A k \in Checks : RegCheckGood(k, n)'
      BY <1>2, <1>3 DEF RegCallGood, RegCheckGood
    <3> QED BY <3>1, <3>2 DEF ProviderGood
  <2> QED BY <2>1 DEF ProvidersGood
<1> QED BY <1>5, <1>6, <1>7 DEF RegInv

\* The statistics of a provider that is registered anew.
LEMMA FreshStat ==
    /\ [is |-> "there", status |-> "healthy", load |-> 0] \in PStats
    /\ NoStat \in PStats
    /\ [is |-> "there", status |-> "healthy", load |-> 0].load = 0
    /\ [is |-> "there", status |-> "healthy", load |-> 0].is = "there"
BY DEF PStats, Health

LEMMA RegReloadManager ==
    ASSUME RegInv, ReloadManager
    PROVE  RegInv'
<1>0. /\ inst' = ConfiguredNames /\ Scattered /\ UNCHANGED <<row, unlisted, failures, routed>>
      /\ reg' = [n \in Names |-> IF n \in ConfiguredNames THEN DefaultRegistryRecordFromConfig(TRUE) ELSE Absent]
      /\ ConfiguredNames \subseteq Names
  BY RegAssumption DEF ReloadManager
<1>1. reg' \in [Names -> RegRecs]
  BY <1>0, RegDefaults DEF RegRecs
<1>2. PICK s : s = [is |-> "there", status |-> "healthy", load |-> 0]
  OBVIOUS
<1>3. s \in PStats /\ NoStat \in PStats /\ s.load = 0 /\ s.is = "there" /\ NoStat.load = 0
  BY <1>2, FreshStat, RegDefaults
<1>4. pstat' = [n \in Names |-> IF n \in ConfiguredNames THEN s ELSE IF n \in inst THEN NoStat ELSE pstat[n]]
  BY <1>2 DEF ReloadManager
<1>5. pstat' \in [Names -> PStats]
  BY <1>3, <1>4 DEF RegInv, StatsGood
<1>6. ASSUME NEW n \in Names PROVE pstat'[n].load <= routed'[n]
  <2>1. routed'[n] = routed[n] /\ 0 <= routed[n] /\ pstat[n].load <= routed[n]
    BY <1>0 DEF RegInv, StatsGood
  <2>2. pstat'[n] = s \/ pstat'[n] = NoStat \/ pstat'[n] = pstat[n]
    BY <1>4
  <2> QED BY <1>3, <2>1, <2>2
<1>7. \A n \in inst' : pstat'[n].is = "there"
  BY <1>0, <1>3, <1>4
<1>8. StatsGood'
  BY <1>0, <1>5, <1>6, <1>7 DEF RegInv, StatsGood
<1> QED BY <1>0, <1>1, <1>8, RegScattered

LEMMA RegReloadFails ==
    ASSUME RegInv, NEW done \in SUBSET ConfiguredNames, ReloadFails(done)
    PROVE  RegInv'
<1>0. Scattered /\ UNCHANGED <<inst, reg, row, unlisted, failures, routed>>
  BY DEF ReloadFails
<1>2. PICK s : s = [is |-> "there", status |-> "healthy", load |-> 0]
  OBVIOUS
<1>3. s \in PStats /\ s.load = 0 /\ s.is = "there"
  BY <1>2, FreshStat
<1>4. pstat' = [n \in Names |-> IF n \in done THEN s ELSE pstat[n]]
  BY <1>2 DEF ReloadFails
<1>5. pstat' \in [Names -> PStats]
  BY <1>3, <1>4 DEF RegInv, StatsGood
<1>6. ASSUME NEW n \in Names PROVE pstat'[n].load <= routed'[n]
  <2>1. routed'[n] = routed[n] /\ 0 <= routed[n] /\ pstat[n].load <= routed[n]
    BY <1>0 DEF RegInv, StatsGood
  <2>2. pstat'[n] = s \/ pstat'[n] = pstat[n]
    BY <1>4
  <2> QED BY <1>3, <2>1, <2>2
<1>7. \A n \in inst' : pstat'[n].is = "there"
  BY <1>0, <1>3, <1>4 DEF RegInv, RegTypes, StatsGood
<1>8. StatsGood'
  BY <1>0, <1>5, <1>6, <1>7 DEF RegInv, StatsGood
<1>9. inst' \subseteq Names /\ reg' \in [Names -> RegRecs]
  BY <1>0 DEF RegInv, RegTypes
<1> QED BY <1>0, <1>8, <1>9, RegScattered

\* What a start makes of the rows.
LEMMA StartFacts ==
    ASSUME NEW rows \in [Names -> RegRecs]
    PROVE  /\ Seeded(rows) \in [Names -> RegRecs] /\ Instances(rows) \subseteq Names
           /\ Statistics(rows) \in [Names -> PStats]
           /\ \A n \in Names : /\ n \in Instances(rows) <=> rows[n].on
                               /\ Statistics(rows)[n].load = 0
                               /\ n \in Instances(rows) => /\ Statistics(rows)[n].is = "there"
                                                           /\ Statistics(rows)[n].status = rows[n].health
<1>1. Seeded(rows) \in [Names -> RegRecs]
  BY RegDefaults DEF Seeded, RegRecs
<1>2. ASSUME NEW n \in Names
      PROVE  /\ n \in Instances(rows) <=> rows[n].on
             /\ Statistics(rows)[n] \in PStats /\ Statistics(rows)[n].load = 0
             /\ n \in Instances(rows) => /\ Statistics(rows)[n].is = "there"
                                         /\ Statistics(rows)[n].status = rows[n].health
  <2>1. n \in Instances(rows) <=> rows[n].on
    BY DEF Instances
  <2>2. PICK s : s = [is |-> "there", status |-> rows[n].health, load |-> 0]
    OBVIOUS
  <2>3. rows[n].health \in Health
    <3>1. rows[n] \in RegRecs
      OBVIOUS
    <3> QED BY <3>1, RegDefaults DEF RegRecs, Records, Health
  <2>4. s \in PStats /\ s.is = "there" /\ s.status = rows[n].health /\ s.load = 0
    BY <2>2, <2>3 DEF PStats
  <2>5. Statistics(rows)[n] = IF rows[n].on THEN s ELSE NoStat
    BY <2>2, Zenon DEF Statistics
  <2> QED BY <2>1, <2>4, <2>5, FreshStat, RegDefaults
<1>3. Statistics(rows) \in [Names -> PStats]
  <2>1. Statistics(rows) = [n \in Names |-> Statistics(rows)[n]]
    BY Zenon DEF Statistics
  <2> QED BY <1>2, <2>1
<1> QED BY <1>1, <1>2, <1>3 DEF Instances

\* The gateway has just started.
JustStarted ==
    /\ row \in [Names -> RegRecs] /\ inst = Instances(row) /\ reg = row /\ pstat = Statistics(row)
    /\ tenantListed \subseteq Names /\ wanted = tenantListed
    /\ failures = [n \in Names |-> 0] /\ routed = [n \in Names |-> 0] /\ tame = [n \in Names |-> TRUE]
    /\ regOp = [c \in RegCallers |-> NoRegCall] /\ check = [k \in Checks |-> NoCheck]

LEMMA StartsGood == JustStarted => RegInv
<1> SUFFICES ASSUME JustStarted PROVE RegInv
  OBVIOUS
<1>0. /\ row \in [Names -> RegRecs] /\ inst = Instances(row) /\ reg = row /\ pstat = Statistics(row)
      /\ tenantListed \subseteq Names /\ wanted = tenantListed
      /\ failures = [n \in Names |-> 0] /\ routed = [n \in Names |-> 0] /\ tame = [n \in Names |-> TRUE]
  BY DEF JustStarted
<1>1. \A c \in RegCallers : regOp[c] = NoRegCall /\ regOp[c].pc = "idle"
  BY RegDefaults DEF JustStarted
<1>2. \A k \in Checks : check[k] = NoCheck /\ check[k].pc = "idle"
  BY RegDefaults DEF JustStarted
<1>3. /\ inst \subseteq Names /\ pstat \in [Names -> PStats]
      /\ \A n \in Names : /\ n \in inst <=> row[n].on
                          /\ pstat[n].load = 0
                          /\ n \in inst => pstat[n].is = "there" /\ pstat[n].status = row[n].health
  BY <1>0, StartFacts
<1>4. RegTypes
  <2>1. regOp \in [RegCallers -> OpRecs] /\ check \in [Checks -> CheckRecs]
    BY RegDefaults DEF JustStarted
  <2>2. failures \in [Names -> 0 .. FailureThreshold] /\ tame \in [Names -> BOOLEAN]
    BY <1>0, RegAssumption
  <2> QED BY <1>0, <1>1, <1>2, <1>3, <2>1, <2>2 DEF RegTypes
<1>5. StatsGood
  <2>1. routed \in [Names -> 0 .. MaxRoutes] /\ \A n \in Names : routed[n] = 0
    BY <1>0, RegAssumption
  <2>2. \A n \in Names : pstat[n].load <= routed[n]
    BY <1>3, <2>1
  <2> QED BY <1>3, <2>1, <2>2 DEF StatsGood
<1>6. ProvidersGood
  <2>1. ASSUME NEW n \in Names PROVE ProviderGood(n)
    <3>1. Synced(n)
      BY <1>0, <1>3 DEF Synced, Held
    <3>2. (\A c \in RegCallers : ~AtC(c, n)) /\ \A k \in Checks : ~AtK(k, n)
      BY <1>1, <1>2 DEF AtC, AtK
    <3> QED BY <3>1, <3>2 DEF ProviderGood, RegCallGood, RegCheckGood
  <2> QED BY <2>1 DEF ProvidersGood
<1>7. TenantListGood
  BY <1>0, <1>1 DEF TenantListGood
<1> QED BY <1>4, <1>5, <1>6, <1>7 DEF RegInv

LEMMA RegInitially == RegInit => RegInv
<1> SUFFICES ASSUME RegInit PROVE RegInv
  OBVIOUS
<1>1. row \in [Names -> RegRecs]
  BY RegDefaults DEF RegInit, RegRecs
<1>2. JustStarted
  BY <1>1, RegAssumption DEF RegInit, JustStarted
<1> QED BY <1>2, StartsGood

LEMMA RegRestart == RegInv /\ Restart => RegInv'
<1>1. RegInv /\ Restart => JustStarted'
  <2> SUFFICES ASSUME RegInv, Restart PROVE JustStarted'
    OBVIOUS
  <2>1. row' \in [Names -> RegRecs]
    BY StartFacts DEF RegInv, RegTypes, Restart
  <2>2. tenantListed' \subseteq Names
    BY RegAssumption DEF RegInv, TenantListGood, Restart
  <2> QED BY <2>1, <2>2 DEF Restart, JustStarted
<1>2. JustStarted' => RegInv'
  BY StartsGood, PTL
<1> QED BY <1>1, <1>2

\* A request comes to a provider, or leaves it.
LEMMA RequestKeeps ==
    ASSUME RegInv, NEW n \in Names, NEW i \in Int, routed' = [routed EXCEPT ![n] = i], i \in 0 .. MaxRoutes,
           UNCHANGED <<inst, reg, row, unlisted, failures, regOp, check, tame>>,
           \/ pstat' = pstat /\ pstat[n].load <= i
           \/ pstat[n].is = "there" /\ \E l \in Nat : l <= i /\ pstat' = [pstat EXCEPT ![n].load = l]
    PROVE  RegInv'
<1>0. routed \in [Names -> 0 .. MaxRoutes] /\ pstat \in [Names -> PStats]
  BY DEF RegInv, StatsGood
<1>1. routed' \in [Names -> 0 .. MaxRoutes] /\ routed'[n] = i /\ \A m \in Names : m # n => routed'[m] = routed[m]
  BY <1>0
<1>2. /\ pstat' \in [Names -> PStats] /\ pstat'[n].load <= i /\ pstat'[n].status = pstat[n].status /\ pstat'[n].is = pstat[n].is
      /\ \A m \in Names : m # n => pstat'[m] = pstat[m]
  <2>1. CASE pstat' = pstat /\ pstat[n].load <= i
    BY <1>0, <2>1
  <2>2. CASE pstat[n].is = "there" /\ \E l \in Nat : l <= i /\ pstat' = [pstat EXCEPT ![n].load = l]
    <3>1. PICK l \in Nat : l <= i /\ pstat' = [pstat EXCEPT ![n].load = l]
      BY <2>2
    <3>2. pstat[n] \in [is : {"there"}, status : Health, load : Nat]
      <4>1. pstat[n] \in PStats
        BY <1>0
      <4> QED BY <2>2, <4>1, RegDefaults DEF PStats
    <3>3. PICK s : s = [pstat[n] EXCEPT !.load = l]
      OBVIOUS
    <3>4. s \in PStats /\ s.load = l /\ s.status = pstat[n].status /\ s.is = pstat[n].is
      BY <3>2, <3>3 DEF PStats
    <3>5. pstat' = [pstat EXCEPT ![n] = s]
      BY <3>1, <3>3
    <3>6. pstat' \in [Names -> PStats] /\ pstat'[n] = s /\ \A m \in Names : m # n => pstat'[m] = pstat[m]
      BY <1>0, <3>4, <3>5
    <3> QED BY <3>1, <3>4, <3>6
  <2> QED BY <2>1, <2>2
<1>3. StatsGood'
  <2>1. \A m \in Names : pstat'[m].load <= routed'[m]
    BY <1>1, <1>2 DEF RegInv, StatsGood
  <2>2. \A m \in inst' : pstat'[m].is = "there"
    BY <1>2 DEF RegInv, RegTypes, StatsGood
  <2> QED BY <1>1, <1>2, <2>1, <2>2 DEF StatsGood
<1>4. RegTypes' /\ TenantListGood'
  BY DEF RegInv, RegTypes, TenantListGood, unlisted
<1>5. \A m \in Names : CallsSame(m) /\ ChecksSame(m)
  BY CallsRest, ChecksRest
<1>6. \A m \in Names : pstat'[m].status = pstat[m].status
  BY <1>2
<1>7. ProvidersGood'
  BY <1>5, <1>6, ElsewhereStep
<1> QED BY <1>3, <1>4, <1>7 DEF RegInv

LEMMA RegRequests ==
    ASSUME RegInv, NEW n \in Names, RouteRequest(n) \/ FinishRequest(n)
    PROVE  RegInv'
<1>0. /\ routed \in [Names -> 0 .. MaxRoutes] /\ routed[n] \in 0 .. MaxRoutes /\ MaxRoutes \in Nat
      /\ pstat[n].load <= routed[n] /\ pstat[n] \in PStats
  BY RegAssumption DEF RegInv, StatsGood
<1>1. pstat[n].load \in Nat
  <2>1. NoStat.load \in Nat
    BY RegDefaults
  <2> QED BY <1>0, <2>1 DEF PStats
<1>2. UNCHANGED <<inst, reg, row, unlisted, failures, regOp, check, tame>>
  BY DEF RouteRequest, FinishRequest
<1>3. CASE RouteRequest(n)
  <2>1. PICK i \in Int : i = routed[n] + 1
    BY <1>0
  <2>2. routed' = [routed EXCEPT ![n] = i] /\ i \in 0 .. MaxRoutes
    BY <1>0, <1>3, <2>1 DEF RouteRequest
  <2>3. pstat' = IncrementLoad(pstat, n)
    BY <1>3 DEF RouteRequest
  <2>4. PICK l \in Nat : l = pstat[n].load + 1
    BY <1>1
  <2>5. l <= i /\ pstat[n].load <= i
    BY <1>0, <1>1, <2>1, <2>4
  <2>6. pstat' = pstat \/ (pstat[n].is = "there" /\ pstat' = [pstat EXCEPT ![n].load = l])
    BY <2>3, <2>4 DEF IncrementLoad
  <2> QED BY <1>2, <2>2, <2>5, <2>6, RequestKeeps
<1>4. CASE FinishRequest(n)
  <2>1. PICK i \in Int : i = routed[n] - 1
    BY <1>0
  <2>2. routed' = [routed EXCEPT ![n] = i] /\ i \in 0 .. MaxRoutes
    BY <1>0, <1>4, <2>1 DEF FinishRequest
  <2>3. pstat' = DecrementLoad(pstat, n)
    BY <1>4 DEF FinishRequest
  <2>4. CASE pstat[n].is = "there" /\ pstat[n].load > 0
    <3>1. PICK l \in Nat : l = pstat[n].load - 1
      BY <1>1, <2>4
    <3>2. l <= i
      BY <1>0, <1>1, <2>1, <3>1
    <3>3. pstat' = [pstat EXCEPT ![n].load = l]
      BY <2>3, <2>4, <3>1 DEF DecrementLoad
    <3> QED BY <1>2, <2>2, <2>4, <3>2, <3>3, RequestKeeps
  <2>5. CASE ~(pstat[n].is = "there" /\ pstat[n].load > 0)
    <3>1. pstat' = pstat
      BY <2>3, <2>5 DEF DecrementLoad
    <3>2. pstat[n].load <= i
      <4>1. pstat[n].load = 0
        BY <1>0, <1>1, <2>5, RegDefaults DEF PStats
      <4> QED BY <2>2, <4>1
    <3> QED BY <1>2, <2>2, <3>1, <3>2, RequestKeeps
  <2> QED BY <2>4, <2>5
<1> QED BY <1>3, <1>4

LEMMA RegStep == RegInv /\ [RegNext]_regVars => RegInv'
<1> SUFFICES ASSUME RegInv, [RegNext]_regVars PROVE RegInv'
  OBVIOUS
<1>1. CASE UNCHANGED regVars
  <2>1. UNCHANGED <<inst, reg, row, pstat, unlisted, failures, regOp, check, routed, tame>>
    BY <1>1 DEF regVars, unlisted
  <2>2. RegTypes' /\ StatsGood' /\ TenantListGood'
    BY <2>1 DEF RegInv, RegTypes, StatsGood, TenantListGood, unlisted
  <2>3. ProvidersGood'
    BY <2>1, CallsRest, ChecksRest, ElsewhereStep
  <2> QED BY <2>2, <2>3 DEF RegInv
<1>2. ASSUME NEW c \in RegCallers, NEW n \in Names,
             \/ \E on, err \in BOOLEAN : CreateForTenant(c, n, on, err)
             \/ \E p \in Patches : Update(c, n, p[1], p[2])
             \/ Delete(c, n)
      PROVE  RegInv'
  BY <1>2, RegCreateForTenant, RegUpdate, RegDelete
<1>3. ASSUME NEW c \in RegCallers,
             \/ UpsertManager(c) \/ UpsertRefused(c) \/ UpsertStore(c) \/ UpsertUnread(c)
             \/ UpsertFails(c) \/ UpsertLost(c) \/ DeleteRemove(c) \/ DeleteLost(c)
             \/ ReadTenantList(c) \/ WriteTenantList(c) \/ ListFails(c)
      PROVE  RegInv'
  BY <1>3, RegUpsertManager, RegUpsertRefused, RegUpsertStore, RegUpsertUnread, RegUpsertFails, RegUpsertLost,
     RegDeleteRemove, RegDeleteLost, RegReadTenantList, RegWriteTenantList, RegListFails
<1>4. ASSUME NEW k \in Checks,
             \/ \E n \in Names : StartProbe(k, n)
             \/ \E ok \in BOOLEAN : ProbeAnswers(k, ok)
             \/ CheckStores(k) \/ CheckLost(k) \/ CheckApplies(k)
      PROVE  RegInv'
  BY <1>4, RegStartProbe, RegProbeAnswers, RegCheckStores, RegCheckLost, RegCheckApplies
<1>5. CASE ReloadManager \/ (\E done \in SUBSET ConfiguredNames : ReloadFails(done)) \/ Restart
  BY <1>5, RegReloadManager, RegReloadFails, RegRestart
<1>6. CASE \E n \in Names : RouteRequest(n) \/ FinishRequest(n)
  BY <1>6, RegRequests
<1> QED BY <1>1, <1>2, <1>3, <1>4, <1>5, <1>6, Zenon DEF RegNext

LEMMA RegImplied == RegInv => RegistrySound
<1> SUFFICES ASSUME RegInv PROVE RegistrySound
  OBVIOUS
<1>1. RegTypeOK
  <2>1. \A n \in Names : pstat[n].status \in Health /\ pstat[n].load \in 0 .. routed[n]
    <3> SUFFICES ASSUME NEW n \in Names PROVE pstat[n].status \in Health /\ pstat[n].load \in 0 .. routed[n]
      OBVIOUS
    <3>1. pstat[n] \in PStats /\ pstat[n].load <= routed[n] /\ routed[n] \in Int
      BY DEF RegInv, StatsGood
    <3>2. pstat[n].status \in Health /\ pstat[n].load \in Nat
      BY <3>1, RegDefaults DEF PStats, Health
    <3> QED BY <3>1, <3>2
  <2>2. \A c \in RegCallers : regOp[c].pc \in OpPcs
    BY DEF RegInv, RegTypes, OpRecs
  <2>3. \A k \in Checks : check[k].pc \in {"idle", "probe", "store", "apply"}
    BY DEF RegInv, RegTypes, CheckRecs
  <2> QED BY <2>1, <2>2, <2>3 DEF RegInv, RegTypes, StatsGood, TenantListGood, RegTypeOK, OpPcs, RegRecs
<1>2. RoutedByRow
  <2> SUFFICES ASSUME NEW n \in Names, tame[n], AtProvider(n) = {}
               PROVE  /\ reg[n] = row[n]
                      /\ n \in inst <=> row[n].on
                      /\ n \in inst => pstat[n].status = row[n].health
    BY DEF RoutedByRow
  <2>1. (\A c \in RegCallers : ~AtC(c, n)) /\ \A k \in Checks : ~AtK(k, n)
    BY DEF AtProvider, AtC, AtK
  <2>2. Synced(n)
    BY <2>1 DEF RegInv, ProvidersGood, ProviderGood, Clean
  <2> QED BY <2>2 DEF Synced, Held
<1>3. ListKept
  BY DEF RegInv, TenantListGood, ListKept
<1> QED BY <1>1, <1>2, <1>3 DEF RegistrySound

\* The registry's promise (Manager, RuntimeRegistryService, HealthChecker), for any providers, calls, checks and
\* bounds: when the last change of a provider was made by a call or a check alone at it, or by a restart,
\* and nobody is at it now, requests are routed by what provider_registry says, also after a write that
\* failed; a tenant's list loses no change of a call alone at it; a load is never above its requests.
THEOREM RegistryCorrect == RegSpec => []RegistrySound
<1>1. RegInit => RegInv
  BY RegInitially
<1>2. RegInv /\ [RegNext]_regVars => RegInv'
  BY RegStep
<1>3. RegInv => RegistrySound
  BY RegImplied
<1> QED BY <1>1, <1>2, <1>3, PTL DEF RegSpec

-----------------------------------------------------------------------------
(* IdentityCache.                                                          *)

AuthPcs == {"idle", "localRevs", "shared", "sharedRevs", "copy", "store", "revs", "put", "putBoth", "putShared",
            "served", "refused"}
AuthRecs == [pc : AuthPcs, cred : Creds, ver : Vers, revs : Revs, mixed : BOOLEAN, unchecked : BOOLEAN,
             since : Vers, age : 0 .. 2 * CacheTTL]
EntryRecs == [ver : Vers, revs : Revs, mixed : BOOLEAN, age : 0 .. 2 * CacheTTL, left : 0 .. CacheTTL]

\* Revisions that were read with an identity: never ahead of the counters, and, if the
\* counters have not moved, the identity has every change that was announced, or was
\* read across one.
RevsGood(revs, ver, mix) ==
    /\ \A s \in Scopes : revs[s] <= revision[s]
    /\ revs = revision => mix \/ ver >= announced

\* What was read under a name of the key, before the name was changed.
NameGood(c, ver) == ver <= idRow.ver /\ (c < idRow.cred => ver < idRow.ver)

EntryGood(c, e, lasts) ==
    e # NoEntry =>
       /\ NameGood(c, e.ver)
       /\ e.age + e.left <= lasts
       /\ withRedis => RevsGood(e.revs, e.ver, e.mixed)

ReqGood(r) ==
    /\ r.since <= announced
    /\ r.pc \in {"localRevs", "sharedRevs", "copy", "revs", "put", "putBoth", "putShared", "served"} =>
          NameGood(r.cred, r.ver)
    /\ r.pc \in {"sharedRevs", "copy"} => r.age <= CacheTTL
    /\ r.pc \in {"revs", "put", "putBoth", "putShared"} => r.age = 0 /\ r.ver >= r.since
    /\ r.pc = "revs" => r.revs = NoRevs
    /\ withRedis /\ r.pc \in {"localRevs", "sharedRevs", "copy", "put", "putBoth", "putShared"} =>
          RevsGood(r.revs, r.ver, r.mixed)
    /\ withRedis /\ r.pc \in {"copy", "served"} => r.ver >= r.since \/ r.mixed \/ r.unchecked

\* How many administrators' calls have returned.
Returned == IF idAdmin.step = "idle" THEN idRow.ver ELSE idRow.ver - 1

\* The counters follow the changes: one that was announced shows in some counter.
CountersGood ==
    /\ idRow.cred <= idRow.ver
    /\ idAdmin.step # "idle" => idRow.ver >= 1
    /\ announced <= Returned
    /\ \A s \in Scopes : revision[s] <= Returned
    /\ withRedis /\ revision = NoRevs => announced = 0

CachesGood ==
    /\ \A n \in Replicas, c \in Creds : EntryGood(c, localCache[n][c], 2 * CacheTTL)
    /\ \A c \in Creds : EntryGood(c, sharedCache[c], CacheTTL)

IdInv == /\ IdTypeOK /\ CountersGood /\ CachesGood
         /\ \A q \in AuthReqs : ReqGood(auth[q])

LEMMA NoRevsTypes == NoRevs \in Revs /\ IdleReq \in AuthRecs
<1> USE IdentityAssumption DEF IdentityAssumption
<1>1. NoRevs \in Revs
  BY DEF NoRevs, Revs, Vers
<1> QED BY <1>1 DEF IdleReq, AuthRecs, AuthPcs, Creds, Vers

LEMMA AnnouncedType ==
    ASSUME IdTypeOK, CountersGood
    PROVE  /\ announced \in Vers /\ announced <= idRow.ver /\ idRow.ver \in Vers
           /\ Returned \in Vers /\ announced <= Returned
<1> USE IdentityAssumption DEF IdentityAssumption
<1>1. idRow.ver \in 0 .. MaxChange /\ announced \in 0 .. MaxChange
  BY DEF IdTypeOK, Vers
<1> QED BY <1>1 DEF Returned, CountersGood, Vers

LEMMA IdInitially == IdInit => IdInv
<1> SUFFICES ASSUME IdInit PROVE IdInv
  OBVIOUS
<1> USE IdentityAssumption DEF IdentityAssumption
<1>0. NoRevs \in Revs /\ IdleReq \in AuthRecs
  BY NoRevsTypes
<1>1. IdTypeOK
  <2>1. withRedis \in BOOLEAN /\ redisFaults \in 0 .. MaxRedisFault
    BY DEF IdInit
  <2>2. idRow \in [ver : Vers, cred : Creds, active : BOOLEAN] /\ revision \in Revs
        /\ announced \in Vers
    BY <1>0 DEF IdInit, Vers, Creds
  <2>3. localCache \in [Replicas -> [Creds -> Entries]] /\ sharedCache \in [Creds -> Entries]
    BY DEF IdInit, Entries
  <2>4. auth \in [AuthReqs -> AuthRecs]
    BY <1>0 DEF IdInit
  <2>5. idAdmin \in [step : {"idle", "dropLocal", "dropShared", "bump"}, scope : Scopes, cred : Creds]
    BY DEF IdInit, Creds
  <2> QED BY <2>1, <2>2, <2>3, <2>4, <2>5 DEF IdTypeOK, AuthRecs, AuthPcs
<1>2. /\ announced = 0 /\ idRow.ver = 0 /\ idRow.cred = 0 /\ revision = NoRevs /\ idAdmin.step = "idle"
      /\ Returned = 0
  BY DEF IdInit, Returned
<1>3. CountersGood
  BY <1>2 DEF CountersGood, NoRevs
<1>4. CachesGood
  BY DEF IdInit, CachesGood, EntryGood
<1>5. \A q \in AuthReqs : ReqGood(auth[q])
  BY <1>2 DEF IdInit, ReqGood, IdleReq
<1> QED BY <1>1, <1>3, <1>4, <1>5 DEF IdInv

\* Fields of what a request takes from an entry, and of what it is served.
LEMMA TookFields ==
    ASSUME NEW r \in AuthRecs, NEW e \in EntryRecs, NEW pc \in AuthPcs, NEW t, t = Took(r, e, pc)
    PROVE  /\ t \in AuthRecs /\ t.pc = pc /\ t.cred = r.cred /\ t.since = r.since
           /\ t.ver = e.ver /\ t.revs = e.revs /\ t.mixed = e.mixed
           /\ t.age = e.age /\ t.unchecked = r.unchecked
<1>1. t = [r EXCEPT !.pc = pc, !.ver = e.ver, !.revs = e.revs, !.mixed = e.mixed, !.age = e.age]
  BY Zenon DEF Took
<1>2. /\ t.pc = pc /\ t.cred = r.cred /\ t.since = r.since /\ t.ver = e.ver /\ t.revs = e.revs
      /\ t.age = e.age
  BY <1>1 DEF AuthRecs
<1>3. t.mixed = e.mixed /\ t.unchecked = r.unchecked
  BY <1>1 DEF AuthRecs
<1>4. t \in AuthRecs
  BY <1>1 DEF AuthRecs, EntryRecs
<1> QED BY <1>2, <1>3, <1>4

LEMMA ServedFields ==
    ASSUME NEW r \in AuthRecs
    PROVE  /\ ServedAs(r) \in AuthRecs
           /\ ServedAs(r).pc = "served" /\ ServedAs(r).cred = r.cred /\ ServedAs(r).since = r.since
           /\ ServedAs(r).ver = r.ver /\ ServedAs(r).mixed = r.mixed /\ ServedAs(r).age = r.age
           /\ ServedAs(r).unchecked = r.unchecked
<1>1. PICK t : t = [r EXCEPT !.pc = "served", !.revs = NoRevs]
  OBVIOUS
<1>2. /\ t.pc = "served" /\ t.cred = r.cred /\ t.since = r.since /\ t.ver = r.ver /\ t.age = r.age
      /\ t.mixed = r.mixed /\ t.unchecked = r.unchecked
  BY <1>1 DEF AuthRecs
<1>3. t \in AuthRecs
  BY <1>1, NoRevsTypes DEF AuthRecs, AuthPcs
<1> QED BY <1>1, <1>2, <1>3 DEF ServedAs

\* A request goes on, and at most one entry of each cache is written for it.
LEMMA ReqStep ==
    ASSUME IdInv, NEW q \in AuthReqs, NEW r \in AuthRecs, GoesTo(q, r), ReqGood(r),
           UNCHANGED <<withRedis, idRow, revision, announced, idAdmin>>, redisFaults' \in 0 .. MaxRedisFault,
           \/ localCache' = localCache
           \/ \E e \in Entries : /\ localCache' = [localCache EXCEPT ![HomeOf[q]][auth[q].cred] = e]
                                 /\ EntryGood(auth[q].cred, e, 2 * CacheTTL),
           \/ sharedCache' = sharedCache
           \/ \E e \in Entries : /\ sharedCache' = [sharedCache EXCEPT ![auth[q].cred] = e]
                                 /\ EntryGood(auth[q].cred, e, CacheTTL)
    PROVE  IdInv'
<1> USE IdentityAssumption DEF IdentityAssumption
<1>0. HomeOf[q] \in Replicas /\ auth[q] \in AuthRecs /\ auth[q].cred \in Creds /\ auth \in [AuthReqs -> AuthRecs]
  BY DEF IdInv, IdTypeOK, AuthRecs, AuthPcs
<1>b. Returned' = Returned /\ announced' = announced
  BY DEF Returned
<1>e. \A c, e, lasts : EntryGood(c, e, lasts)' <=> EntryGood(c, e, lasts)
  BY <1>b DEF EntryGood, NameGood, RevsGood
<1>r. \A t : ReqGood(t)' <=> ReqGood(t)
  BY <1>b DEF ReqGood, NameGood, RevsGood
<1>1. auth' \in [AuthReqs -> AuthRecs] /\ \A o \in AuthReqs : ReqGood(auth'[o])
  BY <1>0 DEF GoesTo, IdInv
<1>2. /\ localCache' \in [Replicas -> [Creds -> Entries]]
      /\ \A n \in Replicas, c \in Creds : EntryGood(c, localCache'[n][c], 2 * CacheTTL)
  <2>0. localCache \in [Replicas -> [Creds -> Entries]]
    BY DEF IdInv, IdTypeOK
  <2>1. \A n \in Replicas, c \in Creds : EntryGood(c, localCache[n][c], 2 * CacheTTL)
    BY DEF IdInv, CachesGood
  <2>2. CASE localCache' = localCache
    BY <2>0, <2>1, <2>2
  <2>3. ASSUME NEW e \in Entries, localCache' = [localCache EXCEPT ![HomeOf[q]][auth[q].cred] = e],
               EntryGood(auth[q].cred, e, 2 * CacheTTL)
        PROVE  /\ localCache' \in [Replicas -> [Creds -> Entries]]
               /\ \A n \in Replicas, c \in Creds : EntryGood(c, localCache'[n][c], 2 * CacheTTL)
    <3>1. localCache' \in [Replicas -> [Creds -> Entries]]
      BY <1>0, <2>0, <2>3
    <3>2. \A n \in Replicas, c \in Creds :
             localCache'[n][c] = IF n = HomeOf[q] /\ c = auth[q].cred THEN e ELSE localCache[n][c]
      BY <1>0, <2>0, <2>3
    <3> QED BY <2>1, <2>3, <3>1, <3>2
  <2> QED BY <2>2, <2>3
<1>3. sharedCache' \in [Creds -> Entries] /\ \A c \in Creds : EntryGood(c, sharedCache'[c], CacheTTL)
  <2>0. sharedCache \in [Creds -> Entries]
    BY DEF IdInv, IdTypeOK
  <2>1. \A c \in Creds : EntryGood(c, sharedCache[c], CacheTTL)
    BY DEF IdInv, CachesGood
  <2>2. CASE sharedCache' = sharedCache
    BY <2>0, <2>1, <2>2
  <2>3. ASSUME NEW e \in Entries, sharedCache' = [sharedCache EXCEPT ![auth[q].cred] = e],
               EntryGood(auth[q].cred, e, CacheTTL)
        PROVE  sharedCache' \in [Creds -> Entries] /\ \A c \in Creds : EntryGood(c, sharedCache'[c], CacheTTL)
    <3>1. \A c \in Creds : sharedCache'[c] = IF c = auth[q].cred THEN e ELSE sharedCache[c]
      BY <1>0, <2>0, <2>3
    <3> QED BY <2>0, <2>1, <2>3, <3>1
  <2> QED BY <2>2, <2>3
<1>4. IdTypeOK'
  <2>1. (withRedis \in BOOLEAN /\ idRow \in [ver : Vers, cred : Creds, active : BOOLEAN] /\ revision \in Revs
         /\ announced \in Vers
         /\ idAdmin \in [step : {"idle", "dropLocal", "dropShared", "bump"}, scope : Scopes, cred : Creds])'
    BY DEF IdInv, IdTypeOK
  <2> QED BY <1>1, <1>2, <1>3, <2>1 DEF IdTypeOK, AuthRecs, AuthPcs
<1>5. CountersGood'
  BY <1>b DEF IdInv, CountersGood, Returned
<1>6. CachesGood'
  BY <1>2, <1>3, <1>e DEF CachesGood
<1>7. \A o \in AuthReqs : ReqGood(auth[o])'
  <2>1. \A o \in AuthReqs : ReqGood(auth'[o])
    BY <1>1
  <2> QED BY <2>1, <1>b DEF ReqGood, NameGood, RevsGood
<1> QED BY <1>4, <1>5, <1>6, <1>7 DEF IdInv

\* What the invariant says of one request and of the entries it meets.
LEMMA ReqFacts ==
    ASSUME IdInv, NEW q \in AuthReqs
    PROVE  /\ auth[q] \in AuthRecs /\ auth[q].cred \in Creds /\ auth[q].ver \in Vers /\ auth[q].since \in Vers
           /\ auth[q].age \in 0 .. 2 * CacheTTL /\ auth[q].revs \in Revs /\ auth[q].mixed \in BOOLEAN
           /\ auth[q].unchecked \in BOOLEAN /\ auth[q].pc \in AuthPcs
           /\ ReqGood(auth[q])
           /\ announced \in Vers /\ announced <= idRow.ver /\ idRow.ver \in Vers /\ idRow.cred \in Creds
           /\ HomeOf[q] \in Replicas /\ withRedis \in BOOLEAN /\ redisFaults \in 0 .. MaxRedisFault
           /\ revision \in Revs
<1>1. auth[q] \in AuthRecs
  BY DEF IdInv, IdTypeOK, AuthRecs, AuthPcs
<1>2. /\ auth[q].cred \in Creds /\ auth[q].ver \in Vers /\ auth[q].since \in Vers
      /\ auth[q].age \in 0 .. 2 * CacheTTL /\ auth[q].revs \in Revs /\ auth[q].pc \in AuthPcs
  BY <1>1 DEF AuthRecs
<1>3. auth[q].mixed \in BOOLEAN /\ auth[q].unchecked \in BOOLEAN
  BY <1>1 DEF AuthRecs
<1>4. ReqGood(auth[q])
  BY DEF IdInv
<1>5. announced \in Vers /\ announced <= idRow.ver /\ idRow.ver \in Vers
  BY AnnouncedType DEF IdInv
<1>6. idRow.cred \in Creds /\ withRedis \in BOOLEAN /\ redisFaults \in 0 .. MaxRedisFault /\ revision \in Revs
  BY DEF IdInv, IdTypeOK
<1>7. HomeOf[q] \in Replicas
  BY IdentityAssumption DEF IdentityAssumption
<1> QED BY <1>1, <1>2, <1>3, <1>4, <1>5, <1>6, <1>7

LEMMA NewEntryFields ==
    ASSUME IdInv, NEW q \in AuthReqs
    PROVE  /\ NewEntry(q) \in EntryRecs /\ NewEntry(q).ver = auth[q].ver /\ NewEntry(q).revs = auth[q].revs
           /\ NewEntry(q).mixed = auth[q].mixed /\ NewEntry(q).age = auth[q].age /\ NewEntry(q).left = CacheTTL
BY ReqFacts, IdentityAssumption DEF NewEntry, EntryRecs, Life, IdentityAssumption

LEMMA BeginStep ==
    ASSUME IdInv, NEW q \in AuthReqs, Begin(q)
    PROVE  IdInv'
<1> USE IdentityAssumption DEF IdentityAssumption
<1>0. /\ announced \in Vers /\ idRow.cred \in Creds /\ HomeOf[q] \in Replicas /\ withRedis \in BOOLEAN
      /\ redisFaults \in 0 .. MaxRedisFault
  BY ReqFacts
<1>a. PICK c \in {idRow.cred, 0} :
         LET e == localCache[HomeOf[q]][c]
             r == [IdleReq EXCEPT !.cred = c, !.since = announced]
         IN  GoesTo(q, IF e = NoEntry THEN [r EXCEPT !.pc = IF withRedis THEN "shared" ELSE "store"]
                      ELSE IF withRedis THEN Took(r, e, "localRevs") ELSE ServedAs(Took(r, e, "served")))
  BY DEF Begin
<1>1. PICK e, r :
         /\ e = localCache[HomeOf[q]][c] /\ r = [IdleReq EXCEPT !.cred = c, !.since = announced]
         /\ GoesTo(q, IF e = NoEntry THEN [r EXCEPT !.pc = IF withRedis THEN "shared" ELSE "store"]
                      ELSE IF withRedis THEN Took(r, e, "localRevs") ELSE ServedAs(Took(r, e, "served")))
  BY <1>a, Zenon
<1>2. c \in Creds
  BY <1>0, <1>1 DEF Creds
<1>3. r \in AuthRecs /\ r.pc = "idle" /\ r.cred = c /\ r.since = announced /\ r.unchecked = FALSE
  BY <1>0, <1>1, <1>2, NoRevsTypes DEF IdleReq, AuthRecs, AuthPcs, Vers
<1>4. e = NoEntry \/ e \in EntryRecs
  BY <1>0, <1>1, <1>2 DEF IdInv, IdTypeOK, Entries, EntryRecs
<1>5. EntryGood(c, e, 2 * CacheTTL)
  BY <1>0, <1>1, <1>2 DEF IdInv, CachesGood
<1>6. UNCHANGED <<withRedis, idRow, revision, announced, localCache, sharedCache, idAdmin, redisFaults>>
  BY DEF Begin
<1>7. CASE e = NoEntry
  <2>1. PICK t : t = [r EXCEPT !.pc = IF withRedis THEN "shared" ELSE "store"]
    OBVIOUS
  <2>2. t \in AuthRecs /\ t.pc \in {"shared", "store"} /\ t.since = announced
    BY <1>3, <2>1 DEF AuthRecs, AuthPcs
  <2>3. ReqGood(t)
    BY <1>0, <2>2 DEF ReqGood, Vers
  <2>4. GoesTo(q, t)
    BY <1>1, <1>7, <2>1
  <2> QED BY <1>0, <1>6, <2>2, <2>3, <2>4, ReqStep
<1>8. CASE e # NoEntry /\ withRedis
  <2>1. PICK t : t = Took(r, e, "localRevs")
    OBVIOUS
  <2>2. /\ t \in AuthRecs /\ t.pc = "localRevs" /\ t.cred = c /\ t.since = announced /\ t.ver = e.ver /\ t.revs = e.revs
        /\ t.mixed = e.mixed
    <3>1. r \in AuthRecs /\ e \in EntryRecs /\ "localRevs" \in AuthPcs
      BY <1>3, <1>4, <1>8 DEF AuthPcs
    <3> QED BY <1>3, <2>1, <3>1, TookFields
  <2>3. ReqGood(t)
    BY <1>0, <1>5, <1>8, <2>2 DEF ReqGood, EntryGood, Vers
  <2>4. GoesTo(q, t)
    BY <1>1, <1>8, <2>1
  <2> QED BY <1>0, <1>6, <2>2, <2>3, <2>4, ReqStep
<1>9. CASE e # NoEntry /\ ~withRedis
  <2>1. PICK o : o = Took(r, e, "served")
    OBVIOUS
  <2>2. o \in AuthRecs /\ o.cred = c /\ o.since = announced /\ o.ver = e.ver
    <3>1. r \in AuthRecs /\ e \in EntryRecs /\ "served" \in AuthPcs
      BY <1>3, <1>4, <1>9 DEF AuthPcs
    <3> QED BY <1>3, <2>1, <3>1, TookFields
  <2>3. PICK t : t = ServedAs(o)
    OBVIOUS
  <2>4. t \in AuthRecs /\ t.pc = "served" /\ t.cred = c /\ t.since = announced /\ t.ver = e.ver
    BY <2>2, <2>3, ServedFields
  <2>5. ReqGood(t)
    BY <1>0, <1>5, <1>9, <2>4 DEF ReqGood, EntryGood, Vers
  <2>6. GoesTo(q, t)
    BY <1>1, <1>9, <2>1, <2>3
  <2> QED BY <1>0, <1>6, <2>4, <2>5, <2>6, ReqStep
<1> QED BY <1>7, <1>8, <1>9

LEMMA CompareLocalStep ==
    ASSUME IdInv, NEW q \in AuthReqs, CompareLocal(q)
    PROVE  IdInv'
<1> USE IdentityAssumption DEF IdentityAssumption
<1>0. /\ auth[q] \in AuthRecs /\ ReqGood(auth[q]) /\ auth[q].pc = "localRevs" /\ redisFaults \in 0 .. MaxRedisFault
      /\ UNCHANGED <<withRedis, idRow, revision, announced, sharedCache, idAdmin>>
      /\ announced \in Int /\ auth[q].since \in Int /\ auth[q].ver \in Int
  BY ReqFacts DEF CompareLocal, At, Vers
<1>1. PICK o : o = ServedAs(auth[q])
  OBVIOUS
<1>2. /\ o \in AuthRecs /\ o.pc = "served" /\ o.cred = auth[q].cred /\ o.since = auth[q].since /\ o.ver = auth[q].ver
      /\ o.mixed = auth[q].mixed
  BY <1>0, <1>1, ServedFields
<1>3. CASE MGetFails(q, ServedAs(auth[q])) /\ UNCHANGED localCache
  <2>1. PICK t : t = [o EXCEPT !.unchecked = TRUE]
    OBVIOUS
  <2>2. t \in AuthRecs /\ t.pc = "served" /\ t.cred = o.cred /\ t.since = o.since /\ t.ver = o.ver
    BY <1>2, <2>1 DEF AuthRecs
  <2>3. t.unchecked
    BY <1>2, <2>1 DEF AuthRecs
  <2>4. ReqGood(t)
    BY <1>0, <1>2, <2>2, <2>3 DEF ReqGood
  <2>5. GoesTo(q, t) /\ redisFaults' \in 0 .. MaxRedisFault
    BY <1>0, <1>1, <1>3, <2>1 DEF MGetFails, RedisFails
  <2> QED BY <1>0, <1>3, <2>2, <2>4, <2>5, ReqStep
<1>4. CASE Current(auth[q].revs) /\ GoesTo(q, ServedAs(auth[q])) /\ UNCHANGED <<localCache, redisFaults>>
  <2>1. withRedis => o.mixed \/ o.ver >= o.since
    BY <1>0, <1>2, <1>4 DEF ReqGood, RevsGood, Current
  <2>2. ReqGood(o)
    BY <1>0, <1>2, <2>1 DEF ReqGood
  <2> QED BY <1>0, <1>1, <1>2, <1>4, <2>2, ReqStep
<1>5. CASE /\ localCache' = [localCache EXCEPT ![HomeOf[q]][auth[q].cred] = NoEntry]
           /\ GoesTo(q, [auth[q] EXCEPT !.pc = "shared"]) /\ UNCHANGED redisFaults
  <2>1. PICK t : t = [auth[q] EXCEPT !.pc = "shared"]
    OBVIOUS
  <2>2. t \in AuthRecs /\ t.pc = "shared" /\ t.since = auth[q].since
    BY <1>0, <2>1 DEF AuthRecs, AuthPcs
  <2>3. ReqGood(t)
    BY <1>0, <2>2 DEF ReqGood
  <2>4. NoEntry \in Entries /\ EntryGood(auth[q].cred, NoEntry, 2 * CacheTTL)
    BY DEF Entries, EntryGood
  <2> QED BY <1>0, <1>5, <2>1, <2>2, <2>3, <2>4, ReqStep
<1> QED BY <1>3, <1>4, <1>5 DEF CompareLocal

LEMMA LookSharedStep ==
    ASSUME IdInv, NEW q \in AuthReqs, LookShared(q)
    PROVE  IdInv'
<1> USE IdentityAssumption DEF IdentityAssumption
<1>0. /\ auth[q] \in AuthRecs /\ ReqGood(auth[q]) /\ redisFaults \in 0 .. MaxRedisFault /\ auth[q].cred \in Creds
      /\ UNCHANGED <<withRedis, idRow, revision, announced, localCache, sharedCache, idAdmin>>
      /\ redisFaults' \in 0 .. MaxRedisFault
  BY ReqFacts DEF LookShared, RedisFails
<1>1. PICK e : e = sharedCache[auth[q].cred]
  OBVIOUS
<1>2. (e = NoEntry \/ e \in EntryRecs) /\ EntryGood(auth[q].cred, e, CacheTTL)
  BY <1>0, <1>1 DEF IdInv, IdTypeOK, CachesGood, Entries, EntryRecs
<1>3. CASE GoesTo(q, [auth[q] EXCEPT !.pc = "store"])
  <2>1. PICK t : t = [auth[q] EXCEPT !.pc = "store"]
    OBVIOUS
  <2>2. t \in AuthRecs /\ t.pc = "store" /\ t.since = auth[q].since
    BY <1>0, <2>1 DEF AuthRecs, AuthPcs
  <2>3. ReqGood(t)
    BY <1>0, <2>2 DEF ReqGood
  <2> QED BY <1>0, <1>3, <2>1, <2>2, <2>3, ReqStep
<1>4. CASE e # NoEntry /\ GoesTo(q, Took(auth[q], e, "sharedRevs"))
  <2>1. PICK t : t = Took(auth[q], e, "sharedRevs")
    OBVIOUS
  <2>2. /\ t \in AuthRecs /\ t.pc = "sharedRevs" /\ t.cred = auth[q].cred /\ t.since = auth[q].since /\ t.ver = e.ver
        /\ t.revs = e.revs /\ t.mixed = e.mixed /\ t.age = e.age
    <3>1. auth[q] \in AuthRecs /\ e \in EntryRecs /\ "sharedRevs" \in AuthPcs
      BY <1>0, <1>2, <1>4 DEF AuthPcs
    <3> QED BY <1>0, <2>1, <3>1, TookFields
  <2>3. e.age \in Int /\ e.left \in Nat
    BY <1>2, <1>4 DEF EntryRecs
  <2>4. t.age <= CacheTTL
    BY <1>2, <1>4, <2>2, <2>3 DEF EntryGood
  <2>5. ReqGood(t)
    BY <1>0, <1>2, <1>4, <2>2, <2>4 DEF ReqGood, EntryGood
  <2> QED BY <1>0, <1>4, <2>1, <2>2, <2>5, ReqStep
<1> QED BY <1>1, <1>3, <1>4 DEF LookShared, SharedEntry

LEMMA CompareSharedStep ==
    ASSUME IdInv, NEW q \in AuthReqs, CompareShared(q)
    PROVE  IdInv'
<1> USE IdentityAssumption DEF IdentityAssumption
<1>0. /\ auth[q] \in AuthRecs /\ ReqGood(auth[q]) /\ auth[q].pc = "sharedRevs" /\ redisFaults \in 0 .. MaxRedisFault
      /\ UNCHANGED <<withRedis, idRow, revision, announced, localCache, idAdmin>>
      /\ announced \in Int /\ auth[q].since \in Int /\ auth[q].ver \in Int
  BY ReqFacts DEF CompareShared, At, Vers
<1>1. PICK o : o = [auth[q] EXCEPT !.pc = "copy"]
  OBVIOUS
<1>2. /\ o \in AuthRecs /\ o.pc = "copy" /\ o.cred = auth[q].cred /\ o.since = auth[q].since /\ o.ver = auth[q].ver
      /\ o.age = auth[q].age /\ o.revs = auth[q].revs
  BY <1>0, <1>1 DEF AuthRecs, AuthPcs
<1>m. o.mixed = auth[q].mixed
  BY <1>0, <1>1 DEF AuthRecs
<1>3. CASE MGetFails(q, [auth[q] EXCEPT !.pc = "copy"]) /\ UNCHANGED sharedCache
  <2>1. PICK t : t = [o EXCEPT !.unchecked = TRUE]
    OBVIOUS
  <2>2. /\ t \in AuthRecs /\ t.pc = "copy" /\ t.cred = o.cred /\ t.since = o.since /\ t.ver = o.ver
        /\ t.age = o.age /\ t.revs = o.revs
    BY <1>2, <2>1 DEF AuthRecs
  <2>3. t.unchecked /\ t.mixed = o.mixed
    BY <1>2, <2>1 DEF AuthRecs
  <2>4. ReqGood(t)
    BY <1>0, <1>2, <1>m, <2>2, <2>3 DEF ReqGood
  <2>5. GoesTo(q, t) /\ redisFaults' \in 0 .. MaxRedisFault
    BY <1>0, <1>1, <1>3, <2>1 DEF MGetFails, RedisFails
  <2> QED BY <1>0, <1>3, <2>2, <2>4, <2>5, ReqStep
<1>4. CASE auth[q].revs = revision /\ GoesTo(q, [auth[q] EXCEPT !.pc = "copy"]) /\ UNCHANGED <<sharedCache, redisFaults>>
  <2>1. withRedis => o.mixed \/ o.ver >= o.since
    BY <1>0, <1>2, <1>m, <1>4 DEF ReqGood, RevsGood
  <2>2. ReqGood(o)
    BY <1>0, <1>2, <1>m, <2>1 DEF ReqGood
  <2> QED BY <1>0, <1>1, <1>2, <1>4, <2>2, ReqStep
<1>5. CASE /\ \/ sharedCache' = sharedCache
              \/ sharedCache' = [sharedCache EXCEPT ![auth[q].cred] = NoEntry]
           /\ GoesTo(q, [auth[q] EXCEPT !.pc = "store"]) /\ redisFaults' \in 0 .. MaxRedisFault
  <2>1. PICK t : t = [auth[q] EXCEPT !.pc = "store"]
    OBVIOUS
  <2>2. t \in AuthRecs /\ t.pc = "store" /\ t.since = auth[q].since
    BY <1>0, <2>1 DEF AuthRecs, AuthPcs
  <2>3. ReqGood(t)
    BY <1>0, <2>2 DEF ReqGood
  <2>4. NoEntry \in Entries /\ EntryGood(auth[q].cred, NoEntry, CacheTTL)
    BY DEF Entries, EntryGood
  <2> QED BY <1>0, <1>5, <2>1, <2>2, <2>3, <2>4, ReqStep
<1>6. redisFaults' = redisFaults \/ RedisFails => redisFaults' \in 0 .. MaxRedisFault
  BY <1>0 DEF RedisFails
<1> QED BY <1>3, <1>4, <1>5, <1>6 DEF CompareShared

LEMMA ReadStoreStep ==
    ASSUME IdInv, NEW q \in AuthReqs, ReadStore(q)
    PROVE  IdInv'
<1> USE IdentityAssumption DEF IdentityAssumption
<1>0. /\ auth[q] \in AuthRecs /\ ReqGood(auth[q]) /\ redisFaults \in 0 .. MaxRedisFault
      /\ UNCHANGED <<withRedis, idRow, revision, announced, localCache, sharedCache, idAdmin, redisFaults>>
      /\ announced \in Vers /\ announced <= idRow.ver /\ idRow.ver \in Vers /\ auth[q].since \in Vers
      /\ idRow.cred \in Creds /\ withRedis \in BOOLEAN /\ revision \in Revs
  BY ReqFacts DEF ReadStore
<1>1. CASE Finds(auth[q].cred) /\ idRow.active
  <2>1. PICK t : t = [auth[q] EXCEPT !.pc = IF withRedis THEN "revs" ELSE "put", !.ver = idRow.ver, !.revs = NoRevs,
                                     !.age = 0]
    OBVIOUS
  <2>2. /\ t.pc = (IF withRedis THEN "revs" ELSE "put") /\ t.cred = auth[q].cred /\ t.ver = idRow.ver
        /\ t.since = auth[q].since /\ t.revs = NoRevs /\ t.age = 0
    BY <1>0, <2>1 DEF AuthRecs
  <2>3. t \in AuthRecs
    <3>1. PICK p \in {"revs", "put"} : p = IF withRedis THEN "revs" ELSE "put"
      OBVIOUS
    <3>2. t = [auth[q] EXCEPT !.pc = p, !.ver = idRow.ver, !.revs = NoRevs, !.age = 0]
      BY <2>1, <3>1
    <3>3. p \in AuthPcs /\ 0 \in 0 .. 2 * CacheTTL
      BY DEF AuthPcs
    <3> QED BY <1>0, <3>2, <3>3, NoRevsTypes DEF AuthRecs
  <2>4. NameGood(t.cred, t.ver)
    BY <1>0, <1>1, <2>2 DEF NameGood, Finds, Creds, Vers
  <2>5. t.ver >= t.since /\ t.since <= announced
    BY <1>0, <2>2 DEF ReqGood, Vers
  <2>6. ReqGood(t)
    BY <1>0, <2>2, <2>4, <2>5 DEF ReqGood
  <2>7. GoesTo(q, t)
    BY <1>1, <2>1 DEF ReadStore
  <2> QED BY <1>0, <2>3, <2>6, <2>7, ReqStep
<1>2. CASE ~(Finds(auth[q].cred) /\ idRow.active)
  <2>1. PICK t : t = [IdleReq EXCEPT !.pc = "refused"]
    OBVIOUS
  <2>2. t \in AuthRecs /\ t.pc = "refused" /\ t.since = 0
    BY <2>1, NoRevsTypes DEF AuthRecs, AuthPcs, IdleReq
  <2>3. ReqGood(t)
    BY <1>0, <2>2 DEF ReqGood, Vers
  <2>4. GoesTo(q, t)
    BY <1>2, <2>1 DEF ReadStore
  <2> QED BY <1>0, <2>2, <2>3, <2>4, ReqStep
<1> QED BY <1>1, <1>2

LEMMA ReadRevisionsStep ==
    ASSUME IdInv, NEW q \in AuthReqs, ReadRevisions(q)
    PROVE  IdInv'
<1> USE IdentityAssumption DEF IdentityAssumption
<1>0. /\ auth[q] \in AuthRecs /\ ReqGood(auth[q]) /\ auth[q].pc = "revs" /\ redisFaults \in 0 .. MaxRedisFault
      /\ UNCHANGED <<withRedis, idRow, revision, announced, localCache, sharedCache, idAdmin>>
      /\ announced \in Vers /\ auth[q].ver \in Vers /\ auth[q].since \in Vers /\ revision \in Revs
  BY ReqFacts DEF ReadRevisions, At
<1>1. /\ NameGood(auth[q].cred, auth[q].ver) /\ auth[q].age = 0 /\ auth[q].ver >= auth[q].since
      /\ auth[q].since <= announced /\ auth[q].revs = NoRevs
  BY <1>0 DEF ReqGood
<1>2. CASE MGetFails(q, [auth[q] EXCEPT !.pc = "put"])
  <2>1. PICK o : o = [auth[q] EXCEPT !.pc = "put"]
    OBVIOUS
  <2>2. PICK t : t = [o EXCEPT !.unchecked = TRUE]
    OBVIOUS
  <2>3. /\ o \in AuthRecs /\ o.pc = "put" /\ o.cred = auth[q].cred /\ o.since = auth[q].since /\ o.ver = auth[q].ver
        /\ o.age = 0 /\ o.revs = NoRevs
    BY <1>0, <1>1, <2>1 DEF AuthRecs, AuthPcs
  <2>4. /\ t \in AuthRecs /\ t.pc = "put" /\ t.cred = auth[q].cred /\ t.since = auth[q].since /\ t.ver = auth[q].ver
        /\ t.age = 0 /\ t.revs = NoRevs
    BY <2>2, <2>3 DEF AuthRecs, AuthPcs
  <2>5. withRedis => RevsGood(t.revs, t.ver, t.mixed)
    <3>1. \A s \in Scopes : NoRevs[s] <= revision[s]
      BY <1>0 DEF NoRevs, Revs, Vers
    <3>2. withRedis /\ NoRevs = revision => announced = 0
      BY DEF IdInv, CountersGood
    <3>3. t.ver >= 0
      BY <1>0, <2>4 DEF Vers
    <3> QED BY <2>4, <3>1, <3>2, <3>3 DEF RevsGood
  <2>6. ReqGood(t)
    BY <1>1, <2>4, <2>5 DEF ReqGood
  <2>7. GoesTo(q, t) /\ redisFaults' \in 0 .. MaxRedisFault
    BY <1>0, <1>2, <2>1, <2>2 DEF MGetFails, RedisFails
  <2> QED BY <1>0, <2>4, <2>6, <2>7, ReqStep
<1>3. CASE /\ GoesTo(q, [auth[q] EXCEPT !.pc = "putBoth", !.revs = revision, !.mixed = auth[q].ver < announced])
           /\ UNCHANGED redisFaults
  <2>1. PICK t : t = [auth[q] EXCEPT !.pc = "putBoth", !.revs = revision, !.mixed = auth[q].ver < announced]
    OBVIOUS
  <2>2. /\ t.pc = "putBoth" /\ t.cred = auth[q].cred /\ t.since = auth[q].since /\ t.ver = auth[q].ver
        /\ t.age = 0 /\ t.revs = revision
    BY <1>0, <1>1, <2>1 DEF AuthRecs
  <2>3. t.mixed = (auth[q].ver < announced)
    BY <1>0, <2>1 DEF AuthRecs
  <2>4. t \in AuthRecs
    <3>1. PICK m : m = (auth[q].ver < announced)
      OBVIOUS
    <3>2. m \in BOOLEAN /\ t = [auth[q] EXCEPT !.pc = "putBoth", !.revs = revision, !.mixed = m]
      BY <2>1, <3>1
    <3> QED BY <1>0, <3>2 DEF AuthRecs, AuthPcs
  <2>5. RevsGood(t.revs, t.ver, t.mixed)
    <3>0. (auth[q].ver < announced) \/ auth[q].ver >= announced
      BY <1>0 DEF Vers
    <3>1. t.mixed \/ t.ver >= announced
      BY <2>2, <2>3, <3>0, Zenon
    <3>2. \A s \in Scopes : revision[s] <= revision[s]
      BY <1>0 DEF Revs, Vers
    <3> QED BY <2>2, <3>1, <3>2 DEF RevsGood
  <2>6. ReqGood(t)
    BY <1>1, <2>2, <2>5 DEF ReqGood
  <2> QED BY <1>0, <1>3, <2>1, <2>4, <2>6, ReqStep
<1> QED BY <1>2, <1>3 DEF ReadRevisions

LEMMA PutLocalStep ==
    ASSUME IdInv, NEW q \in AuthReqs, PutLocal(q)
    PROVE  IdInv'
<1> USE IdentityAssumption DEF IdentityAssumption
<1>0. /\ auth[q] \in AuthRecs /\ ReqGood(auth[q]) /\ auth[q].pc \in {"copy", "put", "putBoth"}
      /\ redisFaults \in 0 .. MaxRedisFault /\ auth[q].age \in 0 .. 2 * CacheTTL
      /\ UNCHANGED <<withRedis, idRow, revision, announced, sharedCache, idAdmin, redisFaults>>
  BY ReqFacts DEF PutLocal
<1>1. PICK e : e = NewEntry(q)
  OBVIOUS
<1>2. /\ e \in EntryRecs /\ e.ver = auth[q].ver /\ e.revs = auth[q].revs /\ e.mixed = auth[q].mixed
      /\ e.age = auth[q].age /\ e.left = CacheTTL
  BY <1>1, NewEntryFields
<1>3. e.age + e.left <= 2 * CacheTTL
  BY <1>0, <1>2 DEF ReqGood
<1>4. EntryGood(auth[q].cred, e, 2 * CacheTTL) /\ e \in Entries
  BY <1>0, <1>2, <1>3 DEF EntryGood, ReqGood, Entries, EntryRecs
<1>5. localCache' = [localCache EXCEPT ![HomeOf[q]][auth[q].cred] = e]
  BY <1>1 DEF PutLocal
<1>6. CASE auth[q].pc = "putBoth"
  <2>1. PICK t : t = [auth[q] EXCEPT !.pc = "putShared"]
    OBVIOUS
  <2>2. /\ t \in AuthRecs /\ t.pc = "putShared" /\ t.cred = auth[q].cred /\ t.since = auth[q].since
        /\ t.ver = auth[q].ver /\ t.age = auth[q].age /\ t.revs = auth[q].revs
    BY <1>0, <2>1 DEF AuthRecs, AuthPcs
  <2>3. t.mixed = auth[q].mixed
    BY <1>0, <2>1 DEF AuthRecs
  <2>4. ReqGood(t)
    BY <1>0, <1>6, <2>2, <2>3 DEF ReqGood
  <2>5. GoesTo(q, t)
    BY <1>6, <2>1 DEF PutLocal, At
  <2> QED BY <1>0, <1>4, <1>5, <2>2, <2>4, <2>5, ReqStep
<1>7. CASE auth[q].pc # "putBoth"
  <2>1. PICK t : t = ServedAs(auth[q])
    OBVIOUS
  <2>2. /\ t \in AuthRecs /\ t.pc = "served" /\ t.cred = auth[q].cred /\ t.since = auth[q].since
        /\ t.ver = auth[q].ver /\ t.mixed = auth[q].mixed /\ t.unchecked = auth[q].unchecked
    BY <1>0, <2>1, ServedFields
  <2>3. ReqGood(t)
    BY <1>0, <2>2 DEF ReqGood
  <2>4. GoesTo(q, t)
    BY <1>7, <2>1 DEF PutLocal, At
  <2> QED BY <1>0, <1>4, <1>5, <2>2, <2>3, <2>4, ReqStep
<1> QED BY <1>6, <1>7

LEMMA SetRedisStep ==
    ASSUME IdInv, NEW q \in AuthReqs, setRedisCached(q)
    PROVE  IdInv'
<1> USE IdentityAssumption DEF IdentityAssumption
<1>0. /\ auth[q] \in AuthRecs /\ ReqGood(auth[q]) /\ auth[q].pc = "putShared"
      /\ redisFaults' \in 0 .. MaxRedisFault
      /\ UNCHANGED <<withRedis, idRow, revision, announced, localCache, idAdmin>>
  BY ReqFacts DEF setRedisCached, At, RedisFails
<1>1. PICK e : e = NewEntry(q)
  OBVIOUS
<1>2. /\ e \in EntryRecs /\ e.ver = auth[q].ver /\ e.revs = auth[q].revs /\ e.mixed = auth[q].mixed
      /\ e.age = auth[q].age /\ e.left = CacheTTL
  BY <1>1, NewEntryFields
<1>3. e.age + e.left <= CacheTTL
  BY <1>0, <1>2 DEF ReqGood
<1>4. EntryGood(auth[q].cred, e, CacheTTL) /\ e \in Entries
  BY <1>0, <1>2, <1>3 DEF EntryGood, ReqGood, Entries, EntryRecs
<1>5. PICK t : t = ServedAs(auth[q])
  OBVIOUS
<1>6. /\ t \in AuthRecs /\ t.pc = "served" /\ t.cred = auth[q].cred /\ t.since = auth[q].since
      /\ t.ver = auth[q].ver
  BY <1>0, <1>5, ServedFields
<1>7. ReqGood(t)
  BY <1>0, <1>6 DEF ReqGood
<1>8. GoesTo(q, t) /\ sharedCache' \in {sharedCache, [sharedCache EXCEPT ![auth[q].cred] = e]}
  BY <1>1, <1>5 DEF setRedisCached
<1> QED BY <1>0, <1>4, <1>6, <1>7, <1>8, ReqStep

\* The rows only grow, a name only changes with a change of the row, and counters that move
\* leave every copy of them behind: then what was read before remains what it was.
LEMMA GrowKeeps ==
    ASSUME IdInv, IdTypeOK', withRedis' = withRedis,
           announced <= announced', idRow.ver <= idRow.ver',
           idRow'.cred = idRow.cred \/ idRow.ver < idRow'.ver,
           \A s \in Scopes : revision[s] <= revision'[s],
           withRedis => \/ revision' = revision /\ announced' = announced
                        \/ \E s \in Scopes : revision[s] < revision'[s],
           announced' \in Vers
    PROVE  /\ \A c \in Creds, e \in Entries : \A lasts : EntryGood(c, e, lasts) => EntryGood(c, e, lasts)'
           /\ \A r \in AuthRecs : ReqGood(r) => ReqGood(r)'
<1> USE IdentityAssumption DEF IdentityAssumption
<1>0. announced \in Vers /\ idRow.ver \in Vers /\ idRow.cred \in Creds /\ revision \in Revs
  BY AnnouncedType DEF IdInv, IdTypeOK
<1>1. idRow'.ver \in Vers /\ idRow'.cred \in Creds /\ revision' \in Revs
  BY DEF IdTypeOK
<1>2. ASSUME NEW c \in Creds, NEW ver \in Vers, NameGood(c, ver)
      PROVE  NameGood(c, ver)'
  BY <1>0, <1>1, <1>2 DEF NameGood, Vers, Creds
<1>3. ASSUME NEW revs \in Revs, NEW ver \in Vers, NEW mix \in BOOLEAN, withRedis, RevsGood(revs, ver, mix)
      PROVE  RevsGood(revs, ver, mix)'
  <2>1. \A s \in Scopes : revs[s] \in Nat /\ revision[s] \in Nat /\ revision'[s] \in Nat
    BY <1>0, <1>1 DEF Revs, Vers
  <2>2. \A s \in Scopes : revs[s] <= revision[s]
    BY <1>3 DEF RevsGood
  <2>3. \A s \in Scopes : revs[s] <= revision'[s]
    BY <2>1, <2>2
  <2>4. revs = revision' => revision' = revision /\ announced' = announced
    BY <1>3, <2>1, <2>2
  <2>5. revs = revision' => mix \/ ver >= announced'
    BY <1>3, <2>4 DEF RevsGood
  <2> QED BY <2>3, <2>5 DEF RevsGood
<1>4. ASSUME NEW c \in Creds, NEW e \in Entries, NEW lasts, EntryGood(c, e, lasts)
      PROVE  EntryGood(c, e, lasts)'
  <2>1. CASE e = NoEntry
    BY <2>1 DEF EntryGood
  <2>2. CASE e # NoEntry
    <3>1. e.ver \in Vers /\ e.revs \in Revs
      BY <2>2 DEF Entries
    <3>2. e.mixed \in BOOLEAN
      BY <2>2 DEF Entries
    <3>3. NameGood(c, e.ver) /\ e.age + e.left <= lasts /\ (withRedis => RevsGood(e.revs, e.ver, e.mixed))
      BY <1>4, <2>2 DEF EntryGood
    <3>4. NameGood(c, e.ver)'
      BY <1>2, <3>1, <3>3
    <3>5. withRedis => RevsGood(e.revs, e.ver, e.mixed)'
      BY <1>3, <3>1, <3>2, <3>3
    <3> QED BY <3>3, <3>4, <3>5 DEF EntryGood
  <2> QED BY <2>1, <2>2
<1>5. ASSUME NEW r \in AuthRecs, ReqGood(r)
      PROVE  ReqGood(r)'
  <2>1. r.cred \in Creds /\ r.ver \in Vers /\ r.revs \in Revs /\ r.since \in Vers
    BY DEF AuthRecs
  <2>2. r.mixed \in BOOLEAN
    BY DEF AuthRecs
  <2>3. r.since <= announced'
    BY <1>0, <1>5, <2>1 DEF ReqGood, Vers
  <2>4. NameGood(r.cred, r.ver) => NameGood(r.cred, r.ver)'
    BY <1>2, <2>1
  <2>5. withRedis /\ RevsGood(r.revs, r.ver, r.mixed) => RevsGood(r.revs, r.ver, r.mixed)'
    BY <1>3, <2>1, <2>2
  <2> QED BY <1>5, <2>3, <2>4, <2>5 DEF ReqGood
<1> QED BY <1>4, <1>5

\* An administrator's step, which keeps the requests and drops entries at most.
LEMMA AdminStep ==
    ASSUME IdInv, IdTypeOK', CountersGood', UNCHANGED <<withRedis, auth>>,
           announced <= announced', idRow.ver <= idRow.ver',
           idRow'.cred = idRow.cred \/ idRow.ver < idRow'.ver,
           \A s \in Scopes : revision[s] <= revision'[s],
           withRedis => \/ revision' = revision /\ announced' = announced
                        \/ \E s \in Scopes : revision[s] < revision'[s],
           \A n \in Replicas, c \in Creds : localCache'[n][c] \in {localCache[n][c], NoEntry},
           \A c \in Creds : sharedCache'[c] \in {sharedCache[c], NoEntry}
    PROVE  IdInv'
<1>0. announced' \in Vers
  BY DEF IdTypeOK
<1>1. /\ \A c \in Creds, e \in Entries : \A lasts : EntryGood(c, e, lasts) => EntryGood(c, e, lasts)'
      /\ \A r \in AuthRecs : ReqGood(r) => ReqGood(r)'
  BY <1>0, GrowKeeps
<1>2. CachesGood'
  <2>1. ASSUME NEW n \in Replicas, NEW c \in Creds
        PROVE  EntryGood(c, localCache[n][c], 2 * CacheTTL)'
    <3>1. localCache[n][c] \in Entries /\ EntryGood(c, localCache[n][c], 2 * CacheTTL)
      BY DEF IdInv, IdTypeOK, CachesGood
    <3>2. PICK e : e = localCache[n][c]
      OBVIOUS
    <3>3. EntryGood(c, e, 2 * CacheTTL)'
      BY <1>1, <3>1, <3>2
    <3>4. EntryGood(c, NoEntry, 2 * CacheTTL)'
      BY DEF EntryGood
    <3> QED BY <3>2, <3>3, <3>4
  <2>2. ASSUME NEW c \in Creds
        PROVE  EntryGood(c, sharedCache[c], CacheTTL)'
    <3>1. sharedCache[c] \in Entries /\ EntryGood(c, sharedCache[c], CacheTTL)
      BY DEF IdInv, IdTypeOK, CachesGood
    <3>2. PICK e : e = sharedCache[c]
      OBVIOUS
    <3>3. EntryGood(c, e, CacheTTL)'
      BY <1>1, <3>1, <3>2
    <3>4. EntryGood(c, NoEntry, CacheTTL)'
      BY DEF EntryGood
    <3> QED BY <3>2, <3>3, <3>4
  <2> QED BY <2>1, <2>2 DEF CachesGood
<1>3. \A q \in AuthReqs : ReqGood(auth[q])'
  <2>1. ASSUME NEW q \in AuthReqs PROVE ReqGood(auth[q])'
    <3>1. auth[q] \in AuthRecs /\ ReqGood(auth[q])
      BY ReqFacts
    <3>2. PICK r : r = auth[q]
      OBVIOUS
    <3>3. ReqGood(r)' /\ auth'[q] = r
      BY <1>1, <3>1, <3>2
    <3> QED BY <3>3
  <2> QED BY <2>1
<1> QED BY <1>2, <1>3 DEF IdInv

LEMMA CommitStep ==
    ASSUME IdInv, NEW held, NEW scope \in Scopes, NEW step \in {"dropLocal", "bump"},
           held.ver = idRow.ver, held \in [ver : Vers, cred : 0 .. MaxChange + 1, active : BOOLEAN],
           held.cred \in {idRow.cred, idRow.cred + 1},
           Commits(held, scope, step, idRow.cred)
    PROVE  IdInv'
<1> USE IdentityAssumption DEF IdentityAssumption
<1>0. /\ idAdmin.step = "idle" /\ idRow.ver < MaxChange /\ idRow.ver \in 0 .. MaxChange /\ idRow.cred \in 0 .. MaxChange
      /\ idRow.cred <= idRow.ver /\ UNCHANGED <<withRedis, revision, announced, localCache, sharedCache, auth, redisFaults>>
      /\ revision \in Revs
  BY DEF Commits, IdInv, IdTypeOK, CountersGood, Vers, Creds
<1>1. idRow' = [held EXCEPT !.ver = idRow.ver + 1]
  BY DEF Commits
<1>2. /\ idRow'.ver = idRow.ver + 1 /\ idRow'.cred = held.cred
      /\ idRow' \in [ver : Vers, cred : Creds, active : BOOLEAN]
  <2>1. idRow'.ver = idRow.ver + 1 /\ idRow'.cred = held.cred /\ held.cred \in Creds /\ idRow.ver + 1 \in Vers
    BY <1>0, <1>1 DEF Vers, Creds
  <2>2. held \in [ver : Vers, cred : Creds, active : BOOLEAN]
    BY <2>1
  <2> QED BY <1>1, <2>1, <2>2
<1>3. PICK a : a = [step |-> step, scope |-> scope, cred |-> idRow.cred]
  OBVIOUS
<1>4. idAdmin' = a /\ a.step = step
      /\ a \in [step : {"idle", "dropLocal", "dropShared", "bump"}, scope : Scopes, cred : Creds]
  BY <1>0, <1>3 DEF Commits, Creds
<1>5. Returned' = idRow.ver /\ Returned = idRow.ver /\ announced' = announced
  BY <1>0, <1>2, <1>4 DEF Returned
<1>a. announced \in 0 .. MaxChange
  BY DEF IdInv, IdTypeOK, Vers
<1>6. IdTypeOK'
  BY <1>0, <1>2, <1>4 DEF IdInv, IdTypeOK
<1>7. CountersGood'
  <2>1. (idRow.cred <= idRow.ver)' /\ (idRow.ver >= 1)'
    BY <1>0, <1>2
  <2>2. (\A s \in Scopes : revision[s] <= Returned)' /\ (announced <= Returned)'
    BY <1>0, <1>5 DEF IdInv, CountersGood
  <2>3. (withRedis /\ revision = NoRevs => announced = 0)'
    BY <1>0, <1>5 DEF IdInv, CountersGood
  <2> QED BY <2>1, <2>2, <2>3 DEF CountersGood
<1>8. \A s \in Scopes : revision[s] <= revision'[s]
  BY <1>0 DEF Revs, Vers
<1>9. announced <= announced' /\ idRow.ver <= idRow'.ver /\ idRow.ver < idRow'.ver
  BY <1>0, <1>a, <1>2, <1>5
<1> QED BY <1>0, <1>5, <1>6, <1>7, <1>8, <1>9, AdminStep

LEMMA AdministerStep ==
    ASSUME IdInv, Administer
    PROVE  IdInv'
<1> USE IdentityAssumption DEF IdentityAssumption
<1>0. /\ idRow \in [ver : Vers, cred : Creds, active : BOOLEAN] /\ revision \in Revs
      /\ localCache \in [Replicas -> [Creds -> Entries]] /\ sharedCache \in [Creds -> Entries]
      /\ idAdmin \in [step : {"idle", "dropLocal", "dropShared", "bump"}, scope : Scopes, cred : Creds]
      /\ NoEntry \in Entries
  BY DEF IdInv, IdTypeOK, Entries
<1>r. \A s \in Scopes : revision[s] \in Nat
  BY <1>0 DEF Revs, Vers
<1>c. announced \in Nat /\ idRow.ver \in Nat /\ Returned \in Nat
  BY AnnouncedType DEF IdInv, Vers
<1>f. redisFaults' = redisFaults \/ RedisFails => redisFaults' \in 0 .. MaxRedisFault
  BY IdentityAssumption DEF IdInv, IdTypeOK, RedisFails, IdentityAssumption
<1>t. idRow \in [ver : Vers, cred : 0 .. MaxChange + 1, active : BOOLEAN]
  BY <1>0 DEF Creds
<1>1. CASE AdminUpdates
  BY <1>1, <1>t, CommitStep DEF AdminUpdates
<1>2. CASE AdminRevokes
  <2>1. PICK held : held = [idRow EXCEPT !.active = FALSE]
    OBVIOUS
  <2>2. /\ held.ver = idRow.ver /\ held.cred = idRow.cred
        /\ held \in [ver : Vers, cred : 0 .. MaxChange + 1, active : BOOLEAN]
    BY <1>t, <2>1
  <2> QED BY <1>2, <2>1, <2>2, CommitStep DEF AdminRevokes
<1>3. CASE AdminRotates
  <2>0. idRow.cred \in Creds
    BY <1>0
  <2>1. PICK held : held = [idRow EXCEPT !.cred = idRow.cred + 1, !.active = TRUE]
    OBVIOUS
  <2>2. held.ver = idRow.ver /\ held.cred = idRow.cred + 1
    BY <1>t, <2>1
  <2>3. held \in [ver : Vers, cred : 0 .. MaxChange + 1, active : BOOLEAN]
    <3>1. idRow.cred + 1 \in 0 .. MaxChange + 1
      BY <2>0 DEF Creds
    <3>2. PICK c : c = idRow.cred + 1
      OBVIOUS
    <3> QED BY <1>t, <2>1, <3>1, <3>2
  <2>4. Commits(held, "api_key", "dropLocal", idRow.cred)
    BY <1>3, <2>1 DEF AdminRotates
  <2> QED BY <2>2, <2>3, <2>4, CommitStep
<1>4. ASSUME NEW s \in Scopes, UpdateOwner(s)
      PROVE  IdInv'
  BY <1>4, <1>t, CommitStep DEF UpdateOwner, OwnerStep
<1>5. ASSUME NEW s \in Scopes, DeleteOwner(s)
      PROVE  IdInv'
  <2>1. PICK held : held = [idRow EXCEPT !.active = FALSE]
    OBVIOUS
  <2>2. /\ held.ver = idRow.ver /\ held.cred = idRow.cred
        /\ held \in [ver : Vers, cred : 0 .. MaxChange + 1, active : BOOLEAN]
    BY <1>t, <2>1
  <2> QED BY <1>5, <2>1, <2>2, CommitStep DEF DeleteOwner, OwnerStep
<1>6. CASE deleteLocalCache
  <2>1. PICK a : a = [idAdmin EXCEPT !.step = "dropShared"]
    OBVIOUS
  <2>2. /\ a.step = "dropShared" /\ idAdmin.step = "dropLocal" /\ idAdmin' = a
        /\ a \in [step : {"idle", "dropLocal", "dropShared", "bump"}, scope : Scopes, cred : Creds]
        /\ UNCHANGED <<withRedis, idRow, revision, announced, sharedCache, auth, redisFaults>>
    BY <1>0, <1>6, <2>1 DEF deleteLocalCache
  <2>3. /\ localCache' \in [Replicas -> [Creds -> Entries]]
        /\ \A n \in Replicas, c \in Creds : localCache'[n][c] \in {localCache[n][c], NoEntry}
    BY <1>0, <1>6 DEF deleteLocalCache
  <2>4. announced' = announced /\ Returned' = Returned
    BY <2>2 DEF Returned
  <2>5. IdTypeOK'
    BY <2>2, <2>3 DEF IdInv, IdTypeOK
  <2>6. CountersGood'
    BY <2>2, <2>4 DEF IdInv, CountersGood
  <2> QED BY <1>r, <1>c, <2>2, <2>3, <2>4, <2>5, <2>6, AdminStep
<1>7. CASE invalidateCache
  <2>1. PICK a : a = [idAdmin EXCEPT !.step = "bump"]
    OBVIOUS
  <2>2. /\ a.step = "bump" /\ idAdmin.step = "dropShared" /\ idAdmin' = a
        /\ a \in [step : {"idle", "dropLocal", "dropShared", "bump"}, scope : Scopes, cred : Creds]
        /\ UNCHANGED <<withRedis, idRow, revision, announced, localCache, auth>>
        /\ redisFaults' \in 0 .. MaxRedisFault
    BY <1>0, <1>f, <1>7, <2>1 DEF invalidateCache
  <2>3. /\ sharedCache' \in [Creds -> Entries]
        /\ \A c \in Creds : sharedCache'[c] \in {sharedCache[c], NoEntry}
    BY <1>0, <1>7 DEF invalidateCache
  <2>4. announced' = announced /\ Returned' = Returned
    BY <2>2 DEF Returned
  <2>5. IdTypeOK'
    BY <2>2, <2>3 DEF IdInv, IdTypeOK
  <2>6. CountersGood'
    BY <2>2, <2>4 DEF IdInv, CountersGood
  <2>7. /\ UNCHANGED <<withRedis, auth>> /\ announced <= announced' /\ idRow.ver <= idRow'.ver /\ idRow'.cred = idRow.cred
        /\ revision' = revision
    BY <1>c, <2>2, <2>4
  <2>8. \A s \in Scopes : revision[s] <= revision'[s]
    <3>1. \A s \in Scopes : revision[s] <= revision[s]
      BY <1>r
    <3> QED BY <2>7, <3>1, Zenon
  <2>9. \A n \in Replicas, c \in Creds : localCache'[n][c] \in {localCache[n][c], NoEntry}
    BY <2>2
  <2> QED BY <2>3, <2>4, <2>5, <2>6, <2>7, <2>8, <2>9, AdminStep
<1>8. CASE bumpIdentityRevision
  <2>1. PICK a : a = [idAdmin EXCEPT !.step = "idle"]
    OBVIOUS
  <2>2. /\ a.step = "idle" /\ idAdmin.step = "bump" /\ idAdmin' = a /\ idAdmin.scope \in Scopes
        /\ a \in [step : {"idle", "dropLocal", "dropShared", "bump"}, scope : Scopes, cred : Creds]
        /\ UNCHANGED <<withRedis, idRow, localCache, sharedCache, auth>>
        /\ redisFaults' \in 0 .. MaxRedisFault
    BY <1>0, <1>f, <1>8, <2>1 DEF bumpIdentityRevision
  <2>3. Returned' = Returned + 1 /\ Returned' = idRow.ver
    BY <1>c, <2>2 DEF Returned
  <2>4. (\A s \in Scopes : revision[s] <= Returned) /\ announced <= Returned
    BY DEF IdInv, CountersGood
  <2>5. PICK sc : sc = idAdmin.scope
    OBVIOUS
  <2>6. \/ revision' = revision /\ announced' = announced
        \/ revision' = revision /\ announced' = idRow.ver /\ ~withRedis
        \/ revision' = [revision EXCEPT ![sc] = @ + 1] /\ announced' = idRow.ver /\ withRedis
    BY <1>8, <2>5 DEF bumpIdentityRevision
  <2>7. CASE revision' = [revision EXCEPT ![sc] = @ + 1] /\ announced' = idRow.ver /\ withRedis
    <3>1. \A s \in Scopes : revision'[s] = IF s = sc THEN revision[s] + 1 ELSE revision[s]
      BY <1>0, <2>7 DEF Revs
    <3>2. \A s \in Scopes : revision'[s] \in Nat /\ revision'[s] <= Returned' /\ revision[s] <= revision'[s]
      BY <1>r, <1>c, <2>3, <2>4, <3>1
    <3>3. revision' \in Revs
      <4>1. \A s \in Scopes : revision'[s] \in Vers
        <5>1. idRow.ver <= MaxChange
          BY <1>0 DEF Vers
        <5> QED BY <1>c, <2>3, <3>2, <5>1 DEF Vers
      <4>2. DOMAIN revision' = Scopes /\ revision' = [s \in Scopes |-> revision'[s]]
        BY <1>0, <2>7 DEF Revs
      <4> QED BY <4>1, <4>2 DEF Revs
    <3>0. sc \in Scopes
      BY <2>2, <2>5
    <3>4. revision[sc] < revision'[sc] /\ sc \in Scopes /\ revision'[sc] # 0
      BY <1>r, <3>0, <3>1
    <3>5. revision' # NoRevs
      BY <3>4 DEF NoRevs
    <3>6. IdTypeOK'
      BY <1>0, <2>2, <2>7, <3>3 DEF IdInv, IdTypeOK
    <3>7. CountersGood'
      BY <1>c, <2>2, <2>3, <2>7, <3>2, <3>5 DEF IdInv, CountersGood
    <3>8. \A n \in Replicas, c \in Creds : localCache'[n][c] \in {localCache[n][c], NoEntry}
      BY <2>2
    <3>9. \A c \in Creds : sharedCache'[c] \in {sharedCache[c], NoEntry}
      BY <2>2
    <3>10. announced <= announced' /\ idRow.ver <= idRow'.ver /\ idRow'.cred = idRow.cred
      BY <1>c, <2>2, <2>3, <2>4, <2>7
    <3> QED BY <2>2, <3>2, <3>4, <3>6, <3>7, <3>8, <3>9, <3>10, AdminStep
  <2>8. CASE revision' = revision /\ (announced' = announced \/ (announced' = idRow.ver /\ ~withRedis))
    <3>6. IdTypeOK'
      BY <1>0, <2>2, <2>8 DEF IdInv, IdTypeOK
    <3>7. CountersGood'
      <4>1. \A s \in Scopes : revision'[s] <= Returned'
        BY <1>r, <1>c, <2>3, <2>4, <2>8
      <4>2. announced' <= Returned'
        BY <1>c, <2>3, <2>4, <2>8
      <4>3. (withRedis /\ revision = NoRevs => announced = 0)'
        BY <2>2, <2>8 DEF IdInv, CountersGood
      <4> QED BY <2>2, <4>1, <4>2, <4>3 DEF IdInv, CountersGood
    <3>10. announced <= announced' /\ idRow.ver <= idRow'.ver /\ idRow'.cred = idRow.cred
      BY <1>c, <2>2, <2>3, <2>4, <2>8
    <3>11. withRedis => revision' = revision /\ announced' = announced
      BY <2>8
    <3>12. \A s \in Scopes : revision[s] <= revision'[s]
      BY <1>r, <2>8
    <3> QED BY <2>2, <3>6, <3>7, <3>10, <3>11, <3>12, AdminStep
  <2> QED BY <2>6, <2>7, <2>8
<1> QED BY <1>1, <1>2, <1>3, <1>4, <1>5, <1>6, <1>7, <1>8 DEF Administer

LEMMA ClockTickStep ==
    ASSUME IdInv, ClockTick
    PROVE  IdInv'
<1> USE IdentityAssumption DEF IdentityAssumption
<1>0. UNCHANGED <<withRedis, idRow, revision, announced, idAdmin, redisFaults>> /\ auth' = [q \in AuthReqs |-> IdleReq]
  BY DEF ClockTick
<1>b. announced' = announced /\ announced \in Vers /\ Returned' = Returned
  BY <1>0, AnnouncedType DEF Returned, IdInv
<1>e. \A c, e, lasts : EntryGood(c, e, lasts)' <=> EntryGood(c, e, lasts)
  BY <1>0, <1>b DEF EntryGood, NameGood, RevsGood
<1>1. ASSUME NEW c \in Creds, NEW e \in Entries, NEW lasts \in {CacheTTL, 2 * CacheTTL}, EntryGood(c, e, lasts)
      PROVE  OlderRevision(e) \in Entries /\ EntryGood(c, OlderRevision(e), lasts)
  <2>1. CASE e = NoEntry \/ e.left = 0
    BY <2>1 DEF OlderRevision, EntryGood, Entries
  <2>2. CASE ~(e = NoEntry \/ e.left = 0)
    <3>1. PICK t : t = [e EXCEPT !.left = @ - 1, !.age = @ + 1]
      OBVIOUS
    <3>2. e \in EntryRecs
      BY <2>2 DEF Entries, EntryRecs
    <3>3. t.ver = e.ver /\ t.revs = e.revs /\ t.left = e.left - 1 /\ t.age = e.age + 1
      BY <3>1, <3>2 DEF EntryRecs
    <3>4. t.mixed = e.mixed
      BY <3>1, <3>2 DEF EntryRecs
    <3>5. e.left \in 1 .. CacheTTL /\ e.age \in 0 .. 2 * CacheTTL
      BY <2>2, <3>2 DEF EntryRecs
    <3>6. e.age + e.left <= lasts
      BY <1>1, <2>2 DEF EntryGood
    <3>7. t.age + t.left <= lasts /\ e.left - 1 \in 0 .. CacheTTL /\ e.age + 1 \in 0 .. 2 * CacheTTL
      BY <3>3, <3>5, <3>6
    <3>8. t \in EntryRecs
      BY <3>1, <3>2, <3>7 DEF EntryRecs
    <3>9. EntryGood(c, t, lasts)
      BY <1>1, <2>2, <3>3, <3>4, <3>7 DEF EntryGood
    <3>10. OlderRevision(e) = t
      BY <2>2, <3>1 DEF OlderRevision
    <3> QED BY <3>8, <3>9, <3>10 DEF Entries, EntryRecs
  <2> QED BY <2>1, <2>2
<1>2. /\ localCache' \in [Replicas -> [Creds -> Entries]]
      /\ \A n \in Replicas, c \in Creds : EntryGood(c, localCache'[n][c], 2 * CacheTTL)
  <2>1. ASSUME NEW n \in Replicas, NEW c \in Creds
        PROVE  /\ localCache'[n][c] \in Entries /\ EntryGood(c, localCache'[n][c], 2 * CacheTTL)
               /\ localCache'[n][c] = OlderRevision(localCache[n][c])
    <3>1. localCache[n][c] \in Entries /\ EntryGood(c, localCache[n][c], 2 * CacheTTL)
      BY DEF IdInv, IdTypeOK, CachesGood
    <3>2. localCache'[n][c] = OlderRevision(localCache[n][c])
      BY DEF ClockTick
    <3> QED BY <1>1, <3>1, <3>2
  <2>2. localCache' = [n \in Replicas |-> [c \in Creds |-> OlderRevision(localCache[n][c])]]
    BY DEF ClockTick
  <2>3. \A n \in Replicas, c \in Creds : OlderRevision(localCache[n][c]) \in Entries
    BY <2>1
  <2>4. localCache' \in [Replicas -> [Creds -> Entries]]
    BY <2>2, <2>3
  <2> QED BY <2>1, <2>4
<1>3. sharedCache' \in [Creds -> Entries] /\ \A c \in Creds : EntryGood(c, sharedCache'[c], CacheTTL)
  <2>1. ASSUME NEW c \in Creds
        PROVE  OlderRevision(sharedCache[c]) \in Entries /\ EntryGood(c, OlderRevision(sharedCache[c]), CacheTTL)
    <3>1. sharedCache[c] \in Entries /\ EntryGood(c, sharedCache[c], CacheTTL)
      BY DEF IdInv, IdTypeOK, CachesGood
    <3> QED BY <1>1, <3>1
  <2>2. sharedCache' = [c \in Creds |-> OlderRevision(sharedCache[c])]
    BY DEF ClockTick
  <2> QED BY <2>1, <2>2
<1>4. auth' \in [AuthReqs -> AuthRecs] /\ \A q \in AuthReqs : auth'[q] = IdleReq
  BY <1>0, NoRevsTypes
<1>5. IdTypeOK'
  BY <1>0, <1>2, <1>3, <1>4 DEF IdInv, IdTypeOK, AuthRecs, AuthPcs
<1>6. CountersGood'
  BY <1>0, <1>b DEF IdInv, CountersGood
<1>7. CachesGood'
  BY <1>2, <1>3, <1>e DEF CachesGood
<1>8. \A q \in AuthReqs : ReqGood(auth[q])'
  BY <1>0, <1>4, <1>b DEF ReqGood, IdleReq, Vers
<1> QED BY <1>5, <1>6, <1>7, <1>8 DEF IdInv

LEMMA IdStep ==
    ASSUME IdInv, [IdNext]_idVars
    PROVE  IdInv'
<1>1. CASE UNCHANGED idVars
  BY <1>1 DEF idVars, IdInv, IdTypeOK, CountersGood, CachesGood, EntryGood, ReqGood, NameGood, RevsGood,
              Returned
<1>2. ASSUME NEW q \in AuthReqs, Authenticate(q)
      PROVE  IdInv'
  BY <1>2, BeginStep, CompareLocalStep, LookSharedStep, CompareSharedStep, ReadStoreStep, ReadRevisionsStep,
     PutLocalStep, SetRedisStep DEF Authenticate
<1> QED BY <1>1, <1>2, AdministerStep, ClockTickStep DEF IdNext

LEMMA IdImplied == IdInv => IdentitySound
<1> SUFFICES ASSUME IdInv PROVE IdentitySound
  OBVIOUS
<1>1. \A q \in AuthReqs : auth[q].ver \in Int /\ auth[q].since \in Int /\ auth[q].age \in 0 .. 2 * CacheTTL
  BY ReqFacts DEF Vers
<1>2. StaleNeedsOverlap
  BY <1>1 DEF IdInv, ReqGood, StaleNeedsOverlap, At
<1>3. AgeBounded
  BY <1>1 DEF AgeBounded
<1>4. OldNameDies
  BY DEF IdInv, ReqGood, NameGood, OldNameDies, At
<1> QED BY <1>2, <1>3, <1>4 DEF IdInv, IdentitySound

\* What a request is served from the caches of identities, for any number of replicas, requests,
\* changes and faults: an identity older than the last change that had been announced when
\* the request began only if its fill overlapped one or the revisions could not be read,
\* whatever other command to Redis fails; nothing older than two lives of
\* an entry; and under a name the key no longer has, nothing read after the rotation.
THEOREM IdentityCorrect == IdSpec => []IdentitySound
<1>1. IdInit => IdInv
  BY IdInitially
<1>2. IdInv /\ [IdNext]_idVars => IdInv'
  BY IdStep
<1>3. IdInv => IdentitySound
  BY IdImplied
<1> QED BY <1>1, <1>2, <1>3, PTL DEF IdSpec

-----------------------------------------------------------------------------
(* InferenceOrchestrator.                                                  *)

OrcPlaces == {"admit", "plan", "row", "invoke", "record", "complete", "failed", "open",
              "select", "send", "drain", "ended"}

OrcTypes ==
    /\ flow \in {"create", "stream"} /\ orcAt \in OrcPlaces
    /\ plan \in 0 .. MaxOrcCandidates /\ attempt \in 0 .. MaxAttempts - 1
    /\ orcRow \in {"none", "in_progress", "completed", "error"} /\ records \in {0, 1}
    /\ upstreamAt \in {"idle", "sending", "ending", "errs closed", "closed"}
    /\ sentKinds \in Seq(EventKinds)

\* Each flow has its places, and a stream a candidate once it is planned.
OwnPlaces ==
    /\ orcAt \in {"row", "invoke", "record", "complete", "failed"} => flow = "create"
    /\ orcAt \in {"open", "select", "send", "drain"} => flow = "stream" /\ plan > 0
    /\ orcAt \in {"admit", "plan"} => plan = 0
    /\ upstreamAt # "idle" => flow = "stream" /\ orcAt \in {"select", "send", "drain", "ended"}
    /\ flow = "stream" /\ orcAt # "ended" => orcRow = "none"

\* A record is made once, at the end of a stream, between an answer and its row otherwise.
RecordedAt ==
    /\ orcAt \notin {"complete", "ended"} => records = 0
    /\ orcAt = "complete" => records = 1
    /\ flow = "create" => /\ orcAt \in {"admit", "plan", "row"} => orcRow = "none"
                          /\ orcAt \in {"invoke", "record", "failed", "complete"} => orcRow = "in_progress"
                          /\ orcRow = "completed" => records = 1
                          /\ orcRow = "error" => records = 0

\* The completed response, when it was the last event, is what was kept.
LastKept ==
    sentKinds # <<>> /\ sentKinds[Len(sentKinds)] = "completed" =>
        lastSeen.response = "completed" /\ (flow = "stream" /\ records = 1 => paidFor)

OrcInv == OrcTypes /\ OwnPlaces /\ RecordedAt /\ StreamSettles /\ LastKept

LEMMA OrcInitially ==
    ASSUME OrcInit
    PROVE  OrcInv
BY OrcAssumption DEF OrcAssumption, OrcInit, OrcInv, OrcTypes, OrcPlaces, OwnPlaces, RecordedAt, StreamSettles, LastKept

\* A step that leaves the stream's events, the usage and the rows alone.
LEMMA OrcQuiet ==
    ASSUME OrcInv, UNCHANGED <<flow, orcRow, records, paidFor, sentKinds, lastSeen>>,
           plan' \in 0 .. MaxOrcCandidates, attempt' \in 0 .. MaxAttempts - 1,
           upstreamAt' \in {"idle", "sending", "ending", "errs closed", "closed"},
           orcAt' \in OrcPlaces, OwnPlaces', RecordedAt', StreamSettles'
    PROVE  OrcInv'
BY DEF OrcInv, OrcTypes, LastKept

LEMMA OrcCreateStep ==
    ASSUME OrcInv, CreateRow \/ Invoke \/ RecordUsage \/ CompleteRow \/ AttemptFailed
    PROVE  OrcInv'
<1> USE OrcAssumption DEF OrcAssumption
<1>1. flow = "create" /\ upstreamAt = "idle" /\ orcAt \in {"row", "invoke", "record", "complete", "failed"}
    BY DEF CreateRow, Invoke, RecordUsage, CompleteRow, AttemptFailed, OrcInv, OwnPlaces
<1>2. UNCHANGED <<flow, streamPart>>
    BY DEF CreateRow, Invoke, RecordUsage, CompleteRow, AttemptFailed
<1>3. OrcTypes /\ RecordedAt /\ LastKept
    BY DEF OrcInv
<1>4. /\ orcAt' \in {"invoke", "record", "complete", "failed", "ended"}
      /\ plan' \in 0 .. MaxOrcCandidates /\ attempt' \in 0 .. MaxAttempts - 1
  <2>1. CASE AttemptFailed
    <3>1. /\ plan \in 0 .. MaxOrcCandidates /\ attempt \in 0 .. MaxAttempts - 1
          /\ plan' = plan \/ (plan > 1 /\ plan' = plan - 1)
          /\ attempt' = attempt \/ attempt' = 0 \/ (attempt + 1 < MaxAttempts /\ attempt' = attempt + 1)
          /\ orcAt' \in {"invoke", "ended"}
        BY <2>1, <1>3 DEF AttemptFailed, OrcTypes
    <3>2. plan' \in 0 .. MaxOrcCandidates /\ attempt' \in 0 .. MaxAttempts - 1
        BY <3>1
    <3> QED BY <3>1, <3>2
  <2>2. CASE CreateRow \/ Invoke \/ RecordUsage \/ CompleteRow
      BY <2>2, <1>3 DEF CreateRow, Invoke, RecordUsage, CompleteRow, AfterComplete, OrcTypes, createPart
  <2> QED BY <2>1, <2>2
<1>5. records' \in {0, 1} /\ orcRow' \in {"none", "in_progress", "completed", "error"}
  <2>1. CASE AttemptFailed
      BY <2>1, <1>3 DEF AttemptFailed, OrcTypes
  <2>2. CASE CreateRow \/ Invoke \/ RecordUsage \/ CompleteRow
      BY <2>2, <1>1, <1>3 DEF CreateRow, Invoke, RecordUsage, CompleteRow, OrcTypes, RecordedAt
  <2> QED BY <2>1, <2>2
<1>6. OrcTypes'
    BY <1>2, <1>3, <1>4, <1>5 DEF OrcTypes, streamPart, OrcPlaces
<1>7. RecordedAt'
    BY <1>1, <1>2, <1>3 DEF CreateRow, Invoke, RecordUsage, CompleteRow, AttemptFailed, AfterComplete, RecordedAt
<1>8. OwnPlaces' /\ StreamSettles'
    BY <1>1, <1>2, <1>4 DEF OwnPlaces, StreamSettles, streamPart
<1>9. LastKept'
    BY <1>1, <1>2, <1>3 DEF LastKept, streamPart
<1> QED BY <1>6, <1>7, <1>8, <1>9 DEF OrcInv

LEMMA OrcFinish ==
    ASSUME OrcInv, NEW failed \in BOOLEAN, FinishStream(failed), orcAt \in {"open", "select", "drain"},
           UNCHANGED <<flow, createPart, upstreamAt, sentKinds, lastSeen, slipped>>
    PROVE  OrcInv'
<1>1. flow = "stream" /\ plan > 0 /\ records = 0 /\ orcRow = "none"
    BY DEF OrcInv, OwnPlaces, RecordedAt
<1>2. /\ orcAt' = "ended" /\ records' \in {0, 1} /\ orcRow' \in {"none", "completed", "error"}
      /\ records' = (IF "record" \in refused' THEN 0 ELSE 1)
      /\ orcRow' \in {"completed", "error"} <=> "row" \notin refused'
    BY <1>1 DEF FinishStream
<1>3. OrcTypes'
    BY <1>2 DEF OrcInv, OrcTypes, OrcPlaces, createPart
<1>4. OwnPlaces' /\ RecordedAt' /\ StreamSettles'
    BY <1>1, <1>2 DEF OrcInv, OwnPlaces, RecordedAt, StreamSettles, createPart
<1>5. LastKept'
  <2>1. PICK no \in SUBSET {"record", "row"} :
           /\ records' = IF "record" \in no THEN records ELSE records + 1
           /\ paidFor' = IF "record" \in no THEN paidFor
                         ELSE IF lastSeen.response = "none" THEN lastSeen.usage
                         ELSE lastSeen.response = "completed"
      BY DEF FinishStream
  <2>2. records' = 1 => "record" \notin no
      BY <1>1, <2>1
  <2>3. records' = 1 /\ lastSeen.response = "completed" => paidFor'
      BY <2>1, <2>2, "completed" # "none"
  <2> QED BY <2>3 DEF OrcInv, LastKept
<1> QED BY <1>3, <1>4, <1>5 DEF OrcInv

LEMMA OrcTakes ==
    ASSUME OrcInv, NEW k \in EventKinds, TakeEvent(k)
    PROVE  OrcInv'
<1>1. /\ orcAt \in {"select", "drain"} /\ orcAt' \in {"send", "drain"}
      /\ sentKinds' = Append(sentKinds, k) /\ lastSeen' = Keep(k)
      /\ UNCHANGED <<flow, orcRow, records, paidFor, createPart, upstreamAt, slipped>>
    BY DEF TakeEvent
<1>2. flow = "stream" /\ plan > 0 /\ records = 0 /\ orcRow = "none" /\ sentKinds \in Seq(EventKinds)
    BY <1>1 DEF OrcInv, OwnPlaces, RecordedAt, OrcTypes
<1>3. sentKinds' \in Seq(EventKinds) /\ sentKinds'[Len(sentKinds')] = k
    BY <1>1, <1>2
<1>4. k = "completed" => lastSeen'.response = "completed"
    BY <1>1 DEF Keep
<1>5. OrcTypes'
    BY <1>1, <1>3 DEF OrcInv, OrcTypes, OrcPlaces, createPart
<1>6. OwnPlaces' /\ RecordedAt' /\ StreamSettles'
    BY <1>1, <1>2 DEF OwnPlaces, RecordedAt, StreamSettles, createPart
<1>7. LastKept'
    BY <1>1, <1>2, <1>3, <1>4 DEF LastKept
<1> QED BY <1>5, <1>6, <1>7 DEF OrcInv

LEMMA OrcStep ==
    ASSUME OrcInv, [OrcNext]_orcVars
    PROVE  OrcInv'
<1> USE OrcAssumption DEF OrcAssumption
<1>0. OrcTypes /\ OwnPlaces /\ RecordedAt /\ StreamSettles
    BY DEF OrcInv
<1>1. CASE UNCHANGED orcVars
    BY <1>1 DEF orcVars, OrcInv, OrcTypes, OwnPlaces, RecordedAt, StreamSettles, LastKept
<1>2. CASE OrcClientLeaves
    BY <1>2 DEF OrcClientLeaves, createPart, streamPart, OrcInv, OrcTypes, OwnPlaces, RecordedAt, StreamSettles, LastKept
<1>3. CASE Admit
  <2>1. /\ orcAt = "admit" /\ orcAt' \in {"ended", "plan"}
        /\ UNCHANGED <<flow, orcRow, records, paidFor, plan, attempt, upstreamAt, sentKinds, lastSeen, slipped>>
      BY <1>3 DEF Admit, createPart, streamPart
  <2>2. /\ plan' \in 0 .. MaxOrcCandidates /\ attempt' \in 0 .. MaxAttempts - 1 /\ orcAt' \in OrcPlaces
        /\ upstreamAt' \in {"idle", "sending", "ending", "errs closed", "closed"}
      BY <1>0, <2>1 DEF OrcTypes, OrcPlaces
  <2>3. OwnPlaces' /\ RecordedAt' /\ StreamSettles'
      BY <1>0, <2>1 DEF OwnPlaces, RecordedAt, StreamSettles
  <2> QED BY <2>1, <2>2, <2>3, OrcQuiet
<1>4. CASE ReplayCachedStream
  <2>1. /\ orcAt = "admit" /\ orcAt' = "ended" /\ flow = "stream" /\ orcRow' \in {"none", "completed"}
        /\ UNCHANGED <<flow, records, paidFor, plan, attempt, upstreamAt, sentKinds, lastSeen, slipped>>
      BY <1>4 DEF ReplayCachedStream, createPart, streamPart
  <2>2. OrcTypes'
      BY <1>0, <2>1 DEF OrcTypes, OrcPlaces
  <2>3. OwnPlaces' /\ RecordedAt' /\ StreamSettles'
      BY <1>0, <2>1 DEF OwnPlaces, RecordedAt, StreamSettles
  <2>4. LastKept'
      BY <2>1 DEF OrcInv, LastKept
  <2> QED BY <2>2, <2>3, <2>4 DEF OrcInv
<1>5. CASE OrcPlanCandidates
  <2>1. /\ orcAt = "plan"
        /\ UNCHANGED <<flow, orcRow, records, paidFor, attempt, upstreamAt, sentKinds, lastSeen, slipped>>
      BY <1>5 DEF OrcPlanCandidates, streamPart
  <2>2. PICK n \in 0 .. MaxOrcCandidates :
           /\ plan' = n
           /\ orcAt' = CASE n = 0 -> "ended"
                        [] n > 0 /\ flow = "create" -> "row"
                        [] n > 0 /\ flow = "stream" -> "open"
      BY <1>5 DEF OrcPlanCandidates
  <2>3. \/ orcAt' = "ended" /\ plan' = 0
        \/ orcAt' = "row" /\ flow = "create"
        \/ orcAt' = "open" /\ flow = "stream" /\ plan' > 0
    <3>1. CASE n = 0
        BY <2>2, <3>1
    <3>2. CASE n > 0 /\ flow = "create"
        BY <2>2, <3>2
    <3>3. CASE n > 0 /\ flow = "stream"
        BY <2>2, <3>3
    <3>4. n = 0 \/ n > 0
        OBVIOUS
    <3>5. flow = "create" \/ flow = "stream"
        BY <1>0 DEF OrcTypes
    <3> QED BY <3>1, <3>2, <3>3, <3>4, <3>5
  <2>4. /\ plan' \in 0 .. MaxOrcCandidates /\ attempt' \in 0 .. MaxAttempts - 1 /\ orcAt' \in OrcPlaces
        /\ upstreamAt' \in {"idle", "sending", "ending", "errs closed", "closed"}
      BY <1>0, <2>1, <2>2, <2>3 DEF OrcTypes, OrcPlaces
  <2>5. OwnPlaces' /\ RecordedAt' /\ StreamSettles'
      BY <1>0, <2>1, <2>3 DEF OwnPlaces, RecordedAt, StreamSettles
  <2> QED BY <2>1, <2>4, <2>5, OrcQuiet
<1>6. CASE CreateRow \/ Invoke \/ RecordUsage \/ CompleteRow \/ AttemptFailed
    BY <1>6, OrcCreateStep
<1>7. CASE UpstreamEnds
  <2>1. /\ upstreamAt # "idle" /\ upstreamAt' \in {"ending", "errs closed", "closed"}
        /\ UNCHANGED <<flow, orcAt, orcRow, records, paidFor, plan, attempt, sentKinds, lastSeen, slipped,
                       refused>>
      BY <1>7 DEF UpstreamEnds, createPart
  <2>2. /\ plan' \in 0 .. MaxOrcCandidates /\ attempt' \in 0 .. MaxAttempts - 1 /\ orcAt' \in OrcPlaces
        /\ upstreamAt' \in {"idle", "sending", "ending", "errs closed", "closed"}
      BY <1>0, <2>1 DEF OrcTypes
  <2>3. OwnPlaces' /\ RecordedAt' /\ StreamSettles'
      BY <1>0, <2>1 DEF OwnPlaces, RecordedAt, StreamSettles
  <2> QED BY <2>1, <2>2, <2>3, OrcQuiet
<1>8. CASE ForwardEvent \/ BeginDrain
  <2>1. /\ orcAt \in {"send", "select"} /\ orcAt' \in {"select", "drain"}
        /\ UNCHANGED <<flow, orcRow, records, paidFor, plan, attempt, upstreamAt, sentKinds, lastSeen, slipped>>
      BY <1>8 DEF ForwardEvent, BeginDrain, createPart, streamPart
  <2>2. /\ plan' \in 0 .. MaxOrcCandidates /\ attempt' \in 0 .. MaxAttempts - 1 /\ orcAt' \in OrcPlaces
        /\ upstreamAt' \in {"idle", "sending", "ending", "errs closed", "closed"}
      BY <1>0, <2>1 DEF OrcTypes, OrcPlaces
  <2>3. OwnPlaces' /\ RecordedAt' /\ StreamSettles'
      BY <1>0, <2>1 DEF OwnPlaces, RecordedAt, StreamSettles
  <2> QED BY <2>1, <2>2, <2>3, OrcQuiet
<1>9. CASE StreamCloses
    BY <1>9, OrcFinish DEF StreamCloses, streamPart
<1>10. CASE StreamFails
    BY <1>10, OrcFinish DEF StreamFails
<1>11. CASE ErrorsClose
  <2>1. /\ orcAt = "select" /\ orcAt' = "ended" /\ slipped' = TRUE
        /\ UNCHANGED <<flow, orcRow, records, paidFor, plan, attempt, upstreamAt, sentKinds, lastSeen>>
      BY <1>11 DEF ErrorsClose, createPart
  <2>2. /\ plan' \in 0 .. MaxOrcCandidates /\ attempt' \in 0 .. MaxAttempts - 1 /\ orcAt' \in OrcPlaces
        /\ upstreamAt' \in {"idle", "sending", "ending", "errs closed", "closed"}
      BY <1>0, <2>1 DEF OrcTypes, OrcPlaces
  <2>3. OwnPlaces' /\ RecordedAt' /\ StreamSettles'
      BY <1>0, <2>1 DEF OwnPlaces, RecordedAt, StreamSettles
  <2> QED BY <2>1, <2>2, <2>3, OrcQuiet
<1>12. CASE Drain
  <2>1. orcAt = "drain" /\ UNCHANGED <<flow, createPart, upstreamAt, sentKinds, lastSeen, slipped>>
      BY <1>12 DEF Drain
  <2>2. CASE FinishStream(TRUE)
      BY <2>1, <2>2, OrcFinish
  <2>3. CASE UNCHANGED <<orcAt, records, paidFor, orcRow, refused>>
      BY <2>1, <2>3 DEF createPart, OrcInv, OrcTypes, OwnPlaces, RecordedAt, StreamSettles, LastKept
  <2> QED BY <1>12, <2>2, <2>3 DEF Drain, DrainEnds
<1>13. CASE \E k \in EventKinds : TakeEvent(k)
    BY <1>13, OrcTakes
<1>14. CASE OpenStream
  <2>1. /\ orcAt = "open" /\ UNCHANGED <<flow, createPart, sentKinds, lastSeen, slipped>>
      BY <1>14 DEF OpenStream
  <2>2. CASE FinishStream(TRUE) /\ upstreamAt' = upstreamAt
      BY <2>1, <2>2, OrcFinish
  <2>3. CASE /\ orcAt' = "select" /\ upstreamAt' = "sending"
             /\ UNCHANGED <<orcRow, records, paidFor, refused>>
    <3>1. /\ plan' \in 0 .. MaxOrcCandidates /\ attempt' \in 0 .. MaxAttempts - 1 /\ orcAt' \in OrcPlaces
          /\ upstreamAt' \in {"idle", "sending", "ending", "errs closed", "closed"}
        BY <1>0, <2>1, <2>3 DEF OrcTypes, OrcPlaces, createPart
    <3>2. OwnPlaces' /\ RecordedAt' /\ StreamSettles'
        BY <1>0, <2>1, <2>3 DEF OwnPlaces, RecordedAt, StreamSettles, createPart
    <3> QED BY <2>1, <2>3, <3>1, <3>2, OrcQuiet
  <2> QED BY <1>14, <2>2, <2>3 DEF OpenStream
<1> QED BY <1>1, <1>2, <1>3, <1>4, <1>5, <1>6, <1>7, <1>8, <1>9, <1>10, <1>11, <1>12, <1>13, <1>14 DEF OrcNext

LEMMA OrcImplies ==
    ASSUME OrcInv
    PROVE  OrchestratorSound
<1>0. records = 0 \/ records = 1
    BY DEF OrcInv, OrcTypes
<1>a. records <= 1 /\ (records > 0 => records = 1)
    BY <1>0
<1>1. OrcTypeOK
    BY <1>a, Zenon DEF OrcInv, OrcTypes, OrcTypeOK, OrcPlaces
<1>2. RecordedIsAnswered
  <2>1. records = 1 => orcAt \in {"complete", "ended"}
      BY DEF OrcInv, RecordedAt
  <2> QED BY <1>a, <2>1 DEF OrcInv, RecordedAt, RecordedIsAnswered
<1>3. CompletedIsPaid
  <2>1. sentKinds \in Seq(EventKinds)
      BY DEF OrcInv, OrcTypes
  <2>2. Len(sentKinds) > 0 => sentKinds # <<>>
      BY <2>1
  <2> QED BY <2>2 DEF OrcInv, LastKept, CompletedIsPaid
<1> QED BY <1>1, <1>2, <1>3 DEF OrcInv, OrchestratorSound

\* OrchestratorSound (orchestrator.go Create and runStream), for any candidates, attempts and events,
\* whatever the ports answer or refuse and whenever the client leaves.
THEOREM OrchestratorCorrect == OrcSpec => []OrchestratorSound
<1>1. OrcInit => OrcInv
    BY OrcInitially
<1>2. OrcInv /\ [OrcNext]_orcVars => OrcInv'
    BY OrcStep
<1>3. OrcInv => OrchestratorSound
    BY OrcImplies
<1> QED BY <1>1, <1>2, <1>3, PTL DEF OrcSpec
=============================================================================

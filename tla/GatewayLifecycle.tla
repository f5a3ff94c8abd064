-------------------------- MODULE GatewayLifecycle --------------------------
(***************************************************************************)
(* The life of a gateway process once its parts are built                  *)
(* (app/gateway/runtime.go Runtime.Run, the hooks that app.go registers,   *)
(* handler/server.go): the jobs and the server start as goroutines, the    *)
(* process waits for a signal or for the server's end, shuts the server    *)
(* down with a time limit, runs the shutdown hooks in order, and the       *)
(* deferred closes of app.go end with the database.                        *)
(*                                                                         *)
(* A request is answered and hands its bookkeeping to the event bus, or,   *)
(* when the bus does not take it, to a goroutine of its own that nobody    *)
(* waits for, or writes it itself (responses/persist.go publishOrInline).  *)
(* The bus's Close waits 30 s for its workers and, when Kafka is           *)
(* configured, cancels their context before it closes the channel          *)
(* (eventbus/bus.go).                                                      *)
(***************************************************************************)
EXTENDS Integers, Sequences, FiniteSets

CONSTANTS Requests,    \* requests that may come
          BusRoom,     \* how many records the bus holds
          LooseRoom    \* how many goroutines may write records on their own

ASSUME LifeAssumption == IsFiniteSet(Requests) /\ BusRoom \in Nat \ {0} /\ LooseRoom \in Nat

VARIABLES life,        \* where Run is
          hooksRun,    \* how many shutdown hooks have returned
          listener,    \* the server: unset, set, open, closed
          signalled,   \* the process was told to stop
          deadline,    \* the time limit of the shutdown has passed
          tooEarly,    \* Shutdown found no server to shut down
          handling,    \* for each request, what became of it
          record,      \* for each request, where its bookkeeping is
          kafka,       \* the bus has Kafka readers
          busAt,       \* the event bus: open, then the stages of its Close
          workersLeft, \* the bus's workers found their context cancelled and the channel empty
          busLate,     \* the bus's Close ran out of its 30 s
          databaseOpen \* the database is open

lifeVars == <<life, hooksRun, listener, signalled, deadline, tooEarly, handling,
              record, kafka, busAt, workersLeft, busLate, databaseOpen>>
busVars == <<kafka, busAt, workersLeft, busLate>>

\* The hooks, in the order in which app.go registers them.
Hooks == <<"limiter", "eventbus", "providers", "plugins", "guardrails", "middleware">>

InState(s) == {r \in Requests : record[r] = s}
InChannel == InState("queued") \cup InState("stranded")
InHand == {r \in Requests : handling[r] \in {"running", "publishing"}}

LifeInit ==
    /\ life = "starting" /\ hooksRun = 0 /\ listener = "unset"
    /\ signalled = FALSE /\ deadline = FALSE /\ tooEarly = FALSE
    /\ handling = [r \in Requests |-> "none"]
    /\ record = [r \in Requests |-> "none"]
    /\ kafka \in BOOLEAN /\ busAt = "open" /\ workersLeft = FALSE /\ busLate = FALSE
    /\ databaseOpen = TRUE

Alive == life # "exited"

-----------------------------------------------------------------------------
(* The server's goroutine and the requests.                                *)

\* Start builds the server, then listens; a server that was shut down before it
\* listens ends at once.
StartServer ==
    /\ life # "starting" /\ Alive
    /\ \/ listener = "unset" /\ listener' = "set"
       \/ listener = "set" /\ listener' = "open"
    /\ UNCHANGED <<life, hooksRun, signalled, deadline, tooEarly, handling, record,
                   busVars, databaseOpen>>

\* The address is taken, or the listener breaks.
ServerFails ==
    /\ listener \in {"set", "open"} /\ life = "serving"
    /\ listener' = "closed" /\ life' = "shutdown"
    /\ UNCHANGED <<hooksRun, signalled, deadline, tooEarly, handling, record,
                   busVars, databaseOpen>>

Accept(r) ==
    /\ listener = "open" /\ Alive /\ handling[r] = "none"
    /\ handling' = [handling EXCEPT ![r] = "running"]
    /\ UNCHANGED <<life, hooksRun, listener, signalled, deadline, tooEarly, record,
                   busVars, databaseOpen>>

\* A record beside the bus: in a goroutine while there are few, else at once.
Aside == IF Cardinality(InState("loose")) < LooseRoom THEN "loose"
         ELSE IF databaseOpen THEN "stored" ELSE "lost"

\* publishOrInline reads whether the bus is closed; a closed one takes nothing.
AnswerRequest(r) ==
    /\ handling[r] = "running" /\ Alive
    /\ \/ /\ busAt = "open"
          /\ handling' = [handling EXCEPT ![r] = "publishing"] /\ UNCHANGED record
       \/ /\ busAt # "open"
          /\ handling' = [handling EXCEPT ![r] = "answered"]
          /\ record' = [record EXCEPT ![r] = Aside]
    /\ UNCHANGED <<life, hooksRun, listener, signalled, deadline, tooEarly, busVars, databaseOpen>>

\* It then puts the record into the channel.  A channel without room refuses it; one
\* that was closed meanwhile panics the request; one whose workers have left keeps it.
Publish(r) ==
    /\ handling[r] = "publishing" /\ Alive
    /\ \/ /\ busAt # "shut" /\ Cardinality(InChannel) < BusRoom
          /\ record' = [record EXCEPT ![r] = IF workersLeft THEN "stranded" ELSE "queued"]
          /\ handling' = [handling EXCEPT ![r] = "answered"]
       \/ /\ busAt # "shut" /\ Cardinality(InChannel) = BusRoom
          /\ record' = [record EXCEPT ![r] = Aside]
          /\ handling' = [handling EXCEPT ![r] = "answered"]
       \/ /\ busAt = "shut"
          /\ record' = [record EXCEPT ![r] = "lost"]
          /\ handling' = [handling EXCEPT ![r] = "cut"]
    /\ UNCHANGED <<life, hooksRun, listener, signalled, deadline, tooEarly, busVars, databaseOpen>>

\* A worker of the bus, or a goroutine of its own, runs the handler of a record.
Written(r) == IF databaseOpen THEN "stored" ELSE IF record[r] = "queued" THEN "dropped" ELSE "lost"

WriteRecord(r) ==
    /\ record[r] \in {"queued", "loose"} /\ Alive
    /\ record' = [record EXCEPT ![r] = Written(r)]
    /\ UNCHANGED <<life, hooksRun, listener, signalled, deadline, tooEarly, handling,
                   busVars, databaseOpen>>

-----------------------------------------------------------------------------
(* Run.                                                                    *)

\* The start hooks, the jobs, the server's goroutine.
BeginRun ==
    /\ life = "starting" /\ life' = "serving"
    /\ UNCHANGED <<hooksRun, listener, signalled, deadline, tooEarly, handling, record,
                   busVars, databaseOpen>>

Signal ==
    /\ ~signalled /\ Alive /\ signalled' = TRUE
    /\ UNCHANGED <<life, hooksRun, listener, deadline, tooEarly, handling, record,
                   busVars, databaseOpen>>

SeeSignal ==
    /\ life = "serving" /\ signalled /\ life' = "shutdown"
    /\ UNCHANGED <<hooksRun, listener, signalled, deadline, tooEarly, handling, record,
                   busVars, databaseOpen>>

\* Without a server there is nothing to shut down, and the server that is set after
\* that is never told.  Otherwise the listener closes at once.
BeginShutdown ==
    /\ life = "shutdown"
    /\ IF listener = "unset"
       THEN tooEarly' = TRUE /\ life' = "hooks" /\ UNCHANGED listener
       ELSE listener' = "closed" /\ life' = "draining" /\ UNCHANGED tooEarly
    /\ UNCHANGED <<hooksRun, signalled, deadline, handling, record, busVars, databaseOpen>>

\* Shutdown returns when no request is in hand, or when the time limit has passed.
Drained_NoLimit == InHand = {}
Drained == InHand = {} \/ deadline

EndShutdown ==
    /\ life = "draining" /\ Drained /\ life' = "hooks"
    /\ UNCHANGED <<hooksRun, listener, signalled, deadline, tooEarly, handling, record,
                   busVars, databaseOpen>>

TimeLimit ==
    /\ life = "draining" /\ ~deadline /\ deadline' = TRUE
    /\ UNCHANGED <<life, hooksRun, listener, signalled, tooEarly, handling, record,
                   busVars, databaseOpen>>

\* The next hook.  All but the bus's return at once.  The bus's sets the flag that
\* publishers read, cancels the workers' context under Kafka, closes the channel, and
\* returns when its workers have emptied it or after 30 s.
AtBusHook == life = "hooks" /\ hooksRun < Len(Hooks) /\ Hooks[hooksRun + 1] = "eventbus"

RunHook ==
    /\ life = "hooks" /\ hooksRun < Len(Hooks)
    /\ AtBusHook => busAt = "shut" /\ (InState("queued") = {} \/ busLate)
    /\ hooksRun' = hooksRun + 1
    /\ UNCHANGED <<life, listener, signalled, deadline, tooEarly, handling, record, busVars,
                   databaseOpen>>

CloseBus ==
    /\ AtBusHook
    /\ \/ busAt = "open" /\ busAt' = "closed"
       \/ busAt = "closed" /\ kafka /\ busAt' = "cancelled"
       \/ busAt = (IF kafka THEN "cancelled" ELSE "closed") /\ busAt' = "shut"
    /\ UNCHANGED <<life, hooksRun, listener, signalled, deadline, tooEarly, handling, record,
                   kafka, workersLeft, busLate, databaseOpen>>

\* The workers, their context cancelled, find the channel empty and not yet closed.
WorkersLeave ==
    /\ busAt = "cancelled" /\ InState("queued") = {} /\ ~workersLeft
    /\ workersLeft' = TRUE
    /\ UNCHANGED <<life, hooksRun, listener, signalled, deadline, tooEarly, handling, record,
                   kafka, busAt, busLate, databaseOpen>>

BusLimit ==
    /\ AtBusHook /\ busAt = "shut" /\ ~busLate
    /\ busLate' = TRUE
    /\ UNCHANGED <<life, hooksRun, listener, signalled, deadline, tooEarly, handling, record,
                   kafka, busAt, workersLeft, databaseOpen>>

\* The deferred closes, the database's after all hooks, and the end of the process,
\* which takes what is still running with it.
MayClose_Early == life \in {"hooks", "draining"}
MayClose == life = "hooks" /\ hooksRun = Len(Hooks)

CloseDatabase ==
    /\ MayClose /\ databaseOpen
    /\ databaseOpen' = FALSE
    /\ UNCHANGED <<life, hooksRun, listener, signalled, deadline, tooEarly, handling,
                   record, busVars>>

ExitProcess ==
    /\ life = "hooks" /\ hooksRun = Len(Hooks) /\ ~databaseOpen
    /\ life' = "exited" /\ listener' = "closed"
    /\ handling' = [r \in Requests |-> IF r \in InHand THEN "cut" ELSE handling[r]]
    /\ record' = [r \in Requests |-> IF record[r] \in {"queued", "loose"} THEN Written(r) ELSE record[r]]
    /\ UNCHANGED <<hooksRun, signalled, deadline, tooEarly, busVars, databaseOpen>>

LifeNext ==
    \/ StartServer \/ ServerFails \/ BeginRun \/ Signal \/ SeeSignal \/ BeginShutdown
    \/ EndShutdown \/ TimeLimit \/ RunHook \/ CloseBus \/ WorkersLeave \/ BusLimit
    \/ CloseDatabase \/ ExitProcess
    \/ \E r \in Requests : Accept(r) \/ AnswerRequest(r) \/ Publish(r) \/ WriteRecord(r)

LifeSpec == LifeInit /\ [][LifeNext]_lifeVars

\* The scheduler runs Run's goroutine and the bus's workers, whose handlers have a
\* time limit of their own, and the shutdown's timer fires.  Nothing is assumed of the
\* requests and of the signal.
LifeFairness ==
    /\ WF_lifeVars(BeginRun \/ SeeSignal \/ BeginShutdown \/ EndShutdown \/ TimeLimit
                   \/ RunHook \/ CloseBus \/ BusLimit \/ CloseDatabase \/ ExitProcess)
    /\ \A r \in Requests : WF_lifeVars(WriteRecord(r))

LifeLiveSpec == LifeSpec /\ LifeFairness

-----------------------------------------------------------------------------
\* The stages of Run and of a request's bookkeeping; the bus never holds more than
\* its room, and no more goroutines write than may.
LifeTypeOK ==
    /\ life \in {"starting", "serving", "shutdown", "draining", "hooks", "exited"}
    /\ hooksRun \in 0 .. Len(Hooks)
    /\ Cardinality(InChannel) <= BusRoom
    /\ Cardinality(InState("loose")) <= LooseRoom

\* A record that the bus has taken is handed to its handler before the database closes,
\* even when the shutdown ran out of time or the server started too late to be shut
\* down: the bus empties its channel before the database closes (app.go, the order of
\* hooks and defers; bus.go Close).  Two things break this: a Close that runs out of its
\* 30 s, and, under Kafka, a publisher that read the flag before Close set it and puts
\* its record after the workers have left.
TakenIsStored ==
    \A r \in Requests :
       /\ record[r] = "queued" /\ ~databaseOpen => busLate
       /\ record[r] = "dropped" => busLate
       /\ record[r] = "stranded" => kafka

\* A request is handled after the hooks have begun to close what it uses only when
\* the time limit cut it off, or when the process was told to stop before its server
\* existed (runtime.go Run, server.go Shutdown).
ServedBeforeHooks ==
    (life \in {"hooks", "exited"} /\ InHand # {}) => deadline \/ tooEarly

\* A process that is told to stop exits, whatever its requests do.
EventuallyExits == signalled ~> life = "exited"

\* The order of Run's shutdown: requests first, then the hooks, among them the bus with the
\* records it has taken for as long as it waits, then the database.
LifeSound == LifeTypeOK /\ TakenIsStored /\ ServedBeforeHooks
=============================================================================

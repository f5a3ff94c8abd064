------------------------------ MODULE WasmPool ------------------------------
(***************************************************************************)
(* The pool of WebAssembly instances behind a request filter, a guardrail   *)
(* and a gateway plugin.  A call takes an instance, writes its request into *)
(* the instance's memory, runs the guest, reads the verdict from the same   *)
(* memory and gives the instance back.  The three hosts are written alike   *)
(* and give back differently: the filter once, by defer; the other two by   *)
(* defer and once more where they return or close, so that an instance can  *)
(* be in the pool twice, or closed and in the pool.                         *)
(***************************************************************************)
EXTENDS Integers, Sequences, FiniteSets

CONSTANTS
    WasmCalls,   \* requests in flight
    Instances,   \* instances that can be made
    WasmHosts,   \* of "filter", "guardrail", "gateway"
    PoolSize     \* maxPool

ASSUME PoolAssumption == PoolSize \in Nat \ {0} /\ WasmHosts \subseteq {"filter", "guardrail", "gateway"}

VARIABLES
    host,        \* which of the three this is
    made,        \* of each instance: "none", "open", "closed", "exited" when its guest ended it
    pool,        \* the channel
    channel,     \* "open", "closed" by Close, "nil" after it
    memory,      \* of each instance the request and the verdict in it
    wants,       \* what the guest says of each request
    callAt,      \* where each call is
    holds,       \* the instance it took
    cleanup,     \* what it has still to do with the instance, deferred part last
    verdict,     \* what the call answered
    panicked     \* a send on a closed channel or a nil module

poolVars == <<host, made, pool, channel, memory, wants, callAt, holds, cleanup, verdict, panicked>>

Blank2 == [in |-> "none", out |-> "none"]
NoInstance == "no instance"

\* The constructor puts two instances into the pool.
PoolInit ==
    /\ host \in WasmHosts
    /\ \E warm \in {s \in [1 .. (IF PoolSize < 2 THEN PoolSize ELSE 2) -> Instances] :
                      \A i, j \in DOMAIN s : s[i] = s[j] => i = j} :
          /\ pool = warm
          /\ made = [i \in Instances |-> IF \E n \in DOMAIN warm : warm[n] = i THEN "open" ELSE "none"]
    /\ channel = "open"
    /\ memory = [i \in Instances |-> Blank2]
    /\ wants \in [WasmCalls -> {"allow", "block"}]
    /\ callAt = [c \in WasmCalls |-> "start"]
    /\ holds = [c \in WasmCalls |-> NoInstance]
    /\ cleanup = [c \in WasmCalls |-> <<>>]
    /\ verdict = [c \in WasmCalls |-> "none"]
    /\ panicked = FALSE

GoOn(c, next) == callAt' = [callAt EXCEPT ![c] = next]
Answer(c, v, next) == verdict' = [verdict EXCEPT ![c] = v] /\ GoOn(c, next)
AtPoint(c, here) == callAt[c] = here /\ ~panicked

-----------------------------------------------------------------------------
(* Taking an instance.                                                      *)

\* A receive from a closed and empty channel gives a nil module, one from a nil channel
\* is never ready and select's default makes an instance.
TakeInstance(c) ==
    /\ AtPoint(c, "start")
    /\ UNCHANGED <<host, channel, memory, wants, cleanup>>
    /\ \/ /\ channel # "nil" /\ pool # <<>>
          /\ holds' = [holds EXCEPT ![c] = Head(pool)]
          /\ pool' = Tail(pool)
          /\ GoOn(c, "write")
          /\ UNCHANGED <<made, verdict, panicked>>
       \/ /\ channel = "closed" /\ pool = <<>>
          /\ panicked' = TRUE
          /\ UNCHANGED <<made, pool, callAt, holds, verdict>>

newInstance(c) ==
    /\ AtPoint(c, "start")
    /\ (channel = "open" /\ pool = <<>>) \/ channel = "nil"
    /\ UNCHANGED <<host, pool, channel, memory, wants, cleanup, panicked>>
    /\ \/ /\ channel = "open"
          /\ \E i \in Instances :
                /\ made[i] = "none"
                /\ made' = [made EXCEPT ![i] = "open"]
                /\ holds' = [holds EXCEPT ![c] = i]
          /\ GoOn(c, "write")
          /\ UNCHANGED verdict
       \/ Answer(c, "allow", "done") /\ UNCHANGED <<made, holds>>    \* fail open

-----------------------------------------------------------------------------
(* The call.                                                                *)

\* What another call left in the memory may be overwritten.
WriteInput(c) ==
    LET m == memory[holds[c]]
    IN  /\ AtPoint(c, "write")
        /\ \E o \in {m.out, "junk"} : memory' = [memory EXCEPT ![holds[c]] = [in |-> c, out |-> o]]
        /\ GoOn(c, "call")
        /\ UNCHANGED <<host, made, pool, channel, wants, holds, cleanup, verdict, panicked>>

\* How a host treats what the guest did: "trap" (or a timeout, or a closed instance), a
\* negative length, no value, a verdict that is no JSON, or a verdict.
FilterProcess_Twice(outcome, v) ==
    [answer |-> CASE outcome = "verdict"  -> v
                  [] outcome = "negative" -> "block"
                  [] OTHER                -> "allow",
     cleanup |-> IF outcome = "verdict" THEN <<"return", "return">> ELSE <<"return">>]
FilterProcess(outcome, v) ==
    [answer |-> CASE outcome = "verdict"  -> v
                  [] outcome = "negative" -> "block"
                  [] OTHER                -> "allow",
     cleanup |-> <<"return">>]

EvaluateGuardrail(outcome, v) ==
    [answer |-> IF outcome = "verdict" THEN v ELSE "allow",
     cleanup |-> IF outcome \in {"verdict", "silent"} THEN <<"return", "return">> ELSE <<"close", "return">>]

\* Errors are returned and invokePlugins goes on to the next plugin.
ProcessGateway(outcome, v) ==
    [answer |-> IF outcome = "verdict" THEN v ELSE "allow",
     cleanup |-> IF outcome \in {"verdict", "silent"} THEN <<"return", "return">> ELSE <<"close", "return">>]

Treat(outcome, v) ==
    CASE host = "filter"    -> FilterProcess(outcome, v)
      [] host = "guardrail" -> EvaluateGuardrail(outcome, v)
      [] OTHER              -> ProcessGateway(outcome, v)

Settle(c, outcome, v) ==
    /\ verdict' = [verdict EXCEPT ![c] = Treat(outcome, v).answer]
    /\ cleanup' = [cleanup EXCEPT ![c] = Treat(outcome, v).cleanup]
    /\ GoOn(c, "clean")

\* The guest reads the request that is in the memory and writes its verdict there, or it fails; a guest
\* that calls proc_exit closes its own instance, which the call sees as any other failure.
CallGuest(c) ==
    LET i == holds[c]
    IN  /\ AtPoint(c, "call")
        /\ UNCHANGED <<host, pool, channel, wants, holds, panicked>>
        /\ \/ /\ \E outcome \in IF made[i] = "open" THEN {"trap", "negative", "silent"} ELSE {"trap"} :
                    Settle(c, outcome, "allow")
              /\ UNCHANGED <<made, memory>>
           \/ /\ made[i] = "open"
              /\ made' = [made EXCEPT ![i] = "exited"]
              /\ Settle(c, "trap", "allow")
              /\ UNCHANGED memory
           \/ /\ made[i] = "open"
              /\ memory' = [memory EXCEPT ![i].out = memory[i].in]
              /\ GoOn(c, "read")
              /\ UNCHANGED <<made, cleanup, verdict>>

ReadOutput(c) ==
    LET o == memory[holds[c]].out
    IN  /\ AtPoint(c, "read")
        /\ IF o \in WasmCalls THEN Settle(c, "verdict", wants[o]) ELSE Settle(c, "garbled", "allow")
        /\ UNCHANGED <<host, made, pool, channel, memory, wants, holds, panicked>>

-----------------------------------------------------------------------------
(* Giving the instance back.                                                *)

Cleaned(c) ==
    /\ cleanup' = [cleanup EXCEPT ![c] = Tail(@)]
    /\ IF Len(cleanup[c]) = 1
       THEN GoOn(c, "done") /\ holds' = [holds EXCEPT ![c] = NoInstance]
       ELSE UNCHANGED <<callAt, holds>>

returnInstance(c, i) ==
    IF channel = "open" /\ Len(pool) < PoolSize
    THEN pool' = Append(pool, i) /\ UNCHANGED made
    ELSE made' = [made EXCEPT ![i] = "closed"] /\ UNCHANGED pool

ReturnOnce(c) ==
    /\ AtPoint(c, "clean") /\ Head(cleanup[c]) = "return" /\ channel # "closed"
    /\ returnInstance(c, holds[c])
    /\ Cleaned(c)
    /\ UNCHANGED <<host, channel, memory, wants, verdict, panicked>>

\* A send on the channel that Close has closed and not yet set to nil.
ReturnToClosed(c) ==
    /\ AtPoint(c, "clean") /\ Head(cleanup[c]) = "return" /\ channel = "closed"
    /\ panicked' = TRUE
    /\ UNCHANGED <<host, made, pool, channel, memory, wants, callAt, holds, cleanup, verdict>>

closeInstance(c) ==
    /\ AtPoint(c, "clean") /\ Head(cleanup[c]) = "close"
    /\ made' = [made EXCEPT ![holds[c]] = "closed"]
    /\ Cleaned(c)
    /\ UNCHANGED <<host, pool, channel, memory, wants, verdict, panicked>>

\* Close closes the channel and what is in it, then the runtime and every instance; only
\* the guardrail and the gateway plugin set the channel to nil.
CloseChannel ==
    /\ channel = "open" /\ ~panicked
    /\ channel' = "closed"
    /\ UNCHANGED <<host, made, pool, memory, wants, callAt, holds, cleanup, verdict, panicked>>

CloseRuntime ==
    /\ channel = "closed" /\ ~panicked
    /\ pool' = <<>>
    /\ channel' = IF host = "filter" THEN "closed" ELSE "nil"
    /\ made' = [i \in Instances |-> IF made[i] = "open" THEN "closed" ELSE made[i]]
    /\ UNCHANGED <<host, memory, wants, callAt, holds, cleanup, verdict, panicked>>

\* The next request.
NextCall(c) ==
    /\ AtPoint(c, "done")
    /\ Answer(c, "none", "start")
    /\ UNCHANGED <<host, made, pool, channel, memory, wants, holds, cleanup, panicked>>

PoolNext ==
    \/ CloseChannel \/ CloseRuntime
    \/ \E c \in WasmCalls :
          \/ NextCall(c)
          \/ TakeInstance(c) \/ newInstance(c) \/ WriteInput(c) \/ CallGuest(c) \/ ReadOutput(c)
          \/ ReturnOnce(c) \/ ReturnToClosed(c) \/ closeInstance(c)

PoolSpec == PoolInit /\ [][PoolNext]_poolVars

-----------------------------------------------------------------------------
(* Properties.                                                              *)

\* The types of the state; the channel never holds more than its capacity, and only
\* instances that were made.
PoolTypeOK ==
    /\ made \in [Instances -> {"none", "open", "closed", "exited"}]
    /\ Len(pool) <= PoolSize /\ \A n \in DOMAIN pool : made[pool[n]] # "none"
    /\ channel \in {"open", "closed", "nil"}
    /\ \A c \in WasmCalls : callAt[c] \in {"write", "call", "read", "clean"} => holds[c] \in Instances
    /\ verdict \in [WasmCalls -> {"none", "allow", "block"}]

InUse(c) == callAt[c] \in {"write", "call", "read", "clean"}
Pooled(i) == {n \in DOMAIN pool : pool[n] = i}

\* "Implementations must be safe for concurrent use": no two calls work in the memory of
\* the same instance.
OneCallAnInstance ==
    \A c, d \in WasmCalls :
        c # d /\ {callAt[c], callAt[d]} \subseteq {"write", "call", "read"} => holds[c] # holds[d]

\* The request filter gives an instance back once, so that none is in the pool twice or
\* there while a call has it, and none there was closed by the host while the pool is in use: only one whose
\* guest has ended it is given back all the same.
FilterPoolSound ==
    host = "filter" /\ channel = "open" =>
        /\ OneCallAnInstance
        /\ \A i \in Instances : Cardinality(Pooled(i)) + Cardinality({c \in WasmCalls : InUse(c) /\ holds[c] = i}) <= 1
        /\ \A n \in DOMAIN pool : made[pool[n]] \in {"open", "exited"}

\* What a filter answers is about the request it was asked about: a request the guest
\* allows is blocked only when the guest failed on it, and none is let through by the
\* verdict on another.
OwnVerdict ==
    host = "filter" => \A c \in WasmCalls : callAt[c] = "read" => memory[holds[c]].out = c

\* No instance is forgotten: whatever is open is in the pool or in a call's hands, under
\* each of the three disciplines, so that the runtime's memory is bounded by the pool and
\* the calls in flight.
NoneForgotten ==
    ~panicked => \A i \in Instances :
        made[i] = "open" => Pooled(i) # {} \/ \E c \in WasmCalls : InUse(c) /\ holds[c] = i

\* The pool of instances of a filter (Process, returnInstance): an instance serves one
\* call at a time, the verdict is about the call's own request, and no instance is forgotten.
PoolSound == PoolTypeOK /\ FilterPoolSound /\ OwnVerdict /\ NoneForgotten
=============================================================================

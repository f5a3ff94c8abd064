----------------------------- MODULE PathProofs -----------------------------
(***************************************************************************)
(* Proofs about what a request passes on its way: the pools of WebAssembly *)
(* instances (WasmPool), the rows that the bus makes of a response         *)
(* (ResponseRecords), the caches of answers (ResponseCache), the token     *)
(* buckets (RateLimiter) and the policies of services (ServicePolicy).     *)
(***************************************************************************)
EXTENDS MCRequestPath, SequenceTheorems, WellFoundedInduction, FiniteSetTheorems, TLAPS

-----------------------------------------------------------------------------
(* WasmPool.                                                               *)

Stages == {"start", "write", "call", "read", "clean", "done"}
Cleanups == {<<>>, <<"return">>, <<"return", "return">>, <<"close", "return">>}
Memories == [in : WasmCalls \cup {"none"}, out : WasmCalls \cup {"none", "junk"}]

PoolTypes ==
    /\ PoolTypeOK
    /\ host \in {"filter", "guardrail", "gateway"} /\ (host = "filter" => channel # "nil")
    /\ pool \in Seq(Instances)
    /\ memory \in [Instances -> Memories]
    /\ wants \in [WasmCalls -> {"allow", "block"}]
    /\ callAt \in [WasmCalls -> Stages]
    /\ holds \in [WasmCalls -> Instances \cup {NoInstance}]
    /\ cleanup \in [WasmCalls -> Cleanups]

Has(p, i) == \E n \in DOMAIN p : p[n] = i

\* What a call has still to do with its instance: the last thing is to return it.
CleanupGood ==
    \A c \in WasmCalls :
        /\ callAt[c] = "clean" => cleanup[c] # <<>> /\ (host = "filter" => cleanup[c] = <<"return">>)
        /\ InUse(c) => made[holds[c]] # "none"

\* An open instance is in the pool or in the hands of a call.
Known == \A i \in Instances : made[i] = "open" => Has(pool, i) \/ \E c \in WasmCalls : InUse(c) /\ holds[c] = i

\* The filter: an instance is in one place.
Exclusive ==
    host = "filter" =>
        /\ \A m, n \in DOMAIN pool : pool[m] = pool[n] => m = n
        /\ \A c \in WasmCalls : InUse(c) => ~Has(pool, holds[c])
        /\ \A c, d \in WasmCalls : InUse(c) /\ InUse(d) /\ holds[c] = holds[d] => c = d
        /\ channel = "open" => \A n \in DOMAIN pool : made[pool[n]] \in {"open", "exited"}
        /\ channel = "open" => \A c \in WasmCalls : InUse(c) => made[holds[c]] \in {"open", "exited"}

\* Its memory holds the request of the call that has it.
OwnMemory ==
    host = "filter" =>
        \A c \in WasmCalls : /\ callAt[c] = "call" => memory[holds[c]].in = c
                             /\ callAt[c] = "read" => memory[holds[c]].out = c

PoolInv == PoolTypes /\ CleanupGood /\ Known /\ Exclusive /\ OwnMemory

LEMMA TailFacts ==
    ASSUME NEW p \in Seq(Instances), p # <<>>
    PROVE  /\ Head(p) \in Instances /\ 1 \in DOMAIN p /\ Head(p) = p[1]
           /\ Tail(p) \in Seq(Instances) /\ Len(Tail(p)) = Len(p) - 1
           /\ \A n \in DOMAIN Tail(p) : n + 1 \in DOMAIN p /\ n + 1 # 1 /\ Tail(p)[n] = p[n + 1]
           /\ \A n \in DOMAIN p : n # 1 => n - 1 \in DOMAIN Tail(p) /\ Tail(p)[n - 1] = p[n]
OBVIOUS

LEMMA AppendFacts ==
    ASSUME NEW p \in Seq(Instances), NEW i \in Instances
    PROVE  /\ Append(p, i) \in Seq(Instances) /\ Len(Append(p, i)) = Len(p) + 1
           /\ \A n \in DOMAIN p : n \in DOMAIN Append(p, i) /\ n # Len(p) + 1 /\ Append(p, i)[n] = p[n]
           /\ Len(p) + 1 \in DOMAIN Append(p, i) /\ Append(p, i)[Len(p) + 1] = i
           /\ \A n \in DOMAIN Append(p, i) : n \in DOMAIN p \/ n = Len(p) + 1
OBVIOUS

LEMMA PoolInitially == PoolInit => PoolInv
<1> SUFFICES ASSUME PoolInit PROVE PoolInv
  OBVIOUS
<1> USE PoolAssumption DEF PoolAssumption
<1>1. PICK k \in 1 .. 2 : k <= PoolSize /\ pool \in [1 .. k -> Instances] /\ \A m, n \in DOMAIN pool : pool[m] = pool[n] => m = n
  BY DEF PoolInit
<1>2. pool \in Seq(Instances) /\ Len(pool) = k /\ DOMAIN pool = 1 .. k
  BY <1>1
<1>3. made = [i \in Instances |-> IF \E n \in DOMAIN pool : pool[n] = i THEN "open" ELSE "none"]
  BY DEF PoolInit
<1>4. \A n \in DOMAIN pool : pool[n] \in Instances /\ made[pool[n]] \in {"open", "exited"}
  BY <1>1, <1>3
<1>5. PoolTypeOK
  BY <1>1, <1>2, <1>3, <1>4 DEF PoolInit, PoolTypeOK
<1>6. PoolTypes
  BY <1>2, <1>5 DEF PoolInit, PoolTypes, Stages, Cleanups, Memories, Blank2
<1>7. CleanupGood /\ OwnMemory
  BY DEF PoolInit, CleanupGood, OwnMemory, InUse
<1>8. Known
  BY <1>3 DEF Known, Has
<1>9. Exclusive
  BY <1>1, <1>4 DEF PoolInit, Exclusive, InUse
<1> QED BY <1>6, <1>7, <1>8, <1>9 DEF PoolInv

\* What the invariant says of one call.
LEMMA CallFacts ==
    ASSUME PoolInv, NEW c \in WasmCalls
    PROVE  /\ callAt[c] \in Stages /\ holds[c] \in Instances \cup {NoInstance} /\ cleanup[c] \in Cleanups
           /\ InUse(c) => holds[c] \in Instances
           /\ wants[c] \in {"allow", "block"}
BY DEF PoolInv, PoolTypes, PoolTypeOK, InUse

LEMMA TakeStep ==
    ASSUME PoolInv, NEW c \in WasmCalls, TakeInstance(c)
    PROVE  PoolInv'
<1>0. callAt[c] = "start" /\ UNCHANGED <<host, channel, memory, wants, cleanup>>
  BY DEF TakeInstance, AtPoint
<1>1. CASE UNCHANGED <<made, pool, callAt, holds, verdict>>
  BY <1>0, <1>1 DEF PoolInv, PoolTypes, PoolTypeOK, CleanupGood, Known, Exclusive, OwnMemory, InUse, Has
<1>2. CASE /\ pool # <<>> /\ holds' = [holds EXCEPT ![c] = Head(pool)] /\ pool' = Tail(pool)
           /\ GoOn(c, "write") /\ UNCHANGED <<made, verdict, panicked>>
  <2>0. /\ pool \in Seq(Instances) /\ callAt \in [WasmCalls -> Stages] /\ holds \in [WasmCalls -> Instances \cup {NoInstance}]
        /\ made \in [Instances -> {"none", "open", "closed", "exited"}]
    BY DEF PoolInv, PoolTypes, PoolTypeOK
  <2>1. /\ Head(pool) \in Instances /\ 1 \in DOMAIN pool /\ Head(pool) = pool[1]
        /\ pool' \in Seq(Instances) /\ Len(pool') = Len(pool) - 1
        /\ \A n \in DOMAIN pool' : n + 1 \in DOMAIN pool /\ n + 1 # 1 /\ pool'[n] = pool[n + 1]
        /\ \A n \in DOMAIN pool : n # 1 => n - 1 \in DOMAIN pool' /\ pool'[n - 1] = pool[n]
    BY <1>2, <2>0, TailFacts
  <2>2. PICK i \in Instances : i = pool[1]
    BY <2>1
  <2>3. /\ callAt' \in [WasmCalls -> Stages] /\ holds' \in [WasmCalls -> Instances \cup {NoInstance}]
        /\ callAt'[c] = "write" /\ holds'[c] = i
        /\ \A d \in WasmCalls : d # c => callAt'[d] = callAt[d] /\ holds'[d] = holds[d]
    BY <1>2, <2>0, <2>1, <2>2 DEF GoOn, Stages
  <2>4. InUse(c)' /\ \A d \in WasmCalls : d # c => (InUse(d)' <=> InUse(d))
    BY <2>3 DEF InUse
  <2>5. \A j : Has(pool', j) => Has(pool, j)
    BY <2>1 DEF Has
  <2>6. \A j : Has(pool, j) => Has(pool', j) \/ j = i
    BY <2>1, <2>2 DEF Has
  <2>7. made[i] # "none" /\ \A n \in DOMAIN pool' : made[pool'[n]] # "none"
    <3>1. \A n \in DOMAIN pool : made[pool[n]] # "none"
      BY DEF PoolInv, PoolTypes, PoolTypeOK
    <3> QED BY <2>1, <2>2, <3>1
  <2>8. PoolTypes'
    <3>1. Len(pool') <= PoolSize
      BY <2>0, <2>1, PoolAssumption DEF PoolInv, PoolTypes, PoolTypeOK, PoolAssumption
    <3>2. \A d \in WasmCalls : callAt'[d] \in {"write", "call", "read", "clean"} => holds'[d] \in Instances
      BY <2>3 DEF PoolInv, PoolTypes, PoolTypeOK
    <3> QED BY <1>0, <1>2, <2>0, <2>1, <2>3, <2>7, <3>1, <3>2 DEF PoolInv, PoolTypes, PoolTypeOK
  <2>9. CleanupGood'
    BY <1>0, <1>2, <2>3, <2>4, <2>7 DEF PoolInv, CleanupGood
  <2>10. Known'
    <3>1. ASSUME NEW j \in Instances, made'[j] = "open"
          PROVE  Has(pool', j) \/ \E d \in WasmCalls : InUse(d)' /\ holds'[d] = j
      <4>1. Has(pool, j) \/ \E d \in WasmCalls : InUse(d) /\ holds[d] = j
        BY <1>2, <3>1 DEF PoolInv, Known
      <4>2. CASE j = i
        BY <2>3, <2>4, <4>2
      <4>3. CASE j # i /\ Has(pool, j)
        BY <2>6, <4>3
      <4>4. ASSUME NEW d \in WasmCalls, InUse(d), holds[d] = j
            PROVE  \E e \in WasmCalls : InUse(e)' /\ holds'[e] = j
        <5>1. d # c
          BY <1>0, <4>4 DEF InUse
        <5> QED BY <2>3, <2>4, <4>4, <5>1
      <4> QED BY <4>1, <4>2, <4>3, <4>4
    <3> QED BY <3>1 DEF Known
  <2>11. Exclusive'
    <3> SUFFICES ASSUME host = "filter" PROVE Exclusive'
      BY <1>0 DEF Exclusive
    <3>1. /\ \A m, n \in DOMAIN pool : pool[m] = pool[n] => m = n
          /\ \A d \in WasmCalls : InUse(d) => ~Has(pool, holds[d])
          /\ \A d, e \in WasmCalls : InUse(d) /\ InUse(e) /\ holds[d] = holds[e] => d = e
          /\ channel = "open" => \A n \in DOMAIN pool : made[pool[n]] \in {"open", "exited"}
          /\ channel = "open" => \A d \in WasmCalls : InUse(d) => made[holds[d]] \in {"open", "exited"}
      BY DEF PoolInv, Exclusive
    <3>2. \A m, n \in DOMAIN pool' : pool'[m] = pool'[n] => m = n
      BY <2>0, <2>1, <3>1
    <3>3. ~Has(pool', i)
      BY <2>1, <2>2, <3>1 DEF Has
    <3>4. Has(pool, i)
      BY <2>1, <2>2 DEF Has
    <3>5. \A d \in WasmCalls : InUse(d)' => ~Has(pool', holds'[d])
      BY <2>3, <2>4, <2>5, <3>1, <3>3
    <3>6. \A d, e \in WasmCalls : InUse(d)' /\ InUse(e)' /\ holds'[d] = holds'[e] => d = e
      BY <2>3, <2>4, <3>1, <3>4
    <3>7. channel = "open" => \A n \in DOMAIN pool' : made[pool'[n]] \in {"open", "exited"}
      BY <2>1, <3>1
    <3>8. channel = "open" => \A d \in WasmCalls : InUse(d)' => made[holds'[d]] \in {"open", "exited"}
      BY <2>1, <2>2, <2>3, <2>4, <3>1
    <3> QED BY <1>0, <1>2, <3>2, <3>5, <3>6, <3>7, <3>8 DEF Exclusive, Has
  <2>12. OwnMemory'
    BY <1>0, <2>3 DEF PoolInv, OwnMemory
  <2> QED BY <2>8, <2>9, <2>10, <2>11, <2>12 DEF PoolInv
<1> QED BY <1>1, <1>2 DEF TakeInstance

LEMMA NewStep ==
    ASSUME PoolInv, NEW c \in WasmCalls, newInstance(c)
    PROVE  PoolInv'
<1>0. /\ callAt[c] = "start" /\ UNCHANGED <<host, pool, channel, memory, wants, cleanup, panicked>>
      /\ callAt \in [WasmCalls -> Stages] /\ holds \in [WasmCalls -> Instances \cup {NoInstance}]
      /\ made \in [Instances -> {"none", "open", "closed", "exited"}] /\ verdict \in [WasmCalls -> {"none", "allow", "block"}]
  BY DEF newInstance, AtPoint, PoolInv, PoolTypes, PoolTypeOK
<1>1. ASSUME NEW i \in Instances, made[i] = "none", made' = [made EXCEPT ![i] = "open"],
             holds' = [holds EXCEPT ![c] = i], GoOn(c, "write"), UNCHANGED verdict
      PROVE  PoolInv'
  <2>1. /\ callAt' \in [WasmCalls -> Stages] /\ holds' \in [WasmCalls -> Instances \cup {NoInstance}]
        /\ callAt'[c] = "write" /\ holds'[c] = i
        /\ \A d \in WasmCalls : d # c => callAt'[d] = callAt[d] /\ holds'[d] = holds[d]
    BY <1>0, <1>1 DEF GoOn, Stages
  <2>2. /\ made' \in [Instances -> {"none", "open", "closed", "exited"}] /\ made'[i] = "open"
        /\ \A j \in Instances : j # i => made'[j] = made[j]
    BY <1>0, <1>1
  <2>3. \A d \in WasmCalls : d # c => (InUse(d)' <=> InUse(d))
    BY <2>1 DEF InUse
  <2>4. InUse(c)'
    BY <2>1 DEF InUse
  <2>5. \A d \in WasmCalls : InUse(d) => d # c /\ holds[d] \in Instances /\ holds[d] # i
    BY <1>0, <1>1 DEF PoolInv, PoolTypes, PoolTypeOK, CleanupGood, InUse
  <2>6. \A n \in DOMAIN pool : pool[n] \in Instances /\ pool[n] # i
    BY <1>1 DEF PoolInv, PoolTypes, PoolTypeOK
  <2>7. PoolTypes'
    <3>1. \A d \in WasmCalls : callAt'[d] \in {"write", "call", "read", "clean"} => holds'[d] \in Instances
      BY <2>1 DEF PoolInv, PoolTypes, PoolTypeOK
    <3>2. \A n \in DOMAIN pool' : made'[pool'[n]] # "none"
      BY <1>0, <2>2, <2>6 DEF PoolInv, PoolTypes, PoolTypeOK
    <3> QED BY <1>0, <1>1, <2>1, <2>2, <3>1, <3>2 DEF PoolInv, PoolTypes, PoolTypeOK
  <2>8. CleanupGood'
    BY <1>0, <2>1, <2>2, <2>3, <2>4, <2>5 DEF PoolInv, CleanupGood
  <2>9. Known'
    <3>1. ASSUME NEW j \in Instances, made'[j] = "open", j # i
          PROVE  Has(pool', j) \/ \E d \in WasmCalls : InUse(d)' /\ holds'[d] = j
      <4>1. Has(pool, j) \/ \E d \in WasmCalls : InUse(d) /\ holds[d] = j
        BY <2>2, <3>1 DEF PoolInv, Known
      <4>2. ASSUME NEW d \in WasmCalls, InUse(d), holds[d] = j
            PROVE  \E e \in WasmCalls : InUse(e)' /\ holds'[e] = j
        BY <2>1, <2>3, <2>5, <4>2
      <4> QED BY <1>0, <4>1, <4>2
    <3> QED BY <2>1, <2>4, <3>1 DEF Known
  <2>10. Exclusive'
    <3> SUFFICES ASSUME host = "filter" PROVE Exclusive'
      BY <1>0 DEF Exclusive
    <3>1. /\ \A m, n \in DOMAIN pool : pool[m] = pool[n] => m = n
          /\ \A d \in WasmCalls : InUse(d) => ~Has(pool, holds[d])
          /\ \A d, e \in WasmCalls : InUse(d) /\ InUse(e) /\ holds[d] = holds[e] => d = e
          /\ channel = "open" => \A n \in DOMAIN pool : made[pool[n]] \in {"open", "exited"}
          /\ channel = "open" => \A d \in WasmCalls : InUse(d) => made[holds[d]] \in {"open", "exited"}
      BY DEF PoolInv, Exclusive
    <3>2. ~Has(pool, i)
      BY <2>6 DEF Has
    <3>3. \A d \in WasmCalls : InUse(d)' => ~Has(pool', holds'[d])
      BY <1>0, <2>1, <2>3, <3>1, <3>2
    <3>4. \A d, e \in WasmCalls : InUse(d)' /\ InUse(e)' /\ holds'[d] = holds'[e] => d = e
      BY <2>1, <2>3, <2>5, <3>1
    <3>5. channel = "open" => \A n \in DOMAIN pool : made'[pool[n]] \in {"open", "exited"}
      BY <2>2, <2>6, <3>1
    <3>6. channel = "open" => \A d \in WasmCalls : InUse(d)' => made'[holds'[d]] \in {"open", "exited"}
      BY <2>1, <2>2, <2>3, <2>5, <3>1
    <3> QED BY <1>0, <3>1, <3>3, <3>4, <3>5, <3>6 DEF Exclusive
  <2>11. OwnMemory'
    BY <1>0, <2>1 DEF PoolInv, OwnMemory
  <2> QED BY <2>7, <2>8, <2>9, <2>10, <2>11 DEF PoolInv
<1>2. CASE Answer(c, "allow", "done") /\ UNCHANGED <<made, holds>>
  <2>1. /\ callAt' \in [WasmCalls -> Stages] /\ callAt'[c] = "done"
        /\ \A d \in WasmCalls : d # c => callAt'[d] = callAt[d]
        /\ verdict' \in [WasmCalls -> {"none", "allow", "block"}]
    BY <1>0, <1>2 DEF Answer, GoOn, Stages
  <2>2. \A d \in WasmCalls : InUse(d)' <=> InUse(d)
    BY <1>0, <2>1 DEF InUse
  <2>3. PoolTypes'
    BY <1>0, <1>2, <2>1 DEF PoolInv, PoolTypes, PoolTypeOK
  <2>4. CleanupGood'
    BY <1>0, <1>2, <2>1, <2>2 DEF PoolInv, CleanupGood
  <2>5. Known' /\ Exclusive'
    BY <1>0, <1>2, <2>2 DEF PoolInv, Known, Exclusive
  <2>6. OwnMemory'
    BY <1>0, <1>2, <2>1 DEF PoolInv, OwnMemory
  <2> QED BY <2>3, <2>4, <2>5, <2>6 DEF PoolInv
<1> QED BY <1>1, <1>2 DEF newInstance

\* A call works in the memory of its instance and goes on to another stage of its use.
LEMMA WorkStep ==
    ASSUME PoolInv, NEW c \in WasmCalls, InUse(c), NEW next \in {"write", "call", "read", "clean"}, GoOn(c, next),
           UNCHANGED <<host, pool, channel, wants, holds>>,
           (UNCHANGED made) \/ (made[holds[c]] = "open" /\ made' = [made EXCEPT ![holds[c]] = "exited"]),
           memory' \in [Instances -> Memories],
           \A i \in Instances : i # holds[c] => memory'[i] = memory[i],
           cleanup' \in [WasmCalls -> Cleanups], \A d \in WasmCalls : d # c => cleanup'[d] = cleanup[d],
           verdict' \in [WasmCalls -> {"none", "allow", "block"}],
           next = "clean" => cleanup'[c] # <<>> /\ (host = "filter" => cleanup'[c] = <<"return">>),
           next = "call" => memory'[holds[c]].in = c,
           next = "read" => memory'[holds[c]].out = c \/ host # "filter"
    PROVE  PoolInv'
<1>0. callAt \in [WasmCalls -> Stages] /\ holds[c] \in Instances
  BY CallFacts DEF PoolInv, PoolTypes
<1>1. callAt' \in [WasmCalls -> Stages] /\ callAt'[c] = next /\ \A d \in WasmCalls : d # c => callAt'[d] = callAt[d]
  BY <1>0 DEF GoOn, Stages
<1>2. \A d \in WasmCalls : InUse(d)' <=> InUse(d)
  BY <1>1 DEF InUse
<1>a. /\ made \in [Instances -> {"none", "open", "closed", "exited"}] /\ pool \in Seq(Instances)
      /\ \A n \in DOMAIN pool : pool[n] \in Instances /\ made[pool[n]] # "none"
      /\ \A d \in WasmCalls : InUse(d) => holds[d] \in Instances
  BY CallFacts DEF PoolInv, PoolTypes, PoolTypeOK
<1>b. /\ made' \in [Instances -> {"none", "open", "closed", "exited"}]
      /\ \A i \in Instances : made'[i] = made[i] \/ (made[i] = "open" /\ made'[i] = "exited")
  BY <1>a, <1>0
<1>3. PoolTypes'
  <2>1. \A n \in DOMAIN pool : made'[pool[n]] # "none"
    BY <1>a, <1>b
  <2> QED BY <2>1, <1>0, <1>1, <1>b DEF PoolInv, PoolTypes, PoolTypeOK
<1>4. CleanupGood'
  <2>1. \A d \in WasmCalls : InUse(d) => made'[holds[d]] # "none"
    BY <1>a, <1>b DEF PoolInv, CleanupGood
  <2> QED BY <2>1, <1>1, <1>2 DEF PoolInv, CleanupGood
<1>5. Known' /\ Exclusive'
  <2>1. Known'
    BY <1>2, <1>b DEF PoolInv, Known
  <2>2. host = "filter" /\ channel = "open" => \A n \in DOMAIN pool : made'[pool[n]] \in {"open", "exited"}
    BY <1>a, <1>b DEF PoolInv, Exclusive
  <2>3. host = "filter" /\ channel = "open" => \A d \in WasmCalls : InUse(d) => made'[holds[d]] \in {"open", "exited"}
    BY <1>a, <1>b DEF PoolInv, Exclusive
  <2> QED BY <2>1, <2>2, <2>3, <1>2 DEF PoolInv, Exclusive
<1>6. OwnMemory'
  <2> SUFFICES ASSUME host = "filter", NEW d \in WasmCalls
               PROVE  /\ callAt'[d] = "call" => memory'[holds[d]].in = d
                      /\ callAt'[d] = "read" => memory'[holds[d]].out = d
    BY DEF OwnMemory
  <2>1. CASE d = c
    BY <1>1, <2>1
  <2>2. CASE d # c
    <3>1. InUse(d) => holds[d] # holds[c] /\ holds[d] \in Instances
      BY <2>2, CallFacts DEF PoolInv, Exclusive
    <3>2. InUse(d) => memory'[holds[d]] = memory[holds[d]]
      BY <3>1
    <3>3. callAt'[d] \in {"call", "read"} => InUse(d) /\ callAt'[d] = callAt[d]
      BY <1>1, <2>2 DEF InUse
    <3> QED BY <3>2, <3>3 DEF PoolInv, OwnMemory
  <2> QED BY <2>1, <2>2
<1> QED BY <1>3, <1>4, <1>5, <1>6 DEF PoolInv

LEMMA WriteStep ==
    ASSUME PoolInv, NEW c \in WasmCalls, WriteInput(c)
    PROVE  PoolInv'
<1>0. /\ callAt[c] = "write" /\ InUse(c) /\ holds[c] \in Instances /\ memory \in [Instances -> Memories]
      /\ UNCHANGED <<host, made, pool, channel, wants, holds, cleanup, verdict, panicked>> /\ GoOn(c, "call")
  BY CallFacts DEF WriteInput, AtPoint, InUse, PoolInv, PoolTypes
<1>1. PICK o, m : /\ o \in {memory[holds[c]].out, "junk"} /\ m = [in |-> c, out |-> o]
                  /\ memory' = [memory EXCEPT ![holds[c]] = m]
  BY DEF WriteInput
<1>2. memory[holds[c]] \in Memories
  BY <1>0
<1>3. m \in Memories /\ m.in = c
  BY <1>1, <1>2 DEF Memories
<1>4. memory' \in [Instances -> Memories] /\ memory'[holds[c]].in = c /\ \A i \in Instances : i # holds[c] => memory'[i] = memory[i]
  BY <1>0, <1>1, <1>3
<1>5. cleanup' \in [WasmCalls -> Cleanups] /\ verdict' \in [WasmCalls -> {"none", "allow", "block"}]
  BY <1>0 DEF PoolInv, PoolTypes, PoolTypeOK
<1> QED BY <1>0, <1>4, <1>5, WorkStep

LEMMA TreatFacts ==
    ASSUME PoolInv, NEW outcome, NEW v \in {"allow", "block"}
    PROVE  /\ Treat(outcome, v).answer \in {"none", "allow", "block"}
           /\ Treat(outcome, v).cleanup \in Cleanups /\ Treat(outcome, v).cleanup # <<>>
           /\ host = "filter" => Treat(outcome, v).cleanup = <<"return">>
<1>1. host \in {"filter", "guardrail", "gateway"}
  BY DEF PoolInv, PoolTypes
<1>2. CASE host = "filter"
  BY <1>2 DEF Treat, FilterProcess, Cleanups
<1>3. CASE host = "guardrail"
  BY <1>3 DEF Treat, EvaluateGuardrail, Cleanups
<1>4. CASE host = "gateway"
  BY <1>4 DEF Treat, ProcessGateway, Cleanups
<1> QED BY <1>1, <1>2, <1>3, <1>4

LEMMA SettleStep ==
    ASSUME PoolInv, NEW c \in WasmCalls, InUse(c), NEW outcome, NEW v \in {"allow", "block"}, Settle(c, outcome, v),
           UNCHANGED <<host, pool, channel, memory, wants, holds, panicked>>,
           (UNCHANGED made) \/ (made[holds[c]] = "open" /\ made' = [made EXCEPT ![holds[c]] = "exited"])
    PROVE  PoolInv'
<1>1. PICK a, l : /\ a = Treat(outcome, v).answer /\ l = Treat(outcome, v).cleanup
                  /\ verdict' = [verdict EXCEPT ![c] = a] /\ cleanup' = [cleanup EXCEPT ![c] = l]
  BY DEF Settle
<1>2. a \in {"none", "allow", "block"} /\ l \in Cleanups /\ l # <<>> /\ (host = "filter" => l = <<"return">>)
  BY <1>1, TreatFacts
<1>3. /\ verdict \in [WasmCalls -> {"none", "allow", "block"}] /\ cleanup \in [WasmCalls -> Cleanups]
      /\ memory' \in [Instances -> Memories]
  BY DEF PoolInv, PoolTypes, PoolTypeOK
<1>4. /\ verdict' \in [WasmCalls -> {"none", "allow", "block"}] /\ cleanup' \in [WasmCalls -> Cleanups]
      /\ cleanup'[c] = l /\ \A d \in WasmCalls : d # c => cleanup'[d] = cleanup[d]
  BY <1>1, <1>2, <1>3
<1>5. GoOn(c, "clean")
  BY DEF Settle
<1> QED BY <1>2, <1>3, <1>4, <1>5, WorkStep

LEMMA GuestStep ==
    ASSUME PoolInv, NEW c \in WasmCalls, CallGuest(c)
    PROVE  PoolInv'
<1>0. /\ callAt[c] = "call" /\ InUse(c) /\ holds[c] \in Instances /\ memory \in [Instances -> Memories]
      /\ UNCHANGED <<host, pool, channel, wants, holds, panicked>>
  BY CallFacts DEF CallGuest, AtPoint, InUse, PoolInv, PoolTypes
<1>1. CASE /\ \E outcome : Settle(c, outcome, "allow")
           /\ (UNCHANGED made) \/ (made[holds[c]] = "open" /\ made' = [made EXCEPT ![holds[c]] = "exited"])
           /\ UNCHANGED memory
  BY <1>0, <1>1, SettleStep
<1>2. CASE /\ memory' = [memory EXCEPT ![holds[c]].out = memory[holds[c]].in] /\ GoOn(c, "read")
           /\ UNCHANGED <<made, cleanup, verdict>>
  <2>1. PICK m : m = [memory[holds[c]] EXCEPT !.out = memory[holds[c]].in]
    OBVIOUS
  <2>2. memory[holds[c]] \in Memories /\ memory' = [memory EXCEPT ![holds[c]] = m]
    BY <1>0, <1>2, <2>1
  <2>3. m \in Memories /\ m.out = memory[holds[c]].in
    BY <2>1, <2>2 DEF Memories
  <2>4. memory' \in [Instances -> Memories] /\ memory'[holds[c]] = m /\ \A i \in Instances : i # holds[c] => memory'[i] = memory[i]
    BY <1>0, <2>2, <2>3
  <2>5. host = "filter" => m.out = c
    BY <1>0, <2>3 DEF PoolInv, OwnMemory
  <2>6. cleanup' \in [WasmCalls -> Cleanups] /\ verdict' \in [WasmCalls -> {"none", "allow", "block"}]
    BY <1>2 DEF PoolInv, PoolTypes, PoolTypeOK
  <2> QED BY <1>0, <1>2, <2>4, <2>5, <2>6, WorkStep
<1> QED BY <1>1, <1>2 DEF CallGuest

LEMMA ReadStep ==
    ASSUME PoolInv, NEW c \in WasmCalls, ReadOutput(c)
    PROVE  PoolInv'
<1>0. InUse(c) /\ UNCHANGED <<host, made, pool, channel, memory, wants, holds, panicked>>
  BY DEF ReadOutput, AtPoint, InUse
<1>1. ASSUME NEW o \in WasmCalls, Settle(c, "verdict", wants[o])
      PROVE  PoolInv'
  <2>1. wants[o] \in {"allow", "block"}
    BY CallFacts
  <2> QED BY <1>0, <1>1, <2>1, SettleStep
<1>2. CASE Settle(c, "garbled", "allow")
  BY <1>0, <1>2, SettleStep
<1> QED BY <1>1, <1>2 DEF ReadOutput

\* A call gives its instance back, or closes it, and has done so for the last time or not.
LEMMA CleanStep ==
    ASSUME PoolInv, NEW c \in WasmCalls, callAt[c] = "clean", Cleaned(c),
           UNCHANGED <<host, channel, memory, wants, verdict>>,
           \/ Len(pool) < PoolSize /\ pool' = Append(pool, holds[c]) /\ UNCHANGED made
           \/ made' = [made EXCEPT ![holds[c]] = "closed"] /\ UNCHANGED pool
    PROVE  PoolInv'
<1> USE PoolAssumption DEF PoolAssumption
<1>0. /\ InUse(c) /\ holds[c] \in Instances /\ callAt \in [WasmCalls -> Stages] /\ pool \in Seq(Instances)
      /\ holds \in [WasmCalls -> Instances \cup {NoInstance}] /\ cleanup \in [WasmCalls -> Cleanups]
      /\ made \in [Instances -> {"none", "open", "closed", "exited"}] /\ made[holds[c]] # "none" /\ Len(pool) <= PoolSize
      /\ \A n \in DOMAIN pool : pool[n] \in Instances /\ made[pool[n]] # "none"
  BY CallFacts DEF InUse, PoolInv, PoolTypes, PoolTypeOK, CleanupGood
<1>1. PICK i \in Instances : i = holds[c]
  BY <1>0
<1>2. /\ cleanup[c] \in {<<"return">>, <<"return", "return">>, <<"close", "return">>}
      /\ host = "filter" => cleanup[c] = <<"return">>
  BY <1>0 DEF PoolInv, CleanupGood, Cleanups
<1>3. \/ /\ cleanup[c] = <<"return">> /\ callAt' = [callAt EXCEPT ![c] = "done"]
         /\ holds' = [holds EXCEPT ![c] = NoInstance] /\ Tail(cleanup[c]) = <<>>
      \/ Tail(cleanup[c]) = <<"return">> /\ host # "filter" /\ UNCHANGED <<callAt, holds>>
  <2>1. CASE cleanup[c] = <<"return">>
    <3>1. Len(<<"return">>) = 1 /\ Tail(<<"return">>) = <<>>
      OBVIOUS
    <3> QED BY <2>1, <3>1 DEF Cleaned, GoOn
  <2>2. CASE cleanup[c] = <<"return", "return">>
    <3>1. Len(<<"return", "return">>) = 2 /\ Tail(<<"return", "return">>) = <<"return">>
          /\ <<"return", "return">> # <<"return">>
      OBVIOUS
    <3> QED BY <1>2, <2>2, <3>1 DEF Cleaned, GoOn
  <2>3. CASE cleanup[c] = <<"close", "return">>
    <3>1. Len(<<"close", "return">>) = 2 /\ Tail(<<"close", "return">>) = <<"return">>
          /\ <<"close", "return">> # <<"return">>
      OBVIOUS
    <3> QED BY <1>2, <2>3, <3>1 DEF Cleaned, GoOn
  <2> QED BY <1>2, <2>1, <2>2, <2>3
<1>4. /\ cleanup' \in [WasmCalls -> Cleanups] /\ cleanup'[c] \in {<<>>, <<"return">>}
      /\ cleanup'[c] = Tail(cleanup[c]) /\ \A d \in WasmCalls : d # c => cleanup'[d] = cleanup[d]
  <2>1. PICK l : l = Tail(cleanup[c])
    OBVIOUS
  <2>2. l \in {<<>>, <<"return">>} /\ l \in Cleanups
    BY <1>3, <2>1 DEF Cleanups
  <2>3. cleanup' = [cleanup EXCEPT ![c] = l]
    BY <2>1 DEF Cleaned
  <2> QED BY <1>0, <2>1, <2>2, <2>3
<1>5. /\ callAt' \in [WasmCalls -> Stages] /\ holds' \in [WasmCalls -> Instances \cup {NoInstance}]
      /\ \A d \in WasmCalls : d # c => callAt'[d] = callAt[d] /\ holds'[d] = holds[d]
  BY <1>0, <1>3 DEF Stages
<1>6. \/ callAt'[c] = "done" /\ ~InUse(c)'
      \/ callAt'[c] = "clean" /\ InUse(c)' /\ holds'[c] = i /\ host # "filter" /\ cleanup'[c] = <<"return">>
  BY <1>0, <1>1, <1>3, <1>4 DEF InUse
<1>7. \A d \in WasmCalls : d # c => (InUse(d)' <=> InUse(d))
  BY <1>5 DEF InUse
<1>8. /\ pool' \in Seq(Instances) /\ Len(pool') <= PoolSize
      /\ \A j : Has(pool, j) => Has(pool', j)
      /\ \A j : Has(pool', j) => Has(pool, j) \/ j = i
  <2>1. CASE Len(pool) < PoolSize /\ pool' = Append(pool, holds[c])
    BY <1>0, <1>1, <2>1, AppendFacts DEF Has
  <2>2. CASE UNCHANGED pool
    BY <1>0, <2>2
  <2> QED BY <2>1, <2>2
<1>9. /\ made' \in [Instances -> {"none", "open", "closed", "exited"}] /\ made'[i] # "none"
      /\ \A j \in Instances : j # i => made'[j] = made[j]
      /\ made'[i] = "open" => Has(pool', i)
  <2>1. CASE Len(pool) < PoolSize /\ pool' = Append(pool, holds[c]) /\ UNCHANGED made
    <3>1. Has(pool', i)
      BY <1>0, <1>1, <2>1, AppendFacts DEF Has
    <3> QED BY <1>0, <1>1, <2>1, <3>1
  <2>2. CASE made' = [made EXCEPT ![holds[c]] = "closed"]
    BY <1>0, <1>1, <2>2
  <2> QED BY <2>1, <2>2
<1>10. PoolTypes'
  <2>1. \A d \in WasmCalls : callAt'[d] \in {"write", "call", "read", "clean"} => holds'[d] \in Instances
    BY <1>1, <1>5, <1>6 DEF PoolInv, PoolTypes, PoolTypeOK
  <2>2. \A n \in DOMAIN pool' : made'[pool'[n]] # "none"
    <3>1. ASSUME NEW n \in DOMAIN pool' PROVE made'[pool'[n]] # "none"
      <4>1. pool'[n] \in Instances /\ Has(pool', pool'[n])
        BY <1>8 DEF Has
      <4>2. Has(pool, pool'[n]) \/ pool'[n] = i
        BY <1>8, <4>1
      <4>3. Has(pool, pool'[n]) => made[pool'[n]] # "none"
        BY <1>0 DEF Has
      <4> QED BY <1>9, <4>1, <4>2, <4>3
    <3> QED BY <3>1
  <2> QED BY <1>4, <1>5, <1>8, <1>9, <2>1, <2>2 DEF PoolInv, PoolTypes, PoolTypeOK
<1>11. CleanupGood'
  <2>1. \A d \in WasmCalls : InUse(d)' => made'[holds'[d]] # "none"
    <3>1. \A d \in WasmCalls : InUse(d) => holds[d] \in Instances /\ made[holds[d]] # "none"
      BY CallFacts DEF PoolInv, CleanupGood
    <3> QED BY <1>5, <1>6, <1>7, <1>9, <3>1
  <2>2. \A d \in WasmCalls : callAt'[d] = "clean" => cleanup'[d] # <<>> /\ (host = "filter" => cleanup'[d] = <<"return">>)
    <3>1. <<"return">> # <<>>
      OBVIOUS
    <3>2. \A d \in WasmCalls : callAt[d] = "clean" => cleanup[d] # <<>> /\ (host = "filter" => cleanup[d] = <<"return">>)
      BY DEF PoolInv, CleanupGood
    <3>3. callAt'[c] = "clean" => cleanup'[c] # <<>> /\ (host = "filter" => cleanup'[c] = <<"return">>)
      BY <1>6, <3>1
    <3>4. \A d \in WasmCalls : d # c => cleanup'[d] = cleanup[d] /\ callAt'[d] = callAt[d]
      BY <1>4, <1>5
    <3> QED BY <3>2, <3>3, <3>4, Zenon
  <2> QED BY <2>1, <2>2 DEF CleanupGood
<1>12. Known'
  <2>1. ASSUME NEW j \in Instances, made'[j] = "open", j # i
        PROVE  Has(pool', j) \/ \E d \in WasmCalls : InUse(d)' /\ holds'[d] = j
    <3>1. Has(pool, j) \/ \E d \in WasmCalls : InUse(d) /\ holds[d] = j
      BY <1>9, <2>1 DEF PoolInv, Known
    <3>2. ASSUME NEW d \in WasmCalls, InUse(d), holds[d] = j
          PROVE  \E e \in WasmCalls : InUse(e)' /\ holds'[e] = j
      BY <1>1, <1>5, <1>7, <2>1, <3>2
    <3> QED BY <1>8, <3>1, <3>2
  <2> QED BY <1>9, <2>1 DEF Known
<1>13. Exclusive'
  <2> SUFFICES ASSUME host = "filter" PROVE Exclusive'
    BY DEF Exclusive
  <2>1. /\ \A m, n \in DOMAIN pool : pool[m] = pool[n] => m = n
        /\ \A d \in WasmCalls : InUse(d) => ~Has(pool, holds[d])
        /\ \A d, e \in WasmCalls : InUse(d) /\ InUse(e) /\ holds[d] = holds[e] => d = e
        /\ channel = "open" => \A n \in DOMAIN pool : made[pool[n]] \in {"open", "exited"}
        /\ channel = "open" => \A d \in WasmCalls : InUse(d) => made[holds[d]] \in {"open", "exited"}
    BY DEF PoolInv, Exclusive
  <2>2. ~Has(pool, i)
    BY <1>0, <1>1, <2>1
  <2>3. \A m, n \in DOMAIN pool' : pool'[m] = pool'[n] => m = n
    <3>1. CASE pool' = Append(pool, i)
      <4>1. \A n \in DOMAIN pool : pool[n] # i
        BY <2>2 DEF Has
      <4> QED BY <1>0, <2>1, <3>1, <4>1, AppendFacts
    <3> QED BY <1>1, <2>1, <3>1
  <2>4. ~InUse(c)'
    BY <1>6
  <2>5. \A d \in WasmCalls : InUse(d)' => InUse(d) /\ d # c /\ holds'[d] = holds[d] /\ holds[d] # i /\ holds[d] \in Instances
    BY <1>0, <1>1, <1>5, <1>7, <2>1, <2>4, CallFacts
  <2>6. \A d \in WasmCalls : InUse(d)' => ~Has(pool', holds'[d])
    BY <1>8, <2>1, <2>5
  <2>7. \A d, e \in WasmCalls : InUse(d)' /\ InUse(e)' /\ holds'[d] = holds'[e] => d = e
    BY <2>1, <2>5
  <2>8. channel = "open" => \A n \in DOMAIN pool' : made'[pool'[n]] \in {"open", "exited"}
    <3>1. CASE pool' = Append(pool, i) /\ UNCHANGED made
      <4>1. ASSUME channel = "open", NEW n \in DOMAIN pool' PROVE made'[pool'[n]] \in {"open", "exited"}
        <5>1. pool'[n] = i \/ (n \in DOMAIN pool /\ pool'[n] = pool[n])
          BY <1>0, <3>1, AppendFacts
        <5>2. made[i] \in {"open", "exited"}
          BY <1>0, <1>1, <2>1, <4>1
        <5> QED BY <2>1, <3>1, <4>1, <5>1, <5>2
      <4> QED BY <4>1
    <3>2. CASE UNCHANGED pool
      <4>1. \A n \in DOMAIN pool : pool[n] # i
        BY <2>2 DEF Has
      <4> QED BY <1>0, <1>9, <2>1, <3>2, <4>1
    <3> QED BY <1>1, <3>1, <3>2
  <2>9. channel = "open" => \A d \in WasmCalls : InUse(d)' => made'[holds'[d]] \in {"open", "exited"}
    BY <1>9, <2>1, <2>5
  <2> QED BY <2>3, <2>6, <2>7, <2>8, <2>9 DEF Exclusive
<1>14. OwnMemory'
  <2> SUFFICES ASSUME host = "filter" PROVE OwnMemory'
    BY DEF OwnMemory
  <2> QED BY <1>5, <1>6 DEF PoolInv, OwnMemory
<1> QED BY <1>10, <1>11, <1>12, <1>13, <1>14 DEF PoolInv

LEMMA CloseStep ==
    ASSUME PoolInv, CloseChannel \/ CloseRuntime
    PROVE  PoolInv'
<1> USE PoolAssumption DEF PoolAssumption
<1>0. /\ UNCHANGED <<host, memory, wants, callAt, holds, cleanup, verdict, panicked>>
      /\ made \in [Instances -> {"none", "open", "closed", "exited"}] /\ host \in {"filter", "guardrail", "gateway"}
  BY DEF CloseChannel, CloseRuntime, PoolInv, PoolTypes, PoolTypeOK
<1>1. \A c \in WasmCalls : InUse(c)' <=> InUse(c)
  BY <1>0 DEF InUse
<1>2. CASE CloseChannel
  BY <1>0, <1>1, <1>2 DEF CloseChannel, PoolInv, PoolTypes, PoolTypeOK, CleanupGood, Known, Exclusive, OwnMemory
<1>3. CASE CloseRuntime
  <2>1. /\ pool' = <<>> /\ pool' \in Seq(Instances) /\ Len(pool') = 0 /\ channel' \in {"closed", "nil"}
        /\ host = "filter" => channel' = "closed"
    BY <1>3 DEF CloseRuntime
  <2>2. /\ made' \in [Instances -> {"none", "open", "closed", "exited"}]
        /\ \A i \in Instances : made'[i] # "open" /\ (made[i] # "none" => made'[i] # "none")
    BY <1>0, <1>3 DEF CloseRuntime
  <2>3. \A n \in DOMAIN pool' : FALSE
    BY <2>1
  <2>4. PoolTypes'
    BY <1>0, <2>1, <2>2, <2>3 DEF PoolInv, PoolTypes, PoolTypeOK
  <2>5. CleanupGood'
    BY <1>0, <1>1, <2>2, CallFacts DEF PoolInv, CleanupGood
  <2>6. Known'
    BY <2>2 DEF Known
  <2>7. Exclusive'
    BY <1>0, <1>1, <2>1, <2>3 DEF PoolInv, Exclusive, Has
  <2>8. OwnMemory'
    BY <1>0 DEF PoolInv, OwnMemory
  <2> QED BY <2>4, <2>5, <2>6, <2>7, <2>8 DEF PoolInv
<1> QED BY <1>2, <1>3

LEMMA NextCallStep ==
    ASSUME PoolInv, NEW c \in WasmCalls, NextCall(c)
    PROVE  PoolInv'
<1>0. /\ callAt[c] = "done" /\ UNCHANGED <<host, made, pool, channel, memory, wants, holds, cleanup, panicked>>
      /\ callAt \in [WasmCalls -> Stages] /\ verdict \in [WasmCalls -> {"none", "allow", "block"}]
  BY DEF NextCall, AtPoint, PoolInv, PoolTypes, PoolTypeOK
<1>1. /\ callAt' \in [WasmCalls -> Stages] /\ callAt'[c] = "start"
      /\ \A d \in WasmCalls : d # c => callAt'[d] = callAt[d]
      /\ verdict' \in [WasmCalls -> {"none", "allow", "block"}]
  BY <1>0 DEF NextCall, Answer, GoOn, Stages
<1>2. \A d \in WasmCalls : InUse(d)' <=> InUse(d)
  BY <1>0, <1>1 DEF InUse
<1>3. PoolTypes'
  BY <1>0, <1>1 DEF PoolInv, PoolTypes, PoolTypeOK
<1>4. CleanupGood'
  BY <1>0, <1>1, <1>2 DEF PoolInv, CleanupGood
<1>5. Known' /\ Exclusive'
  BY <1>0, <1>2 DEF PoolInv, Known, Exclusive
<1>6. OwnMemory'
  BY <1>0, <1>1 DEF PoolInv, OwnMemory
<1> QED BY <1>3, <1>4, <1>5, <1>6 DEF PoolInv

LEMMA PoolStep ==
    ASSUME PoolInv, [PoolNext]_poolVars
    PROVE  PoolInv'
<1>1. CASE UNCHANGED poolVars
  BY <1>1 DEF poolVars, PoolInv, PoolTypes, PoolTypeOK, CleanupGood, Known, Exclusive, OwnMemory, InUse
<1>2. ASSUME NEW c \in WasmCalls, ReturnOnce(c)
      PROVE  PoolInv'
  BY <1>2, CleanStep DEF ReturnOnce, AtPoint, returnInstance
<1>3. ASSUME NEW c \in WasmCalls, closeInstance(c)
      PROVE  PoolInv'
  BY <1>3, CleanStep DEF closeInstance, AtPoint
<1>4. ASSUME NEW c \in WasmCalls, ReturnToClosed(c)
      PROVE  PoolInv'
  BY <1>4 DEF ReturnToClosed, PoolInv, PoolTypes, PoolTypeOK, CleanupGood, Known, Exclusive, OwnMemory, InUse
<1> QED BY <1>1, <1>2, <1>3, <1>4, CloseStep, NextCallStep, TakeStep, NewStep, WriteStep, GuestStep, ReadStep
        DEF PoolNext

LEMMA PoolImplied == PoolInv => PoolSound
<1> SUFFICES ASSUME PoolInv PROVE PoolSound
  OBVIOUS
<1>1. PoolTypeOK /\ OwnVerdict
  BY DEF PoolInv, PoolTypes, OwnMemory, OwnVerdict
<1>2. NoneForgotten
  <2>1. \A i \in Instances : Has(pool, i) => Pooled(i) # {}
    BY DEF Has, Pooled
  <2> QED BY <2>1 DEF PoolInv, Known, NoneForgotten
<1>3. FilterPoolSound
  <2> SUFFICES ASSUME host = "filter", channel = "open"
               PROVE  /\ OneCallAnInstance
                      /\ \A i \in Instances : Cardinality(Pooled(i)) + Cardinality({c \in WasmCalls : InUse(c) /\ holds[c] = i}) <= 1
                      /\ \A n \in DOMAIN pool : made[pool[n]] \in {"open", "exited"}
    BY DEF FilterPoolSound
  <2>1. /\ \A m, n \in DOMAIN pool : pool[m] = pool[n] => m = n
        /\ \A d \in WasmCalls : InUse(d) => ~Has(pool, holds[d])
        /\ \A d, e \in WasmCalls : InUse(d) /\ InUse(e) /\ holds[d] = holds[e] => d = e
        /\ \A n \in DOMAIN pool : made[pool[n]] \in {"open", "exited"}
    BY DEF PoolInv, Exclusive
  <2>2. OneCallAnInstance
    BY <2>1 DEF OneCallAnInstance, InUse
  <2>3. ASSUME NEW i \in Instances
        PROVE  Cardinality(Pooled(i)) + Cardinality({c \in WasmCalls : InUse(c) /\ holds[c] = i}) <= 1
    <3>1. PICK users : users = {c \in WasmCalls : InUse(c) /\ holds[c] = i}
      OBVIOUS
    <3>2. CASE Has(pool, i)
      <4>1. PICK n \in DOMAIN pool : pool[n] = i
        BY <3>2 DEF Has
      <4>2. Pooled(i) = {n} /\ users = {}
        BY <2>1, <3>1, <3>2, <4>1 DEF Pooled
      <4>3. Cardinality(Pooled(i)) = 1 /\ Cardinality(users) = 0
        BY <4>2, FS_EmptySet, FS_Singleton
      <4> QED BY <3>1, <4>3
    <3>3. CASE ~Has(pool, i)
      <4>1. Pooled(i) = {}
        BY <3>3 DEF Has, Pooled
      <4>2. CASE users = {}
        <5>1. Cardinality(users) = 0 /\ Cardinality(Pooled(i)) = 0
          BY <4>1, <4>2, FS_EmptySet
        <5> QED BY <3>1, <5>1
      <4>3. CASE users # {}
        <5>1. PICK c : users = {c}
          BY <2>1, <3>1, <4>3
        <5>2. Cardinality(users) = 1 /\ Cardinality(Pooled(i)) = 0
          BY <4>1, <5>1, FS_EmptySet, FS_Singleton
        <5> QED BY <3>1, <5>2
      <4> QED BY <4>2, <4>3
    <3> QED BY <3>2, <3>3
  <2> QED BY <2>1, <2>2, <2>3
<1> QED BY <1>1, <1>2, <1>3 DEF PoolSound

\* The pools of WebAssembly instances, for any calls, instances and capacity, while the host closes
\* at any moment: an instance of a filter is in the pool once or with one call, what a
\* filter's call reads is the verdict on its own request, and under each of the three
\* hosts no open instance is forgotten.
THEOREM PoolCorrect == PoolSpec => []PoolSound
<1>1. PoolInit => PoolInv
  BY PoolInitially
<1>2. PoolInv /\ [PoolNext]_poolVars => PoolInv'
  BY PoolStep
<1>3. PoolInv => PoolSound
  BY PoolImplied
<1> QED BY <1>1, <1>2, <1>3, PTL DEF PoolSpec

-----------------------------------------------------------------------------
(* ResponseRecords.                                                        *)

BodyRows == [there : BOOLEAN, request : {"", "request"}, answer : {"", "answer"}]

RecTypes ==
    /\ metaRow \in [Responses -> {"absent", "in_progress", "completed", "error", "deleted"}]
    /\ bodies \in [Responses -> BodyRows]
    /\ flying \subseteq RecEvents
    /\ applied \in [Responses -> SUBSET {"details", "update", "late details"}]

\* A completed row was completed by its update; the answer this left is lost only to
\* details that were applied after it, which "late details" remembers.
CompletedWasUpdated ==
    \A r \in Responses : metaRow[r] = "completed" =>
        /\ "update" \in applied[r] /\ bodies[r].there
        /\ bodies[r].answer = "" => "late details" \in applied[r]

RecInv == RecTypes /\ CompletedWasUpdated

LEMMA RecInitially == RecInit => RecInv
<1> SUFFICES ASSUME RecInit PROVE RecInv
  OBVIOUS
<1>1. Missing \in BodyRows
  BY DEF Missing, BodyRows
<1>2. RecTypes
  BY <1>1 DEF RecInit, RecTypes
<1>3. CompletedWasUpdated
  BY DEF RecInit, CompletedWasUpdated
<1> QED BY <1>2, <1>3 DEF RecInv

\* What a step may do with the events in flight and the counters beside them.
LEMMA DeliveredTypes ==
    ASSUME flying \subseteq RecEvents, NEW e, Delivered(e)
    PROVE  flying' \subseteq RecEvents
  BY DEF Delivered

LEMMA RecStep ==
    ASSUME RecInv, NEW r \in Responses,
           \/ CreateResponse(r) \/ PublishUpdate(r) \/ MarkError(r) \/ HandleDetails(r)
           \/ HandleUpdate(r) \/ DeleteOld(r)
    PROVE  RecInv'
<1> USE DEF RecInv, RecTypes, CompletedWasUpdated
<1>0. \A k \in {"details", "update"} : Waits(r, k) \in RecEvents
  BY DEF Waits, RecEvents
<1>1. CASE CreateResponse(r)
  BY <1>0, <1>1 DEF CreateResponse
<1>2. CASE PublishUpdate(r)
  BY <1>0, <1>2 DEF PublishUpdate
<1>3. CASE MarkError(r)
  <2>1. PICK b : b = [bodies[r] EXCEPT !.there = TRUE, !.answer = ""]
    OBVIOUS
  <2>2. b \in BodyRows
    <3>1. bodies[r] \in BodyRows
      OBVIOUS
    <3> QED BY <3>1, <2>1 DEF BodyRows
  <2>3. bodies' = [bodies EXCEPT ![r] = b]
    BY <1>3, <2>1 DEF MarkError
  <2> QED BY <1>3, <2>2, <2>3 DEF MarkError
<1>4. CASE HandleDetails(r)
  <2>1. flying' \subseteq RecEvents
    BY <1>4, DeliveredTypes DEF HandleDetails
  <2>2. DetailsUpsert(r) \in BodyRows /\ DetailsUpsert(r).there
    BY DEF DetailsUpsert, BodyRows
  <2>3. /\ bodies' \in [Responses -> BodyRows] /\ bodies'[r].there
        /\ \A o \in Responses \ {r} : bodies'[o] = bodies[o]
    BY <1>4, <2>2 DEF HandleDetails
  <2>4. /\ applied' \in [Responses -> SUBSET {"details", "update", "late details"}]
        /\ "update" \in applied[r] => {"update", "late details"} \subseteq applied'[r]
        /\ \A o \in Responses \ {r} : applied'[o] = applied[o]
    BY <1>4 DEF HandleDetails
  <2> QED BY <1>4, <2>1, <2>3, <2>4 DEF HandleDetails
<1>5. CASE HandleUpdate(r)
  <2>1. flying' \subseteq RecEvents
    BY <1>5, DeliveredTypes DEF HandleUpdate
  <2>2. UpdateUpsert(r) \in BodyRows /\ UpdateUpsert(r).there /\ UpdateUpsert(r).answer = "answer"
    BY DEF UpdateUpsert, BodyRows
  <2>3. /\ bodies' \in [Responses -> BodyRows] /\ bodies'[r].there /\ bodies'[r].answer = "answer"
        /\ \A o \in Responses \ {r} : bodies'[o] = bodies[o]
    BY <1>5, <2>2 DEF HandleUpdate
  <2>4. /\ applied' \in [Responses -> SUBSET {"details", "update", "late details"}]
        /\ "update" \in applied'[r]
        /\ \A o \in Responses \ {r} : applied'[o] = applied[o]
    BY <1>5 DEF HandleUpdate
  <2> QED BY <1>5, <2>1, <2>3, <2>4 DEF HandleUpdate
<1>6. CASE DeleteOld(r)
  <2>1. bodies' \in [Responses -> BodyRows] /\ \A o \in Responses \ {r} : bodies'[o] = bodies[o]
    BY <1>6 DEF DeleteOld, BodyRows, Missing
  <2> QED BY <1>6, <2>1 DEF DeleteOld
<1> QED BY <1>1, <1>2, <1>3, <1>4, <1>5, <1>6

LEMMA RecInductive == RecInv /\ [RecNext]_recVars => RecInv'
<1> SUFFICES ASSUME RecInv, [RecNext]_recVars PROVE RecInv'
  OBVIOUS
<1>1. CASE UNCHANGED recVars
  BY <1>1 DEF recVars, RecInv, RecTypes, CompletedWasUpdated
<1>2. ASSUME NEW e \in flying, HandlerFails(e) PROVE RecInv'
  BY <1>2 DEF HandlerFails, RecInv, RecTypes, CompletedWasUpdated
<1> QED BY <1>1, <1>2, RecStep DEF RecNext

\* For any responses and any number of repeated deliveries and failing handlers, on either
\* database: a completed response has a detail row, and an answer unless the details of
\* CreateResponse were applied after its update (responses.go).
THEOREM RecordsCorrect == RecSpec => []RecordsSound
<1>1. RecInit => RecInv
  BY RecInitially
<1>2. RecInv /\ [RecNext]_recVars => RecInv'
  BY RecInductive
<1>3. RecInv => RecordsSound
  BY DEF RecInv, RecTypes, CompletedWasUpdated, RecordsSound, RecTypeOK, AnswerLostOnlyLate
<1> QED BY <1>1, <1>2, <1>3, PTL DEF RecSpec

LEMMA RequestKeptStep == RecInv /\ [RecNext]_recVars => RequestKept \/ UNCHANGED recVars
<1> SUFFICES ASSUME RecInv, RecNext PROVE RequestKept
  BY DEF recVars
<1> USE DEF RecInv, RecTypes, RequestKept
<1>1. ASSUME NEW e \in flying, HandlerFails(e) PROVE RequestKept
  BY <1>1 DEF HandlerFails
<1>2. ASSUME NEW r \in Responses, CreateResponse(r) \/ PublishUpdate(r) PROVE RequestKept
  BY <1>2 DEF CreateResponse, PublishUpdate
<1>3. ASSUME NEW r \in Responses, MarkError(r) PROVE RequestKept
  <2>1. [bodies[r] EXCEPT !.there = TRUE, !.answer = ""].request = bodies[r].request
    BY DEF BodyRows
  <2> QED BY <1>3, <2>1 DEF MarkError
<1>4. ASSUME NEW r \in Responses, HandleDetails(r) PROVE RequestKept
  <2>1. DetailsUpsert(r).request = "request"
    BY DEF DetailsUpsert
  <2> QED BY <1>4, <2>1 DEF HandleDetails
<1>5. ASSUME NEW r \in Responses, HandleUpdate(r) PROVE RequestKept
  <2>1. UpdateUpsert(r).request = bodies[r].request
    BY DEF UpdateUpsert
  <2> QED BY <1>5, <2>1 DEF HandleUpdate
<1>6. ASSUME NEW r \in Responses, DeleteOld(r) PROVE RequestKept
  BY <1>6 DEF DeleteOld
<1> QED BY <1>1, <1>2, <1>3, <1>4, <1>5, <1>6 DEF RecNext

\* No step but the deletion of a response blanks the request that was stored with it
\* (responses.go UpdateResponse, persist.go).
THEOREM RequestStays == RecSpec => [][RequestKept]_recVars
<1>1. RecInit => RecInv
  BY RecInitially
<1>2. RecInv /\ [RecNext]_recVars => RecInv'
  BY RecInductive
<1>3. RecInv /\ [RecNext]_recVars => [RequestKept]_recVars
  BY RequestKeptStep
<1> QED BY <1>1, <1>2, <1>3, PTL DEF RecSpec

-----------------------------------------------------------------------------
(* Numbers and selections.                                                 *)

\* A set of numbers with a member has a least one.
LEMMA LeastNumber ==
  ASSUME NEW T, T \subseteq Nat, T # {}
  PROVE  \E x \in T : \A y \in T : x <= y
<1> DEFINE R == OpToRel(<, Nat)
<1>1. IsWellFoundedOn(R, Nat)
  BY NatLessThanWellFounded
<1>2. \A x, y \in Nat : x < y => <<x, y>> \in R
  BY DEF OpToRel
<1> HIDE DEF R
<1>3. PICK x \in T : \A y \in T : ~ (<<y, x>> \in R)
  BY <1>1, WFMin
<1>4. ASSUME NEW y \in T PROVE x <= y
  <2>1. x \in Nat /\ y \in Nat
    OBVIOUS
  <2>2. ~(y < x)
    BY <2>1, <1>2, <1>3
  <2> QED BY <2>1, <2>2
<1> QED BY <1>4

\* A set of numbers that holds 0 and, with a number, the next one holds all.
LEMMA Numbers ==
  ASSUME NEW T, 0 \in T, \A n \in Nat : n \in T => n + 1 \in T
  PROVE  Nat \subseteq T
<1> DEFINE U == {n \in Nat : n \notin T}
<1> SUFFICES ASSUME U # {} PROVE FALSE
  OBVIOUS
<1>1. PICK x \in U : \A y \in U : x <= y
  <2>1. U \subseteq Nat
    OBVIOUS
  <2> HIDE DEF U
  <2> QED BY <2>1, LeastNumber
<1>2. x - 1 \in Nat /\ ~(x <= x - 1) /\ (x - 1) + 1 = x /\ x \notin T
  BY <1>1
<1>3. x - 1 \in T
  BY <1>1, <1>2
<1> QED BY <1>2, <1>3

\* A loop that filters builds its result item by item.
LEMMA MembersInSteps ==
  ASSUME NEW X, NEW s \in Seq(X), NEW S
  PROVE  \E F : /\ MembersIn(s, S) = F[Len(s)]
                /\ F[0] = <<>>
                /\ \A i \in 1 .. Len(s) : F[i] = IF s[i] \in S THEN Append(F[i - 1], s[i]) ELSE F[i - 1]
<1> DEFINE Step(F, i) == IF i = 0 THEN <<>> ELSE IF s[i] \in S THEN Append(F[i - 1], s[i]) ELSE F[i - 1]
           Rec(F, n) == F = [i \in 0 .. n |-> Step(F, i)]
           T == {n \in Nat : n <= Len(s) => \E F : Rec(F, n)}
<1>0. Len(s) \in Nat
  OBVIOUS
<1>1. \E F : Rec(F, Len(s))
  <2>1. 0 \in T
    <3> DEFINE F0 == [i \in 0 .. 0 |-> <<>>]
    <3>1. Rec(F0, 0)
      OBVIOUS
    <3> QED BY <3>1
  <2>2. ASSUME NEW n \in Nat, n \in T PROVE n + 1 \in T
    <3> SUFFICES ASSUME n + 1 <= Len(s) PROVE \E F : Rec(F, n + 1)
      <4> HIDE DEF Rec
      <4> QED OBVIOUS
    <3>1. n <= Len(s)
      BY <1>0
    <3>2. PICK F : Rec(F, n)
      BY <2>2, <3>1
    <3> DEFINE G == [i \in 0 .. n + 1 |-> IF i <= n THEN F[i] ELSE Step(F, i)]
    <3>3. \A i \in 0 .. n : G[i] = F[i]
      OBVIOUS
    <3>4. \A i \in 0 .. n + 1 : Step(G, i) = Step(F, i)
      BY <3>3
    <3>5. \A i \in 0 .. n : F[i] = Step(F, i)
      BY <3>2
    <3>6. Rec(G, n + 1)
      BY <3>4, <3>5
    <3> QED BY <3>6
  <2> HIDE DEF T
  <2>3. Nat \subseteq T
    BY <2>1, <2>2, Numbers
  <2>4. Len(s) \in T
    BY <2>3, <1>0
  <2>5. Len(s) <= Len(s) => \E F : Rec(F, Len(s))
    <3> HIDE DEF Rec
    <3> QED BY <2>4 DEF T
  <2>6. Len(s) <= Len(s)
    BY <1>0
  <2> QED BY <2>5, <2>6
<1>2. PICK F : F = CHOOSE u : Rec(u, Len(s))
  OBVIOUS
<1>3. Rec(F, Len(s))
  BY <1>1, <1>2
<1>4. MembersIn(s, S) = F[Len(s)]
  BY <1>2 DEF MembersIn
<1>5. \A i \in 0 .. Len(s) : F[i] = Step(F, i)
  BY <1>3
<1>6. F[0] = <<>>
  <2>1. 0 \in 0 .. Len(s)
    BY <1>0
  <2> QED BY <2>1, <1>5
<1>7. \A i \in 1 .. Len(s) : F[i] = IF s[i] \in S THEN Append(F[i - 1], s[i]) ELSE F[i - 1]
  BY <1>5
<1> QED BY <1>4, <1>6, <1>7

\* The items of w come from s, in their order there.
InOrderOf(w, s) ==
    /\ \A i \in DOMAIN w : \E a \in DOMAIN s : w[i] = s[a]
    /\ \A i, j \in DOMAIN w : i < j => \E a, b \in DOMAIN s : a < b /\ w[i] = s[a] /\ w[j] = s[b]

\* What it keeps: members that pass, in their order, and fewer than there were if one does not pass.
LEMMA MembersInIs ==
  ASSUME NEW X, NEW s \in Seq(X), NEW S, NEW w, w = MembersIn(s, S)
  PROVE  /\ w \in Seq(X \cap S) /\ Len(w) <= Len(s)
         /\ (\E i \in DOMAIN s : s[i] \notin S) => Len(w) < Len(s)
         /\ (\E i \in DOMAIN s : s[i] \in S) => w # <<>>
         /\ InOrderOf(w, s)
<1>0. Len(s) \in Nat /\ DOMAIN s = 1 .. Len(s)
  OBVIOUS
<1>1. PICK F : /\ w = F[Len(s)]
               /\ F[0] = <<>>
               /\ \A i \in 1 .. Len(s) : F[i] = IF s[i] \in S THEN Append(F[i - 1], s[i]) ELSE F[i - 1]
  BY MembersInSteps
<1> DEFINE Good(f, n) ==
              /\ f \in Seq(X \cap S) /\ Len(f) <= n
              /\ (\E i \in 1 .. n : s[i] \notin S) => Len(f) < n
              /\ (\E i \in 1 .. n : s[i] \in S) => f # <<>>
              /\ \A i \in 1 .. Len(f) : \E a \in 1 .. n : f[i] = s[a]
              /\ \A i, j \in 1 .. Len(f) : i < j => \E a, b \in 1 .. n : a < b /\ f[i] = s[a] /\ f[j] = s[b]
           T == {n \in Nat : n <= Len(s) => Good(F[n], n)}
<1> HIDE DEF Good
<1>2. 0 \in T
  <2>1. Good(<<>>, 0)
    BY DEF Good
  <2> QED BY <2>1, <1>1
<1>3. ASSUME NEW n \in Nat, n \in T PROVE n + 1 \in T
  <2> SUFFICES ASSUME n + 1 <= Len(s) PROVE Good(F[n + 1], n + 1)
    OBVIOUS
  <2>1. Good(F[n], n)
    BY <1>3, <1>0
  <2>2. n + 1 \in 1 .. Len(s) /\ (n + 1) - 1 = n /\ s[n + 1] \in X
    BY <1>0
  <2>3. F[n + 1] = IF s[n + 1] \in S THEN Append(F[n], s[n + 1]) ELSE F[n]
    BY <2>2, <1>1
  <2>4. PICK f : f = F[n]
    OBVIOUS
  <2>5. Good(f, n)
    BY <2>1, <2>4
  <2>6. CASE s[n + 1] \notin S
    <3>1. /\ f \in Seq(X \cap S) /\ Len(f) \in Nat /\ Len(f) < n + 1
          /\ \A i \in 1 .. Len(f) : \E a \in 1 .. n : f[i] = s[a]
          /\ \A i, j \in 1 .. Len(f) : i < j => \E a, b \in 1 .. n : a < b /\ f[i] = s[a] /\ f[j] = s[b]
      BY <2>5 DEF Good
    <3>2. Len(f) <= n + 1 /\ \A a \in 1 .. n : a \in 1 .. n + 1
      BY <3>1
    <3>3. \A i \in 1 .. Len(f) : \E a \in 1 .. n + 1 : f[i] = s[a]
      BY <3>1, <3>2
    <3>4. \A i, j \in 1 .. Len(f) : i < j => \E a, b \in 1 .. n + 1 : a < b /\ f[i] = s[a] /\ f[j] = s[b]
      BY <3>1, <3>2
    <3>5. (\E i \in 1 .. n + 1 : s[i] \in S) => f # <<>>
      <4>1. \A i \in 1 .. n + 1 : i = n + 1 \/ i \in 1 .. n
        OBVIOUS
      <4> QED BY <4>1, <2>5, <2>6 DEF Good
    <3>6. Good(f, n + 1)
      BY <3>1, <3>2, <3>3, <3>4, <3>5 DEF Good
    <3> QED BY <3>6, <2>3, <2>4, <2>6
  <2>7. CASE s[n + 1] \in S
    <3>1. PICK g : g = Append(f, s[n + 1])
      OBVIOUS
    <3>2. /\ g \in Seq(X \cap S) /\ Len(g) = Len(f) + 1 /\ Len(f) \in Nat
          /\ \A i \in 1 .. Len(f) : g[i] = f[i]
          /\ g[Len(g)] = s[n + 1]
      BY <3>1, <2>5, <2>2, <2>7 DEF Good
    <3>3. Len(g) <= n + 1 /\ ((\E i \in 1 .. n + 1 : s[i] \notin S) => Len(g) < n + 1)
      BY <3>2, <2>5, <2>7 DEF Good
    <3>4. ASSUME NEW i \in 1 .. Len(g) PROVE \E a \in 1 .. n + 1 : g[i] = s[a]
      <4>1. CASE i = Len(g)
        <5>1. n + 1 \in 1 .. n + 1
          OBVIOUS
        <5> QED BY <4>1, <3>2, <5>1
      <4>2. CASE i # Len(g)
        <5>1. i \in 1 .. Len(f)
          BY <4>2, <3>2
        <5>2. PICK a \in 1 .. n : f[i] = s[a]
          BY <5>1, <2>5 DEF Good
        <5>3. g[i] = s[a] /\ a \in 1 .. n + 1
          BY <5>1, <5>2, <3>2
        <5> QED BY <5>3
      <4> QED BY <4>1, <4>2
    <3>5. ASSUME NEW i \in 1 .. Len(g), NEW j \in 1 .. Len(g), i < j
          PROVE \E a, b \in 1 .. n + 1 : a < b /\ g[i] = s[a] /\ g[j] = s[b]
      <4>1. CASE j = Len(g)
        <5>1. i \in 1 .. Len(f)
          BY <3>5, <3>2, <4>1
        <5>2. PICK a \in 1 .. n : f[i] = s[a]
          BY <5>1, <2>5 DEF Good
        <5> QED BY <5>1, <5>2, <4>1, <3>2
      <4>2. CASE j # Len(g)
        <5>1. i \in 1 .. Len(f) /\ j \in 1 .. Len(f)
          BY <3>5, <3>2, <4>2
        <5>2. PICK a, b \in 1 .. n : a < b /\ f[i] = s[a] /\ f[j] = s[b]
          BY <5>1, <2>5, <3>5 DEF Good
        <5> QED BY <5>1, <5>2, <3>2
      <4> QED BY <4>1, <4>2
    <3>6. g # <<>>
      BY <3>2
    <3>7. Good(g, n + 1)
      BY <3>2, <3>3, <3>4, <3>5, <3>6 DEF Good
    <3> QED BY <3>7, <3>1, <2>3, <2>4, <2>7
  <2> QED BY <2>6, <2>7
<1> HIDE DEF T
<1>4. Len(s) \in T
  BY <1>2, <1>3, <1>0, Numbers
<1>5. Good(w, Len(s))
  <2>1. Len(s) <= Len(s)
    BY <1>0
  <2> QED BY <1>4, <1>1, <2>1 DEF T
<1>6. DOMAIN w = 1 .. Len(w)
  BY <1>5 DEF Good
<1>7. (\E i \in DOMAIN s : s[i] \notin S) => Len(w) < Len(s)
  BY <1>5, <1>0 DEF Good
<1>8. \A i \in DOMAIN w : \E a \in DOMAIN s : w[i] = s[a]
  BY <1>5, <1>6, <1>0 DEF Good
<1>9. \A i, j \in DOMAIN w : i < j => \E a, b \in DOMAIN s : a < b /\ w[i] = s[a] /\ w[j] = s[b]
  <2>1. \A i, j \in 1 .. Len(w) : i < j => \E a, b \in 1 .. Len(s) : a < b /\ w[i] = s[a] /\ w[j] = s[b]
    BY <1>5, Zenon DEF Good
  <2> SUFFICES ASSUME NEW i \in DOMAIN w, NEW j \in DOMAIN w, i < j
               PROVE  \E a, b \in DOMAIN s : a < b /\ w[i] = s[a] /\ w[j] = s[b]
    OBVIOUS
  <2>2. i \in 1 .. Len(w) /\ j \in 1 .. Len(w)
    BY <1>6
  <2>3. PICK a, b \in 1 .. Len(s) : a < b /\ w[i] = s[a] /\ w[j] = s[b]
    BY <2>1, <2>2
  <2>4. a \in DOMAIN s /\ b \in DOMAIN s
    BY <1>0, <2>3
  <2> QED BY <2>3, <2>4
<1>10. w \in Seq(X \cap S) /\ Len(w) <= Len(s)
  BY <1>5 DEF Good
<1>11. (\E i \in DOMAIN s : s[i] \in S) => w # <<>>
  BY <1>5, <1>0 DEF Good
<1> QED BY <1>7, <1>8, <1>9, <1>10, <1>11 DEF InOrderOf

-----------------------------------------------------------------------------
(* ResponseCache.                                                          *)

AskRecs == {NotAsked, Finished} \cup [pc : {"semantic", "upstream", "skipped"}, q : Questions]
CacheKeys == {Key(q) : q \in Questions}
CachedAnswers == [of : Int, who : {q.who : q \in Questions}, made : Nat, copied : BOOLEAN]
MemoryEntries == [k : CacheKeys, v : CachedAnswers, exp : Int]
SemanticRows == [id : Ids, near : Int, body : CachedAnswers, exp : Int, hits : Int, disabled : BOOLEAN]
SetTasks == [t : {"set"}, k : CacheKeys, v : CachedAnswers, ttl : TTLs]
CreateTasks == [t : {"create"}, row : SemanticRows]
ReadTasks == [t : {"read"}, by : Ids, id : Ids, hits : Int]
WriteTasks == [t : {"write"}, by : Ids, row : SemanticRows]

CacheTypes ==
    /\ clock \in 0 .. MaxClock /\ driver \in Drivers
    /\ ask \in [Ids -> AskRecs]
    /\ l0 \in Seq(MemoryEntries) /\ l1 \subseteq MemoryEntries
    /\ sem \subseteq SemanticRows
    /\ tasks \subseteq SetTasks \cup CreateTasks \cup ReadTasks \cup WriteTasks

\* An answer under a key of the exact cache: to a like prompt, of the same tenant.
AnswerFits(k, v) == v.made <= clock /\ v.who[1] = k[1] /\ Alike(v.of, k[2])

\* When it was last in the hands of a provider or, once copied, could leave the semantic cache.
LeavesAt(v) == v.made + (IF v.copied THEN SemTTL ELSE 0)

EntryFits(e) == AnswerFits(e.k, e.v) /\ e.exp <= LeavesAt(e.v) + Longest

\* A row is never made from a copy, and its life started with its answer.
RowFits(r) == r.body.of = r.near /\ ~r.body.copied /\ r.exp = r.body.made + SemTTL /\ r.body.made <= clock

TaskFits(w) ==
    /\ w.t = "set" => AnswerFits(w.k, w.v) /\ clock <= LeavesAt(w.v)
    /\ w.t \in {"create", "write"} => RowFits(w.row) /\ ask[w.row.id].pc = "done"

\* A key is in memory once and in Redis once.
KeysOnce ==
    /\ Len(l0) <= Capacity
    /\ \A i, j \in DOMAIN l0 : i # j => l0[i].k # l0[j].k
    /\ \A e, f \in l1 : e # f => e.k # f.k

\* An id stands for one row, that is to be created, is there, or was there.
IdsOnce ==
    /\ \A r, s \in sem : r # s => r.id # s.id
    /\ \A r \in sem : ask[r.id].pc = "done"
    /\ \A i \in off : i \in Ids /\ ask[i].pc = "done"
    /\ \A w \in tasks : w.t = "create" => /\ w.row.id \notin off
                                          /\ \A r \in sem : r.id # w.row.id
                                          /\ \A x \in tasks : x.t = "create" /\ x.row.id = w.row.id => x = w

\* What was switched off is off, in the store and in what a goroutine is about to write over it,
\* unless the two overlapped.
OffIsOff ==
    /\ \A r \in sem : r.id \in off => r.disabled \/ r.id \in overlapped
    /\ \A w \in tasks, r \in sem : w.t = "write" /\ w.row.id = r.id /\ r.id \in off
                                      => w.row.disabled \/ r.id \in overlapped

\* The three parts: the exact cache, the semantic one with the goroutines, the last answer.
MemoryInv == KeysOnce /\ (\A i \in DOMAIN l0 : EntryFits(l0[i])) /\ (\A e \in l1 : EntryFits(e))
StoreInv == (\A r \in sem : RowFits(r)) /\ (\A w \in tasks : TaskFits(w)) /\ IdsOnce /\ OffIsOff
AnswerInv == NoDrift /\ AnsweredWithinTenant /\ AnswerAgeBounded

CacheInv == CacheTypes /\ MemoryInv /\ StoreInv /\ AnswerInv

LEMMA LongestIs == Longest \in TTLs /\ Longest \in Nat /\ \A u \in TTLs : u \in Nat /\ u <= Longest
<1>1. \E t \in TTLs : \A u \in TTLs : t >= u
  BY CacheAssumption DEF CacheAssumption
<1>2. Longest \in TTLs /\ \A u \in TTLs : Longest >= u
  BY <1>1 DEF Longest
<1> QED BY <1>2, CacheAssumption DEF CacheAssumption

LEMMA CacheConstants ==
    /\ SemTTL \in Nat /\ Capacity \in Nat \ {0} /\ MaxAsks \in Nat /\ MaxClock \in Nat
    /\ \A q \in Questions : q.prompt \in Int /\ Key(q) \in CacheKeys /\ Key(q)[1] = q.who[1] /\ Key(q)[2] = q.prompt
  BY CacheAssumption DEF CacheAssumption, CacheKeys, Key

LEMMA CacheStarts == CacheInit => CacheInv
<1> SUFFICES ASSUME CacheInit PROVE CacheInv
  OBVIOUS
<1>1. CacheTypes
  BY CacheConstants DEF CacheInit, CacheTypes, AskRecs
<1>2. MemoryInv /\ StoreInv
  BY CacheConstants DEF CacheInit, MemoryInv, StoreInv, KeysOnce, IdsOnce, OffIsOff
<1>3. AnswerInv
  BY DEF CacheInit, NoAnswer, AnswerInv, NoDrift, AnsweredWithinTenant, AnswerAgeBounded
<1> QED BY <1>1, <1>2, <1>3 DEF CacheInv

\* removeLocked leaves the other keys, each as often as before.
LEMMA WithoutIs ==
  ASSUME NEW X, NEW s \in Seq(X), NEW k, NEW w, w = Without(s, k)
  PROVE  /\ w \in Seq(X) /\ Len(w) <= Len(s)
         /\ (\E i \in DOMAIN s : s[i].k = k) => Len(w) < Len(s)
         /\ \A i \in DOMAIN w : w[i].k # k /\ \E a \in DOMAIN s : w[i] = s[a]
         /\ (\A i, j \in DOMAIN s : i # j => s[i].k # s[j].k) => \A i, j \in DOMAIN w : i # j => w[i].k # w[j].k
<1> DEFINE S == {e \in Members(s) : e.k # k}
<1>0. w = MembersIn(s, S)
  BY DEF Without
<1>1. \A i \in DOMAIN s : s[i] \in Members(s)
  BY DEF Members
<1>2. \A e \in S : e.k # k
  OBVIOUS
<1>3. \A i \in DOMAIN s : s[i].k = k => s[i] \notin S
  OBVIOUS
<1> HIDE DEF S
<1>4. /\ w \in Seq(X \cap S) /\ Len(w) <= Len(s)
      /\ (\E i \in DOMAIN s : s[i] \notin S) => Len(w) < Len(s)
      /\ \A i \in DOMAIN w : \E a \in DOMAIN s : w[i] = s[a]
      /\ \A i, j \in DOMAIN w : i < j => \E a, b \in DOMAIN s : a < b /\ w[i] = s[a] /\ w[j] = s[b]
  <2>1. w \in Seq(X \cap S) /\ Len(w) <= Len(s)
    BY <1>0, MembersInIs
  <2>2. (\E i \in DOMAIN s : s[i] \notin S) => Len(w) < Len(s)
    BY <1>0, MembersInIs
  <2>3. InOrderOf(w, s)
    BY <1>0, MembersInIs
  <2> QED BY <2>1, <2>2, <2>3, Zenon DEF InOrderOf
<1>5. DOMAIN w = 1 .. Len(w) /\ Len(w) \in Nat /\ DOMAIN s = 1 .. Len(s) /\ w \in Seq(X)
  BY <1>4
<1>6. \A i \in DOMAIN w : w[i] \in S
  BY <1>4
<1>7. ASSUME \A i, j \in DOMAIN s : i # j => s[i].k # s[j].k,
             NEW i \in DOMAIN w, NEW j \in DOMAIN w, i < j
      PROVE  w[i].k # w[j].k
  <2>1. PICK a, b \in DOMAIN s : a < b /\ w[i] = s[a] /\ w[j] = s[b]
    BY <1>4, <1>7
  <2>2. a # b
    BY <2>1, <1>5
  <2> QED BY <2>1, <2>2, <1>7
<1>8. ASSUME \A i, j \in DOMAIN s : i # j => s[i].k # s[j].k,
             NEW i \in DOMAIN w, NEW j \in DOMAIN w, i # j
      PROVE  w[i].k # w[j].k
  <2>1. i < j \/ j < i
    BY <1>5, <1>8
  <2> QED BY <2>1, <1>7, <1>8
<1>9. \A i \in DOMAIN w : w[i].k # k /\ \E a \in DOMAIN s : w[i] = s[a]
  BY <1>2, <1>4, <1>6
<1>10. (\E i \in DOMAIN s : s[i].k = k) => Len(w) < Len(s)
  BY <1>3, <1>4
<1> QED BY <1>4, <1>5, <1>8, <1>9, <1>10

\* An entry before a sequence.
LEMMA AheadIs ==
  ASSUME NEW X, NEW e \in X, NEW w \in Seq(X), NEW g, g = <<e>> \o w
  PROVE  /\ g \in Seq(X) /\ Len(g) = Len(w) + 1 /\ g[1] = e
         /\ \A i \in DOMAIN g : i # 1 => i - 1 \in DOMAIN w /\ g[i] = w[i - 1]
<1>1. /\ g \in Seq(X) /\ Len(g) = Len(w) + 1 /\ Len(w) \in Nat
      /\ g[1] = e /\ \A i \in 2 .. Len(g) : g[i] = w[i - 1]
  OBVIOUS
<1>2. DOMAIN g = 1 .. Len(w) + 1 /\ DOMAIN w = 1 .. Len(w)
  BY <1>1
<1> QED BY <1>1, <1>2

\* MemoryCache.Get keeps what it has, less what has expired.
LEMMA MemoryGetIs ==
  ASSUME CacheInv, NEW k, NEW g, g = MemoryGet(k)
  PROVE  /\ g \in Seq(MemoryEntries) /\ Len(g) <= Capacity
         /\ \A i, j \in DOMAIN g : i # j => g[i].k # g[j].k
         /\ \A i \in DOMAIN g : EntryFits(g[i])
<1>0. /\ l0 \in Seq(MemoryEntries) /\ Len(l0) <= Capacity /\ Capacity \in Nat
      /\ \A i, j \in DOMAIN l0 : i # j => l0[i].k # l0[j].k
      /\ \A i \in DOMAIN l0 : EntryFits(l0[i])
  BY CacheConstants DEF CacheInv, CacheTypes, KeysOnce, MemoryInv
<1>1. PICK w : w = Without(l0, k)
  OBVIOUS
<1>2. /\ w \in Seq(MemoryEntries) /\ Len(w) <= Len(l0) /\ Len(w) \in Nat /\ Len(l0) \in Nat
      /\ (\E i \in DOMAIN l0 : l0[i].k = k) => Len(w) < Len(l0)
      /\ \A i \in DOMAIN w : w[i].k # k /\ \E a \in DOMAIN l0 : w[i] = l0[a]
      /\ \A i, j \in DOMAIN w : i # j => w[i].k # w[j].k
  <2>1. l0 \in Seq(MemoryEntries) /\ \A i, j \in DOMAIN l0 : i # j => l0[i].k # l0[j].k
    BY <1>0
  <2>2. w \in Seq(MemoryEntries) /\ Len(w) <= Len(l0)
    BY <2>1, <1>1, WithoutIs
  <2>3. (\E i \in DOMAIN l0 : l0[i].k = k) => Len(w) < Len(l0)
    BY <2>1, <1>1, WithoutIs
  <2>4. \A i \in DOMAIN w : w[i].k # k /\ \E a \in DOMAIN l0 : w[i] = l0[a]
    BY <2>1, <1>1, WithoutIs
  <2>5. \A i, j \in DOMAIN w : i # j => w[i].k # w[j].k
    BY <2>1, <1>1, WithoutIs
  <2>6. Len(w) \in Nat /\ Len(l0) \in Nat
    BY <2>1, <2>2
  <2> QED BY <2>2, <2>3, <2>4, <2>5, <2>6
<1>3. \A i \in DOMAIN w : EntryFits(w[i])
  BY <1>0, <1>2
<1>4. CASE MemoryHit(k) = {}
  <2>1. g = w
    BY <1>1, <1>4 DEF MemoryGet
  <2> QED BY <2>1, <1>0, <1>2, <1>3
<1>5. CASE MemoryHit(k) # {}
  <2>1. PICK e : e = CHOOSE x \in MemoryHit(k) : TRUE
    OBVIOUS
  <2>2. e \in MemoryHit(k)
    BY <2>1, <1>5
  <2>3. e.k = k /\ \E a \in DOMAIN l0 : e = l0[a]
    BY <2>2 DEF MemoryHit, Members
  <2>4. e \in MemoryEntries /\ EntryFits(e) /\ Len(w) < Len(l0)
    BY <2>3, <1>0, <1>2
  <2>5. g = <<e>> \o w
    BY <1>1, <2>1, <1>5 DEF MemoryGet
  <2>6. /\ g \in Seq(MemoryEntries) /\ Len(g) = Len(w) + 1 /\ g[1] = e
        /\ \A i \in DOMAIN g : i # 1 => i - 1 \in DOMAIN w /\ g[i] = w[i - 1]
    BY <2>4, <2>5, <1>2, AheadIs
  <2>7. Len(g) <= Capacity
    BY <2>4, <2>6, <1>0, <1>2
  <2>8. \A i \in DOMAIN g : EntryFits(g[i])
    BY <2>4, <2>6, <1>3
  <2>9. ASSUME NEW i \in DOMAIN g, NEW j \in DOMAIN g, i # j PROVE g[i].k # g[j].k
    <3>1. i \in Int /\ j \in Int
      BY <2>6
    <3>2. CASE i = 1 \/ j = 1
      BY <2>3, <2>6, <2>9, <3>2, <1>2
    <3>3. CASE i # 1 /\ j # 1
      <4>1. i - 1 # j - 1
        BY <3>1, <2>9
      <4> QED BY <4>1, <3>3, <2>6, <1>2
    <3> QED BY <3>2, <3>3
  <2> QED BY <2>6, <2>7, <2>8, <2>9
<1> QED BY <1>4, <1>5

\* MemoryCache.Set puts the entry in front and lets the least recently used one go.
LEMMA MemorySetIs ==
  ASSUME CacheInv, NEW e \in MemoryEntries, EntryFits(e), NEW g, g = MemorySet(e)
  PROVE  /\ g \in Seq(MemoryEntries) /\ Len(g) <= Capacity
         /\ \A i, j \in DOMAIN g : i # j => g[i].k # g[j].k
         /\ \A i \in DOMAIN g : EntryFits(g[i])
<1>0. /\ l0 \in Seq(MemoryEntries) /\ Len(l0) <= Capacity /\ Capacity \in Nat \ {0}
      /\ \A i, j \in DOMAIN l0 : i # j => l0[i].k # l0[j].k
      /\ \A i \in DOMAIN l0 : EntryFits(l0[i])
  BY CacheConstants DEF CacheInv, CacheTypes, KeysOnce, MemoryInv
<1>1. PICK w : w = Without(l0, e.k)
  OBVIOUS
<1>2. /\ w \in Seq(MemoryEntries) /\ Len(w) <= Len(l0) /\ Len(w) \in Nat /\ Len(l0) \in Nat
      /\ \A i \in DOMAIN w : w[i].k # e.k /\ \E a \in DOMAIN l0 : w[i] = l0[a]
      /\ \A i, j \in DOMAIN w : i # j => w[i].k # w[j].k
  <2>1. l0 \in Seq(MemoryEntries) /\ \A i, j \in DOMAIN l0 : i # j => l0[i].k # l0[j].k
    BY <1>0
  <2>2. /\ w \in Seq(MemoryEntries) /\ Len(w) <= Len(l0)
        /\ \A i \in DOMAIN w : w[i].k # e.k /\ \E a \in DOMAIN l0 : w[i] = l0[a]
        /\ (\A i, j \in DOMAIN l0 : i # j => l0[i].k # l0[j].k) => \A i, j \in DOMAIN w : i # j => w[i].k # w[j].k
    BY <2>1, <1>1, WithoutIs
  <2>3. Len(w) \in Nat /\ Len(l0) \in Nat
    BY <2>1, <2>2
  <2> QED BY <2>1, <2>2, <2>3
<1>3. \A i \in DOMAIN w : EntryFits(w[i])
  BY <1>0, <1>2
<1>4. PICK h : h = <<e>> \o w
  OBVIOUS
<1>5. /\ h \in Seq(MemoryEntries) /\ Len(h) = Len(w) + 1 /\ h[1] = e
      /\ \A i \in DOMAIN h : i # 1 => i - 1 \in DOMAIN w /\ h[i] = w[i - 1]
  BY <1>4, <1>2, AheadIs
<1>6. PICK m : m = IF Len(w) < Capacity THEN Len(w) + 1 ELSE Capacity
  OBVIOUS
<1>7. m \in 1 .. Len(h) /\ m <= Capacity
  BY <1>6, <1>0, <1>2, <1>5
<1>8. g = SubSeq(h, 1, m)
  BY <1>1, <1>4, <1>6 DEF MemorySet
<1>9. g \in Seq(MemoryEntries) /\ Len(g) = m /\ \A i \in 1 .. m : g[i] = h[i]
  BY <1>5, <1>7, <1>8
<1>10. DOMAIN g = 1 .. m /\ \A i \in 1 .. m : i \in DOMAIN h
  BY <1>5, <1>7, <1>9
<1>11. \A i \in DOMAIN g : EntryFits(g[i])
  BY <1>3, <1>5, <1>9, <1>10
<1>12. ASSUME NEW i \in DOMAIN g, NEW j \in DOMAIN g, i # j PROVE g[i].k # g[j].k
  <2>1. i \in Int /\ j \in Int /\ g[i] = h[i] /\ g[j] = h[j] /\ i \in DOMAIN h /\ j \in DOMAIN h
    BY <1>9, <1>10
  <2>2. CASE i = 1 \/ j = 1
    BY <2>1, <2>2, <1>5, <1>2, <1>12
  <2>3. CASE i # 1 /\ j # 1
    <3>1. i - 1 # j - 1
      BY <2>1, <1>12
    <3> QED BY <3>1, <2>1, <2>3, <1>5, <1>2
  <2> QED BY <2>2, <2>3
<1> QED BY <1>7, <1>9, <1>11, <1>12

\* What a step leaves as it was.
LEMMA MemoryStays ==
  ASSUME MemoryInv, UNCHANGED <<clock, l0, l1>>
  PROVE  MemoryInv'
  BY DEF MemoryInv, KeysOnce, EntryFits, AnswerFits, LeavesAt

LEMMA StoreStays ==
  ASSUME StoreInv, CacheTypes, UNCHANGED <<clock, sem, tasks, off, overlapped>>,
         \A i \in Ids : ask[i].pc = "done" => ask'[i].pc = "done"
  PROVE  StoreInv'
<1>0. /\ \A r \in sem : r.id \in Ids
      /\ \A w \in tasks : w.t \in {"create", "write"} => w.row.id \in Ids
  BY DEF CacheTypes, SemanticRows, SetTasks, CreateTasks, ReadTasks, WriteTasks
<1>1. \A r \in sem : RowFits(r)'
  BY DEF StoreInv, RowFits
<1>2. \A w \in tasks : TaskFits(w)'
  BY <1>0 DEF StoreInv, TaskFits, RowFits, AnswerFits, LeavesAt
<1>3. IdsOnce'
  BY <1>0 DEF StoreInv, IdsOnce
<1>4. OffIsOff'
  BY DEF StoreInv, OffIsOff
<1> QED BY <1>1, <1>2, <1>3, <1>4 DEF StoreInv

LEMMA AnswerStays == ASSUME AnswerInv, UNCHANGED answer PROVE AnswerInv'
  BY DEF AnswerInv, NoDrift, AnsweredWithinTenant, AnswerAgeBounded

LEMMA AskMoves ==
  ASSUME CacheTypes, NEW n \in Ids, ask[n].pc # "done", NEW a \in AskRecs, ask' = [ask EXCEPT ![n] = a]
  PROVE  ask' \in [Ids -> AskRecs] /\ \A i \in Ids : ask[i].pc = "done" => ask'[i].pc = "done"
  BY DEF CacheTypes

LEMMA AskRecsAre ==
  ASSUME NEW q \in Questions
  PROVE  /\ Finished \in AskRecs /\ Finished.pc = "done"
         /\ \A x \in {"semantic", "upstream", "skipped"} : [pc |-> x, q |-> q] \in AskRecs
  BY DEF AskRecs, Finished

\* A request that is under way has its question.
LEMMA AskedHas ==
  ASSUME CacheTypes, NEW n \in Ids, ask[n].pc \in {"semantic", "upstream", "skipped"}
  PROVE  ask[n].q \in Questions /\ [ask EXCEPT ![n].pc = "upstream"] = [ask EXCEPT ![n] = [pc |-> "upstream", q |-> ask[n].q]]
<1>1. ask \in [Ids -> AskRecs] /\ ask[n] \in AskRecs
  BY DEF CacheTypes
<1>2. ask[n] \in [pc : {"semantic", "upstream", "skipped"}, q : Questions]
  BY <1>1 DEF AskRecs, NotAsked, Finished
<1>3. [ask[n] EXCEPT !.pc = "upstream"] = [pc |-> "upstream", q |-> ask[n].q]
  BY <1>2
<1>4. [ask EXCEPT ![n].pc = "upstream"] = [ask EXCEPT ![n] = [ask[n] EXCEPT !.pc = "upstream"]]
  OBVIOUS
<1> QED BY <1>2, <1>3, <1>4

LEMMA LookupCacheKeeps ==
  ASSUME CacheInv, NEW n \in Ids, NEW q \in Questions, NEW up \in BOOLEAN, LookupCache(n, q, up)
  PROVE  CacheInv'
<1> USE DEF CacheInv
<1>0. ask[n].pc = "idle" /\ UNCHANGED <<clock, driver, l1, sem, tasks, off, overlapped>> /\ l0' = MemoryGet(Key(q))
  BY DEF LookupCache, Opens, admin
<1>1. PICK a \in AskRecs : ask' = [ask EXCEPT ![n] = a]
  BY AskRecsAre DEF LookupCache
<1>2. ask' \in [Ids -> AskRecs] /\ \A i \in Ids : ask[i].pc = "done" => ask'[i].pc = "done"
  BY <1>0, <1>1, AskMoves
<1>3. PICK g : g = MemoryGet(Key(q))
  OBVIOUS
<1>4. /\ g \in Seq(MemoryEntries) /\ Len(g) <= Capacity
      /\ \A i, j \in DOMAIN g : i # j => g[i].k # g[j].k
      /\ \A i \in DOMAIN g : EntryFits(g[i])
  BY <1>3, MemoryGetIs
<1>5. l0' = g
  BY <1>0, <1>3
<1>6. CacheTypes'
  BY <1>0, <1>2, <1>4, <1>5 DEF CacheTypes
<1>7. MemoryInv'
  <2>1. \A e : EntryFits(e) => EntryFits(e)'
    BY <1>0 DEF EntryFits, AnswerFits, LeavesAt
  <2>2. KeysOnce'
    BY <1>0, <1>4, <1>5 DEF MemoryInv, KeysOnce
  <2> QED BY <1>0, <1>4, <1>5, <2>1, <2>2 DEF MemoryInv
<1>8. StoreInv'
  BY <1>0, <1>2, StoreStays
<1>9. AnswerInv'
  <2>1. CASE UNCHANGED answer
    BY <2>1, AnswerStays
  <2>2. CASE answer' # answer
    <3>1. PICK e \in Got(Key(q), up) :
             answer' = [via |-> "exact", by |-> n, q |-> q, v |-> e.v, age |-> clock - e.v.made]
      BY <2>2 DEF LookupCache
    <3>2. e \in MemoryEntries /\ EntryFits(e) /\ e.k = Key(q) /\ clock <= e.exp
      <4>1. CASE e \in MemoryHit(Key(q))
        <5>1. PICK i \in DOMAIN l0 : e = l0[i] /\ e.k = Key(q) /\ ~(clock > e.exp)
          BY <4>1 DEF MemoryHit, Members, Expired
        <5>2. e \in MemoryEntries /\ EntryFits(e)
          BY <5>1 DEF CacheTypes, MemoryInv
        <5>3. e.exp \in Int /\ clock \in Int
          BY <5>2 DEF MemoryEntries, CacheTypes
        <5> QED BY <5>1, <5>2, <5>3
      <4>2. CASE e \in RedisHit(Key(q))
        <5>1. e \in l1 /\ e.k = Key(q) /\ clock < e.exp
          BY <4>2 DEF RedisHit
        <5>2. e \in MemoryEntries /\ EntryFits(e)
          BY <5>1 DEF CacheTypes, MemoryInv
        <5>3. e.exp \in Int /\ clock \in Int
          BY <5>2 DEF MemoryEntries, CacheTypes
        <5> QED BY <5>1, <5>2, <5>3
      <4> QED BY <3>1, <4>1, <4>2 DEF Got
    <3>3. /\ e.v \in CachedAnswers /\ e.v.made \in Nat /\ e.v.copied \in BOOLEAN /\ e.exp \in Int /\ clock \in Int
          /\ e.v.who[1] = q.who[1] /\ Alike(e.v.of, q.prompt) /\ e.exp <= LeavesAt(e.v) + Longest
      BY <3>2, CacheConstants DEF MemoryEntries, CachedAnswers, EntryFits, AnswerFits, CacheTypes
    <3>4. clock - e.v.made <= (IF e.v.copied THEN SemTTL ELSE 0) + Longest
      BY <3>2, <3>3, LongestIs, CacheConstants DEF LeavesAt
    <3>5. answer'.via = "exact" /\ answer'.q = q /\ answer'.v = e.v /\ answer'.age = clock - e.v.made
      BY <3>1
    <3> QED BY <3>3, <3>4, <3>5 DEF AnswerInv, NoDrift, AnsweredWithinTenant, AnswerAgeBounded
  <2> QED BY <2>1, <2>2
<1> QED BY <1>6, <1>7, <1>8, <1>9

\* The steps of a request that touch nothing but where it is.
LEMMA AskOnlyKeeps ==
  ASSUME CacheInv, NEW n \in Ids, ask[n].pc # "done", NEW a \in AskRecs, ask' = [ask EXCEPT ![n] = a],
         UNCHANGED <<clock, driver, l0, l1, sem, tasks, answer, off, overlapped>>
  PROVE  CacheInv'
<1> USE DEF CacheInv
<1>1. ask' \in [Ids -> AskRecs] /\ \A i \in Ids : ask[i].pc = "done" => ask'[i].pc = "done"
  BY AskMoves
<1>2. CacheTypes'
  BY <1>1 DEF CacheTypes
<1> QED BY <1>1, <1>2, MemoryStays, StoreStays, AnswerStays

LEMMA PassesKeep ==
  ASSUME CacheInv, NEW n \in Ids,
         \/ \E q \in Questions : SkipCache(n, q)
         \/ SemanticSkipped(n)
         \/ NotCached(n)
  PROVE  CacheInv'
<1>1. ASSUME NEW q \in Questions, SkipCache(n, q) PROVE CacheInv'
  BY <1>1, AskRecsAre, AskOnlyKeeps DEF SkipCache, Opens, admin
<1>2. CASE SemanticSkipped(n)
  <2>1. ask[n].q \in Questions /\ ask' = [ask EXCEPT ![n] = [pc |-> "upstream", q |-> ask[n].q]]
    BY <1>2, AskedHas DEF SemanticSkipped, CacheInv
  <2>2. [pc |-> "upstream", q |-> ask[n].q] \in AskRecs
    BY <2>1, AskRecsAre
  <2> QED BY <1>2, <2>1, <2>2, AskOnlyKeeps DEF SemanticSkipped, admin
<1>3. CASE NotCached(n)
  <2>1. Finished \in AskRecs
    BY DEF AskRecs
  <2> QED BY <1>3, <2>1, AskOnlyKeeps DEF NotCached, admin
<1> QED BY <1>1, <1>2, <1>3

\* Goroutines start and end: what each may bring, for the invariant to last.
TaskStarts(w) ==
    \/ w.t = "set" /\ AnswerFits(w.k, w.v) /\ clock <= LeavesAt(w.v)
    \/ w.t = "read"
    \/ w.t = "create" /\ RowFits(w.row) /\ w.row.id \in Ids /\ ask[w.row.id].pc # "done" /\ ask'[w.row.id].pc = "done"
    \/ w.t = "write" /\ RowFits(w.row) /\ \E r \in sem : r.id = w.row.id /\ r.disabled = w.row.disabled

LEMMA TasksMove ==
  ASSUME StoreInv, CacheTypes, UNCHANGED <<clock, sem, off, overlapped>>,
         \A i \in Ids : ask[i].pc = "done" => ask'[i].pc = "done",
         NEW T, tasks' \subseteq tasks \cup T,
         \A w \in T : TaskStarts(w),
         \A w, x \in T : w.t = "create" /\ x.t = "create" => w = x
  PROVE  StoreInv'
<1>0. /\ \A r \in sem : r.id \in Ids
      /\ \A w \in tasks : w.t \in {"create", "write"} => w.row.id \in Ids
  BY DEF CacheTypes, SemanticRows, SetTasks, CreateTasks, ReadTasks, WriteTasks
<1>1. \A r \in sem' : RowFits(r)'
  BY DEF StoreInv, RowFits
<1>2. ASSUME NEW w \in tasks' PROVE TaskFits(w)'
  <2>1. CASE w \in tasks
    BY <2>1, <1>0 DEF StoreInv, TaskFits, RowFits, AnswerFits, LeavesAt
  <2>2. CASE w \in T
    <3>1. w.t = "write" => \E r \in sem : r.id = w.row.id /\ ask[r.id].pc = "done"
      BY <2>2 DEF StoreInv, IdsOnce, TaskStarts
    <3> QED BY <2>2, <3>1, <1>0 DEF TaskStarts, TaskFits, RowFits, AnswerFits, LeavesAt
  <2> QED BY <2>1, <2>2
<1>3. IdsOnce'
  <2>1. ASSUME NEW w \in tasks', w.t = "create"
        PROVE  /\ w.row.id \notin off /\ \A r \in sem : r.id # w.row.id
               /\ \A x \in tasks' : x.t = "create" /\ x.row.id = w.row.id => x = w
    <3>1. w \in tasks \/ w \in T
      OBVIOUS
    <3>2. w.row.id \notin off /\ \A r \in sem : r.id # w.row.id
      BY <2>1, <3>1, <1>0 DEF StoreInv, IdsOnce, TaskStarts
    <3>3. \A x \in tasks : x.t = "create" => ask[x.row.id].pc = "done"
      BY DEF StoreInv, TaskFits
    <3>4. \A x \in T : x.t = "create" => ask[x.row.id].pc # "done"
      BY DEF TaskStarts
    <3>5. \A x \in tasks' : x.t = "create" /\ x.row.id = w.row.id => x = w
      BY <2>1, <3>1, <3>3, <3>4 DEF StoreInv, IdsOnce
    <3> QED BY <3>2, <3>5
  <2>2. /\ \A r, s \in sem' : r # s => r.id # s.id
        /\ \A r \in sem' : ask'[r.id].pc = "done"
        /\ \A i \in off' : i \in Ids /\ ask'[i].pc = "done"
    BY <1>0 DEF StoreInv, IdsOnce
  <2> QED BY <2>1, <2>2 DEF IdsOnce
<1>4. OffIsOff'
  <2>1. ASSUME NEW w \in tasks', NEW r \in sem, w.t = "write", w.row.id = r.id, r.id \in off
        PROVE  w.row.disabled \/ r.id \in overlapped
    <3>1. CASE w \in tasks
      BY <2>1, <3>1 DEF StoreInv, OffIsOff
    <3>2. CASE w \in T
      <4>1. PICK s \in sem : s.id = w.row.id /\ s.disabled = w.row.disabled
        BY <2>1, <3>2 DEF TaskStarts
      <4>2. s = r
        BY <2>1, <4>1 DEF StoreInv, IdsOnce
      <4> QED BY <2>1, <4>1, <4>2 DEF StoreInv, OffIsOff
    <3> QED BY <3>1, <3>2
  <2> QED BY <2>1 DEF StoreInv, OffIsOff
<1> QED BY <1>1, <1>2, <1>3, <1>4 DEF StoreInv

\* What the semantic cache finds: a row that is on, alive, alike, and within reach.
LEMMA BestIs ==
  ASSUME CacheInv, NEW q \in Questions, NEW r \in Best(q)
  PROVE  /\ r \in sem /\ r \in SemanticRows /\ RowFits(r) /\ ~r.disabled
         /\ Alike(r.near, q.prompt) /\ clock <= r.exp
         /\ r.body.who[1] = q.who[1] /\ q.who[2] \in {"", r.body.who[2]}
<1>1. r \in Candidates(q) /\ Alike(r.near, q.prompt)
  BY DEF Best
<1>2. \A S, rank : FirstOf(S, rank) \subseteq S
  BY DEF FirstOf
<1>3. r \in sem /\ Matches(r, q) /\ (clock < r.exp \/ ~(clock > r.exp))
  <2>1. CASE driver = "sqlite"
    <3> DEFINE rows == {x \in sem : Matches(x, q)}
    <3>1. r \in FirstOf(rows, [x \in rows |-> -x.id]) /\ ~Expired(r)
      BY <1>1, <2>1 DEF Candidates
    <3>2. r \in rows
      BY <3>1, <1>2
    <3> QED BY <3>1, <3>2 DEF Expired
  <2>2. CASE driver # "sqlite"
    <3> DEFINE rows == {x \in sem : Matches(x, q)}
               live == {x \in rows : clock < x.exp}
    <3>1. r \in FirstOf(live, [x \in live |-> Distance(x.near, q.prompt)])
      BY <1>1, <2>2 DEF Candidates
    <3>2. r \in live
      BY <3>1, <1>2
    <3> QED BY <3>2
  <2> QED BY <2>1, <2>2
<1>4. r \in SemanticRows /\ RowFits(r) /\ clock \in Int /\ r.exp \in Int
  BY <1>3 DEF CacheInv, CacheTypes, StoreInv, SemanticRows
<1>5. clock <= r.exp
  BY <1>3, <1>4
<1> QED BY <1>1, <1>3, <1>4, <1>5 DEF Matches

LEMMA ToEntryIs ==
  ASSUME NEW r \in SemanticRows, NEW v, v = ToEntry(r)
  PROVE  /\ v \in CachedAnswers /\ v.copied = TRUE
         /\ v.of = r.body.of /\ v.who = r.body.who /\ v.made = r.body.made /\ v.made \in Nat
  BY DEF SemanticRows, CachedAnswers, ToEntry

LEMMA LookupSemanticKeeps ==
  ASSUME CacheInv, NEW n \in Ids, NEW ttl \in TTLs, LookupSemanticCache(n, ttl)
  PROVE  CacheInv'
<1> USE DEF CacheInv
<1>0. ask[n].pc = "semantic" /\ UNCHANGED <<clock, driver, l0, l1, sem, off, overlapped>>
  BY DEF LookupSemanticCache, admin
<1>1. PICK q : q = ask[n].q
  OBVIOUS
<1>2. q \in Questions /\ [ask EXCEPT ![n].pc = "upstream"] = [ask EXCEPT ![n] = [pc |-> "upstream", q |-> q]]
  BY <1>0, <1>1, AskedHas
<1>3. CASE Best(q) = {}
  <2>1. ask' = [ask EXCEPT ![n] = [pc |-> "upstream", q |-> q]] /\ UNCHANGED <<tasks, answer>>
    BY <1>1, <1>2, <1>3 DEF LookupSemanticCache
  <2>2. [pc |-> "upstream", q |-> q] \in AskRecs
    BY <1>2, AskRecsAre
  <2> QED BY <1>0, <2>1, <2>2, AskOnlyKeeps
<1>4. CASE Best(q) # {}
  <2>1. PICK r \in Best(q) :
           /\ ask' = [ask EXCEPT ![n] = Finished]
           /\ tasks' = tasks \cup OnHit(n, q, r, ttl)
           /\ answer' = [via |-> "semantic", by |-> n, q |-> q, v |-> ToEntry(r), id |-> r.id, age |-> clock - r.body.made]
    BY <1>1, <1>4 DEF LookupSemanticCache
  <2>2. /\ r \in sem /\ r \in SemanticRows /\ RowFits(r) /\ ~r.disabled
        /\ Alike(r.near, q.prompt) /\ clock <= r.exp
        /\ r.body.who[1] = q.who[1] /\ q.who[2] \in {"", r.body.who[2]}
    BY <1>2, BestIs
  <2>3. PICK v : v = ToEntry(r)
    OBVIOUS
  <2>4. /\ v \in CachedAnswers /\ v.copied = TRUE
        /\ v.of = r.body.of /\ v.who = r.body.who /\ v.made = r.body.made /\ v.made \in Nat
    BY <2>2, <2>3, ToEntryIs
  <2>5. r.id \in Ids /\ r.hits + 1 \in Int /\ r.exp \in Int /\ clock \in Int
    <3>1. r \in SemanticRows
      BY <2>2
    <3>2. r.id \in Ids /\ r.hits \in Int /\ r.exp \in Int
      BY <3>1 DEF SemanticRows
    <3>3. clock \in Int
      BY CacheConstants DEF CacheTypes
    <3> QED BY <3>2, <3>3
  <2>6. AnswerFits(Key(q), v) /\ clock <= LeavesAt(v)
    BY <1>2, <2>2, <2>4, <2>5, CacheConstants DEF AnswerFits, LeavesAt, RowFits
  <2>7. PICK w : w = [t |-> "set", k |-> Key(q), v |-> v, ttl |-> ttl]
    OBVIOUS
  <2>8. PICK u : u = [t |-> "read", by |-> n, id |-> r.id, hits |-> r.hits + 1]
    OBVIOUS
  <2>9. OnHit(n, q, r, ttl) = {w, u}
    BY <2>3, <2>7, <2>8 DEF OnHit, WriteCache
  <2>10. w \in SetTasks /\ w.t = "set" /\ w.k = Key(q) /\ w.v = v
    BY <1>2, <2>4, <2>7, CacheConstants DEF SetTasks
  <2>11. u \in ReadTasks /\ u.t = "read"
    BY <2>5, <2>8 DEF ReadTasks
  <2>12. ask' \in [Ids -> AskRecs] /\ \A i \in Ids : ask[i].pc = "done" => ask'[i].pc = "done"
    BY <1>0, <1>2, <2>1, AskRecsAre, AskMoves
  <2>13. CacheTypes'
    BY <1>0, <2>1, <2>9, <2>10, <2>11, <2>12 DEF CacheTypes
  <2>14. TaskStarts(w) /\ TaskStarts(u)
    BY <2>6, <2>10, <2>11 DEF TaskStarts
  <2>15. StoreInv'
    <3>1. PICK T : T = {w, u}
      OBVIOUS
    <3>2. /\ tasks' \subseteq tasks \cup T
          /\ \A x \in T : TaskStarts(x)
          /\ \A x, y \in T : x.t = "create" /\ y.t = "create" => x = y
      BY <3>1, <2>1, <2>9, <2>10, <2>11, <2>14
    <3>3. UNCHANGED <<clock, sem, off, overlapped>>
      BY <1>0
    <3> QED BY <3>2, <3>3, <2>12, TasksMove
  <2>16. AnswerInv'
    <3>1. answer'.via = "semantic" /\ answer'.q = q /\ answer'.v = v /\ answer'.age = clock - r.body.made
      BY <2>1, <2>3
    <3>2. clock - r.body.made <= SemTTL
      <4>1. r.exp = r.body.made + SemTTL /\ r.body.made \in Nat
        BY <2>2, <2>4 DEF RowFits
      <4>2. clock <= r.exp /\ SemTTL \in Nat
        BY <2>2, CacheConstants
      <4> QED BY <4>1, <4>2, <2>5
    <3>3. v.who[1] = q.who[1] /\ q.who[2] \in {"", v.who[2]} /\ Alike(v.of, q.prompt)
      BY <2>2, <2>4 DEF RowFits
    <3>4. (IF v.copied THEN SemTTL ELSE 0) + 0 = SemTTL
      BY <2>4, CacheConstants
    <3>5. NoDrift' /\ AnsweredWithinTenant'
      BY <3>1, <3>3 DEF NoDrift, AnsweredWithinTenant
    <3>6. AnswerAgeBounded'
      BY <3>1, <3>2, <3>4 DEF AnswerAgeBounded
    <3> QED BY <3>5, <3>6 DEF AnswerInv
  <2> QED BY <1>0, <2>13, <2>15, <2>16, MemoryStays
<1> QED BY <1>3, <1>4

LEMMA UpstreamKeeps ==
  ASSUME CacheInv, NEW n \in Ids, NEW ttl \in TTLs, NEW semantic \in BOOLEAN, Upstream(n, ttl, semantic)
  PROVE  CacheInv'
<1> USE DEF CacheInv
<1>0. /\ ask[n].pc = "upstream" /\ ask' = [ask EXCEPT ![n] = Finished]
      /\ UNCHANGED <<clock, driver, l0, l1, sem, answer, off, overlapped>>
  BY DEF Upstream, admin
<1>1. PICK q : q = ask[n].q
  OBVIOUS
<1>2. q \in Questions
  BY <1>0, <1>1, AskedHas
<1>3. PICK v : v = [of |-> q.prompt, who |-> q.who, made |-> clock, copied |-> FALSE]
  OBVIOUS
<1>4. clock \in Nat /\ q.prompt \in Int
  BY <1>2, CacheConstants DEF CacheTypes
<1>5. v \in CachedAnswers /\ v.of = q.prompt /\ v.who = q.who /\ v.made = clock /\ v.copied = FALSE
  BY <1>2, <1>3, <1>4 DEF CachedAnswers
<1>6. PICK w : w = [t |-> "set", k |-> Key(q), v |-> v, ttl |-> ttl]
  OBVIOUS
<1>7. w \in SetTasks /\ w.t = "set" /\ w.k = Key(q) /\ w.v = v
  BY <1>2, <1>5, <1>6, CacheConstants DEF SetTasks
<1>8. AnswerFits(Key(q), v) /\ clock <= LeavesAt(v)
  BY <1>2, <1>4, <1>5, CacheConstants DEF AnswerFits, LeavesAt, Alike
<1>9. PICK row : row = [id |-> n, near |-> q.prompt, body |-> v, exp |-> clock + SemTTL, hits |-> 0, disabled |-> FALSE]
  OBVIOUS
<1>10. row \in SemanticRows /\ row.id = n /\ row.near = q.prompt /\ row.body = v /\ row.exp = clock + SemTTL
  BY <1>4, <1>5, <1>9, CacheConstants DEF SemanticRows
<1>11. PICK u : u = [t |-> "create", row |-> row]
  OBVIOUS
<1>12. u \in CreateTasks /\ u.t = "create" /\ u.row = row
  BY <1>10, <1>11 DEF CreateTasks
<1>13. tasks' = tasks \cup {w} \cup (IF semantic THEN {u} ELSE {})
  BY <1>1, <1>3, <1>6, <1>9, <1>11 DEF Upstream, WriteCache, NewRow
<1>14. /\ ask' \in [Ids -> AskRecs] /\ ask'[n].pc = "done"
       /\ \A i \in Ids : ask[i].pc = "done" => ask'[i].pc = "done"
  BY <1>0, <1>2, AskRecsAre, AskMoves DEF CacheTypes
<1>15. CacheTypes'
  BY <1>0, <1>7, <1>12, <1>13, <1>14 DEF CacheTypes
<1>16. RowFits(row)
  BY <1>4, <1>5, <1>10, CacheConstants DEF RowFits
<1>17. TaskStarts(w) /\ TaskStarts(u)
  BY <1>0, <1>7, <1>8, <1>10, <1>12, <1>14, <1>16 DEF TaskStarts
<1>18. StoreInv'
  <2>1. PICK T : T = {w, u}
    OBVIOUS
  <2>2. /\ tasks' \subseteq tasks \cup T
        /\ \A x \in T : TaskStarts(x)
        /\ \A x, y \in T : x.t = "create" /\ y.t = "create" => x = y
    BY <2>1, <1>7, <1>12, <1>13, <1>17
  <2>3. UNCHANGED <<clock, sem, off, overlapped>>
    BY <1>0
  <2> QED BY <2>2, <2>3, <1>14, TasksMove
<1> QED BY <1>0, <1>15, <1>18, MemoryStays, AnswerStays

LEMMA SetEntryKeeps ==
  ASSUME CacheInv, NEW w \in tasks, NEW up \in BOOLEAN, SetEntry(w, up)
  PROVE  CacheInv'
<1> USE DEF CacheInv
<1>0. /\ w.t = "set" /\ tasks' = tasks \ {w}
      /\ UNCHANGED <<clock, driver, ask, sem, answer, off, overlapped>>
  BY DEF SetEntry, admin
<1>1. w \in SetTasks
  BY <1>0 DEF CacheTypes, SetTasks, CreateTasks, ReadTasks, WriteTasks
<1>2. /\ w.k \in CacheKeys /\ w.v \in CachedAnswers /\ w.ttl \in TTLs
      /\ w.v.made \in Nat /\ w.v.copied \in BOOLEAN /\ clock \in Int /\ w.ttl \in Nat
  <2>1. w.k \in CacheKeys /\ w.v \in CachedAnswers /\ w.ttl \in TTLs
    BY <1>1 DEF SetTasks
  <2>2. w.v.made \in Nat /\ w.v.copied \in BOOLEAN
    BY <2>1 DEF CachedAnswers
  <2>3. w.ttl \in Nat
    BY <2>1, LongestIs
  <2>4. clock \in 0 .. MaxClock /\ MaxClock \in Nat
    BY CacheConstants DEF CacheTypes
  <2>5. clock \in Int
    BY <2>4
  <2> QED BY <2>1, <2>2, <2>3, <2>5
<1>3. AnswerFits(w.k, w.v) /\ clock <= LeavesAt(w.v)
  BY <1>0 DEF StoreInv, TaskFits
<1>4. PICK e : e = [k |-> w.k, v |-> w.v, exp |-> clock + w.ttl]
  OBVIOUS
<1>5. e \in MemoryEntries /\ e.k = w.k /\ e.v = w.v /\ e.exp = clock + w.ttl
  BY <1>2, <1>4 DEF MemoryEntries
<1>6. EntryFits(e)
  <2>1. LeavesAt(w.v) \in Int /\ w.ttl <= Longest /\ Longest \in Int
    BY <1>2, LongestIs, CacheConstants DEF LeavesAt
  <2>2. e.exp <= LeavesAt(w.v) + Longest
    BY <1>2, <1>3, <1>5, <2>1
  <2> QED BY <1>3, <1>5, <2>2 DEF EntryFits
<1>7. PICK g : g = MemorySet(e)
  OBVIOUS
<1>8. /\ g \in Seq(MemoryEntries) /\ Len(g) <= Capacity
      /\ \A i, j \in DOMAIN g : i # j => g[i].k # g[j].k
      /\ \A i \in DOMAIN g : EntryFits(g[i])
  BY <1>5, <1>6, <1>7, MemorySetIs
<1>9. l0' = g /\ (l1' = RedisSet(e) \/ l1' = l1)
  BY <1>4, <1>7 DEF SetEntry
<1>10. \A x : EntryFits(x) => EntryFits(x)'
  BY <1>0 DEF EntryFits, AnswerFits, LeavesAt
<1>11. /\ l1' \subseteq MemoryEntries /\ \A x \in l1' : EntryFits(x)
       /\ \A x, y \in l1' : x # y => x.k # y.k
  BY <1>5, <1>6, <1>9 DEF RedisSet, CacheTypes, MemoryInv, KeysOnce
<1>12. CacheTypes'
  BY <1>0, <1>8, <1>9, <1>11 DEF CacheTypes
<1>13. MemoryInv'
  BY <1>8, <1>9, <1>10, <1>11 DEF MemoryInv, KeysOnce
<1>14. StoreInv'
  <2>1. PICK T : T = {}
    OBVIOUS
  <2>2. /\ tasks' \subseteq tasks \cup T /\ \A x \in T : TaskStarts(x)
        /\ \A x, y \in T : x.t = "create" /\ y.t = "create" => x = y
        /\ \A i \in Ids : ask[i].pc = "done" => ask'[i].pc = "done"
        /\ UNCHANGED <<clock, sem, off, overlapped>>
    BY <1>0, <2>1
  <2> QED BY <2>2, TasksMove
<1> QED BY <1>0, <1>12, <1>13, <1>14, AnswerStays

LEMMA CreateEntryKeeps ==
  ASSUME CacheInv, NEW w \in tasks, CreateSemanticCacheEntry(w)
  PROVE  CacheInv'
<1> USE DEF CacheInv
<1>0. /\ w.t = "create" /\ tasks' = tasks \ {w} /\ sem' = sem \cup {w.row}
      /\ UNCHANGED <<clock, driver, ask, l0, l1, answer, off, overlapped>>
  BY DEF CreateSemanticCacheEntry, admin
<1>1. w \in CreateTasks
  BY <1>0 DEF CacheTypes, SetTasks, CreateTasks, ReadTasks, WriteTasks
<1>2. w.row \in SemanticRows
  BY <1>1 DEF CreateTasks
<1>3. CacheTypes'
  BY <1>0, <1>2 DEF CacheTypes
<1>4. RowFits(w.row) /\ ask[w.row.id].pc = "done"
  BY <1>0 DEF StoreInv, TaskFits
<1>5. /\ w.row.id \notin off /\ \A r \in sem : r.id # w.row.id
      /\ \A x \in tasks : x.t = "create" /\ x.row.id = w.row.id => x = w
  BY <1>0 DEF StoreInv, IdsOnce
<1>6. \A r \in sem' : RowFits(r)'
  BY <1>0, <1>4 DEF StoreInv, RowFits
<1>7. \A x \in tasks' : TaskFits(x)'
  BY <1>0 DEF StoreInv, TaskFits, RowFits, AnswerFits, LeavesAt
<1>8. IdsOnce'
  <2>1. \A r, s \in sem' : r # s => r.id # s.id
    BY <1>0, <1>5 DEF StoreInv, IdsOnce
  <2>2. \A r \in sem' : ask'[r.id].pc = "done"
    BY <1>0, <1>4 DEF StoreInv, IdsOnce
  <2>3. \A x \in tasks' : x.t = "create" => /\ x.row.id \notin off'
                                            /\ \A r \in sem' : r.id # x.row.id
                                            /\ \A y \in tasks' : y.t = "create" /\ y.row.id = x.row.id => y = x
    BY <1>0, <1>5 DEF StoreInv, IdsOnce
  <2>4. \A i \in off' : i \in Ids /\ ask'[i].pc = "done"
    BY <1>0 DEF StoreInv, IdsOnce
  <2> QED BY <2>1, <2>2, <2>3, <2>4 DEF IdsOnce
<1>9. OffIsOff'
  BY <1>0, <1>5 DEF StoreInv, OffIsOff
<1>10. StoreInv'
  BY <1>6, <1>7, <1>8, <1>9 DEF StoreInv
<1> QED BY <1>0, <1>3, <1>10, MemoryStays, AnswerStays

LEMMA UpdateReadKeeps ==
  ASSUME CacheInv, NEW w \in tasks, UpdateRead(w)
  PROVE  CacheInv'
<1> USE DEF CacheInv
<1> DEFINE Counted(r) == [t |-> "write", by |-> w.by, row |-> [r EXCEPT !.hits = w.hits]]
           T == {Counted(r) : r \in {x \in sem : x.id = w.id}}
<1>0. /\ w.t = "read" /\ tasks' = (tasks \ {w}) \cup T
      /\ UNCHANGED <<clock, driver, ask, l0, l1, sem, answer, off, overlapped>>
  BY DEF UpdateRead, admin
<1>1. w \in ReadTasks
  BY <1>0 DEF CacheTypes, SetTasks, CreateTasks, ReadTasks, WriteTasks
<1>2. w.by \in Ids /\ w.hits \in Int
  BY <1>1 DEF ReadTasks
<1>3. ASSUME NEW r \in sem
      PROVE  Counted(r) \in WriteTasks /\ TaskStarts(Counted(r)) /\ Counted(r).t = "write"
  <2>1. r \in SemanticRows /\ RowFits(r)
    BY DEF CacheTypes, StoreInv
  <2>2. PICK s : s = [r EXCEPT !.hits = w.hits]
    OBVIOUS
  <2>3. /\ s \in SemanticRows /\ s.id = r.id /\ s.near = r.near /\ s.body = r.body
        /\ s.exp = r.exp /\ s.disabled = r.disabled
    BY <2>1, <2>2, <1>2 DEF SemanticRows
  <2>4. RowFits(s)
    BY <2>1, <2>3 DEF RowFits
  <2>5. PICK x : x = [t |-> "write", by |-> w.by, row |-> s]
    OBVIOUS
  <2>6. x \in WriteTasks /\ x.t = "write" /\ x.row = s
    BY <2>3, <2>5, <1>2 DEF WriteTasks
  <2>7. TaskStarts(x)
    BY <2>3, <2>4, <2>6 DEF TaskStarts
  <2>8. Counted(r) = x
    BY <2>2, <2>5
  <2> HIDE DEF Counted
  <2> QED BY <2>6, <2>7, <2>8
<1>4. /\ T \subseteq WriteTasks /\ \A x \in T : TaskStarts(x) /\ x.t = "write"
  <2> HIDE DEF Counted
  <2> QED BY <1>3
<1> HIDE DEF T, Counted
<1>5. CacheTypes'
  BY <1>0, <1>4 DEF CacheTypes
<1>6. StoreInv'
  <2>1. /\ tasks' \subseteq tasks \cup T
        /\ \A x, y \in T : x.t = "create" /\ y.t = "create" => x = y
        /\ \A i \in Ids : ask[i].pc = "done" => ask'[i].pc = "done"
        /\ UNCHANGED <<clock, sem, off, overlapped>>
    BY <1>0, <1>4
  <2> QED BY <1>4, <2>1, TasksMove
<1> QED BY <1>0, <1>5, <1>6, MemoryStays, AnswerStays

\* Rows that change without their ids, bodies and times: the count of a hit, or being switched off.
LEMMA RowsChange ==
  ASSUME CacheInv, UNCHANGED <<clock, ask>>, tasks' \subseteq tasks, off \subseteq off',
         \A w \in tasks : w.t = "create" => w.row.id \notin off',
         sem' \subseteq SemanticRows,
         \A i \in off' : i \in Ids /\ ask[i].pc = "done",
         \A r, s \in sem' : r # s => r.id # s.id,
         \A s \in sem' : RowFits(s) /\ \E r \in sem : r.id = s.id,
         OffIsOff'
  PROVE  StoreInv'
<1> USE DEF CacheInv
<1>1. \A r \in sem' : RowFits(r)'
  BY DEF RowFits
<1>2. \A x \in tasks' : TaskFits(x)'
  BY DEF StoreInv, TaskFits, RowFits, AnswerFits, LeavesAt
<1>3. \A r \in sem' : ask'[r.id].pc = "done"
  BY DEF StoreInv, IdsOnce
<1>4. ASSUME NEW x \in tasks', x.t = "create"
      PROVE  /\ x.row.id \notin off' /\ \A r \in sem' : r.id # x.row.id
             /\ \A y \in tasks' : y.t = "create" /\ y.row.id = x.row.id => y = x
  BY <1>4 DEF StoreInv, IdsOnce
<1>5. IdsOnce'
  BY <1>3, <1>4 DEF IdsOnce
<1> QED BY <1>1, <1>2, <1>5 DEF StoreInv

LEMMA CountKeeps ==
  ASSUME CacheInv, NEW w \in tasks, semanticCacheUpdate(w)
  PROVE  CacheInv'
<1> USE DEF CacheInv
<1>0. /\ w.t = "write" /\ tasks' = tasks \ {w} /\ sem' = {IF r.id = w.row.id THEN w.row ELSE r : r \in sem}
      /\ UNCHANGED <<clock, driver, ask, l0, l1, answer, off, overlapped>>
  BY DEF semanticCacheUpdate, admin
<1>1. w \in WriteTasks
  BY <1>0 DEF CacheTypes, SetTasks, CreateTasks, ReadTasks, WriteTasks
<1>2. w.row \in SemanticRows /\ RowFits(w.row)
  BY <1>0, <1>1 DEF WriteTasks, StoreInv, TaskFits
<1>3. sem' \subseteq SemanticRows
  BY <1>0, <1>2 DEF CacheTypes
<1>4. CacheTypes'
  BY <1>0, <1>3 DEF CacheTypes
<1>5. ASSUME NEW s \in sem' PROVE RowFits(s) /\ \E r \in sem : r.id = s.id /\ (s = r \/ s = w.row)
  <2>1. PICK r \in sem : s = IF r.id = w.row.id THEN w.row ELSE r
    BY <1>0
  <2> QED BY <2>1, <1>2 DEF StoreInv
<1>6. ASSUME NEW s \in sem', NEW u \in sem', s.id = u.id PROVE s = u
  <2>1. PICK r \in sem : s = IF r.id = w.row.id THEN w.row ELSE r
    BY <1>0
  <2>2. PICK x \in sem : u = IF x.id = w.row.id THEN w.row ELSE x
    BY <1>0
  <2>3. r.id = s.id /\ x.id = u.id
    BY <2>1, <2>2
  <2>4. r = x
    BY <1>6, <2>3 DEF StoreInv, IdsOnce
  <2> QED BY <2>1, <2>2, <2>4
<1>7. OffIsOff'
  <2>1. ASSUME NEW s \in sem', s.id \in off PROVE s.disabled \/ s.id \in overlapped
    <3>1. PICK r \in sem : r.id = s.id /\ (s = r \/ s = w.row)
      BY <1>5
    <3> QED BY <2>1, <3>1, <1>0 DEF StoreInv, OffIsOff
  <2>2. ASSUME NEW x \in tasks', NEW s \in sem', x.t = "write", x.row.id = s.id, s.id \in off
        PROVE  x.row.disabled \/ s.id \in overlapped
    <3>1. PICK r \in sem : r.id = s.id
      BY <1>5
    <3> QED BY <2>2, <3>1, <1>0 DEF StoreInv, OffIsOff
  <2> QED BY <2>1, <2>2, <1>0 DEF OffIsOff
<1>8. StoreInv'
  <2>1. /\ tasks' \subseteq tasks /\ off \subseteq off' /\ UNCHANGED <<clock, ask>>
        /\ \A x \in tasks : x.t = "create" => x.row.id \notin off'
        /\ \A i \in off' : i \in Ids /\ ask[i].pc = "done"
    BY <1>0 DEF StoreInv, IdsOnce
  <2>2. /\ \A r, s \in sem' : r # s => r.id # s.id
        /\ \A s \in sem' : RowFits(s) /\ \E r \in sem : r.id = s.id
    BY <1>5, <1>6
  <2> QED BY <2>1, <2>2, <1>3, <1>7, RowsChange
<1> QED BY <1>0, <1>4, <1>8, MemoryStays, AnswerStays

LEMMA WriteFailsKeeps ==
  ASSUME CacheInv, NEW w \in tasks, SemanticWriteFails(w)
  PROVE  CacheInv'
<1> USE DEF CacheInv
<1>0. tasks' = tasks \ {w} /\ UNCHANGED <<clock, driver, ask, l0, l1, sem, answer, off, overlapped>>
  BY DEF SemanticWriteFails, admin
<1>1. CacheTypes'
  BY <1>0 DEF CacheTypes
<1>2. StoreInv'
  <2>1. PICK T : T = {}
    OBVIOUS
  <2>2. /\ tasks' \subseteq tasks \cup T /\ \A x \in T : TaskStarts(x)
        /\ \A x, y \in T : x.t = "create" /\ y.t = "create" => x = y
        /\ \A i \in Ids : ask[i].pc = "done" => ask'[i].pc = "done"
        /\ UNCHANGED <<clock, sem, off, overlapped>>
    BY <1>0, <2>1
  <2> QED BY <2>2, TasksMove
<1> QED BY <1>0, <1>1, <1>2, MemoryStays, AnswerStays

LEMMA DisableKeeps ==
  ASSUME CacheInv, NEW tenant, DisableSemanticCacheEntriesByScope(tenant)
  PROVE  CacheInv'
<1> USE DEF CacheInv
<1>1. PICK gone_ : gone_ = {r.id : r \in {x \in sem : x.body.who[1] = tenant}}
  OBVIOUS
<1>2. /\ sem' = {IF r.id \in gone_ THEN [r EXCEPT !.disabled = TRUE] ELSE r : r \in sem}
      /\ off' = off \cup gone_ /\ overlapped' = overlapped \cup {i \in gone_ : Overlaps(i)}
      /\ UNCHANGED <<clock, driver, ask, l0, l1, tasks, answer>>
  BY <1>1 DEF DisableSemanticCacheEntriesByScope
<1>3. \A i \in gone_ : \E r \in sem : r.id = i
  BY <1>1
<1>4. ASSUME NEW s \in sem'
      PROVE  /\ s \in SemanticRows /\ RowFits(s)
             /\ \E r \in sem : /\ r.id = s.id /\ s = IF r.id \in gone_ THEN [r EXCEPT !.disabled = TRUE] ELSE r
                               /\ s.disabled = (r.disabled \/ r.id \in gone_)
  <2>1. PICK r \in sem : s = IF r.id \in gone_ THEN [r EXCEPT !.disabled = TRUE] ELSE r
    BY <1>2
  <2>2. r \in SemanticRows /\ RowFits(r) /\ r.disabled \in BOOLEAN
    BY DEF CacheTypes, StoreInv, SemanticRows
  <2>3. CASE r.id \in gone_
    <3>1. s = [r EXCEPT !.disabled = TRUE]
      BY <2>1, <2>3
    <3>2. /\ s \in SemanticRows /\ s.id = r.id /\ s.near = r.near /\ s.body = r.body
          /\ s.exp = r.exp /\ s.disabled = TRUE
      BY <2>2, <3>1 DEF SemanticRows
    <3> QED BY <2>1, <2>2, <2>3, <3>2 DEF RowFits
  <2>4. CASE r.id \notin gone_
    <3>1. s = r
      BY <2>1, <2>4
    <3> QED BY <2>1, <2>2, <2>4, <3>1
  <2> QED BY <2>3, <2>4
<1>5. ASSUME NEW s \in sem', NEW u \in sem', s.id = u.id PROVE s = u
  <2>1. PICK r \in sem : r.id = s.id /\ s = IF r.id \in gone_ THEN [r EXCEPT !.disabled = TRUE] ELSE r
    BY <1>4
  <2>2. PICK x \in sem : x.id = u.id /\ u = IF x.id \in gone_ THEN [x EXCEPT !.disabled = TRUE] ELSE x
    BY <1>4
  <2>3. r = x
    BY <2>1, <2>2, <1>5 DEF StoreInv, IdsOnce
  <2> QED BY <2>1, <2>2, <2>3
<1>6. OffIsOff'
  <2>1. ASSUME NEW s \in sem', s.id \in off' PROVE s.disabled \/ s.id \in overlapped'
    <3>1. PICK r \in sem : r.id = s.id /\ s.disabled = (r.disabled \/ r.id \in gone_)
      BY <1>4
    <3> QED BY <2>1, <3>1, <1>2 DEF StoreInv, OffIsOff
  <2>2. ASSUME NEW w \in tasks', NEW s \in sem', w.t = "write", w.row.id = s.id, s.id \in off'
        PROVE  w.row.disabled \/ s.id \in overlapped'
    <3>1. PICK r \in sem : r.id = s.id
      BY <1>4
    <3>2. CASE s.id \in gone_
      <4>1. Overlaps(s.id)
        BY <2>2, <1>2 DEF Overlaps
      <4> QED BY <4>1, <3>2, <1>2
    <3>3. CASE s.id \notin gone_
      BY <2>2, <3>1, <3>3, <1>2 DEF StoreInv, OffIsOff
    <3> QED BY <3>2, <3>3
  <2> QED BY <2>1, <2>2 DEF OffIsOff
<1>7. sem' \subseteq SemanticRows
  BY <1>4
<1>8. CacheTypes'
  BY <1>2, <1>7 DEF CacheTypes
<1>9. StoreInv'
  <2>1. /\ tasks' \subseteq tasks /\ off \subseteq off' /\ UNCHANGED <<clock, ask>>
    BY <1>2
  <2>2. \A x \in tasks : x.t = "create" => x.row.id \notin off'
    BY <1>2, <1>3 DEF StoreInv, IdsOnce
  <2>3. \A i \in off' : i \in Ids /\ ask[i].pc = "done"
    BY <1>2, <1>3 DEF StoreInv, IdsOnce, CacheTypes, SemanticRows
  <2>4. /\ \A r, s \in sem' : r # s => r.id # s.id
        /\ \A s \in sem' : RowFits(s) /\ \E r \in sem : r.id = s.id
    BY <1>4, <1>5
  <2> QED BY <2>1, <2>2, <2>3, <2>4, <1>6, <1>7, RowsChange
<1> QED BY <1>2, <1>8, <1>9, MemoryStays, AnswerStays

LEMMA RowsGoKeep ==
  ASSUME CacheInv,
         (\E r \in sem : DeleteSemanticCacheEntry(r)) \/ DeleteSemanticCacheEntriesExpiredBefore
  PROVE  CacheInv'
<1> USE DEF CacheInv
<1>0. sem' \subseteq sem /\ UNCHANGED <<clock, driver, ask, l0, l1, tasks, answer, overlapped>>
  BY DEF DeleteSemanticCacheEntry, DeleteSemanticCacheEntriesExpiredBefore, admin
<1>1. off \subseteq off' /\ \A i \in off' : i \in off \/ ((\E r \in sem : r.id = i) /\ \A s \in sem' : s.id # i)
  <2>1. CASE DeleteSemanticCacheEntriesExpiredBefore
    BY <2>1 DEF DeleteSemanticCacheEntriesExpiredBefore, admin
  <2>2. ASSUME NEW r \in sem, DeleteSemanticCacheEntry(r)
        PROVE  off \subseteq off' /\ \A i \in off' : i \in off \/ ((\E x \in sem : x.id = i) /\ \A s \in sem' : s.id # i)
    BY <2>2 DEF DeleteSemanticCacheEntry, StoreInv, IdsOnce
  <2> QED BY <2>1, <2>2
<1>2. OffIsOff'
  <2>1. \A s \in sem' : s \in sem /\ (s.id \in off' => s.id \in off)
    BY <1>0, <1>1
  <2> QED BY <2>1, <1>0 DEF StoreInv, OffIsOff
<1>3. CacheTypes'
  BY <1>0 DEF CacheTypes
<1>4. StoreInv'
  <2>1. /\ tasks' \subseteq tasks /\ UNCHANGED <<clock, ask>> /\ sem' \subseteq SemanticRows
    BY <1>0 DEF CacheTypes
  <2>2. \A x \in tasks : x.t = "create" => x.row.id \notin off'
    BY <1>1 DEF StoreInv, IdsOnce
  <2>3. \A i \in off' : i \in Ids /\ ask[i].pc = "done"
    BY <1>1 DEF StoreInv, IdsOnce, CacheTypes, SemanticRows
  <2>4. /\ \A r, s \in sem' : r # s => r.id # s.id
        /\ \A s \in sem' : RowFits(s) /\ \E r \in sem : r.id = s.id
    BY <1>0 DEF StoreInv, IdsOnce
  <2> QED BY <2>1, <2>2, <2>3, <2>4, <1>1, <1>2, RowsChange
<1> QED BY <1>0, <1>3, <1>4, MemoryStays, AnswerStays

LEMMA CacheTickKeeps == ASSUME CacheInv, Tick PROVE CacheInv'
<1> USE DEF CacheInv
<1>0. /\ clock \in 0 .. MaxClock /\ clock < MaxClock /\ clock' = clock + 1 /\ tasks = {}
      /\ UNCHANGED <<driver, ask, l0, l1, sem, tasks, answer, off, overlapped>>
  BY DEF Tick, admin, CacheTypes
<1>1. clock' \in 0 .. MaxClock /\ clock <= clock' /\ clock \in Int
  BY <1>0, CacheConstants
<1>2. CacheTypes'
  BY <1>0, <1>1 DEF CacheTypes
<1>3. ASSUME NEW v \in CachedAnswers, v.made <= clock PROVE v.made <= clock'
  <2>1. v.made \in Int
    BY DEF CachedAnswers
  <2> QED BY <2>1, <1>3, <1>1, <1>0
<1>4. MemoryInv'
  <2>1. ASSUME NEW e \in MemoryEntries, EntryFits(e) PROVE EntryFits(e)'
    <3>1. e.v \in CachedAnswers
      BY DEF MemoryEntries
    <3> QED BY <2>1, <3>1, <1>3 DEF EntryFits, AnswerFits, LeavesAt
  <2>2. \A i \in DOMAIN l0' : EntryFits(l0[i])'
    <3> SUFFICES ASSUME NEW i \in DOMAIN l0' PROVE EntryFits(l0[i])'
      OBVIOUS
    <3>1. PICK e : e = l0[i]
      OBVIOUS
    <3>2. e \in MemoryEntries /\ EntryFits(e)
      BY <3>1, <1>0 DEF MemoryInv, CacheTypes
    <3>3. EntryFits(e)' /\ l0'[i] = e
      BY <3>1, <3>2, <2>1, <1>0
    <3> QED BY <3>3
  <2>3. \A e \in l1 : EntryFits(e)'
    BY <2>1 DEF MemoryInv, CacheTypes
  <2> QED BY <2>2, <2>3, <1>0 DEF MemoryInv, KeysOnce
<1>5. StoreInv'
  <2>1. ASSUME NEW r \in sem PROVE RowFits(r)'
    <3>1. r.body \in CachedAnswers /\ RowFits(r)
      BY DEF StoreInv, CacheTypes, SemanticRows
    <3> QED BY <3>1, <1>3 DEF RowFits
  <2>2. IdsOnce' /\ OffIsOff'
    BY <1>0 DEF StoreInv, IdsOnce, OffIsOff
  <2> QED BY <2>1, <2>2, <1>0 DEF StoreInv
<1> QED BY <1>0, <1>2, <1>4, <1>5, AnswerStays

LEMMA RestartKeeps == ASSUME CacheInv, RestartGateway PROVE CacheInv'
<1> USE DEF CacheInv
<1>0. /\ l0' = <<>> /\ tasks' = {} /\ UNCHANGED <<clock, driver, l1, sem, answer, off, overlapped>>
      /\ ask' = [n \in Ids |-> IF ask[n].pc = "idle" THEN ask[n] ELSE Finished]
  BY DEF RestartGateway, admin
<1>1. ask' \in [Ids -> AskRecs] /\ \A i \in Ids : ask[i].pc = "done" => ask'[i].pc = "done"
  BY <1>0 DEF CacheTypes, AskRecs, Finished
<1>2. CacheTypes'
  BY <1>0, <1>1 DEF CacheTypes
<1>3. MemoryInv'
  <2>1. KeysOnce'
    BY <1>0, CacheConstants DEF MemoryInv, KeysOnce
  <2> QED BY <1>0, <2>1 DEF MemoryInv, EntryFits, AnswerFits, LeavesAt
<1>4. StoreInv'
  <2>1. PICK T : T = {}
    OBVIOUS
  <2>2. /\ tasks' \subseteq tasks \cup T /\ \A x \in T : TaskStarts(x)
        /\ \A x, y \in T : x.t = "create" /\ y.t = "create" => x = y
        /\ UNCHANGED <<clock, sem, off, overlapped>>
    BY <1>0, <2>1
  <2> QED BY <2>2, <1>1, TasksMove
<1> QED BY <1>0, <1>2, <1>3, <1>4, AnswerStays

LEMMA CacheInductive == CacheInv /\ [CacheNext]_cacheVars => CacheInv'
<1> SUFFICES ASSUME CacheInv, [CacheNext]_cacheVars PROVE CacheInv'
  OBVIOUS
<1>1. CASE UNCHANGED cacheVars
  <2>1. UNCHANGED <<clock, driver, ask, l0, l1, sem, tasks, answer, off, overlapped>>
    BY <1>1 DEF cacheVars
  <2>2. CacheTypes'
    BY <2>1 DEF CacheInv, CacheTypes
  <2> QED BY <2>1, <2>2, MemoryStays, StoreStays, AnswerStays DEF CacheInv
<1>2. CASE CacheNext
  <2>1. ASSUME NEW n \in Ids,
               \/ \E q \in Questions : SkipCache(n, q) \/ \E up \in BOOLEAN : LookupCache(n, q, up)
               \/ \E ttl \in TTLs : LookupSemanticCache(n, ttl) \/ \E s \in BOOLEAN : Upstream(n, ttl, s)
               \/ SemanticSkipped(n) \/ NotCached(n)
        PROVE  CacheInv'
    BY <2>1, PassesKeep, LookupCacheKeeps, LookupSemanticKeeps, UpstreamKeeps
  <2>2. ASSUME NEW w \in tasks,
               \/ \E up \in BOOLEAN : SetEntry(w, up)
               \/ CreateSemanticCacheEntry(w) \/ UpdateRead(w) \/ semanticCacheUpdate(w) \/ SemanticWriteFails(w)
        PROVE  CacheInv'
    BY <2>2, SetEntryKeeps, CreateEntryKeeps, UpdateReadKeeps, CountKeeps, WriteFailsKeeps
  <2>3. ASSUME NEW tenant, DisableSemanticCacheEntriesByScope(tenant) PROVE CacheInv'
    BY <2>3, DisableKeeps
  <2>4. CASE (\E r \in sem : DeleteSemanticCacheEntry(r)) \/ DeleteSemanticCacheEntriesExpiredBefore
    BY <2>4, RowsGoKeep
  <2>5. CASE Tick \/ RestartGateway
    BY <2>5, CacheTickKeeps, RestartKeeps
  <2> QED BY <1>2, <2>1, <2>2, <2>3, <2>4, <2>5 DEF CacheNext
<1> QED BY <1>1, <1>2

LEMMA CacheConcludes == CacheInv => CacheSound
<1> SUFFICES ASSUME CacheInv PROVE CacheSound
  OBVIOUS
<1>1. \A n \in Ids : ask[n].pc \in {"idle", "semantic", "upstream", "skipped", "done"}
  BY DEF CacheInv, CacheTypes, AskRecs, NotAsked, Finished
<1>2. CacheTypeOK
  BY <1>1 DEF CacheInv, CacheTypes, MemoryInv, StoreInv, KeysOnce, IdsOnce, CacheTypeOK
<1> QED BY <1>2 DEF CacheInv, AnswerInv, CacheSound

\* For any questions and tenants, either database, any lives, capacity and number of candidates, and
\* any interleaving of requests, goroutines, administration and restarts: what the exact and
\* the semantic cache answer with was given to a like prompt of the same tenant, and
\* is no older than a life in each of them (memory_cache.go, semantic_cache.go).
THEOREM CacheCorrect == CacheSpec => []CacheSound
<1>1. CacheInit => CacheInv
  BY CacheStarts
<1>2. CacheInv /\ [CacheNext]_cacheVars => CacheInv'
  BY CacheInductive
<1>3. CacheInv => CacheSound
  BY CacheConcludes
<1> QED BY <1>1, <1>2, <1>3, PTL DEF CacheSpec

LEMMA OffStaysOffStep == CacheInv /\ [CacheNext]_cacheVars => OffStaysOff \/ UNCHANGED cacheVars
<1> SUFFICES ASSUME CacheInv, CacheNext, answer' # answer, answer'.via = "semantic", answer'.id \in off
             PROVE  answer'.id \in overlapped
  BY DEF OffStaysOff
<1>1. PICK n \in Ids : (\E q \in Questions, up \in BOOLEAN : LookupCache(n, q, up)) \/ \E ttl \in TTLs : LookupSemanticCache(n, ttl)
  BY DEF CacheNext, SkipCache, Upstream, SemanticSkipped, NotCached, SetEntry, CreateSemanticCacheEntry, UpdateRead,
         semanticCacheUpdate, SemanticWriteFails, DisableSemanticCacheEntriesByScope, DeleteSemanticCacheEntry,
         DeleteSemanticCacheEntriesExpiredBefore, Tick, RestartGateway
<1>2. \A q \in Questions, up \in BOOLEAN : ~LookupCache(n, q, up)
  <2> SUFFICES ASSUME NEW q \in Questions, NEW up \in BOOLEAN, LookupCache(n, q, up) PROVE FALSE
    OBVIOUS
  <2>1. PICK e \in Got(Key(q), up) :
           answer' = [via |-> "exact", by |-> n, q |-> q, v |-> e.v, age |-> clock - e.v.made]
    BY DEF LookupCache
  <2> QED BY <2>1
<1>3. PICK ttl \in TTLs : LookupSemanticCache(n, ttl)
  BY <1>1, <1>2
<1>4. PICK q : q = ask[n].q
  OBVIOUS
<1>5. q \in Questions
  BY <1>3, <1>4, AskedHas DEF LookupSemanticCache, CacheInv
<1>6. PICK r \in Best(q) :
         answer' = [via |-> "semantic", by |-> n, q |-> q, v |-> ToEntry(r), id |-> r.id, age |-> clock - r.body.made]
  BY <1>3, <1>4 DEF LookupSemanticCache
<1>7. r \in sem /\ ~r.disabled /\ answer'.id = r.id
  BY <1>5, <1>6, BestIs
<1> QED BY <1>7 DEF CacheInv, StoreInv, OffIsOff

\* A row that was disabled or deleted answers no later request from the semantic cache unless the
\* count of a concurrent hit wrote it back (semantic_cache.go UpdateSemanticCacheEntry).
THEOREM OffStays == CacheSpec => [][OffStaysOff]_cacheVars
<1>1. CacheInit => CacheInv
  BY CacheStarts
<1>2. CacheInv /\ [CacheNext]_cacheVars => CacheInv'
  BY CacheInductive
<1>3. CacheInv /\ [CacheNext]_cacheVars => [OffStaysOff]_cacheVars
  BY OffStaysOffStep
<1> QED BY <1>1, <1>2, <1>3, PTL DEF CacheSpec

-----------------------------------------------------------------------------
(* RateLimiter.                                                            *)

LimPcs == {"start", "wait", "legacy", "specs", "lock", "script", "decide", "admitted", "refused"}
SpecRecs == [key : LimitKeys, gen : 1 .. MaxGen, burst : Nat]

\* Where a dimension comes in the order in which buckets are locked.
DimRank(k) ==
    2 * (CASE k[2] = "global" -> 0 [] k[2] = "tenant" -> 1 [] k[2] = "provider" -> 2 [] k[2] = "model" -> 3)
      + (IF k[3] = "tokens" THEN 1 ELSE 2)

\* The specs that a request has when it has come to dimension n: of each dimension before it at most
\* one, in their order, and one of those that every configuration limits.
SpecsUpTo(s, n) ==
    /\ Len(s) < n
    /\ \A j \in DOMAIN s : \E a \in 1 .. n - 1 : a \in DOMAIN Dimensions /\ s[j].key = Dimensions[a]
    /\ \A i, j \in DOMAIN s : i < j => DimRank(s[i].key) < DimRank(s[j].key)
    /\ \A a \in 1 .. n - 1 : a \in DOMAIN Dimensions /\ (\A c \in Confs : Limited(c, Dimensions[a]))
                                => \E j \in DOMAIN s : s[j].key = Dimensions[a]

CallerFits(r) ==
    /\ lpc[r] = "legacy" => at[r] <= Len(LegacyDimensions)
    /\ lpc[r] = "specs" => at[r] <= Len(Dimensions) /\ SpecsUpTo(spec[r], at[r])
    /\ lpc[r] \in {"lock", "script", "decide"} => SpecsUpTo(spec[r], Len(Dimensions) + 1) /\ spec[r] # <<>>
    /\ lpc[r] = "lock" => at[r] <= Len(spec[r])
    /\ lpc[r] \notin {"specs", "lock", "script", "decide"} => spec[r] = <<>>

\* A bucket is locked by a request that has come past it.
Holds(r, k, g) ==
    \/ lpc[r] = "decide" /\ \E i \in DOMAIN spec[r] : spec[r][i].key = k /\ spec[r][i].gen = g
    \/ lpc[r] = "lock" /\ \E i \in DOMAIN spec[r] : i < at[r] /\ spec[r][i].key = k /\ spec[r][i].gen = g
LocksHeld ==
    \A k \in LimitKeys, g \in 1 .. MaxGen : bucket[k][g].lock # Nobody => Holds(bucket[k][g].lock, k, g)

\* The tokens in all buckets that a key has had.
TokensOf(b, n) == LET upTo[i \in 0 .. n] == IF i = 0 THEN 0 ELSE upTo[i - 1] + b[i].tokens IN upTo[n]

\* What came to a dimension is in its buckets, or was taken.
TokensBalance ==
    \A a \in DOMAIN Dimensions : (\A c \in Confs : Limited(c, Dimensions[a])) =>
        Cardinality({r \in Callers : lpc[r] = "admitted"}) * Consumes(Dimensions[a])
           + TokensOf(bucket[Dimensions[a]], MaxGen) <= fills[Dimensions[a]]

\* Whoever waits without an answer is queued, or with the consumer.
WaitingQueued ==
    /\ consumer.state \in {"tokens", "rpm", "user"} <=> consumer.req # Nobody
    /\ consumer.state \in {"drain", "done"} => stopping
    /\ \A r \in Callers : lpc[r] = "wait" /\ limAnswer[r] = "none" => r \in Members(queue) \/ consumer.req = r
    /\ consumer.state = "done" => Members(queue) \subseteq late

LimInv ==
    /\ LimiterTypeOK
    /\ \A r \in Callers : CallerFits(r)
    /\ LocksHeld
    /\ TokensBalance
    /\ WaitingQueued

BucketRecs == [tokens : Nat, burst : Nat, on : BOOLEAN, lock : Callers \cup {Nobody}]

LEMMA LimConstants ==
    /\ MaxGen \in Nat /\ 1 <= MaxGen /\ MaxGen \in 1 .. MaxGen
    /\ \A k : Consumes(k) \in Nat \ {0}
  BY LimiterAssumption DEF LimiterAssumption, Consumes

LEMMA PerMinuteIs == \A limit, conf_ \in Int : perMinuteBurst(limit, conf_) \in Nat
<1> SUFFICES ASSUME NEW x \in Int, NEW y \in Int PROVE perMinuteBurst(x, y) \in Nat
  OBVIOUS
<1>1. x \div 60 \in Int
  OBVIOUS
<1> QED BY <1>1 DEF perMinuteBurst

\* The keys, and what a configuration says of each.
KeySpace == {"all", "legacy"} \X {"global", "tenant", "provider", "model", "user"} \X {"tokens", "qps", "rpm"}

LEMMA LimitKeysAre == \A k \in LimitKeys : k \in KeySpace
<1>1. \A k \in {"all", "legacy"} \X {"global", "tenant", "provider", "model"} \X {"tokens", "qps", "rpm"} : k \in KeySpace
  BY DEF KeySpace
<1>2. \A k \in GlobalKeys \cup {BucketKey("user", "qps")} : k \in KeySpace
  BY DEF KeySpace, GlobalKeys, BucketKey
<1> QED BY <1>1, <1>2 DEF LimitKeys

LEMMA LimitIs ==
  ASSUME NEW c \in Confs, NEW k \in LimitKeys, NEW l, l = LimitOf(c, k)
  PROVE  l.burst \in Nat /\ l.on \in BOOLEAN
<1>0. /\ c \in [global : Limits, tenant : Limits, provider : Limits, model : Limits, userBurst : Int]
      /\ UserQPS \in Int /\ DisabledBurst \in Nat
  BY LimiterAssumption DEF LimiterAssumption
<1>1. k \in KeySpace
  BY LimitKeysAre
<1>2. CASE k[2] = "user"
  <2>1. l = UserLimit(c)
    BY <1>2 DEF LimitOf
  <2>2. c.userBurst \in Int /\ c.global.qps \in Int
    BY <1>0 DEF Limits
  <2>3. PICK rate : rate = (IF UserQPS > 0 THEN UserQPS ELSE c.global.qps)
    OBVIOUS
  <2>4. PICK burst : burst = (IF c.userBurst <= 0 THEN 100 ELSE c.userBurst)
    OBVIOUS
  <2>5. rate \in Int /\ burst \in Nat
    BY <1>0, <2>2, <2>3, <2>4
  <2>6. l = [on |-> rate > 0, burst |-> IF UserQPS > 0 /\ rate > 0 /\ burst > rate THEN rate ELSE burst]
    BY <2>1, <2>3, <2>4 DEF UserLimit
  <2>7. l.on = (rate > 0) /\ l.burst = IF UserQPS > 0 /\ rate > 0 /\ burst > rate THEN rate ELSE burst
    BY <2>6
  <2>8. l.burst \in Nat
    BY <2>5, <2>7
  <2>9. l.on \in BOOLEAN
    BY <2>6
  <2> QED BY <2>8, <2>9, Zenon
<1>3. CASE k[2] # "user"
  <2>1. PICK p : p = c[k[2]]
    OBVIOUS
  <2>2. p \in Limits
    <3>1. k[2] \in {"global", "tenant", "provider", "model"}
      BY <1>1, <1>3 DEF KeySpace
    <3>2. c["global"] \in Limits /\ c["tenant"] \in Limits /\ c["provider"] \in Limits /\ c["model"] \in Limits
      BY <1>0
    <3> QED BY <2>1, <3>1, <3>2
  <2>3. /\ p.tpm \in Int /\ p.tpmBurst \in Int /\ p.qps \in Int /\ p.qpsBurst \in Int /\ p.rpm \in Int /\ p.rpmBurst \in Int
        /\ c.global.rpm \in Int /\ c.global.rpmBurst \in Int
    BY <1>0, <2>2 DEF Limits
  <2>4. CASE k[3] = "rpm"
    <3>1. l = [on |-> c.global.rpm > 0, burst |-> perMinuteBurst(c.global.rpm, c.global.rpmBurst)]
      BY <1>3, <2>4 DEF LimitOf
    <3>2. perMinuteBurst(c.global.rpm, c.global.rpmBurst) \in Nat
      BY <2>3, PerMinuteIs
    <3> QED BY <3>1, <3>2, <2>3
  <2>5. CASE k[3] = "qps"
    <3>1. l = requestLimit(p)
      BY <1>3, <2>1, <2>5 DEF LimitOf
    <3>2. perMinuteBurst(p.rpm, p.rpmBurst) \in Nat
      BY <2>3, PerMinuteIs
    <3> QED BY <3>1, <3>2, <2>3 DEF requestLimit
  <2>6. CASE k[3] = "tokens"
    <3>1. l = [on |-> p.tpm > 0, burst |-> tokenBurst(p.tpm, p.tpmBurst, IF k[2] = "global" THEN DisabledBurst ELSE 0)]
      BY <1>3, <2>1, <2>6 DEF LimitOf
    <3>2. perMinuteBurst(p.tpm, p.tpmBurst) \in Nat
      BY <2>3, PerMinuteIs
    <3> QED BY <3>1, <3>2, <2>3, <1>0 DEF tokenBurst
  <2> QED BY <1>1, <2>4, <2>5, <2>6 DEF KeySpace
<1> QED BY <1>2, <1>3

\* The dimensions of Check come in the order of their ranks.
AllDimensions == << BucketKey("global", "tokens"), BucketKey("global", "qps"), BucketKey("tenant", "tokens"),
                    BucketKey("tenant", "qps"), BucketKey("provider", "tokens"), BucketKey("provider", "qps"),
                    BucketKey("model", "tokens"), BucketKey("model", "qps") >>

LEMMA AllDimensionsAre ==
    /\ AllDimensions \in Seq(KeySpace) /\ Len(AllDimensions) = 8
    /\ \A a \in 1 .. 8 : DimRank(AllDimensions[a]) = a
    /\ AllDimensions[1] \in LimitKeys
<1>1. AllDimensions \in Seq(KeySpace) /\ Len(AllDimensions) = 8
  BY DEF AllDimensions, KeySpace, BucketKey
<1>2. ASSUME NEW a \in 1 .. 8 PROVE DimRank(AllDimensions[a]) = a
  <2>1. a = 1 \/ a = 2 \/ a = 3 \/ a = 4 \/ a = 5 \/ a = 6 \/ a = 7 \/ a = 8
    OBVIOUS
  <2>2. CASE a = 1
    BY <2>2 DEF AllDimensions, BucketKey, DimRank
  <2>3. CASE a = 2
    BY <2>3 DEF AllDimensions, BucketKey, DimRank
  <2>4. CASE a = 3
    BY <2>4 DEF AllDimensions, BucketKey, DimRank
  <2>5. CASE a = 4
    BY <2>5 DEF AllDimensions, BucketKey, DimRank
  <2>6. CASE a = 5
    BY <2>6 DEF AllDimensions, BucketKey, DimRank
  <2>7. CASE a = 6
    BY <2>7 DEF AllDimensions, BucketKey, DimRank
  <2>8. CASE a = 7
    BY <2>8 DEF AllDimensions, BucketKey, DimRank
  <2>9. CASE a = 8
    BY <2>9 DEF AllDimensions, BucketKey, DimRank
  <2> QED BY <2>1, <2>2, <2>3, <2>4, <2>5, <2>6, <2>7, <2>8, <2>9
<1>3. AllDimensions[1] \in LimitKeys
  BY DEF AllDimensions, LimitKeys, GlobalKeys
<1> QED BY <1>1, <1>2, <1>3

LEMMA DimensionsAre ==
    /\ Dimensions \in Seq(LimitKeys) /\ Len(Dimensions) \in 1 .. 8 /\ DOMAIN Dimensions = 1 .. Len(Dimensions)
    /\ \A a \in DOMAIN Dimensions : Dimensions[a] \in LimitKeys /\ DimRank(Dimensions[a]) \in 1 .. 8
    /\ \A a, b \in DOMAIN Dimensions : a < b => DimRank(Dimensions[a]) < DimRank(Dimensions[b])
<1>1. PICK s : s = AllDimensions
  OBVIOUS
<1>2. /\ s \in Seq(KeySpace) /\ Len(s) = 8 /\ DOMAIN s = 1 .. 8
      /\ \A a \in 1 .. 8 : DimRank(s[a]) = a
      /\ s[1] \in LimitKeys
  BY <1>1, AllDimensionsAre
<1>3. PICK w : w = Dimensions
  OBVIOUS
<1>4. w = MembersIn(s, LimitKeys)
  BY <1>1, <1>3 DEF Dimensions, AllDimensions
<1>5. /\ w \in Seq(KeySpace \cap LimitKeys) /\ Len(w) <= Len(s)
      /\ (\E i \in DOMAIN s : s[i] \in LimitKeys) => w # <<>>
      /\ \A i \in DOMAIN w : \E a \in DOMAIN s : w[i] = s[a]
      /\ \A i, j \in DOMAIN w : i < j => \E a, b \in DOMAIN s : a < b /\ w[i] = s[a] /\ w[j] = s[b]
  <2> HIDE DEF Members, MembersIn
  <2>0. s \in Seq(KeySpace)
    BY <1>2
  <2>1. w \in Seq(KeySpace \cap LimitKeys)
    BY <2>0, <1>4, MembersInIs
  <2>2. Len(w) <= Len(s)
    BY <2>0, <1>4, MembersInIs
  <2>3. (\E i \in DOMAIN s : s[i] \in LimitKeys) => w # <<>>
    BY <2>0, <1>4, MembersInIs
  <2>3a. InOrderOf(w, s)
    BY <2>0, <1>4, MembersInIs
  <2>4. \A i \in DOMAIN w : \E a \in DOMAIN s : w[i] = s[a]
    BY <2>3a, Zenon DEF InOrderOf
  <2>5. \A i, j \in DOMAIN w : i < j => \E a, b \in DOMAIN s : a < b /\ w[i] = s[a] /\ w[j] = s[b]
    BY <2>3a, Zenon DEF InOrderOf
  <2> QED BY <2>1, <2>2, <2>3, <2>4, <2>5
<1>6. w # <<>>
  <2>1. 1 \in DOMAIN s
    BY <1>2
  <2> QED BY <1>2, <1>5, <2>1
<1>7. w \in Seq(LimitKeys) /\ Len(w) \in Nat /\ DOMAIN w = 1 .. Len(w) /\ Len(w) # 0
  BY <1>5, <1>6
<1>8. Len(w) \in 1 .. 8
  <2>1. PICK n : n = Len(w)
    OBVIOUS
  <2>2. n \in Nat /\ n # 0
    BY <2>1, <1>7
  <2>3. n <= 8
    BY <2>1, <1>2, <1>5
  <2>4. n \in 1 .. 8
    BY <2>2, <2>3
  <2> QED BY <2>1, <2>4
<1>9. \A a \in DOMAIN w : w[a] \in LimitKeys /\ DimRank(w[a]) \in 1 .. 8
  BY <1>2, <1>5, <1>7
<1>10. ASSUME NEW a \in DOMAIN w, NEW b \in DOMAIN w, a < b PROVE DimRank(w[a]) < DimRank(w[b])
  <2>1. PICK x, y \in DOMAIN s : x < y /\ w[a] = s[x] /\ w[b] = s[y]
    BY <1>5, <1>10
  <2> QED BY <2>1, <1>2
<1> QED BY <1>3, <1>7, <1>8, <1>9, <1>10

LEMMA LegacyAre ==
    /\ LegacyDimensions \in Seq(LimitKeys) /\ Len(LegacyDimensions) \in 0 .. 4
    /\ \A a \in DOMAIN LegacyDimensions : LegacyDimensions[a] \in LimitKeys
<1>1. PICK s : s = << LegacyKey("tenant", "tokens"), LegacyKey("tenant", "qps"),
                      LegacyKey("model", "tokens"), LegacyKey("model", "qps") >>
  OBVIOUS
<1>2. s \in Seq(KeySpace) /\ Len(s) = 4
  BY <1>1 DEF LegacyKey, KeySpace
<1>3. PICK w : w = LegacyDimensions
  OBVIOUS
<1>4. w = MembersIn(s, LimitKeys)
  BY <1>1, <1>3 DEF LegacyDimensions
<1>5. w \in Seq(KeySpace \cap LimitKeys) /\ Len(w) <= Len(s)
  BY <1>2, <1>4, MembersInIs
<1>6. w \in Seq(LimitKeys) /\ Len(w) \in Nat /\ DOMAIN w = 1 .. Len(w)
  BY <1>5
<1>7. Len(w) \in 0 .. 4
  <2>1. Len(w) <= Len(s) /\ Len(s) = 4
    BY <1>2, <1>5
  <2> QED BY <2>1, <1>6
<1>8. \A a \in DOMAIN w : w[a] \in LimitKeys
  BY <1>6
<1> QED BY <1>3, <1>6, <1>7, <1>8

\* The tokens of all generations of a bucket are summed generation by generation.
SumsUp(F, b, n) == F[0] = 0 /\ \A i \in 1 .. n : F[i] = F[i - 1] + b[i].tokens

LEMMA TokensOfSteps ==
  ASSUME NEW n \in Nat, NEW b
  PROVE  \E F : TokensOf(b, n) = F[n] /\ SumsUp(F, b, n)
<1> DEFINE Step(F, i) == IF i = 0 THEN 0 ELSE F[i - 1] + b[i].tokens
           Rec(F, m) == F = [i \in 0 .. m |-> Step(F, i)]
           T == {m \in Nat : \E F : Rec(F, m)}
<1>1. \E F : Rec(F, n)
  <2>1. 0 \in T
    <3> DEFINE F0 == [i \in 0 .. 0 |-> 0]
    <3>1. Rec(F0, 0)
      OBVIOUS
    <3> QED BY <3>1
  <2>2. ASSUME NEW m \in Nat, m \in T PROVE m + 1 \in T
    <3>2. PICK F : Rec(F, m)
      BY <2>2
    <3> DEFINE G == [i \in 0 .. m + 1 |-> IF i <= m THEN F[i] ELSE Step(F, i)]
    <3>3. \A i \in 0 .. m : G[i] = F[i]
      OBVIOUS
    <3>4. \A i \in 0 .. m + 1 : Step(G, i) = Step(F, i)
      BY <3>3
    <3>5. \A i \in 0 .. m : F[i] = Step(F, i)
      BY <3>2
    <3>6. Rec(G, m + 1)
      BY <3>4, <3>5
    <3> HIDE DEF G, Rec
    <3>7. \E H : Rec(H, m + 1)
      BY <3>6
    <3>8. m + 1 \in Nat
      OBVIOUS
    <3> QED BY <3>7, <3>8
  <2> HIDE DEF T
  <2>3. n \in T
    BY <2>1, <2>2, Numbers
  <2> HIDE DEF Rec
  <2> QED BY <2>3 DEF T
<1>2. PICK F : F = CHOOSE u : Rec(u, n)
  OBVIOUS
<1>3. Rec(F, n)
  BY <1>1, <1>2
<1>4. TokensOf(b, n) = F[n]
  BY <1>2 DEF TokensOf
<1>5. \A i \in 0 .. n : F[i] = Step(F, i)
  BY <1>3
<1>6. F[0] = 0
  BY <1>5
<1>7. \A i \in 1 .. n : F[i] = F[i - 1] + b[i].tokens
  BY <1>5
<1>8. TokensOf(b, n) = F[n] /\ SumsUp(F, b, n)
  BY <1>4, <1>6, <1>7, Zenon DEF SumsUp
<1> QED BY <1>8

\* From b to c only the generation h changes.
OneMoves(b, c, n, h) ==
    /\ \A i \in 1 .. n : b[i].tokens \in Nat /\ c[i].tokens \in Nat
    /\ \A i \in 1 .. n : i # h => c[i].tokens = b[i].tokens

\* When one generation of a bucket changes, the sum changes as it does.
LEMMA TokensOfMove ==
  ASSUME NEW n \in Nat, NEW b, NEW c, NEW h \in 1 .. n, OneMoves(b, c, n, h)
  PROVE  /\ TokensOf(b, n) \in Nat /\ TokensOf(c, n) \in Nat
         /\ TokensOf(c, n) + b[h].tokens = TokensOf(b, n) + c[h].tokens
<1>0. /\ \A i \in 1 .. n : b[i].tokens \in Nat /\ c[i].tokens \in Nat
      /\ \A i \in 1 .. n : i # h => c[i].tokens = b[i].tokens
  BY DEF OneMoves
<1>0a. b[h].tokens \in Nat /\ c[h].tokens \in Nat
  BY <1>0
<1>1. PICK F : TokensOf(b, n) = F[n] /\ SumsUp(F, b, n)
  BY TokensOfSteps
<1>2. PICK G : TokensOf(c, n) = G[n] /\ SumsUp(G, c, n)
  BY TokensOfSteps
<1> DEFINE Good(i) == /\ F[i] \in Nat /\ G[i] \in Nat
                      /\ G[i] = IF i < h THEN F[i] ELSE F[i] + c[h].tokens - b[h].tokens
           T == {i \in Nat : i <= n => Good(i)}
<1>3. 0 \in T
  BY <1>1, <1>2 DEF SumsUp
<1>4. ASSUME NEW i \in Nat, i \in T PROVE i + 1 \in T
  <2> SUFFICES ASSUME i + 1 <= n PROVE Good(i + 1)
    OBVIOUS
  <2>1. Good(i)
    BY <1>4
  <2>2. i + 1 \in 1 .. n /\ (i + 1) - 1 = i
    OBVIOUS
  <2>3. F[i + 1] = F[i] + b[i + 1].tokens /\ G[i + 1] = G[i] + c[i + 1].tokens
    BY <2>2, <1>1, <1>2 DEF SumsUp
  <2>4. b[i + 1].tokens \in Nat /\ c[i + 1].tokens \in Nat /\ (i + 1 # h => c[i + 1].tokens = b[i + 1].tokens)
    BY <1>0, <2>2
  <2>5. (i < h \/ i >= h) /\ (i + 1 < h \/ i + 1 = h \/ i >= h)
    OBVIOUS
  <2>6. CASE i + 1 < h
    BY <1>0a, <2>1, <2>3, <2>4, <2>6
  <2>7. CASE i + 1 = h
    BY <1>0a, <2>1, <2>3, <2>4, <2>7
  <2>8. CASE i >= h
    BY <1>0a, <2>1, <2>3, <2>4, <2>8
  <2> QED BY <2>5, <2>6, <2>7, <2>8
<1> HIDE DEF T
<1>5. n \in T
  BY <1>3, <1>4, Numbers
<1>6. Good(n)
  <2>1. n <= n
    OBVIOUS
  <2> HIDE DEF Good
  <2> QED BY <1>5, <2>1 DEF T
<1> QED BY <1>6, <1>0a, <1>1, <1>2

LEMMA TokensOfSame ==
  ASSUME NEW n \in Nat, n # 0, NEW b, NEW c,
         \A i \in 1 .. n : b[i].tokens \in Nat /\ c[i].tokens = b[i].tokens
  PROVE  TokensOf(b, n) \in Nat /\ TokensOf(c, n) = TokensOf(b, n)
<1>1. n \in 1 .. n /\ \A i \in 1 .. n : b[i].tokens \in Nat /\ c[i].tokens \in Nat
  OBVIOUS
<1>2. /\ TokensOf(b, n) \in Nat /\ TokensOf(c, n) \in Nat
      /\ TokensOf(c, n) + b[n].tokens = TokensOf(b, n) + c[n].tokens
  <2>1. OneMoves(b, c, n, n)
    BY <1>1 DEF OneMoves
  <2> QED BY <1>1, <2>1, TokensOfMove
<1>3. b[n].tokens \in Nat /\ c[n].tokens = b[n].tokens
  BY <1>1
<1> QED BY <1>2, <1>3

\* What a step may do to the buckets: it makes no tokens but those that came, and takes no lock.
BucketTypes ==
    /\ cur \in [LimitKeys -> 0 .. MaxGen] /\ bucketsMade \in [LimitKeys -> 0 .. MaxGen]
    /\ bucket \in [LimitKeys -> [1 .. MaxGen -> BucketRecs]]
    /\ fills \in [LimitKeys -> Nat]
FillsCover ==
    \A k \in LimitKeys :
        TokensOf(bucket'[k], MaxGen) + fills[k] <= TokensOf(bucket[k], MaxGen) + fills'[k]
LocksReleased ==
    \A k \in LimitKeys, g \in 1 .. MaxGen :
        bucket'[k][g].lock = Nobody \/ bucket'[k][g].lock = bucket[k][g].lock
BucketsMove == BucketTypes' /\ FillsCover /\ LocksReleased

LEMMA BucketIs ==
  ASSUME BucketTypes, NEW k \in LimitKeys, NEW g \in 1 .. MaxGen
  PROVE  /\ bucket[k][g] \in BucketRecs /\ bucket[k][g].tokens \in Nat /\ bucket[k][g].burst \in Nat
         /\ bucket[k][g].on \in BOOLEAN /\ bucket[k][g].lock \in Callers \cup {Nobody}
<1>1. bucket[k][g] \in BucketRecs
  BY DEF BucketTypes
<1>2. PICK v : v = bucket[k][g]
  OBVIOUS
<1>3. v.tokens \in Nat /\ v.burst \in Nat /\ v.on \in BOOLEAN /\ v.lock \in Callers \cup {Nobody}
  BY <1>1, <1>2 DEF BucketRecs
<1> QED BY <1>1, <1>2, <1>3

LEMMA SumIs ==
  ASSUME NEW b \in [1 .. MaxGen -> BucketRecs]
  PROVE  TokensOf(b, MaxGen) \in Nat
<1>1. MaxGen \in Nat /\ MaxGen # 0
  BY LimConstants
<1>2. \A i \in 1 .. MaxGen : b[i].tokens \in Nat /\ b[i].tokens = b[i].tokens
  BY DEF BucketRecs
<1> QED BY <1>1, <1>2, TokensOfSame

LEMMA KeySum ==
  ASSUME BucketTypes, NEW k \in LimitKeys
  PROVE  TokensOf(bucket[k], MaxGen) \in Nat
<1>1. bucket[k] \in [1 .. MaxGen -> BucketRecs]
  BY DEF BucketTypes
<1> QED BY <1>1, SumIs

LEMMA BucketsStay ==
  ASSUME BucketTypes, UNCHANGED buckets
  PROVE  BucketsMove
<1>1. UNCHANGED <<cur, bucketsMade, bucket, fills>>
  BY DEF buckets
<1>2. BucketTypes'
  BY <1>1 DEF BucketTypes
<1>3. FillsCover
  <2> SUFFICES ASSUME NEW k \in LimitKeys
               PROVE  TokensOf(bucket'[k], MaxGen) + fills[k] <= TokensOf(bucket[k], MaxGen) + fills'[k]
    BY DEF FillsCover
  <2>1. PICK t : t = TokensOf(bucket[k], MaxGen)
    OBVIOUS
  <2>2. t \in Nat /\ fills[k] \in Nat
    BY <2>1, KeySum DEF BucketTypes
  <2>3. TokensOf(bucket'[k], MaxGen) = t /\ fills'[k] = fills[k]
    BY <1>1, <2>1
  <2> QED BY <2>1, <2>2, <2>3
<1>4. LocksReleased
  BY <1>1 DEF LocksReleased
<1> QED BY <1>2, <1>3, <1>4 DEF BucketsMove

\* One generation of one key changes.
LEMMA OneBucketMoves ==
  ASSUME BucketTypes, NEW k \in LimitKeys, NEW g \in 1 .. MaxGen, NEW v \in BucketRecs, NEW f \in Nat,
         bucket' = [bucket EXCEPT ![k][g] = v], fills' = [fills EXCEPT ![k] = @ + f],
         v.lock = Nobody,
         v.tokens <= bucket[k][g].tokens + f,
         cur' \in [LimitKeys -> 0 .. MaxGen], bucketsMade' \in [LimitKeys -> 0 .. MaxGen]
  PROVE  BucketsMove
<1>0. MaxGen \in Nat /\ MaxGen # 0
  BY LimConstants
<1>1. bucket \in [LimitKeys -> [1 .. MaxGen -> BucketRecs]] /\ fills \in [LimitKeys -> Nat]
  BY DEF BucketTypes
<1>2. bucket' \in [LimitKeys -> [1 .. MaxGen -> BucketRecs]]
  BY <1>1
<1>3. fills' \in [LimitKeys -> Nat]
  BY <1>1
<1>4. BucketTypes'
  BY <1>2, <1>3 DEF BucketTypes
<1>5. bucket'[k][g] = v /\ \A i \in 1 .. MaxGen : i # g => bucket'[k][i] = bucket[k][i]
  BY <1>1
<1>6. \A q \in LimitKeys : q # k => bucket'[q] = bucket[q] /\ fills'[q] = fills[q]
  BY <1>1
<1>7. v.tokens \in Nat /\ fills'[k] = fills[k] + f
  BY <1>1 DEF BucketRecs
<1>8. FillsCover
  <2> SUFFICES ASSUME NEW q \in LimitKeys
               PROVE  TokensOf(bucket'[q], MaxGen) + fills[q] <= TokensOf(bucket[q], MaxGen) + fills'[q]
    BY DEF FillsCover
  <2>1. CASE q # k
    <3>1. PICK t : t = TokensOf(bucket[q], MaxGen)
      OBVIOUS
    <3>2. t \in Nat /\ fills[q] \in Nat
      BY <3>1, <1>1, KeySum
    <3>3. TokensOf(bucket'[q], MaxGen) = t /\ fills'[q] = fills[q]
      BY <3>1, <2>1, <1>6
    <3> QED BY <3>1, <3>2, <3>3
  <2>2. CASE q = k
    <3>1. PICK b, c : b = bucket[k] /\ c = bucket'[k]
      OBVIOUS
    <3>2. \A i \in 1 .. MaxGen : b[i].tokens \in Nat
      BY <3>1, BucketIs
    <3>3. \A i \in 1 .. MaxGen : i # g => c[i].tokens = b[i].tokens
      BY <3>1, <1>5
    <3>4. c[g].tokens = v.tokens
      BY <3>1, <1>5
    <3>5. \A i \in 1 .. MaxGen : b[i].tokens \in Nat /\ c[i].tokens \in Nat
      BY <3>2, <3>3, <3>4, <1>7
    <3>6. /\ TokensOf(b, MaxGen) \in Nat /\ TokensOf(c, MaxGen) \in Nat
          /\ TokensOf(c, MaxGen) + b[g].tokens = TokensOf(b, MaxGen) + c[g].tokens
      <4>1. OneMoves(b, c, MaxGen, g)
        BY <3>3, <3>5 DEF OneMoves
      <4> QED BY <1>0, <4>1, TokensOfMove
    <3>7. b[g].tokens \in Nat /\ v.tokens <= b[g].tokens + f /\ fills[k] \in Nat
      BY <3>1, <3>2, <1>1
    <3>8. TokensOf(c, MaxGen) + fills[k] <= TokensOf(b, MaxGen) + fills[k] + f
      BY <3>4, <3>6, <3>7, <1>7
    <3>9. TokensOf(c, MaxGen) + fills[k] <= TokensOf(b, MaxGen) + fills'[k]
      BY <3>6, <3>7, <3>8, <1>7
    <3> QED BY <2>2, <3>1, <3>9
  <2> QED BY <2>1, <2>2
<1>9. LocksReleased
  <2> SUFFICES ASSUME NEW q \in LimitKeys, NEW h \in 1 .. MaxGen
               PROVE  bucket'[q][h].lock = Nobody \/ bucket'[q][h].lock = bucket[q][h].lock
    BY DEF LocksReleased
  <2>1. CASE q = k /\ h = g
    BY <2>1, <1>5
  <2>2. CASE q # k \/ h # g
    <3>1. bucket'[q][h] = bucket[q][h]
      BY <2>2, <1>5, <1>6
    <3> QED BY <3>1
  <2> QED BY <2>1, <2>2
<1> QED BY <1>4, <1>8, <1>9 DEF BucketsMove

LEMMA FullIs ==
  ASSUME NEW c \in Confs, NEW k \in LimitKeys, NEW v, v = FullBucket(c, k)
  PROVE  v \in BucketRecs /\ v.tokens = LimitOf(c, k).burst /\ v.lock = Nobody /\ LimitOf(c, k).burst \in Nat
<1>1. PICK l : l = LimitOf(c, k)
  OBVIOUS
<1>2. l.burst \in Nat /\ l.on \in BOOLEAN
  BY <1>1, LimitIs
<1>3. v = [tokens |-> l.burst, burst |-> l.burst, on |-> l.on, lock |-> Nobody]
  BY <1>1 DEF FullBucket
<1>4. v \in BucketRecs
  BY <1>2, <1>3 DEF BucketRecs
<1>5. v.tokens = l.burst /\ v.lock = Nobody
  BY <1>3
<1> QED BY <1>1, <1>2, <1>4, <1>5

LEMMA WithBurstIs ==
  ASSUME NEW b \in BucketRecs, NEW k, NEW burst \in Nat, NEW v, v = WithBurst(b, k, burst)
  PROVE  v \in BucketRecs /\ v.lock = b.lock /\ v.tokens \in Nat /\ v.tokens <= b.tokens
<1>0. b.tokens \in Nat /\ b.burst \in Nat /\ b.on \in BOOLEAN /\ b.lock \in Callers \cup {Nobody}
  BY DEF BucketRecs
<1>1. CASE InRedis(k)
  <2>1. PICK t : t = IF b.tokens > burst THEN burst ELSE b.tokens
    OBVIOUS
  <2>2. v = [b EXCEPT !.burst = burst, !.tokens = t]
    BY <1>1, <2>1 DEF WithBurst
  <2>3. t \in Nat /\ t <= b.tokens
    BY <1>0, <2>1
  <2>4. v \in BucketRecs
    BY <2>2, <2>3 DEF BucketRecs
  <2>5. v.tokens = t /\ v.lock = b.lock
    BY <2>2, <2>3 DEF BucketRecs
  <2> QED BY <2>3, <2>4, <2>5
<1>2. CASE ~InRedis(k)
  <2>1. v = b
    BY <1>2 DEF WithBurst
  <2> QED BY <1>0, <2>1
<1> QED BY <1>1, <1>2

LEMMA Takes ==
  ASSUME NEW b \in BucketRecs, NEW n \in Nat, NEW ok \in BOOLEAN, ok = Enough(b.tokens, n),
         NEW v, v = [b EXCEPT !.tokens = IF ok THEN @ - n ELSE @]
  PROVE  v \in BucketRecs /\ v.lock = b.lock /\ v.tokens \in Nat /\ v.tokens <= b.tokens
<1>0. b.tokens \in Nat
  BY DEF BucketRecs
<1>1. PICK t : t = IF ok THEN b.tokens - n ELSE b.tokens
  OBVIOUS
<1>2. t \in Nat /\ t <= b.tokens
  <2>1. ok => b.tokens >= n
    BY DEF Enough
  <2> QED BY <1>0, <1>1, <2>1
<1>3. v = [b EXCEPT !.tokens = t]
  BY <1>1
<1>4. v \in BucketRecs
  BY <1>2, <1>3 DEF BucketRecs
<1>5. v.tokens = t /\ v.lock = b.lock
  BY <1>3 DEF BucketRecs
<1> QED BY <1>2, <1>4, <1>5

LEMMA TryConsumeMoves ==
  ASSUME BucketTypes, conf \in Confs, NEW k \in LimitKeys, NEW n \in Nat, NEW ok \in BOOLEAN, TryConsume(k, n, ok)
  PROVE  BucketsMove
<1> DEFINE new == \/ cur[k] = 0
                  \/ k[2] = "user" /\ <<Now(k).on, Now(k).burst>>
                                       # <<LimitOf(conf, k).on, LimitOf(conf, k).burst>>
           g == IF new THEN bucketsMade[k] + 1 ELSE cur[k]
           b == IF new THEN FullBucket(conf, k) ELSE WithBurst(Now(k), k, LimitOf(conf, k).burst)
           v == [b EXCEPT !.tokens = IF ok THEN @ - n ELSE @]
<1>1. /\ b.lock = Nobody
      /\ g <= MaxGen
      /\ IF new THEN Created(k) ELSE UNCHANGED <<cur, bucketsMade, fills>>
      /\ ok = Enough(b.tokens, n)
      /\ bucket' = [bucket EXCEPT ![k][g] = v]
  BY DEF TryConsume
<1>2. PICK full : full = FullBucket(conf, k)
  OBVIOUS
<1>3. PICK f : f = LimitOf(conf, k).burst
  OBVIOUS
<1>4. full \in BucketRecs /\ full.tokens = f /\ full.lock = Nobody /\ f \in Nat
  BY <1>2, <1>3, FullIs
<1>5. cur[k] \in 0 .. MaxGen /\ bucketsMade[k] \in 0 .. MaxGen
  BY DEF BucketTypes
<1>6. CASE new
  <2>1. b = full /\ g = bucketsMade[k] + 1
    BY <1>6, <1>2
  <2> HIDE DEF new, g, b
  <2>2. g \in 1 .. MaxGen
    BY <1>1, <1>5, <2>1, LimConstants
  <2>2a. v = [full EXCEPT !.tokens = IF ok THEN @ - n ELSE @]
    BY <2>1
  <2>2b. ok = Enough(full.tokens, n)
    BY <1>1, <2>1
  <2> HIDE DEF v
  <2>3. v \in BucketRecs /\ v.lock = full.lock /\ v.tokens \in Nat /\ v.tokens <= full.tokens
    <3>1. full \in BucketRecs
      BY <1>4
    <3>2. PICK w : w = v
      OBVIOUS
    <3>3. w = [full EXCEPT !.tokens = IF ok THEN @ - n ELSE @]
      BY <2>2a, <3>2
    <3>4. w \in BucketRecs /\ w.lock = full.lock /\ w.tokens \in Nat /\ w.tokens <= full.tokens
      <4>1. w \in BucketRecs
        BY <3>1, <3>3, <2>2b, Takes
      <4>2. w.lock = full.lock
        BY <3>1, <3>3, <2>2b, Takes
      <4>3. w.tokens \in Nat /\ w.tokens <= full.tokens
        BY <3>1, <3>3, <2>2b, Takes
      <4> QED BY <4>1, <4>2, <4>3
    <3> QED BY <3>2, <3>4
  <2>4. Created(k)
    BY <1>1, <1>6
  <2>5. fills' = [fills EXCEPT ![k] = @ + f]
    BY <2>4, <1>3 DEF Created
  <2>6. cur' \in [LimitKeys -> 0 .. MaxGen] /\ bucketsMade' \in [LimitKeys -> 0 .. MaxGen]
    BY <2>1, <2>2, <2>4 DEF Created, BucketTypes
  <2>7. bucket[k][g].tokens \in Nat
    BY <2>2, BucketIs
  <2>8. v.tokens <= bucket[k][g].tokens + f
    BY <1>4, <2>3, <2>7
  <2>9. bucket' = [bucket EXCEPT ![k][g] = v] /\ v.lock = Nobody
    BY <1>1, <1>4, <2>3
  <2> QED BY <1>4, <2>2, <2>3, <2>5, <2>6, <2>8, <2>9, OneBucketMoves
<1>7. CASE ~new
  <2>0. cur[k] # 0
    BY <1>7
  <2>1. b = WithBurst(Now(k), k, f) /\ g = cur[k]
    BY <1>7, <1>3
  <2> HIDE DEF new, g, b
  <2>2. g \in 1 .. MaxGen
    BY <1>5, <2>0, <2>1, LimConstants
  <2>3. PICK old : old = bucket[k][g]
    OBVIOUS
  <2>4. old \in BucketRecs /\ old.tokens \in Nat /\ b = WithBurst(old, k, f)
    BY <2>1, <2>2, <2>3, BucketIs DEF Now
  <2>5. b \in BucketRecs /\ b.lock = old.lock /\ b.tokens \in Nat /\ b.tokens <= old.tokens
    BY <2>4, <1>4, WithBurstIs
  <2>5a. v = [b EXCEPT !.tokens = IF ok THEN @ - n ELSE @] /\ ok = Enough(b.tokens, n)
    BY <1>1
  <2> HIDE DEF v
  <2>6. v \in BucketRecs /\ v.lock = b.lock /\ v.tokens \in Nat /\ v.tokens <= b.tokens
    <3>1. PICK w, e : w = v /\ e = b
      OBVIOUS
    <3>2. e \in BucketRecs /\ ok = Enough(e.tokens, n) /\ w = [e EXCEPT !.tokens = IF ok THEN @ - n ELSE @]
      BY <2>5, <2>5a, <3>1
    <3>3. w \in BucketRecs
      BY <3>2, Takes
    <3>4. w.lock = e.lock
      BY <3>2, Takes
    <3>5. w.tokens \in Nat /\ w.tokens <= e.tokens
      BY <3>2, Takes
    <3> QED BY <3>1, <3>3, <3>4, <3>5
  <2>7. UNCHANGED <<cur, bucketsMade, fills>>
    BY <1>1, <1>7
  <2>8. fills' = [fills EXCEPT ![k] = @ + 0]
    BY <2>7 DEF BucketTypes
  <2>9. cur' \in [LimitKeys -> 0 .. MaxGen] /\ bucketsMade' \in [LimitKeys -> 0 .. MaxGen]
    BY <2>7 DEF BucketTypes
  <2>10. v.tokens <= bucket[k][g].tokens + 0
    BY <2>3, <2>4, <2>5, <2>6
  <2>11. bucket' = [bucket EXCEPT ![k][g] = v] /\ v.lock = Nobody
    BY <1>1, <2>6
  <2>12. 0 \in Nat
    OBVIOUS
  <2> QED BY <2>2, <2>6, <2>8, <2>9, <2>10, <2>11, <2>12, OneBucketMoves
<1> QED BY <1>6, <1>7

LEMMA ConsumeMoves ==
  ASSUME BucketTypes, conf \in Confs, NEW r \in Callers, NEW k, NEW ok \in BOOLEAN, Consume(r, k, ok),
         Limited(conf, k) \/ AlwaysTaken(k) => k \in LimitKeys
  PROVE  BucketsMove
<1>1. CASE UNCHANGED <<buckets, drawn>>
  <2>1. UNCHANGED buckets
    BY <1>1
  <2> QED BY <2>1, BucketsStay
<1>2. CASE (Limited(conf, k) \/ AlwaysTaken(k)) /\ TryConsume(k, Consumes(k), ok)
  <2>1. Consumes(k) \in Nat
    BY LimConstants
  <2>2. k \in LimitKeys /\ TryConsume(k, Consumes(k), ok)
    BY <1>2
  <2> QED BY <2>1, <2>2, TryConsumeMoves
<1> QED BY <1>1, <1>2 DEF Consume

LEMMA CreationMoves ==
  ASSUME BucketTypes, conf \in Confs, NEW k \in LimitKeys, Created(k), bucketsMade[k] + 1 <= MaxGen,
         bucket' = [bucket EXCEPT ![k][bucketsMade[k] + 1] = FullBucket(conf, k)]
  PROVE  BucketsMove
<1>1. PICK v : v = FullBucket(conf, k)
  OBVIOUS
<1>2. PICK f : f = LimitOf(conf, k).burst
  OBVIOUS
<1>3. PICK g : g = bucketsMade[k] + 1
  OBVIOUS
<1>4. v \in BucketRecs /\ v.tokens = f /\ v.lock = Nobody /\ f \in Nat
  BY <1>1, <1>2, FullIs
<1>5. bucketsMade[k] \in 0 .. MaxGen
  BY DEF BucketTypes
<1>6. g \in 1 .. MaxGen
  BY <1>3, <1>5, LimConstants
<1>7. fills' = [fills EXCEPT ![k] = @ + f]
  BY <1>2 DEF Created
<1>8. cur' \in [LimitKeys -> 0 .. MaxGen] /\ bucketsMade' \in [LimitKeys -> 0 .. MaxGen]
  BY <1>3, <1>6 DEF Created, BucketTypes
<1>9. bucket[k][g].tokens \in Nat
  BY <1>6, BucketIs
<1>10. v.tokens <= bucket[k][g].tokens + f
  BY <1>4, <1>9
<1>11. bucket' = [bucket EXCEPT ![k][g] = v] /\ v.lock = Nobody /\ v \in BucketRecs /\ f \in Nat
  BY <1>1, <1>3, <1>4
<1> QED BY <1>6, <1>7, <1>8, <1>10, <1>11, OneBucketMoves

Fillings(S, h, v, f) ==
    \A k \in S : /\ h[k] \in 1 .. MaxGen /\ v[k] \in BucketRecs /\ f[k] \in Nat
                 /\ v[k].tokens <= bucket[k][h[k]].tokens + f[k]
                 /\ v[k].lock = Nobody \/ v[k].lock = bucket[k][h[k]].lock

FilledBy(S, h, v, f) ==
    /\ bucket' = [k \in LimitKeys |-> IF k \in S THEN [bucket[k] EXCEPT ![h[k]] = v[k]] ELSE bucket[k]]
    /\ fills' = [k \in LimitKeys |-> IF k \in S THEN fills[k] + f[k] ELSE fills[k]]

\* A step that fills some keys, one generation of each, by what is added to their fills.
LEMMA FillingMoves ==
  ASSUME BucketTypes, NEW S \in SUBSET LimitKeys, NEW h, NEW v, NEW f,
         Fillings(S, h, v, f),
         FilledBy(S, h, v, f),
         cur' \in [LimitKeys -> 0 .. MaxGen], bucketsMade' \in [LimitKeys -> 0 .. MaxGen]
  PROVE  BucketsMove
<1>0. MaxGen \in Nat /\ MaxGen # 0
  BY LimConstants
<1>0a. \A k \in S : /\ h[k] \in 1 .. MaxGen /\ v[k] \in BucketRecs /\ f[k] \in Nat
                    /\ v[k].tokens <= bucket[k][h[k]].tokens + f[k]
                    /\ v[k].lock = Nobody \/ v[k].lock = bucket[k][h[k]].lock
  BY Zenon DEF Fillings
<1>0b. bucket' = [k \in LimitKeys |-> IF k \in S THEN [bucket[k] EXCEPT ![h[k]] = v[k]] ELSE bucket[k]]
  BY DEF FilledBy
<1>0c. fills' = [k \in LimitKeys |-> IF k \in S THEN fills[k] + f[k] ELSE fills[k]]
  BY DEF FilledBy
<1>1. bucket \in [LimitKeys -> [1 .. MaxGen -> BucketRecs]] /\ fills \in [LimitKeys -> Nat]
  BY DEF BucketTypes
<1>2. bucket' \in [LimitKeys -> [1 .. MaxGen -> BucketRecs]]
  <2>1. ASSUME NEW k \in LimitKeys
        PROVE (IF k \in S THEN [bucket[k] EXCEPT ![h[k]] = v[k]] ELSE bucket[k]) \in [1 .. MaxGen -> BucketRecs]
    BY <1>1, <1>0a
  <2> QED BY <2>1, <1>0b
<1>3. fills' \in [LimitKeys -> Nat]
  BY <1>1, <1>0a, <1>0c
<1>4. BucketTypes'
  BY <1>2, <1>3 DEF BucketTypes
<1>5. \A k \in LimitKeys : k \notin S => bucket'[k] = bucket[k] /\ fills'[k] = fills[k]
  BY <1>0b, <1>0c
<1>6. ASSUME NEW k \in S
      PROVE  /\ bucket'[k] = [bucket[k] EXCEPT ![h[k]] = v[k]] /\ fills'[k] = fills[k] + f[k]
             /\ bucket'[k][h[k]] = v[k] /\ \A i \in 1 .. MaxGen : i # h[k] => bucket'[k][i] = bucket[k][i]
  <2>1. bucket'[k] = [bucket[k] EXCEPT ![h[k]] = v[k]] /\ fills'[k] = fills[k] + f[k]
    BY <1>0b, <1>0c
  <2>2. bucket[k] \in [1 .. MaxGen -> BucketRecs] /\ h[k] \in 1 .. MaxGen
    BY <1>1, <1>0a
  <2> QED BY <2>1, <2>2
<1>7. FillsCover
  <2> SUFFICES ASSUME NEW q \in LimitKeys
               PROVE  TokensOf(bucket'[q], MaxGen) + fills[q] <= TokensOf(bucket[q], MaxGen) + fills'[q]
    BY DEF FillsCover
  <2>1. CASE q \notin S
    <3>1. PICK t : t = TokensOf(bucket[q], MaxGen)
      OBVIOUS
    <3>2. t \in Nat /\ fills[q] \in Nat
      BY <3>1, <1>1, KeySum
    <3>3. TokensOf(bucket'[q], MaxGen) = t /\ fills'[q] = fills[q]
      BY <3>1, <2>1, <1>5
    <3> QED BY <3>1, <3>2, <3>3
  <2>2. CASE q \in S
    <3>1. PICK b, c : b = bucket[q] /\ c = bucket'[q]
      OBVIOUS
    <3>2. PICK g, u, e : g = h[q] /\ u = v[q] /\ e = f[q]
      OBVIOUS
    <3>3. g \in 1 .. MaxGen /\ u \in BucketRecs /\ e \in Nat /\ u.tokens <= b[g].tokens + e
      BY <2>2, <3>1, <3>2, <1>0a
    <3>4a. c[g] = u /\ fills'[q] = fills[q] + e
      BY <2>2, <3>1, <3>2, <1>6
    <3>4b. \A i \in 1 .. MaxGen : i # h[q] => bucket'[q][i] = bucket[q][i]
      BY <2>2, <1>6
    <3>4. c[g] = u /\ fills'[q] = fills[q] + e /\ \A i \in 1 .. MaxGen : i # g => c[i] = b[i]
      BY <3>1, <3>2, <3>4a, <3>4b
    <3>5. \A i \in 1 .. MaxGen : b[i].tokens \in Nat
      BY <3>1, BucketIs
    <3>6. u.tokens \in Nat /\ b[g].tokens \in Nat
      BY <3>3, <3>5 DEF BucketRecs
    <3>7. \A i \in 1 .. MaxGen : i # g => c[i].tokens = b[i].tokens
      BY <3>4
    <3>8. \A i \in 1 .. MaxGen : b[i].tokens \in Nat /\ c[i].tokens \in Nat
      BY <3>4, <3>5, <3>6
    <3>9. /\ TokensOf(b, MaxGen) \in Nat /\ TokensOf(c, MaxGen) \in Nat
          /\ TokensOf(c, MaxGen) + b[g].tokens = TokensOf(b, MaxGen) + c[g].tokens
      <4>1. OneMoves(b, c, MaxGen, g)
        BY <3>7, <3>8 DEF OneMoves
      <4> QED BY <1>0, <3>3, <4>1, TokensOfMove
    <3>10. fills[q] \in Nat /\ c[g].tokens = u.tokens
      BY <1>1, <3>4
    <3>11. TokensOf(c, MaxGen) + fills[q] <= TokensOf(b, MaxGen) + (fills[q] + e)
      BY <3>3, <3>6, <3>9, <3>10
    <3> QED BY <3>1, <3>4, <3>11
  <2> QED BY <2>1, <2>2
<1>8. LocksReleased
  <2> SUFFICES ASSUME NEW q \in LimitKeys, NEW g \in 1 .. MaxGen
               PROVE  bucket'[q][g].lock = Nobody \/ bucket'[q][g].lock = bucket[q][g].lock
    BY DEF LocksReleased
  <2>1. CASE q \in S /\ g = h[q]
    <3>1. bucket'[q][g] = v[q]
      BY <2>1, <1>6
    <3>2. v[q].lock = Nobody \/ v[q].lock = bucket[q][g].lock
      BY <2>1, <1>0a
    <3> QED BY <3>1, <3>2
  <2>2. CASE ~(q \in S /\ g = h[q])
    <3>1. bucket'[q][g] = bucket[q][g]
      BY <2>2, <1>5, <1>6
    <3> QED BY <3>1
  <2> QED BY <2>1, <2>2
<1> QED BY <1>4, <1>7, <1>8 DEF BucketsMove

LEMMA TickMoves ==
  ASSUME BucketTypes, LimiterTick
  PROVE  BucketsMove
<1> DEFINE more == {k \in LimitKeys : cur[k] # 0 /\ Now(k).on /\ Now(k).tokens < Now(k).burst}
<1>1. /\ bucket' = [k \in LimitKeys |->
                       IF k \in more THEN [bucket[k] EXCEPT ![cur[k]].tokens = @ + 1] ELSE bucket[k]]
      /\ fills' = [k \in LimitKeys |-> IF k \in more THEN fills[k] + 1 ELSE fills[k]]
      /\ UNCHANGED <<cur, bucketsMade>>
  BY DEF LimiterTick
<1>2. PICK S : S = more
  OBVIOUS
<1>3. PICK h : h = cur
  OBVIOUS
<1>4. PICK v : v = [k \in S |-> [bucket[k][h[k]] EXCEPT !.tokens = @ + 1]]
  OBVIOUS
<1>5. PICK f : f = [k \in S |-> 1]
  OBVIOUS
<1>6. S \in SUBSET LimitKeys
  BY <1>2
<1>7. \A k \in S : cur[k] # 0
  BY <1>2
<1> HIDE DEF more
<1>8. ASSUME NEW k \in S
      PROVE  /\ h[k] \in 1 .. MaxGen /\ v[k] \in BucketRecs /\ f[k] \in Nat
             /\ v[k].tokens <= bucket[k][h[k]].tokens + f[k]
             /\ v[k].lock = Nobody \/ v[k].lock = bucket[k][h[k]].lock
             /\ [bucket[k] EXCEPT ![cur[k]].tokens = @ + 1] = [bucket[k] EXCEPT ![h[k]] = v[k]]
  <2>1. k \in LimitKeys /\ cur[k] # 0 /\ cur[k] \in 0 .. MaxGen
    BY <1>6, <1>7 DEF BucketTypes
  <2>2. h[k] \in 1 .. MaxGen
    BY <2>1, <1>3, LimConstants
  <2>3. PICK b : b = bucket[k][h[k]]
    OBVIOUS
  <2>4. b \in BucketRecs /\ b.tokens \in Nat
    BY <2>1, <2>2, <2>3, BucketIs
  <2>5. PICK u : u = [b EXCEPT !.tokens = @ + 1]
    OBVIOUS
  <2>6. v[k] = u /\ f[k] = 1
    BY <2>3, <2>5, <1>4, <1>5
  <2>7. u \in BucketRecs /\ u.tokens = b.tokens + 1 /\ u.lock = b.lock
    BY <2>4, <2>5 DEF BucketRecs
  <2>8. [bucket[k] EXCEPT ![cur[k]].tokens = @ + 1] = [bucket[k] EXCEPT ![h[k]] = u]
    BY <2>3, <2>5, <1>3
  <2>9. f[k] \in Nat /\ v[k].tokens <= bucket[k][h[k]].tokens + f[k]
    BY <2>3, <2>4, <2>6, <2>7
  <2> QED BY <2>2, <2>3, <2>6, <2>7, <2>8, <2>9
<1>9. bucket' = [k \in LimitKeys |-> IF k \in S THEN [bucket[k] EXCEPT ![h[k]] = v[k]] ELSE bucket[k]]
  <2>1. \A k \in LimitKeys :
           (IF k \in S THEN [bucket[k] EXCEPT ![cur[k]].tokens = @ + 1] ELSE bucket[k])
              = IF k \in S THEN [bucket[k] EXCEPT ![h[k]] = v[k]] ELSE bucket[k]
    BY <1>8
  <2> QED BY <2>1, <1>1, <1>2
<1>10. fills' = [k \in LimitKeys |-> IF k \in S THEN fills[k] + f[k] ELSE fills[k]]
  BY <1>1, <1>2, <1>5
<1>11. cur' \in [LimitKeys -> 0 .. MaxGen] /\ bucketsMade' \in [LimitKeys -> 0 .. MaxGen]
  BY <1>1 DEF BucketTypes
<1>12. Fillings(S, h, v, f)
  BY <1>8, Zenon DEF Fillings
<1>13. FilledBy(S, h, v, f)
  BY <1>9, <1>10 DEF FilledBy
<1> QED BY <1>6, <1>11, <1>12, <1>13, FillingMoves

LEMMA ReloadMoves ==
  ASSUME BucketTypes, Reload
  PROVE  BucketsMove
<1>1. PICK c \in Confs \ {conf} :
          LET anew == IF rdb THEN {} ELSE GlobalKeys
          IN /\ \A k \in anew : bucketsMade[k] < MaxGen
             /\ cur' = [k \in LimitKeys |-> IF k \in anew THEN bucketsMade[k] + 1
                                            ELSE IF k = BucketKey("user", "qps") THEN 0 ELSE cur[k]]
             /\ bucketsMade' = [k \in LimitKeys |-> IF k \in anew THEN bucketsMade[k] + 1 ELSE bucketsMade[k]]
             /\ bucket' = [k \in LimitKeys |->
                              IF k \in anew THEN [bucket[k] EXCEPT ![bucketsMade[k] + 1] = FullBucket(c, k)]
                              ELSE bucket[k]]
             /\ fills' = [k \in LimitKeys |-> IF k \in anew THEN fills[k] + LimitOf(c, k).burst
                                              ELSE fills[k]]
  BY DEF Reload
<1>2. PICK S : S = IF rdb THEN {} ELSE GlobalKeys
  OBVIOUS
<1>3. /\ \A k \in S : bucketsMade[k] < MaxGen
      /\ cur' = [k \in LimitKeys |-> IF k \in S THEN bucketsMade[k] + 1
                                     ELSE IF k = BucketKey("user", "qps") THEN 0 ELSE cur[k]]
      /\ bucketsMade' = [k \in LimitKeys |-> IF k \in S THEN bucketsMade[k] + 1 ELSE bucketsMade[k]]
      /\ bucket' = [k \in LimitKeys |->
                       IF k \in S THEN [bucket[k] EXCEPT ![bucketsMade[k] + 1] = FullBucket(c, k)]
                       ELSE bucket[k]]
      /\ fills' = [k \in LimitKeys |-> IF k \in S THEN fills[k] + LimitOf(c, k).burst
                                       ELSE fills[k]]
  BY <1>1, <1>2
<1>4. S \in SUBSET LimitKeys
  BY <1>2 DEF LimitKeys
<1>5. PICK h : h = [k \in LimitKeys |-> bucketsMade[k] + 1]
  OBVIOUS
<1>6. PICK v : v = [k \in LimitKeys |-> FullBucket(c, k)]
  OBVIOUS
<1>7. PICK f : f = [k \in LimitKeys |-> LimitOf(c, k).burst]
  OBVIOUS
<1>8. \A k \in LimitKeys : bucketsMade[k] \in 0 .. MaxGen /\ cur[k] \in 0 .. MaxGen
  BY DEF BucketTypes
<1>9. ASSUME NEW k \in S
      PROVE  /\ h[k] \in 1 .. MaxGen /\ v[k] \in BucketRecs /\ f[k] \in Nat
             /\ v[k].tokens <= bucket[k][h[k]].tokens + f[k]
             /\ v[k].lock = Nobody \/ v[k].lock = bucket[k][h[k]].lock
  <2>1. k \in LimitKeys /\ bucketsMade[k] < MaxGen /\ bucketsMade[k] \in 0 .. MaxGen
    BY <1>3, <1>4, <1>8
  <2>2. h[k] \in 1 .. MaxGen
    BY <2>1, <1>5, LimConstants
  <2>3. PICK u : u = FullBucket(c, k)
    OBVIOUS
  <2>4. u \in BucketRecs /\ u.tokens = LimitOf(c, k).burst /\ u.lock = Nobody /\ LimitOf(c, k).burst \in Nat
    BY <2>1, <2>3, FullIs
  <2>5. v[k] = u /\ f[k] = LimitOf(c, k).burst
    BY <2>1, <2>3, <1>6, <1>7
  <2>6. bucket[k][h[k]].tokens \in Nat
    BY <2>1, <2>2, BucketIs
  <2>7. v[k].tokens = f[k] /\ f[k] \in Nat /\ v[k] \in BucketRecs /\ v[k].lock = Nobody
    BY <2>4, <2>5
  <2> QED BY <2>2, <2>6, <2>7
<1>10. bucket' = [k \in LimitKeys |-> IF k \in S THEN [bucket[k] EXCEPT ![h[k]] = v[k]] ELSE bucket[k]]
  <2>1. \A k \in LimitKeys : h[k] = bucketsMade[k] + 1 /\ v[k] = FullBucket(c, k)
    BY <1>5, <1>6
  <2> QED BY <2>1, <1>3
<1>11. fills' = [k \in LimitKeys |-> IF k \in S THEN fills[k] + f[k] ELSE fills[k]]
  <2>1. \A k \in LimitKeys : f[k] = LimitOf(c, k).burst
    BY <1>7
  <2> QED BY <2>1, <1>3
<1>12. bucketsMade' \in [LimitKeys -> 0 .. MaxGen]
  BY <1>3, <1>8, LimConstants
<1>13. cur' \in [LimitKeys -> 0 .. MaxGen]
  BY <1>3, <1>8, LimConstants
<1>14. Fillings(S, h, v, f)
  BY <1>9, Zenon DEF Fillings
<1>15. FilledBy(S, h, v, f)
  BY <1>10, <1>11 DEF FilledBy
<1> QED BY <1>4, <1>12, <1>13, <1>14, <1>15, FillingMoves

LEMMA IdleMoves ==
  ASSUME BucketTypes, IdleExpires
  PROVE  BucketsMove
<1>1. UNCHANGED <<bucketsMade, bucket, fills>>
  BY DEF IdleExpires
<1>2. PICK I : cur' = [k \in LimitKeys |-> IF k \in I THEN 0 ELSE cur[k]]
  BY DEF IdleExpires
<1>3. cur' \in [LimitKeys -> 0 .. MaxGen]
  BY <1>2, LimConstants DEF BucketTypes
<1>4. BucketTypes'
  BY <1>1, <1>3 DEF BucketTypes
<1>5. FillsCover
  <2> SUFFICES ASSUME NEW k \in LimitKeys
               PROVE  TokensOf(bucket'[k], MaxGen) + fills[k] <= TokensOf(bucket[k], MaxGen) + fills'[k]
    BY DEF FillsCover
  <2>1. PICK t : t = TokensOf(bucket[k], MaxGen)
    OBVIOUS
  <2>2. t \in Nat /\ fills[k] \in Nat
    BY <2>1, KeySum DEF BucketTypes
  <2>3. TokensOf(bucket'[k], MaxGen) = t /\ fills'[k] = fills[k]
    BY <1>1, <2>1
  <2> QED BY <2>1, <2>2, <2>3
<1>6. LocksReleased
  BY <1>1 DEF LocksReleased
<1> QED BY <1>4, <1>5, <1>6 DEF BucketsMove

\* The rest of the state.
CallerTypes ==
    /\ lpc \in [Callers -> LimPcs] /\ at \in [Callers -> 1 .. 8] /\ spec \in [Callers -> Seq(SpecRecs)]
QueueTypes ==
    /\ rdb \in BOOLEAN /\ conf \in Confs /\ stopping \in BOOLEAN
    /\ queue \in Seq(Callers)
    /\ consumer \in [state : {"select", "tokens", "rpm", "user", "drain", "done"}, req : Callers \cup {Nobody}]
    /\ cancelled \in [Callers -> BOOLEAN] /\ limAnswer \in [Callers -> {"none", "yes", "no"}]
    /\ drawn \in [Callers -> Nat] /\ events \in 0 .. MaxEvents /\ late \subseteq Callers

LEMMA LimTypes == LimiterTypeOK <=> BucketTypes /\ CallerTypes /\ QueueTypes
  BY Zenon DEF LimiterTypeOK, BucketTypes, CallerTypes, QueueTypes, BucketRecs, SpecRecs, LimPcs

LEMMA LimTypesNext == LimiterTypeOK' <=> BucketTypes' /\ CallerTypes' /\ QueueTypes'
  BY LimTypes, PTL

Same(q) == lpc'[q] = lpc[q] /\ at'[q] = at[q] /\ spec'[q] = spec[q]

LEMMA CallerStays ==
  ASSUME NEW r, CallerFits(r), Same(r), rdb' = rdb
  PROVE  CallerFits(r)'
<1>1. LegacyDimensions' = LegacyDimensions
  BY DEF LegacyDimensions, LegacyKey
<1> QED BY <1>1 DEF CallerFits, Same

LEMMA LocksKeep ==
  ASSUME BucketTypes, BucketTypes', LocksHeld, LocksReleased,
         \A q \in Callers : lpc[q] \in {"lock", "decide"} => Same(q)
  PROVE  LocksHeld'
<1> SUFFICES ASSUME NEW k \in LimitKeys, NEW g \in 1 .. MaxGen, bucket'[k][g].lock # Nobody
             PROVE  Holds(bucket[k][g].lock, k, g)'
  BY DEF LocksHeld
<1>1. PICK q : q = bucket[k][g].lock
  OBVIOUS
<1>2. bucket'[k][g].lock = q
  BY <1>1 DEF LocksReleased
<1>3. q \in Callers
  BY <1>1, <1>2, BucketIs
<1>4. Holds(q, k, g)
  BY <1>1, <1>2 DEF LocksHeld
<1>5. lpc[q] \in {"lock", "decide"}
  BY <1>4 DEF Holds
<1>6. Same(q)
  BY <1>3, <1>5
<1>7. Holds(q, k, g)'
  BY <1>4, <1>6 DEF Holds, Same
<1> QED BY <1>2, <1>7 DEF Holds

Admitted == {r \in Callers : lpc[r] = "admitted"}

LEMMA AdmittedFinite == IsFiniteSet(Admitted) /\ Cardinality(Admitted) \in Nat
<1>1. IsFiniteSet(Admitted)
  <2>1. Admitted \subseteq Callers
    BY DEF Admitted
  <2> QED BY <2>1, LimiterAssumption, FS_Subset DEF LimiterAssumption
<1> QED BY <1>1, FS_CardinalityType

LEMMA BalanceKeep ==
  ASSUME BucketTypes, TokensBalance, BucketTypes', FillsCover, Admitted' = Admitted
  PROVE  TokensBalance'
<1> SUFFICES ASSUME NEW a \in DOMAIN Dimensions, \A c \in Confs : Limited(c, Dimensions[a])
             PROVE  Cardinality(Admitted') * Consumes(Dimensions[a])
                      + TokensOf(bucket'[Dimensions[a]], MaxGen) <= fills'[Dimensions[a]]
  BY DEF TokensBalance, Admitted
<1>1. PICK k : k = Dimensions[a]
  OBVIOUS
<1>2. k \in LimitKeys
  BY <1>1, DimensionsAre
<1>3. PICK p : p = Cardinality(Admitted) * Consumes(k)
  OBVIOUS
<1>4. p \in Nat
  <2>1. Cardinality(Admitted) \in Nat /\ Consumes(k) \in Nat
    BY AdmittedFinite, LimConstants
  <2> QED BY <2>1, <1>3
<1>5. p + TokensOf(bucket[k], MaxGen) <= fills[k]
  BY <1>1, <1>3 DEF TokensBalance, Admitted
<1>6. TokensOf(bucket'[k], MaxGen) + fills[k] <= TokensOf(bucket[k], MaxGen) + fills'[k]
  BY <1>2 DEF FillsCover
<1>7. TokensOf(bucket[k], MaxGen) \in Nat /\ fills[k] \in Nat
  BY <1>2, KeySum DEF BucketTypes
<1>8. TokensOf(bucket'[k], MaxGen) \in Nat /\ fills'[k] \in Nat
  <2>2. bucket'[k] \in [1 .. MaxGen -> BucketRecs]
    BY <1>2 DEF BucketTypes
  <2>3. TokensOf(bucket'[k], MaxGen) \in Nat
    BY <2>2, SumIs
  <2> QED BY <1>2, <2>3 DEF BucketTypes
<1>9. p + TokensOf(bucket'[k], MaxGen) <= fills'[k]
  BY <1>4, <1>5, <1>6, <1>7, <1>8
<1> QED BY <1>1, <1>3, <1>9

LEMMA QueueMembers ==
  ASSUME NEW X, NEW s \in Seq(X)
  PROVE  /\ Members(s) \subseteq X
         /\ \A x : Members(Append(s, x)) = Members(s) \cup {x}
         /\ s # <<>> => Head(s) \in X /\ Members(s) = Members(Tail(s)) \cup {Head(s)}
<1>1. Members(s) \subseteq X
  BY DEF Members
<1>2. ASSUME NEW x PROVE Members(Append(s, x)) = Members(s) \cup {x}
  <2>1. PICK t : t = Append(s, x)
    OBVIOUS
  <2>2. DOMAIN t = 1 .. Len(s) + 1 /\ DOMAIN s = 1 .. Len(s) /\ Len(s) \in Nat
    BY <2>1
  <2>3. t[Len(s) + 1] = x /\ \A i \in 1 .. Len(s) : t[i] = s[i]
    BY <2>1
  <2>4. \A i \in DOMAIN t : i = Len(s) + 1 \/ i \in DOMAIN s
    BY <2>2
  <2>5. Len(s) + 1 \in DOMAIN t /\ \A i \in DOMAIN s : i \in DOMAIN t
    BY <2>2
  <2>6. Members(t) = Members(s) \cup {x}
    BY <2>2, <2>3, <2>4, <2>5 DEF Members
  <2> QED BY <2>1, <2>6
<1>3. ASSUME s # <<>> PROVE Head(s) \in X /\ Members(s) = Members(Tail(s)) \cup {Head(s)}
  <2>1. PICK t : t = Tail(s)
    OBVIOUS
  <2>2. Len(s) \in Nat /\ Len(s) # 0 /\ DOMAIN s = 1 .. Len(s) /\ DOMAIN t = 1 .. Len(s) - 1
    BY <1>3, <2>1
  <2>3. Head(s) = s[1] /\ \A i \in 1 .. Len(s) - 1 : t[i] = s[i + 1]
    BY <1>3, <2>1
  <2>4. 1 \in DOMAIN s /\ \A i \in DOMAIN t : i + 1 \in DOMAIN s /\ t[i] = s[i + 1]
    BY <2>2, <2>3
  <2>5. \A i \in DOMAIN s : i = 1 \/ (i - 1 \in DOMAIN t /\ t[i - 1] = s[i])
    <3> SUFFICES ASSUME NEW i \in DOMAIN s, i # 1 PROVE i - 1 \in DOMAIN t /\ t[i - 1] = s[i]
      OBVIOUS
    <3>1. i - 1 \in 1 .. Len(s) - 1 /\ (i - 1) + 1 = i
      BY <2>2
    <3> QED BY <3>1, <2>2, <2>3
  <2>6. Members(s) \subseteq Members(t) \cup {Head(s)}
    BY <2>3, <2>5 DEF Members
  <2>7. Members(t) \cup {Head(s)} \subseteq Members(s)
    BY <2>3, <2>4 DEF Members
  <2>8. Head(s) \in X
    BY <1>3
  <2> QED BY <2>1, <2>6, <2>7, <2>8
<1> QED BY <1>1, <1>2, <1>3

\* Steps that leave every request where it is, and steps of one request that neither hold locks nor
\* are admitted.
LEMMA LimStays ==
  ASSUME LimInv, BucketsMove, QueueTypes', UNCHANGED <<lpc, at, spec>>, rdb' = rdb, WaitingQueued'
  PROVE  LimInv'
<1>1. BucketTypes /\ CallerTypes /\ LocksHeld /\ TokensBalance /\ \A q \in Callers : CallerFits(q)
  BY LimTypes DEF LimInv
<1>2. CallerTypes'
  BY <1>1 DEF CallerTypes
<1>3. LimiterTypeOK'
  BY <1>2, LimTypesNext DEF BucketsMove
<1>4. \A q : Same(q)
  BY DEF Same
<1>5. \A q \in Callers : CallerFits(q)'
  BY <1>1, <1>4, CallerStays
<1>6. LocksHeld'
  BY <1>1, <1>4, LocksKeep DEF BucketsMove
<1>7. Admitted' = Admitted
  BY DEF Admitted
<1>8. TokensBalance'
  BY <1>1, <1>7, BalanceKeep DEF BucketsMove
<1> QED BY <1>3, <1>5, <1>6, <1>8 DEF LimInv

LEMMA LimMoves ==
  ASSUME LimInv, BucketsMove, QueueTypes', CallerTypes', rdb' = rdb, WaitingQueued',
         NEW r \in Callers, CallerFits(r)', \A q \in Callers \ {r} : Same(q),
         lpc[r] \notin {"lock", "decide"}, TokensBalance'
  PROVE  LimInv'
<1>1. BucketTypes /\ CallerTypes /\ LocksHeld /\ TokensBalance /\ \A q \in Callers : CallerFits(q)
  BY LimTypes DEF LimInv
<1>3. LimiterTypeOK'
  BY LimTypesNext DEF BucketsMove
<1>5. \A q \in Callers : CallerFits(q)'
  BY <1>1, CallerStays
<1>6. LocksHeld'
  <2>1. \A q \in Callers : lpc[q] \in {"lock", "decide"} => Same(q)
    OBVIOUS
  <2> QED BY <1>1, <2>1, LocksKeep DEF BucketsMove
<1> QED BY <1>3, <1>5, <1>6 DEF LimInv

LEMMA BalanceMoves ==
  ASSUME LimInv, BucketsMove, NEW r \in Callers, \A q \in Callers \ {r} : Same(q),
         lpc[r] # "admitted", lpc'[r] # "admitted"
  PROVE  TokensBalance'
<1>1. Admitted' = Admitted
  BY DEF Admitted, Same
<1>2. BucketTypes /\ TokensBalance
  BY LimTypes DEF LimInv
<1> QED BY <1>1, <1>2, BalanceKeep DEF BucketsMove

\* MoveTo changes one request.
LEMMA MoveToIs ==
  ASSUME CallerTypes, NEW r \in Callers, NEW where \in LimPcs, MoveTo(r, where)
  PROVE  /\ lpc' \in [Callers -> LimPcs] /\ at' \in [Callers -> 1 .. 8]
         /\ lpc'[r] = where /\ at'[r] = 1
         /\ \A q \in Callers \ {r} : lpc'[q] = lpc[q] /\ at'[q] = at[q]
<1>1. lpc \in [Callers -> LimPcs] /\ at \in [Callers -> 1 .. 8]
  BY DEF CallerTypes
<1>2. lpc' = [lpc EXCEPT ![r] = where] /\ at' = [at EXCEPT ![r] = 1]
  BY DEF MoveTo
<1>3. 1 \in 1 .. 8
  OBVIOUS
<1>4. lpc' \in [Callers -> LimPcs] /\ at' \in [Callers -> 1 .. 8]
  BY <1>1, <1>2, <1>3
<1>5. lpc'[r] = where /\ at'[r] = 1 /\ \A q \in Callers \ {r} : lpc'[q] = lpc[q] /\ at'[q] = at[q]
  BY <1>1, <1>2
<1> QED BY <1>4, <1>5

LEMMA Arrives ==
  ASSUME NEW r \in Callers, lpc'[r] \in LimPcs, at'[r] = 1, spec'[r] = <<>>,
         lpc'[r] \notin {"lock", "script", "decide"}, lpc'[r] = "legacy" => LegacyDimensions' # <<>>
  PROVE  CallerFits(r)'
<1>1. lpc'[r] = "legacy" => 1 <= Len(LegacyDimensions')
  <2> SUFFICES ASSUME lpc'[r] = "legacy" PROVE 1 <= Len(LegacyDimensions')
    OBVIOUS
  <2>1. (LegacyDimensions \in Seq(LimitKeys))'
    BY LegacyAre, PTL
  <2>2. LegacyDimensions' \in Seq(LimitKeys)
    BY <2>1
  <2> QED BY <2>2
<1>2. 1 <= Len(Dimensions)
  BY DimensionsAre
<1>3. SpecsUpTo(<<>>, 1)
  BY DimensionsAre DEF SpecsUpTo
<1> QED BY <1>1, <1>2, <1>3 DEF CallerFits

LEMMA AllowKeeps ==
  ASSUME LimInv, NEW r \in Callers, Allow(r)
  PROVE  LimInv'
<1>1. BucketTypes /\ CallerTypes /\ QueueTypes /\ WaitingQueued /\ CallerFits(r)
  BY LimTypes DEF LimInv
<1>2. /\ lpc[r] = "start" /\ queue' = Append(queue, r) /\ MoveTo(r, "wait")
      /\ late' = (IF stopping THEN late \cup {r} ELSE late)
      /\ UNCHANGED <<rdb, conf, buckets, consumer, stopping, spec, cancelled, limAnswer, drawn, events>>
  BY DEF Allow
<1>3. /\ lpc' \in [Callers -> LimPcs] /\ at' \in [Callers -> 1 .. 8]
      /\ lpc'[r] = "wait" /\ at'[r] = 1
      /\ \A q \in Callers \ {r} : lpc'[q] = lpc[q] /\ at'[q] = at[q]
  <2>1. "wait" \in LimPcs
    BY DEF LimPcs
  <2> QED BY <1>1, <1>2, <2>1, MoveToIs
<1>4. spec'[r] = <<>> /\ CallerTypes'
  BY <1>1, <1>2, <1>3 DEF CallerFits, CallerTypes
<1>5. BucketsMove
  BY <1>1, <1>2, BucketsStay
<1>6. QueueTypes'
  BY <1>1, <1>2 DEF QueueTypes
<1>7. CallerFits(r)'
  BY <1>3, <1>4, Arrives DEF LimPcs
<1>8. \A q \in Callers \ {r} : Same(q)
  BY <1>2, <1>3 DEF Same
<1>9. WaitingQueued'
  <2>1. Members(queue') = Members(queue) \cup {r}
    <3>1. queue \in Seq(Callers)
      BY <1>1 DEF QueueTypes
    <3> QED BY <3>1, <1>2, QueueMembers
  <2>2. consumer.state = "done" => stopping /\ Members(queue') \subseteq late'
    BY <1>1, <1>2, <2>1 DEF WaitingQueued
  <2>3. \A q \in Callers : lpc'[q] = "wait" /\ limAnswer'[q] = "none" => q \in Members(queue') \/ consumer'.req = q
    BY <1>1, <1>2, <1>3, <2>1 DEF WaitingQueued
  <2> QED BY <1>1, <1>2, <2>2, <2>3 DEF WaitingQueued
<1>10. TokensBalance'
  BY <1>2, <1>3, <1>5, <1>8, BalanceMoves
<1> QED BY <1>2, <1>4, <1>5, <1>6, <1>7, <1>8, <1>9, <1>10, LimMoves

LEMMA AllowReturnsKeeps ==
  ASSUME LimInv, NEW r \in Callers, AllowReturns(r)
  PROVE  LimInv'
<1>1. BucketTypes /\ CallerTypes /\ QueueTypes /\ WaitingQueued /\ CallerFits(r)
  BY LimTypes DEF LimInv
<1>2. PICK w : w = IF limAnswer[r] # "yes" THEN "refused" ELSE IF LegacyDimensions = <<>> THEN "specs" ELSE "legacy"
  OBVIOUS
<1>3. /\ lpc[r] = "wait" /\ MoveTo(r, w) /\ limAnswer' = [limAnswer EXCEPT ![r] = "none"]
      /\ UNCHANGED <<rdb, conf, buckets, queue, consumer, stopping, spec, cancelled, drawn, late, events>>
  BY <1>2 DEF AllowReturns
<1>4. w \in {"refused", "specs", "legacy"} /\ w \in LimPcs /\ (w = "legacy" => LegacyDimensions # <<>>)
  BY <1>2 DEF LimPcs
<1>5. /\ lpc' \in [Callers -> LimPcs] /\ at' \in [Callers -> 1 .. 8]
      /\ lpc'[r] = w /\ at'[r] = 1
      /\ \A q \in Callers \ {r} : lpc'[q] = lpc[q] /\ at'[q] = at[q]
  BY <1>1, <1>3, <1>4, MoveToIs
<1>6. spec'[r] = <<>> /\ CallerTypes'
  BY <1>1, <1>3, <1>5 DEF CallerFits, CallerTypes
<1>7. BucketsMove
  BY <1>1, <1>3, BucketsStay
<1>8. QueueTypes'
  BY <1>1, <1>3 DEF QueueTypes
<1>9. LegacyDimensions' = LegacyDimensions
  BY <1>3 DEF LegacyDimensions, LegacyKey
<1>10. CallerFits(r)'
  BY <1>4, <1>5, <1>6, <1>9, Arrives
<1>11. \A q \in Callers \ {r} : Same(q)
  BY <1>3, <1>5 DEF Same
<1>12. WaitingQueued'
  <2>1. \A q \in Callers : lpc'[q] = "wait" => q # r
    BY <1>4, <1>5
  <2>2. \A q \in Callers \ {r} : limAnswer'[q] = limAnswer[q]
    BY <1>1, <1>3 DEF QueueTypes
  <2> QED BY <1>1, <1>3, <1>5, <2>1, <2>2 DEF WaitingQueued
<1>13. TokensBalance'
  BY <1>3, <1>4, <1>5, <1>7, <1>11, BalanceMoves
<1> QED BY <1>3, <1>6, <1>7, <1>8, <1>10, <1>11, <1>12, <1>13, LimMoves

\* A request is refused before it has specs.
LEMMA RefusedKeeps ==
  ASSUME LimInv, NEW r \in Callers, lpc[r] \in {"start", "wait", "specs"}, spec[r] = <<>>, MoveTo(r, "refused"),
         cancelled' \in [Callers -> BOOLEAN],
         UNCHANGED <<rdb, conf, buckets, queue, consumer, stopping, spec, limAnswer, drawn, late, events>>
  PROVE  LimInv'
<1>1. BucketTypes /\ CallerTypes /\ QueueTypes /\ WaitingQueued
  BY LimTypes DEF LimInv
<1>2. "refused" \in LimPcs
  BY DEF LimPcs
<1>3. /\ lpc' \in [Callers -> LimPcs] /\ at' \in [Callers -> 1 .. 8]
      /\ lpc'[r] = "refused" /\ at'[r] = 1
      /\ \A q \in Callers \ {r} : lpc'[q] = lpc[q] /\ at'[q] = at[q]
  BY <1>1, <1>2, MoveToIs
<1>4. spec'[r] = <<>> /\ CallerTypes'
  BY <1>1, <1>3 DEF CallerTypes
<1>5. BucketsMove
  BY <1>1, BucketsStay
<1>6. QueueTypes'
  BY <1>1 DEF QueueTypes
<1>7. CallerFits(r)'
  BY <1>2, <1>3, <1>4, Arrives
<1>8. \A q \in Callers \ {r} : Same(q)
  BY <1>3 DEF Same
<1>9. WaitingQueued'
  BY <1>1, <1>3 DEF WaitingQueued
<1>10. TokensBalance'
  BY <1>3, <1>5, <1>8, BalanceMoves
<1> QED BY <1>4, <1>5, <1>6, <1>7, <1>8, <1>9, <1>10, LimMoves

LEMMA CancelsKeep ==
  ASSUME LimInv, NEW r \in Callers, AllowCancelled(r) \/ ContextDone(r) \/ CheckCancelled(r)
  PROVE  LimInv'
<1>1. CallerTypes /\ QueueTypes /\ CallerFits(r)
  BY LimTypes DEF LimInv
<1>2. CASE AllowCancelled(r)
  <2>1. lpc[r] = "start" /\ spec[r] = <<>>
    BY <1>1, <1>2 DEF AllowCancelled, CallerFits
  <2>2. /\ MoveTo(r, "refused") /\ cancelled' \in [Callers -> BOOLEAN]
        /\ UNCHANGED <<rdb, conf, buckets, queue, consumer, stopping, spec, limAnswer, drawn, late, events>>
    BY <1>1, <1>2 DEF AllowCancelled, QueueTypes
  <2> QED BY <2>1, <2>2, RefusedKeeps
<1>3. CASE ContextDone(r)
  <2>1. lpc[r] = "wait" /\ spec[r] = <<>>
    BY <1>1, <1>3 DEF ContextDone, CallerFits
  <2>2. /\ MoveTo(r, "refused") /\ cancelled' \in [Callers -> BOOLEAN]
        /\ UNCHANGED <<rdb, conf, buckets, queue, consumer, stopping, spec, limAnswer, drawn, late, events>>
    BY <1>1, <1>3 DEF ContextDone, QueueTypes
  <2> QED BY <2>1, <2>2, RefusedKeeps
<1>4. CASE CheckCancelled(r)
  <2>1. lpc[r] = "specs" /\ at[r] = 1
    BY <1>4 DEF CheckCancelled
  <2>2. Len(spec[r]) < 1
    BY <1>1, <2>1 DEF CallerFits, SpecsUpTo
  <2>3. spec[r] = <<>>
    BY <1>1, <2>2 DEF CallerTypes
  <2>4. /\ MoveTo(r, "refused") /\ cancelled' \in [Callers -> BOOLEAN]
        /\ UNCHANGED <<rdb, conf, buckets, queue, consumer, stopping, spec, limAnswer, drawn, late, events>>
    BY <1>1, <1>4 DEF CheckCancelled, QueueTypes
  <2> QED BY <2>1, <2>3, <2>4, RefusedKeeps
<1> QED BY <1>2, <1>3, <1>4

LEMMA TakeRequestKeeps ==
  ASSUME LimInv, TakeRequest
  PROVE  LimInv'
<1>1. BucketTypes /\ QueueTypes /\ WaitingQueued
  BY LimTypes DEF LimInv
<1>2. /\ consumer.state = "select" /\ queue # <<>> /\ queue' = Tail(queue)
      /\ UNCHANGED <<rdb, conf, buckets, stopping, lpc, at, spec, cancelled, drawn, late, events>>
  BY DEF TakeRequest
<1>3. PICK x : x = Head(queue)
  OBVIOUS
<1>4. IF cancelled[x]
      THEN limAnswer' = [limAnswer EXCEPT ![x] = "no"] /\ UNCHANGED consumer
      ELSE consumer' = [state |-> "tokens", req |-> x] /\ UNCHANGED limAnswer
  BY <1>3 DEF TakeRequest, Answered
<1>5. queue \in Seq(Callers)
  BY <1>1 DEF QueueTypes
<1>6. x \in Callers /\ Members(queue) = Members(queue') \cup {x}
  BY <1>2, <1>3, <1>5, QueueMembers
<1>7. queue' \in Seq(Callers)
  BY <1>2, <1>5
<1>8. limAnswer' \in [Callers -> {"none", "yes", "no"}] /\ \A q \in Callers \ {x} : limAnswer'[q] = limAnswer[q]
  BY <1>1, <1>4, <1>6 DEF QueueTypes
<1>9. consumer' \in [state : {"select", "tokens", "rpm", "user", "drain", "done"}, req : Callers \cup {Nobody}]
  BY <1>1, <1>4, <1>6 DEF QueueTypes
<1>10. QueueTypes'
  BY <1>1, <1>2, <1>7, <1>8, <1>9 DEF QueueTypes
<1>11. x # Nobody /\ consumer.req = Nobody
  BY <1>1, <1>2, <1>6, LimiterAssumption DEF LimiterAssumption, WaitingQueued
<1>12. CASE cancelled[x]
  <2>1. limAnswer'[x] = "no" /\ consumer' = consumer
    BY <1>4, <1>12, <1>1, <1>6 DEF QueueTypes
  <2>2. \A q \in Callers : lpc'[q] = "wait" /\ limAnswer'[q] = "none" => q \in Members(queue') \/ consumer'.req = q
    <3> SUFFICES ASSUME NEW q \in Callers, lpc'[q] = "wait", limAnswer'[q] = "none"
                 PROVE  q \in Members(queue') \/ consumer'.req = q
      OBVIOUS
    <3>1. q # x /\ lpc[q] = "wait" /\ limAnswer[q] = "none"
      BY <1>2, <1>8, <2>1
    <3>2. q \in Members(queue) \/ consumer.req = q
      BY <1>1, <3>1 DEF WaitingQueued
    <3> QED BY <1>6, <2>1, <3>1, <3>2
  <2>3. WaitingQueued'
    BY <1>1, <1>2, <2>1, <2>2 DEF WaitingQueued
  <2> QED BY <2>3, <1>1, <1>2, <1>10, BucketsStay, LimStays
<1>13. CASE ~cancelled[x]
  <2>1. consumer'.state = "tokens" /\ consumer'.req = x /\ limAnswer' = limAnswer
    BY <1>4, <1>13
  <2>2. \A q \in Callers : lpc'[q] = "wait" /\ limAnswer'[q] = "none" => q \in Members(queue') \/ consumer'.req = q
    <3> SUFFICES ASSUME NEW q \in Callers, lpc'[q] = "wait", limAnswer'[q] = "none"
                 PROVE  q \in Members(queue') \/ consumer'.req = q
      OBVIOUS
    <3>1. lpc[q] = "wait" /\ limAnswer[q] = "none" /\ consumer.req # q
      BY <1>2, <1>11, <2>1, LimiterAssumption DEF LimiterAssumption
    <3>2. q \in Members(queue)
      BY <1>1, <3>1 DEF WaitingQueued
    <3> QED BY <1>6, <2>1, <3>2
  <2>3. WaitingQueued'
    BY <1>11, <2>1, <2>2 DEF WaitingQueued
  <2> QED BY <2>3, <1>1, <1>2, <1>10, BucketsStay, LimStays
<1> QED BY <1>12, <1>13

\* The keys that are consumed.
LEMMA CheckedKeyIs ==
  ASSUME conf \in Confs, rdb \in BOOLEAN, consumer.state \in {"tokens", "rpm", "user"},
         Limited(conf, CheckedKey) \/ AlwaysTaken(CheckedKey)
  PROVE  CheckedKey \in LimitKeys
<1> DEFINE All == {"all", "legacy"} \X {"global", "tenant", "provider", "model"} \X {"tokens", "qps", "rpm"}
<1>1. CASE consumer.state = "user"
  BY <1>1 DEF CheckedKey, LimitKeys
<1>2. CASE consumer.state \in {"tokens", "rpm"}
  <2>1. PICK m \in {"tokens", "rpm"} : CheckedKey = LegacyKey("global", m)
    BY <1>2 DEF CheckedKey
  <2>2. CASE ~rdb
    <3>1. CheckedKey = BucketKey("global", m)
      BY <2>1, <2>2 DEF LegacyKey, BucketKey
    <3> QED BY <3>1 DEF LimitKeys, GlobalKeys
  <2>3. CASE rdb
    <3>1. PICK k : k = CheckedKey
      OBVIOUS
    <3>2. k = <<"legacy", "global", m>>
      BY <2>1, <2>3, <3>1 DEF LegacyKey
    <3>3. ~AlwaysTaken(k)
      BY <2>3, <3>2 DEF AlwaysTaken, InRedis
    <3>4. Limited(conf, k)
      BY <3>1, <3>3
    <3>5. k \in All /\ (k[3] = "rpm" => k[2] = "global")
      BY <3>2
    <3> QED BY <3>1, <3>4, <3>5 DEF LimitKeys
  <2> QED BY <2>2, <2>3
<1> QED BY <1>1, <1>2

LEMMA ConsumeTypes ==
  ASSUME QueueTypes, NEW r \in Callers, NEW k, NEW ok \in BOOLEAN, Consume(r, k, ok)
  PROVE  drawn' \in [Callers -> Nat] /\ events' \in 0 .. MaxEvents
<1>0. drawn \in [Callers -> Nat] /\ events \in 0 .. MaxEvents /\ MaxEvents \in Nat /\ TokenCost \in Nat
  BY LimiterAssumption DEF QueueTypes, LimiterAssumption
<1>1. CASE Skipped(k) /\ UNCHANGED <<buckets, drawn>>
  <2>1. drawn' = drawn
    BY <1>1
  <2>2. events' = events \/ (events < MaxEvents /\ events' = events + 1)
    BY <1>1 DEF Skipped, Event
  <2> QED BY <1>0, <2>1, <2>2
<1>2. CASE Draws(r, k, ok) /\ UNCHANGED events
  <2>1. drawn' \in [Callers -> Nat]
    BY <1>0, <1>2 DEF Draws
  <2> QED BY <1>0, <1>2, <2>1
<1> QED BY <1>1, <1>2 DEF Consume

LEMMA CheckStepKeeps ==
  ASSUME LimInv, CheckStep
  PROVE  LimInv'
<1>1. BucketTypes /\ QueueTypes /\ WaitingQueued
  BY LimTypes DEF LimInv
<1>2. /\ consumer.state \in {"tokens", "rpm", "user"}
      /\ UNCHANGED <<rdb, conf, queue, stopping, lpc, at, spec, cancelled, late>>
  BY DEF CheckStep
<1>3. PICK ok \in BOOLEAN :
          /\ Consume(consumer.req, CheckedKey, ok)
          /\ IF ok /\ CheckedNext # "select"
             THEN consumer' = [consumer EXCEPT !.state = CheckedNext] /\ UNCHANGED limAnswer
             ELSE /\ consumer' = [state |-> "select", req |-> Nobody]
                  /\ Answered(consumer.req, ok)
  BY DEF CheckStep
<1>4. PICK x : x = consumer.req
  OBVIOUS
<1>5. x \in Callers /\ x # Nobody
  BY <1>1, <1>2, <1>4 DEF QueueTypes, WaitingQueued
<1>6. BucketsMove
  <2>1. Limited(conf, CheckedKey) \/ AlwaysTaken(CheckedKey) => CheckedKey \in LimitKeys
    BY <1>1, <1>2, CheckedKeyIs DEF QueueTypes
  <2>2. conf \in Confs
    BY <1>1 DEF QueueTypes
  <2> QED BY <1>1, <1>3, <1>4, <1>5, <2>1, <2>2, ConsumeMoves
<1>7. drawn' \in [Callers -> Nat] /\ events' \in 0 .. MaxEvents
  BY <1>1, <1>3, <1>4, <1>5, ConsumeTypes
<1>8. CheckedNext \in {"rpm", "user", "select"}
  BY <1>2 DEF CheckedNext
<1>9. CASE ok /\ CheckedNext # "select"
  <2>1. consumer' = [consumer EXCEPT !.state = CheckedNext] /\ limAnswer' = limAnswer
    BY <1>3, <1>9
  <2>2. consumer'.state \in {"rpm", "user"} /\ consumer'.req = x
        /\ consumer' \in [state : {"select", "tokens", "rpm", "user", "drain", "done"}, req : Callers \cup {Nobody}]
    BY <2>1, <1>1, <1>4, <1>8, <1>9 DEF QueueTypes
  <2>3. QueueTypes'
    BY <2>1, <2>2, <1>1, <1>2, <1>7 DEF QueueTypes
  <2>4. WaitingQueued'
    BY <2>1, <2>2, <1>1, <1>2, <1>4, <1>5 DEF WaitingQueued
  <2> QED BY <2>3, <2>4, <1>2, <1>6, LimStays
<1>10. CASE ~(ok /\ CheckedNext # "select")
  <2>1. consumer' = [state |-> "select", req |-> Nobody] /\ Answered(x, ok)
    BY <1>3, <1>4, <1>10
  <2>2. consumer'.state = "select" /\ consumer'.req = Nobody
        /\ consumer' \in [state : {"select", "tokens", "rpm", "user", "drain", "done"}, req : Callers \cup {Nobody}]
    BY <2>1
  <2>3. /\ limAnswer' \in [Callers -> {"none", "yes", "no"}] /\ limAnswer'[x] # "none"
        /\ \A q \in Callers \ {x} : limAnswer'[q] = limAnswer[q]
    BY <2>1, <1>1, <1>5 DEF Answered, QueueTypes
  <2>4. QueueTypes'
    BY <2>2, <2>3, <1>1, <1>2, <1>7 DEF QueueTypes
  <2>5. WaitingQueued'
    BY <2>2, <2>3, <1>1, <1>2, <1>4 DEF WaitingQueued
  <2> QED BY <2>4, <2>5, <1>2, <1>6, LimStays
<1> QED BY <1>9, <1>10

LEMMA StopsKeep ==
  ASSUME LimInv, Stop \/ SeeStop
  PROVE  LimInv'
<1>1. BucketTypes /\ QueueTypes /\ WaitingQueued
  BY LimTypes DEF LimInv
<1>2. UNCHANGED <<rdb, conf, buckets, queue, lpc, at, spec, cancelled, limAnswer, drawn, late, events>>
  BY DEF Stop, SeeStop, caller
<1>3. CASE Stop
  <2>1. stopping' = TRUE /\ consumer' = consumer
    BY <1>3 DEF Stop
  <2>2. QueueTypes'
    BY <1>1, <1>2, <2>1 DEF QueueTypes
  <2>3. WaitingQueued'
    BY <1>1, <1>2, <2>1 DEF WaitingQueued
  <2> QED BY <1>1, <1>2, <2>2, <2>3, BucketsStay, LimStays
<1>4. CASE SeeStop
  <2>1. consumer.state = "select" /\ stopping /\ stopping' = stopping /\ consumer' = [consumer EXCEPT !.state = "drain"]
    BY <1>4 DEF SeeStop
  <2>2. consumer'.state = "drain" /\ consumer'.req = consumer.req
        /\ consumer' \in [state : {"select", "tokens", "rpm", "user", "drain", "done"}, req : Callers \cup {Nobody}]
    BY <2>1, <1>1 DEF QueueTypes
  <2>3. QueueTypes'
    BY <1>1, <1>2, <2>1, <2>2 DEF QueueTypes
  <2>4. WaitingQueued'
    BY <1>1, <1>2, <2>1, <2>2 DEF WaitingQueued
  <2> QED BY <1>1, <1>2, <2>3, <2>4, BucketsStay, LimStays
<1> QED BY <1>3, <1>4

LEMMA DrainQueueKeeps ==
  ASSUME LimInv, DrainQueue
  PROVE  LimInv'
<1>1. BucketTypes /\ QueueTypes /\ WaitingQueued
  BY LimTypes DEF LimInv
<1>2. /\ consumer.state = "drain"
      /\ UNCHANGED <<rdb, conf, buckets, stopping, lpc, at, spec, cancelled, drawn, late, events>>
  BY DEF DrainQueue
<1>3. CASE queue = <<>>
  <2>1. consumer' = [consumer EXCEPT !.state = "done"] /\ queue' = queue /\ limAnswer' = limAnswer
    BY <1>3 DEF DrainQueue, DrainedEmpty
  <2>2. consumer'.state = "done" /\ consumer'.req = consumer.req
        /\ consumer' \in [state : {"select", "tokens", "rpm", "user", "drain", "done"}, req : Callers \cup {Nobody}]
    BY <2>1, <1>1 DEF QueueTypes
  <2>3. QueueTypes'
    BY <1>1, <1>2, <2>1, <2>2 DEF QueueTypes
  <2>4. Members(queue') = {}
    BY <1>3, <2>1 DEF Members
  <2>5. WaitingQueued'
    BY <1>1, <1>2, <2>1, <2>2, <2>4 DEF WaitingQueued
  <2> QED BY <1>1, <1>2, <2>3, <2>5, BucketsStay, LimStays
<1>4. CASE queue # <<>>
  <2>1. PICK x : x = Head(queue)
    OBVIOUS
  <2>2. consumer' = consumer /\ queue' = Tail(queue) /\ limAnswer' = [limAnswer EXCEPT ![x] = "no"]
    BY <1>4, <2>1 DEF DrainQueue, DrainedEmpty, Answered
  <2>3. queue \in Seq(Callers)
    BY <1>1 DEF QueueTypes
  <2>4. x \in Callers /\ Members(queue) = Members(queue') \cup {x}
    BY <1>4, <2>1, <2>2, <2>3, QueueMembers
  <2>5. queue' \in Seq(Callers)
    BY <1>4, <2>2, <2>3
  <2>6. /\ limAnswer' \in [Callers -> {"none", "yes", "no"}] /\ limAnswer'[x] = "no"
        /\ \A q \in Callers \ {x} : limAnswer'[q] = limAnswer[q]
    BY <1>1, <2>2, <2>4 DEF QueueTypes
  <2>7. QueueTypes'
    BY <1>1, <1>2, <2>2, <2>5, <2>6 DEF QueueTypes
  <2>8. \A q \in Callers : lpc'[q] = "wait" /\ limAnswer'[q] = "none" => q \in Members(queue') \/ consumer'.req = q
    BY <1>1, <1>2, <2>2, <2>4, <2>6 DEF WaitingQueued
  <2>9. WaitingQueued'
    BY <1>1, <1>2, <2>2, <2>8 DEF WaitingQueued
  <2> QED BY <1>1, <1>2, <2>7, <2>9, BucketsStay, LimStays
<1> QED BY <1>3, <1>4

\* Time and administration.
LEMMA AdministrationKeeps ==
  ASSUME LimInv, LimiterTick \/ IdleExpires \/ Reload
  PROVE  LimInv'
<1>1. BucketTypes /\ QueueTypes /\ WaitingQueued
  BY LimTypes DEF LimInv
<1>2. BucketsMove
  BY <1>1, TickMoves, IdleMoves, ReloadMoves
<1>3. UNCHANGED <<rdb, queue, consumer, stopping, lpc, at, spec, cancelled, limAnswer, drawn, late>>
  BY DEF LimiterTick, IdleExpires, Reload, caller
<1>4. conf' \in Confs
  BY <1>1 DEF LimiterTick, IdleExpires, Reload, QueueTypes
<1>5. events < MaxEvents /\ events' = events + 1
  BY DEF LimiterTick, IdleExpires, Reload, Event
<1>6. events' \in 0 .. MaxEvents
  BY <1>1, <1>5, LimiterAssumption DEF QueueTypes, LimiterAssumption
<1>7. QueueTypes'
  BY <1>1, <1>3, <1>4, <1>6 DEF QueueTypes
<1>8. WaitingQueued'
  BY <1>1, <1>3 DEF WaitingQueued
<1> QED BY <1>2, <1>3, <1>7, <1>8, LimStays

LEMMA LegacyCheckKeeps ==
  ASSUME LimInv, NEW r \in Callers, LegacyCheck(r)
  PROVE  LimInv'
<1>1. BucketTypes /\ CallerTypes /\ QueueTypes /\ WaitingQueued /\ CallerFits(r)
  BY LimTypes DEF LimInv
<1>2. lpc[r] = "legacy" /\ UNCHANGED <<rdb, conf, queue, consumer, stopping, spec, cancelled, limAnswer, late>>
  BY DEF LegacyCheck
<1>3. PICK ok \in BOOLEAN :
          /\ Consume(r, LegacyDimensions[at[r]], ok)
          /\ IF ~ok THEN MoveTo(r, "refused")
             ELSE IF at[r] = Len(LegacyDimensions) THEN MoveTo(r, "specs")
             ELSE at' = [at EXCEPT ![r] = @ + 1] /\ UNCHANGED lpc
  BY DEF LegacyCheck
<1>4. at[r] \in 1 .. 8 /\ at[r] <= Len(LegacyDimensions) /\ spec[r] = <<>>
  BY <1>1, <1>2 DEF CallerTypes, CallerFits
<1>5. Len(LegacyDimensions) \in 0 .. 4 /\ LegacyDimensions \in Seq(LimitKeys)
  BY LegacyAre
<1>6. LegacyDimensions[at[r]] \in LimitKeys
  BY <1>4, <1>5
<1>7. BucketsMove
  <2>1. conf \in Confs
    BY <1>1 DEF QueueTypes
  <2> QED BY <1>1, <1>3, <1>6, <2>1, ConsumeMoves
<1>8. drawn' \in [Callers -> Nat] /\ events' \in 0 .. MaxEvents
  BY <1>1, <1>3, ConsumeTypes
<1>9. QueueTypes'
  BY <1>1, <1>2, <1>8 DEF QueueTypes
<1>10. LegacyDimensions' = LegacyDimensions
  BY <1>2 DEF LegacyDimensions, LegacyKey
<1>11. /\ lpc' \in [Callers -> LimPcs] /\ at' \in [Callers -> 1 .. 8]
       /\ lpc'[r] \in {"refused", "specs", "legacy"}
       /\ lpc'[r] # "legacy" => at'[r] = 1
       /\ lpc'[r] = "legacy" => at'[r] <= Len(LegacyDimensions)
       /\ \A q \in Callers \ {r} : lpc'[q] = lpc[q] /\ at'[q] = at[q]
  <2>1. CASE ~ok \/ at[r] = Len(LegacyDimensions)
    <3>1. PICK w \in {"refused", "specs"} : MoveTo(r, w)
      BY <1>3, <2>1
    <3>2. w \in LimPcs
      BY DEF LimPcs
    <3>3. /\ lpc' \in [Callers -> LimPcs] /\ at' \in [Callers -> 1 .. 8]
          /\ lpc'[r] = w /\ at'[r] = 1
          /\ \A q \in Callers \ {r} : lpc'[q] = lpc[q] /\ at'[q] = at[q]
      BY <1>1, <3>1, <3>2, MoveToIs
    <3> QED BY <3>1, <3>3
  <2>2. CASE ~(~ok \/ at[r] = Len(LegacyDimensions))
    <3>1. at' = [at EXCEPT ![r] = at[r] + 1] /\ lpc' = lpc
      BY <1>3, <2>2
    <3>2. at[r] + 1 \in 1 .. 8 /\ at[r] + 1 <= Len(LegacyDimensions)
      <4>1. PICK a, n : a = at[r] /\ n = Len(LegacyDimensions)
        OBVIOUS
      <4>2. a \in 1 .. 8 /\ n \in 0 .. 4 /\ a <= n /\ a # n
        BY <1>4, <1>5, <2>2, <4>1
      <4>3. a + 1 \in 1 .. 8 /\ a + 1 <= n
        BY <4>2
      <4> QED BY <4>1, <4>3
    <3>3. at' \in [Callers -> 1 .. 8] /\ at'[r] = at[r] + 1 /\ \A q \in Callers \ {r} : at'[q] = at[q]
      BY <1>1, <3>1, <3>2 DEF CallerTypes
    <3> QED BY <1>1, <1>2, <3>1, <3>2, <3>3 DEF CallerTypes
  <2> QED BY <2>1, <2>2
<1>12. CallerTypes'
  BY <1>1, <1>2, <1>11 DEF CallerTypes
<1>13. CallerFits(r)'
  <2>1. CASE lpc'[r] = "legacy"
    BY <1>2, <1>4, <1>10, <1>11, <2>1 DEF CallerFits
  <2>2. CASE lpc'[r] # "legacy"
    <3>1. lpc'[r] \in LimPcs /\ at'[r] = 1 /\ spec'[r] = <<>> /\ lpc'[r] \notin {"lock", "script", "decide"}
      BY <1>2, <1>4, <1>11, <2>2
    <3> QED BY <2>2, <3>1, Arrives
  <2> QED BY <2>1, <2>2
<1>14. \A q \in Callers \ {r} : Same(q)
  BY <1>2, <1>11 DEF Same
<1>15. WaitingQueued'
  BY <1>1, <1>2, <1>11 DEF WaitingQueued
<1>16. TokensBalance'
  BY <1>2, <1>7, <1>11, <1>14, BalanceMoves
<1> QED BY <1>2, <1>7, <1>9, <1>12, <1>13, <1>14, <1>15, <1>16, LimMoves

LEMMA ScriptFailsKeeps ==
  ASSUME LimInv, NEW r \in Callers, ScriptFails(r)
  PROVE  LimInv'
<1>1. BucketTypes /\ CallerTypes /\ QueueTypes /\ WaitingQueued
  BY LimTypes DEF LimInv
<1>2. /\ lpc[r] = "script" /\ Event /\ MoveTo(r, "refused") /\ spec' = [spec EXCEPT ![r] = <<>>]
      /\ UNCHANGED <<rdb, conf, buckets, queue, consumer, stopping, cancelled, limAnswer, drawn, late>>
  BY DEF ScriptFails
<1>3. "refused" \in LimPcs
  BY DEF LimPcs
<1>4. /\ lpc' \in [Callers -> LimPcs] /\ at' \in [Callers -> 1 .. 8]
      /\ lpc'[r] = "refused" /\ at'[r] = 1
      /\ \A q \in Callers \ {r} : lpc'[q] = lpc[q] /\ at'[q] = at[q]
  BY <1>1, <1>2, <1>3, MoveToIs
<1>5. /\ spec' \in [Callers -> Seq(SpecRecs)] /\ spec'[r] = <<>>
      /\ \A q \in Callers \ {r} : spec'[q] = spec[q]
  <2>1. <<>> \in Seq(SpecRecs)
    OBVIOUS
  <2> QED BY <1>1, <1>2, <2>1 DEF CallerTypes
<1>6. CallerTypes'
  BY <1>4, <1>5 DEF CallerTypes
<1>7. BucketsMove
  BY <1>1, <1>2, BucketsStay
<1>8. events' \in 0 .. MaxEvents
  BY <1>1, <1>2, LimiterAssumption DEF QueueTypes, LimiterAssumption, Event
<1>9. QueueTypes'
  BY <1>1, <1>2, <1>8 DEF QueueTypes
<1>10. CallerFits(r)'
  BY <1>3, <1>4, <1>5, Arrives
<1>11. \A q \in Callers \ {r} : Same(q)
  BY <1>4, <1>5 DEF Same
<1>12. WaitingQueued'
  BY <1>1, <1>2, <1>4 DEF WaitingQueued
<1>13. TokensBalance'
  BY <1>2, <1>4, <1>7, <1>11, BalanceMoves
<1> QED BY <1>2, <1>6, <1>7, <1>9, <1>10, <1>11, <1>12, <1>13, LimMoves

LEMMA SpecsSkip ==
  ASSUME NEW s \in Seq(SpecRecs), NEW n \in DOMAIN Dimensions, NEW c \in Confs,
         SpecsUpTo(s, n), ~Limited(c, Dimensions[n])
  PROVE  SpecsUpTo(s, n + 1)
<1>0. DOMAIN Dimensions = 1 .. Len(Dimensions) /\ Len(Dimensions) \in 1 .. 8
  BY DimensionsAre
<1>0a. Len(s) \in Nat
  OBVIOUS
<1>1. DOMAIN Dimensions = 1 .. Len(Dimensions) /\ Len(Dimensions) \in 1 .. 8 /\ Len(s) \in Nat
  BY <1>0, <1>0a
<1>2. n \in 1 .. 8 /\ (n + 1) - 1 = n
  BY <1>1
<1>3. Len(s) < n + 1
  BY <1>1, <1>2 DEF SpecsUpTo
<1>4. \A j \in DOMAIN s : \E a \in 1 .. n : a \in DOMAIN Dimensions /\ s[j].key = Dimensions[a]
  <2> SUFFICES ASSUME NEW j \in DOMAIN s PROVE \E a \in 1 .. n : a \in DOMAIN Dimensions /\ s[j].key = Dimensions[a]
    OBVIOUS
  <2>1. PICK a \in 1 .. n - 1 : a \in DOMAIN Dimensions /\ s[j].key = Dimensions[a]
    BY DEF SpecsUpTo
  <2>2. a \in 1 .. n
    BY <1>2
  <2> QED BY <2>1, <2>2
<1>5. \A i, j \in DOMAIN s : i < j => DimRank(s[i].key) < DimRank(s[j].key)
  BY DEF SpecsUpTo
<1>6. ASSUME NEW a \in 1 .. n, a \in DOMAIN Dimensions, \A d \in Confs : Limited(d, Dimensions[a])
      PROVE  \E j \in DOMAIN s : s[j].key = Dimensions[a]
  <2>1. a # n
    BY <1>6
  <2>2. a \in 1 .. n - 1
    BY <2>1, <1>2
  <2> QED BY <2>2, <1>6 DEF SpecsUpTo
<1> QED BY <1>2, <1>3, <1>4, <1>5, <1>6 DEF SpecsUpTo

LEMMA SpecsAppend ==
  ASSUME NEW s \in Seq(SpecRecs), NEW n \in DOMAIN Dimensions, NEW e \in SpecRecs,
         SpecsUpTo(s, n), e.key = Dimensions[n], NEW t, t = Append(s, e)
  PROVE  SpecsUpTo(t, n + 1) /\ t # <<>> /\ t \in Seq(SpecRecs)
<1>0. DOMAIN Dimensions = 1 .. Len(Dimensions) /\ Len(Dimensions) \in 1 .. 8
  BY DimensionsAre
<1>0a. Len(s) \in Nat
  OBVIOUS
<1>1. DOMAIN Dimensions = 1 .. Len(Dimensions) /\ Len(Dimensions) \in 1 .. 8 /\ Len(s) \in Nat
  BY <1>0, <1>0a
<1>2. n \in 1 .. 8 /\ (n + 1) - 1 = n
  BY <1>1
<1>3. t # <<>> /\ t \in Seq(SpecRecs) /\ Len(t) = Len(s) + 1 /\ DOMAIN t = 1 .. Len(s) + 1 /\ DOMAIN s = 1 .. Len(s)
  OBVIOUS
<1>4. t[Len(s) + 1] = e /\ \A j \in DOMAIN s : t[j] = s[j]
  OBVIOUS
<1>5. \A j \in DOMAIN t : j = Len(s) + 1 \/ j \in DOMAIN s
  BY <1>1, <1>3
<1>6. Len(t) < n + 1
  BY <1>1, <1>2, <1>3 DEF SpecsUpTo
<1>7. ASSUME NEW j \in DOMAIN s
      PROVE  \E a \in 1 .. n - 1 : a \in DOMAIN Dimensions /\ t[j].key = Dimensions[a]
  BY <1>4 DEF SpecsUpTo
<1>8. ASSUME NEW j \in DOMAIN t PROVE \E a \in 1 .. n : a \in DOMAIN Dimensions /\ t[j].key = Dimensions[a]
  <2>1. CASE j \in DOMAIN s
    <3>1. PICK a \in 1 .. n - 1 : a \in DOMAIN Dimensions /\ t[j].key = Dimensions[a]
      BY <2>1, <1>7
    <3>2. a \in 1 .. n
      BY <1>2
    <3> QED BY <3>1, <3>2
  <2>2. CASE j = Len(s) + 1
    <3>1. n \in 1 .. n
      BY <1>2
    <3> QED BY <2>2, <3>1, <1>4
  <2> QED BY <2>1, <2>2, <1>5
<1>9. ASSUME NEW i \in DOMAIN t, NEW j \in DOMAIN t, i < j PROVE DimRank(t[i].key) < DimRank(t[j].key)
  <2>1. CASE j \in DOMAIN s
    <3>1. i \in DOMAIN s
      BY <1>1, <1>3, <1>9, <2>1
    <3> QED BY <2>1, <3>1, <1>4, <1>9 DEF SpecsUpTo
  <2>2. CASE j = Len(s) + 1
    <3>1. i \in DOMAIN s
      BY <1>1, <1>3, <1>9, <2>2
    <3>2. PICK a \in 1 .. n - 1 : a \in DOMAIN Dimensions /\ t[i].key = Dimensions[a]
      BY <3>1, <1>7
    <3>3. a < n
      BY <1>2
    <3>4. DimRank(Dimensions[a]) < DimRank(Dimensions[n])
      BY <3>2, <3>3, DimensionsAre
    <3>5. t[j].key = Dimensions[n]
      BY <2>2, <1>4
    <3> QED BY <3>2, <3>4, <3>5
  <2> QED BY <2>1, <2>2, <1>5
<1>10. ASSUME NEW a \in 1 .. n, a \in DOMAIN Dimensions, \A d \in Confs : Limited(d, Dimensions[a])
       PROVE  \E j \in DOMAIN t : t[j].key = Dimensions[a]
  <2>1. CASE a = n
    <3>1. Len(s) + 1 \in DOMAIN t
      BY <1>1, <1>3
    <3> QED BY <2>1, <3>1, <1>4
  <2>2. CASE a # n
    <3>1. a \in 1 .. n - 1
      BY <2>2, <1>2
    <3>2. PICK j \in DOMAIN s : s[j].key = Dimensions[a]
      BY <3>1, <1>10 DEF SpecsUpTo
    <3>3. j \in DOMAIN t /\ t[j] = s[j]
      BY <1>1, <1>3, <1>4
    <3> QED BY <3>2, <3>3
  <2> QED BY <2>1, <2>2
<1> QED BY <1>2, <1>3, <1>6, <1>8, <1>9, <1>10 DEF SpecsUpTo

LEMMA buildLimitSpecsKeeps ==
  ASSUME LimInv, NEW r \in Callers, buildLimitSpecs(r)
  PROVE  LimInv'
<1>1. BucketTypes /\ CallerTypes /\ QueueTypes /\ WaitingQueued /\ CallerFits(r)
  BY LimTypes DEF LimInv
<1>2. PICK n : n = at[r]
  OBVIOUS
<1>3. PICK k : k = Dimensions[n]
  OBVIOUS
<1>4. PICK g : g = IF cur[k] = 0 THEN bucketsMade[k] + 1 ELSE cur[k]
  OBVIOUS
<1>5. /\ lpc[r] = "specs"
      /\ IF ~Limited(conf, k) THEN UNCHANGED <<spec, buckets>>
         ELSE /\ g <= MaxGen
              /\ spec' = [spec EXCEPT ![r] = Append(@, [key |-> k, gen |-> g, burst |-> LimitOf(conf, k).burst])]
              /\ IF cur[k] = 0
                 THEN Created(k) /\ bucket' = [bucket EXCEPT ![k][g] = FullBucket(conf, k)]
                 ELSE UNCHANGED buckets
      /\ IF n < Len(Dimensions)
         THEN at' = [at EXCEPT ![r] = @ + 1] /\ UNCHANGED lpc
         ELSE MoveTo(r, IF spec'[r] = <<>> THEN "admitted" ELSE IF rdb THEN "script" ELSE "lock")
      /\ UNCHANGED <<rdb, conf, queue, consumer, stopping, cancelled, limAnswer, drawn, late, events>>
  BY <1>2, <1>3, <1>4 DEF buildLimitSpecs
<1>6. n \in 1 .. 8 /\ n <= Len(Dimensions) /\ SpecsUpTo(spec[r], n) /\ conf \in Confs /\ spec[r] \in Seq(SpecRecs)
  BY <1>1, <1>2, <1>5 DEF CallerTypes, CallerFits, QueueTypes
<1>7. DOMAIN Dimensions = 1 .. Len(Dimensions) /\ Len(Dimensions) \in 1 .. 8
  BY DimensionsAre
<1>8. n \in DOMAIN Dimensions
  BY <1>6, <1>7
<1>9. k \in LimitKeys
  BY <1>3, <1>8, DimensionsAre
<1>10. /\ BucketsMove /\ spec' \in [Callers -> Seq(SpecRecs)] /\ \A q \in Callers \ {r} : spec'[q] = spec[q]
       /\ SpecsUpTo(spec'[r], n + 1)
  <2>1. CASE ~Limited(conf, k)
    <3>1. UNCHANGED <<spec, buckets>>
      BY <1>5, <2>1
    <3>2. SpecsUpTo(spec[r], n + 1)
      BY <1>3, <1>6, <1>8, <2>1, SpecsSkip
    <3>3. BucketsMove
      BY <1>1, <3>1, BucketsStay
    <3> QED BY <1>1, <3>1, <3>2, <3>3 DEF CallerTypes
  <2>2. CASE Limited(conf, k)
    <3>1. PICK e : e = [key |-> k, gen |-> g, burst |-> LimitOf(conf, k).burst]
      OBVIOUS
    <3>2. /\ g <= MaxGen /\ spec' = [spec EXCEPT ![r] = Append(@, e)]
          /\ IF cur[k] = 0
             THEN Created(k) /\ bucket' = [bucket EXCEPT ![k][g] = FullBucket(conf, k)]
             ELSE UNCHANGED buckets
      BY <1>5, <2>2, <3>1
    <3>3. cur[k] \in 0 .. MaxGen /\ bucketsMade[k] \in 0 .. MaxGen
      BY <1>1, <1>9 DEF BucketTypes
    <3>4. g \in 1 .. MaxGen
      BY <1>4, <3>2, <3>3, LimConstants
    <3>5. LimitOf(conf, k).burst \in Nat
      BY <1>6, <1>9, LimitIs
    <3>6. e \in SpecRecs /\ e.key = Dimensions[n]
      BY <1>3, <1>9, <3>1, <3>4, <3>5 DEF SpecRecs
    <3>7. PICK t : t = Append(spec[r], e)
      OBVIOUS
    <3>8. SpecsUpTo(t, n + 1) /\ t \in Seq(SpecRecs)
      BY <1>6, <1>8, <3>6, <3>7, SpecsAppend
    <3>9. spec' = [spec EXCEPT ![r] = t]
      BY <3>2, <3>7
    <3>10. spec' \in [Callers -> Seq(SpecRecs)] /\ spec'[r] = t /\ \A q \in Callers \ {r} : spec'[q] = spec[q]
      BY <1>1, <3>8, <3>9 DEF CallerTypes
    <3>11. BucketsMove
      <4>1. CASE cur[k] = 0
        <5>1. g = bucketsMade[k] + 1
          BY <1>4, <4>1
        <5>2. /\ Created(k) /\ bucketsMade[k] + 1 <= MaxGen
              /\ bucket' = [bucket EXCEPT ![k][bucketsMade[k] + 1] = FullBucket(conf, k)]
          BY <3>2, <4>1, <5>1
        <5> QED BY <1>1, <1>6, <1>9, <5>2, CreationMoves
      <4>2. CASE cur[k] # 0
        BY <1>1, <3>2, <4>2, BucketsStay
      <4> QED BY <4>1, <4>2
    <3> QED BY <3>8, <3>10, <3>11
  <2> QED BY <2>1, <2>2
<1>11. QueueTypes'
  BY <1>1, <1>5 DEF QueueTypes
<1>12. CASE n < Len(Dimensions)
  <2>1. at' = [at EXCEPT ![r] = n + 1] /\ lpc' = lpc
    BY <1>2, <1>5, <1>12
  <2>2. n + 1 \in 1 .. 8 /\ n + 1 <= Len(Dimensions)
    <3>1. PICK m : m = Len(Dimensions)
      OBVIOUS
    <3>2. m \in 1 .. 8 /\ n \in 1 .. 8 /\ n < m
      BY <1>6, <1>7, <1>12, <3>1
    <3>3. n + 1 \in 1 .. 8 /\ n + 1 <= m
      BY <3>2
    <3> QED BY <3>1, <3>3
  <2>3. at' \in [Callers -> 1 .. 8] /\ at'[r] = n + 1 /\ \A q \in Callers \ {r} : at'[q] = at[q]
    BY <1>1, <2>1, <2>2 DEF CallerTypes
  <2>4. CallerTypes'
    BY <1>1, <1>10, <2>1, <2>3 DEF CallerTypes
  <2>5. CallerFits(r)'
    BY <1>5, <1>10, <2>1, <2>2, <2>3 DEF CallerFits
  <2>6. \A q \in Callers \ {r} : Same(q)
    BY <1>10, <2>1, <2>3 DEF Same
  <2>7. WaitingQueued'
    BY <1>1, <1>5, <2>1 DEF WaitingQueued
  <2>8. TokensBalance'
    BY <1>5, <1>10, <2>1, <2>6, BalanceMoves
  <2> QED BY <1>5, <1>10, <1>11, <2>4, <2>5, <2>6, <2>7, <2>8, LimMoves
<1>13. CASE n = Len(Dimensions)
  <2>1. PICK w : w = IF spec'[r] = <<>> THEN "admitted" ELSE IF rdb THEN "script" ELSE "lock"
    OBVIOUS
  <2>2. MoveTo(r, w)
    BY <1>5, <1>7, <1>13, <2>1
  <2>3. w \in LimPcs /\ (spec'[r] = <<>> => w = "admitted") /\ (spec'[r] # <<>> => w \in {"script", "lock"})
    BY <2>1 DEF LimPcs
  <2>4. /\ lpc' \in [Callers -> LimPcs] /\ at' \in [Callers -> 1 .. 8]
        /\ lpc'[r] = w /\ at'[r] = 1
        /\ \A q \in Callers \ {r} : lpc'[q] = lpc[q] /\ at'[q] = at[q]
    BY <1>1, <2>2, <2>3, MoveToIs
  <2>5. CallerTypes'
    BY <1>10, <2>4 DEF CallerTypes
  <2>6. \A q \in Callers \ {r} : Same(q)
    BY <1>10, <2>4 DEF Same
  <2>7. WaitingQueued'
    BY <1>1, <1>5, <2>3, <2>4 DEF WaitingQueued
  <2>8. CASE spec'[r] = <<>>
    <3>1. CallerFits(r)'
      BY <2>3, <2>4, <2>8, Arrives
    <3>2. \A a \in DOMAIN Dimensions : ~\A c \in Confs : Limited(c, Dimensions[a])
      <4> SUFFICES ASSUME NEW a \in DOMAIN Dimensions, \A c \in Confs : Limited(c, Dimensions[a]) PROVE FALSE
        OBVIOUS
      <4>1. a \in 1 .. (n + 1) - 1
        BY <1>6, <1>7, <1>13
      <4>2. \E j \in DOMAIN spec'[r] : spec'[r][j].key = Dimensions[a]
        BY <1>10, <4>1 DEF SpecsUpTo
      <4> QED BY <4>2, <2>8
    <3>3. TokensBalance'
      BY <3>2 DEF TokensBalance
    <3> QED BY <1>5, <1>10, <1>11, <2>5, <2>6, <2>7, <3>1, <3>3, LimMoves
  <2>9. CASE spec'[r] # <<>>
    <3>1. spec'[r] \in Seq(SpecRecs)
      BY <1>10
    <3>2. 1 <= Len(spec'[r])
      BY <2>9, <3>1
    <3>3. SpecsUpTo(spec'[r], Len(Dimensions) + 1)
      BY <1>10, <1>13
    <3>4. CallerFits(r)'
      BY <2>3, <2>4, <2>9, <3>2, <3>3 DEF CallerFits
    <3>5. TokensBalance'
      BY <1>5, <1>10, <2>3, <2>4, <2>6, <2>9, BalanceMoves
    <3> QED BY <1>5, <1>10, <1>11, <2>5, <2>6, <2>7, <3>4, <3>5, LimMoves
  <2> QED BY <2>8, <2>9
<1>14. n < Len(Dimensions) \/ n = Len(Dimensions)
  <2>1. PICK m : m = Len(Dimensions)
    OBVIOUS
  <2>2. m \in 1 .. 8 /\ n \in 1 .. 8 /\ n <= m
    BY <1>6, <1>7, <2>1
  <2> QED BY <2>1, <2>2
<1> QED BY <1>12, <1>13, <1>14

Owns(r, k, g) == \E i \in DOMAIN spec[r] : spec[r][i].key = k /\ spec[r][i].gen = g

LEMMA LockBucketKeeps ==
  ASSUME LimInv, NEW r \in Callers, LockBucket(r)
  PROVE  LimInv'
<1>1. /\ BucketTypes /\ CallerTypes /\ QueueTypes /\ WaitingQueued /\ CallerFits(r) /\ LocksHeld /\ TokensBalance
      /\ \A q \in Callers : CallerFits(q)
  BY LimTypes DEF LimInv
<1>2. PICK n : n = at[r]
  OBVIOUS
<1>3. PICK s : s = spec[r][n]
  OBVIOUS
<1>4. /\ lpc[r] = "lock"
      /\ bucket' = [bucket EXCEPT ![s.key][s.gen].lock = r]
      /\ IF n = Len(spec[r]) THEN MoveTo(r, "decide")
         ELSE at' = [at EXCEPT ![r] = @ + 1] /\ UNCHANGED lpc
      /\ UNCHANGED <<rdb, conf, cur, bucketsMade, fills, queue, consumer, stopping, spec, cancelled,
                     limAnswer, drawn, late, events>>
  BY <1>2, <1>3 DEF LockBucket, LockTarget
<1>5. spec[r] \in Seq(SpecRecs) /\ n \in 1 .. 8 /\ n <= Len(spec[r])
  BY <1>1, <1>2, <1>4 DEF CallerTypes, CallerFits
<1>6. SpecsUpTo(spec[r], Len(Dimensions) + 1)
  BY <1>1, <1>4 DEF CallerFits
<1>7. Len(spec[r]) \in 1 .. 8
  <2>1. PICK l, m : l = Len(spec[r]) /\ m = Len(Dimensions)
    OBVIOUS
  <2>2. l \in Nat /\ n <= l
    BY <1>5, <2>1
  <2>3. m \in 1 .. 8
    BY <2>1, DimensionsAre
  <2>4. l < m + 1
    BY <1>6, <2>1 DEF SpecsUpTo
  <2>5. l \in 1 .. 8
    BY <1>5, <2>2, <2>3, <2>4
  <2> QED BY <2>1, <2>5
<1>8. n \in DOMAIN spec[r]
  BY <1>5, <1>7
<1>9. s \in SpecRecs
  BY <1>3, <1>5, <1>8
<1>10. s.key \in LimitKeys /\ s.gen \in 1 .. MaxGen
  BY <1>9 DEF SpecRecs
<1>11. PICK k, g : k = s.key /\ g = s.gen
  OBVIOUS
<1>12. PICK v : v = [bucket[k][g] EXCEPT !.lock = r]
  OBVIOUS
<1>13. bucket[k][g] \in BucketRecs
  BY <1>1, <1>10, <1>11, BucketIs
<1>14. v \in BucketRecs /\ v.lock = r /\ v.tokens = bucket[k][g].tokens
  BY <1>12, <1>13 DEF BucketRecs
<1>15. bucket' = [bucket EXCEPT ![k][g] = v]
  BY <1>4, <1>11, <1>12
<1>16. BucketTypes'
  <2>1. k \in LimitKeys /\ g \in 1 .. MaxGen
    BY <1>10, <1>11
  <2>2. bucket \in [LimitKeys -> [1 .. MaxGen -> BucketRecs]]
    BY <1>1 DEF BucketTypes
  <2>3. bucket' \in [LimitKeys -> [1 .. MaxGen -> BucketRecs]]
    BY <1>14, <1>15, <2>1, <2>2
  <2> QED BY <1>1, <1>4, <2>3 DEF BucketTypes
<1>17. /\ bucket'[k][g] = v
       /\ \A q \in LimitKeys, h \in 1 .. MaxGen : q # k \/ h # g => bucket'[q][h] = bucket[q][h]
  BY <1>1, <1>10, <1>11, <1>15 DEF BucketTypes
<1>18. FillsCover
  <2> SUFFICES ASSUME NEW q \in LimitKeys
               PROVE  TokensOf(bucket'[q], MaxGen) + fills[q] <= TokensOf(bucket[q], MaxGen) + fills'[q]
    BY DEF FillsCover
  <2>1. PICK b, c : b = bucket[q] /\ c = bucket'[q]
    OBVIOUS
  <2>2. \A i \in 1 .. MaxGen : b[i].tokens \in Nat
    BY <1>1, <2>1, BucketIs
  <2>3. \A i \in 1 .. MaxGen : c[i].tokens = b[i].tokens
    BY <1>14, <1>17, <2>1
  <2>4. \A i \in 1 .. MaxGen : b[i].tokens \in Nat /\ c[i].tokens = b[i].tokens
    BY <2>2, <2>3
  <2>5. MaxGen \in Nat /\ MaxGen # 0
    BY LimConstants
  <2>6. TokensOf(b, MaxGen) \in Nat /\ TokensOf(c, MaxGen) = TokensOf(b, MaxGen)
    BY <2>4, <2>5, TokensOfSame
  <2>7. fills[q] \in Nat /\ fills'[q] = fills[q]
    BY <1>1, <1>4 DEF BucketTypes
  <2> QED BY <2>1, <2>6, <2>7
<1>19. /\ lpc' \in [Callers -> LimPcs] /\ at' \in [Callers -> 1 .. 8]
       /\ lpc'[r] \in {"lock", "decide"}
       /\ lpc'[r] = "lock" => at'[r] = n + 1 /\ at'[r] <= Len(spec[r])
       /\ \A q \in Callers \ {r} : lpc'[q] = lpc[q] /\ at'[q] = at[q]
  <2>1. CASE n = Len(spec[r])
    <3>1. MoveTo(r, "decide") /\ "decide" \in LimPcs
      BY <1>4, <2>1 DEF LimPcs
    <3>2. /\ lpc' \in [Callers -> LimPcs] /\ at' \in [Callers -> 1 .. 8]
          /\ lpc'[r] = "decide" /\ at'[r] = 1
          /\ \A q \in Callers \ {r} : lpc'[q] = lpc[q] /\ at'[q] = at[q]
      BY <1>1, <3>1, MoveToIs
    <3> QED BY <3>2
  <2>2. CASE n # Len(spec[r])
    <3>1. at' = [at EXCEPT ![r] = n + 1] /\ lpc' = lpc
      BY <1>2, <1>4, <2>2
    <3>2. n + 1 \in 1 .. 8 /\ n + 1 <= Len(spec[r])
      <4>1. PICK l : l = Len(spec[r])
        OBVIOUS
      <4>2. l \in 1 .. 8 /\ n \in 1 .. 8 /\ n <= l /\ n # l
        BY <1>5, <1>7, <2>2, <4>1
      <4>3. n + 1 \in 1 .. 8 /\ n + 1 <= l
        BY <4>2
      <4> QED BY <4>1, <4>3
    <3>3. at' \in [Callers -> 1 .. 8] /\ at'[r] = n + 1 /\ \A q \in Callers \ {r} : at'[q] = at[q]
      BY <1>1, <3>1, <3>2 DEF CallerTypes
    <3> QED BY <1>1, <1>4, <3>1, <3>2, <3>3 DEF CallerTypes
  <2> QED BY <2>1, <2>2
<1>20. CallerTypes'
  BY <1>1, <1>4, <1>19 DEF CallerTypes
<1>21. QueueTypes'
  BY <1>1, <1>4 DEF QueueTypes
<1>22. LimiterTypeOK'
  BY <1>16, <1>20, <1>21, LimTypesNext
<1>23. \A q \in Callers \ {r} : Same(q)
  BY <1>4, <1>19 DEF Same
<1>24. \A q \in Callers : CallerFits(q)'
  <2>1. \A q \in Callers \ {r} : CallerFits(q)'
    BY <1>1, <1>4, <1>23, CallerStays
  <2>2. spec[r] # <<>> /\ spec'[r] = spec[r]
    BY <1>1, <1>4 DEF CallerFits
  <2>3. CallerFits(r)'
    BY <1>6, <1>19, <2>2 DEF CallerFits
  <2> QED BY <2>1, <2>3
<1>25. LocksHeld'
  <2> SUFFICES ASSUME NEW q \in LimitKeys, NEW h \in 1 .. MaxGen, bucket'[q][h].lock # Nobody
               PROVE  Holds(bucket[q][h].lock, q, h)'
    BY DEF LocksHeld
  <2>1. CASE q = k /\ h = g
    <3>1. bucket'[q][h].lock = r
      BY <1>14, <1>17, <2>1
    <3>2. n \in DOMAIN spec'[r] /\ spec'[r][n].key = q /\ spec'[r][n].gen = h
      BY <1>3, <1>4, <1>8, <1>11, <2>1
    <3>3. lpc'[r] = "lock" => n < at'[r]
      BY <1>5, <1>19
    <3>4. Holds(r, q, h)'
      BY <1>19, <3>2, <3>3 DEF Holds
    <3> QED BY <3>1, <3>4 DEF Holds
  <2>2. CASE q # k \/ h # g
    <3>1. PICK p : p = bucket[q][h].lock
      OBVIOUS
    <3>2. bucket'[q][h].lock = p /\ p # Nobody
      BY <1>17, <2>2, <3>1
    <3>3. p \in Callers /\ Holds(p, q, h)
      BY <1>1, <3>1, <3>2, BucketIs DEF LocksHeld
    <3>4. CASE p # r
      <4>1. Same(p)
        BY <1>23, <3>3, <3>4
      <4>2. Holds(p, q, h)'
        BY <3>3, <4>1 DEF Holds, Same
      <4> QED BY <3>2, <4>2 DEF Holds
    <3>5. CASE p = r
      <4>1. PICK i \in DOMAIN spec[r] : i < n /\ spec[r][i].key = q /\ spec[r][i].gen = h
        BY <1>2, <1>4, <3>3, <3>5 DEF Holds
      <4>2. i \in DOMAIN spec'[r] /\ spec'[r][i].key = q /\ spec'[r][i].gen = h
        BY <1>4, <4>1
      <4>3. lpc'[r] = "lock" => i < at'[r]
        <5>1. i \in Nat
          BY <1>5, <4>1
        <5> QED BY <1>5, <1>19, <4>1, <5>1
      <4>4. Holds(r, q, h)'
        BY <1>19, <4>2, <4>3 DEF Holds
      <4> QED BY <3>2, <3>5, <4>4 DEF Holds
    <3> QED BY <3>4, <3>5
  <2> QED BY <2>1, <2>2
<1>26. TokensBalance'
  <2>1. Admitted' = Admitted
    BY <1>4, <1>19 DEF Admitted
  <2> QED BY <1>1, <1>16, <1>18, <2>1, BalanceKeep
<1>27. WaitingQueued'
  BY <1>1, <1>4, <1>19 DEF WaitingQueued
<1> QED BY <1>22, <1>24, <1>25, <1>26, <1>27 DEF LimInv

\* The decision: what it makes of each bucket.
LEMMA AfterIs ==
  ASSUME BucketTypes, NEW r \in Callers, spec[r] \in Seq(SpecRecs), NEW ok \in BOOLEAN, ok => Fit(r),
         NEW k \in LimitKeys, NEW g \in 1 .. MaxGen, NEW v, v = After(r, ok)[k][g]
  PROVE  /\ v \in BucketRecs /\ v.tokens \in Nat /\ v.tokens <= bucket[k][g].tokens
         /\ ~Owns(r, k, g) => v = bucket[k][g]
         /\ Owns(r, k, g) => v.lock = Nobody
         /\ ok /\ Owns(r, k, g) => v.tokens + Consumes(k) <= bucket[k][g].tokens
<1> DEFINE own == {s \in Specs(r) : s.key = k /\ s.gen = g}
           b == IF ok THEN WithBurst(bucket[k][g], k, (CHOOSE s \in own : TRUE).burst) ELSE bucket[k][g]
<1>1. v = IF own = {} THEN bucket[k][g]
          ELSE [b EXCEPT !.lock = Nobody, !.tokens = IF ok THEN @ - Consumes(k) ELSE @]
  BY DEF After
<1>2. Owns(r, k, g) <=> own # {}
  BY DEF Owns, Specs
<1>3. bucket[k][g] \in BucketRecs /\ bucket[k][g].tokens \in Nat
  BY BucketIs
<1>4. PICK old : old = bucket[k][g]
  OBVIOUS
<1>5. CASE own = {}
  BY <1>1, <1>2, <1>3, <1>5
<1>6. CASE own # {}
  <2>1. PICK s : s = CHOOSE e \in own : TRUE
    OBVIOUS
  <2>2. s \in own
    BY <1>6, <2>1
  <2>3. s \in Specs(r) /\ s.key = k /\ s.gen = g
    BY <2>2
  <2> HIDE DEF own
  <2>4. s \in SpecRecs
    BY <2>3 DEF Specs
  <2>5. s.burst \in Nat
    BY <2>4 DEF SpecRecs
  <2>6. Consumes(k) \in Nat
    BY LimConstants
  <2>7. CASE ok
    <3>1. PICK w : w = WithBurst(old, k, s.burst)
      OBVIOUS
    <3>2. w \in BucketRecs /\ w.lock = old.lock /\ w.tokens \in Nat /\ w.tokens <= old.tokens
      BY <1>3, <1>4, <2>5, <3>1, WithBurstIs
    <3>3. w.tokens >= Consumes(k)
      BY <1>4, <2>3, <2>7, <3>1 DEF Fit, Enough
    <3>4. b = w
      BY <1>4, <2>1, <2>7, <3>1
    <3> HIDE DEF b
    <3>5. PICK t : t = w.tokens - Consumes(k)
      OBVIOUS
    <3>6. v = [w EXCEPT !.lock = Nobody, !.tokens = t]
      BY <1>1, <1>6, <2>7, <3>4, <3>5
    <3>7. t \in Nat /\ t + Consumes(k) <= old.tokens /\ t <= old.tokens
      BY <1>3, <1>4, <2>6, <3>2, <3>3, <3>5
    <3>8. v \in BucketRecs
      BY <3>2, <3>6, <3>7 DEF BucketRecs
    <3>9. v.tokens = t /\ v.lock = Nobody
      BY <3>2, <3>6 DEF BucketRecs
    <3> QED BY <1>2, <1>4, <1>6, <3>7, <3>8, <3>9
  <2>8. CASE ~ok
    <3>1. b = old
      BY <1>4, <2>8
    <3> HIDE DEF b
    <3>2. v = [old EXCEPT !.lock = Nobody]
      BY <1>1, <1>3, <1>4, <1>6, <2>8, <3>1 DEF BucketRecs
    <3>3. v \in BucketRecs /\ v.tokens = old.tokens /\ v.lock = Nobody
      BY <1>3, <1>4, <3>2 DEF BucketRecs
    <3> QED BY <1>2, <1>3, <1>4, <1>6, <2>8, <3>3
  <2> QED BY <2>7, <2>8
<1> QED BY <1>5, <1>6

\* A request has at most one generation of a key.
LEMMA OneGeneration ==
  ASSUME NEW r \in Callers, spec[r] \in Seq(SpecRecs), NEW n, SpecsUpTo(spec[r], n),
         NEW k, NEW g, NEW h, Owns(r, k, g), Owns(r, k, h)
  PROVE  g = h
<1>1. PICK i \in DOMAIN spec[r] : spec[r][i].key = k /\ spec[r][i].gen = g
  BY DEF Owns
<1>2. PICK j \in DOMAIN spec[r] : spec[r][j].key = k /\ spec[r][j].gen = h
  BY DEF Owns
<1>3. i \in Nat /\ j \in Nat
  OBVIOUS
<1>4. DimRank(k) \in Nat
  <2>1. PICK a \in DOMAIN Dimensions : spec[r][i].key = Dimensions[a]
    BY DEF SpecsUpTo
  <2> QED BY <1>1, <2>1, DimensionsAre
<1>5. ~(DimRank(k) < DimRank(k))
  BY <1>4
<1>6. ~(i < j) /\ ~(j < i)
  BY <1>1, <1>2, <1>5 DEF SpecsUpTo
<1> QED BY <1>1, <1>2, <1>3, <1>6

LEMMA OneMore == \A n, c \in Nat : (n + 1) * c = n * c + c
  OBVIOUS

LEMMA DecideKeeps ==
  ASSUME LimInv, NEW r \in Callers, Decide(r)
  PROVE  LimInv'
<1>1. /\ BucketTypes /\ CallerTypes /\ QueueTypes /\ WaitingQueued /\ CallerFits(r) /\ LocksHeld /\ TokensBalance
      /\ \A q \in Callers : CallerFits(q)
  BY LimTypes DEF LimInv
<1>2. PICK ok \in {Fit(r), FALSE} :
        /\ MoveTo(r, IF ok THEN "admitted" ELSE "refused")
        /\ bucket' = After(r, ok)
        /\ spec' = [spec EXCEPT ![r] = <<>>]
        /\ Draws(r, BucketKey("global", "tokens"), ok /\ \E s \in Specs(r) : s.key = BucketKey("global", "tokens"))
        /\ UNCHANGED <<rdb, conf, cur, bucketsMade, fills, queue, consumer, stopping, cancelled,
                       limAnswer, late, events>>
  BY DEF Decide
<1>3. lpc[r] \in {"decide", "script"}
  BY DEF Decide
<1>4. ok \in BOOLEAN /\ (ok => Fit(r))
  BY <1>2, Zenon DEF Fit
<1>5. spec[r] \in Seq(SpecRecs) /\ SpecsUpTo(spec[r], Len(Dimensions) + 1)
  BY <1>1, <1>3 DEF CallerTypes, CallerFits
<1>6. ASSUME NEW k \in LimitKeys, NEW g \in 1 .. MaxGen
      PROVE  /\ bucket'[k][g] \in BucketRecs /\ bucket'[k][g].tokens \in Nat
             /\ bucket'[k][g].tokens <= bucket[k][g].tokens
             /\ ~Owns(r, k, g) => bucket'[k][g] = bucket[k][g]
             /\ Owns(r, k, g) => bucket'[k][g].lock = Nobody
             /\ ok /\ Owns(r, k, g) => bucket'[k][g].tokens + Consumes(k) <= bucket[k][g].tokens
  <2>1. PICK v : v = After(r, ok)[k][g]
    OBVIOUS
  <2>2. bucket'[k][g] = v
    BY <1>2, <2>1
  <2>3. v \in BucketRecs /\ v.tokens \in Nat /\ v.tokens <= bucket[k][g].tokens
    BY <1>1, <1>4, <1>5, <2>1, AfterIs
  <2>4. ~Owns(r, k, g) => v = bucket[k][g]
    BY <1>1, <1>4, <1>5, <2>1, AfterIs
  <2>5. Owns(r, k, g) => v.lock = Nobody
    BY <1>1, <1>4, <1>5, <2>1, AfterIs
  <2>6. ok /\ Owns(r, k, g) => v.tokens + Consumes(k) <= bucket[k][g].tokens
    BY <1>1, <1>4, <1>5, <2>1, AfterIs
  <2> QED BY <2>2, <2>3, <2>4, <2>5, <2>6
<1>7. BucketTypes'
  <2>1. bucket' = [k \in LimitKeys |-> [g \in 1 .. MaxGen |-> bucket'[k][g]]]
    BY <1>2 DEF After
  <2>2. bucket' \in [LimitKeys -> [1 .. MaxGen -> BucketRecs]]
    BY <1>6, <2>1
  <2> QED BY <1>1, <1>2, <2>2 DEF BucketTypes
<1>8. PICK w : w = IF ok THEN "admitted" ELSE "refused"
  OBVIOUS
<1>9. MoveTo(r, w) /\ w \in LimPcs /\ w \in {"admitted", "refused"} /\ (ok <=> w = "admitted")
  BY <1>2, <1>4, <1>8 DEF LimPcs
<1>10. /\ lpc' \in [Callers -> LimPcs] /\ at' \in [Callers -> 1 .. 8]
       /\ lpc'[r] = w /\ at'[r] = 1
       /\ \A q \in Callers \ {r} : lpc'[q] = lpc[q] /\ at'[q] = at[q]
  BY <1>1, <1>9, MoveToIs
<1>11. /\ spec' \in [Callers -> Seq(SpecRecs)] /\ spec'[r] = <<>>
       /\ \A q \in Callers \ {r} : spec'[q] = spec[q]
  <2>1. <<>> \in Seq(SpecRecs)
    OBVIOUS
  <2> QED BY <1>1, <1>2, <2>1 DEF CallerTypes
<1>12. CallerTypes'
  BY <1>10, <1>11 DEF CallerTypes
<1>13. drawn' \in [Callers -> Nat]
  <2>1. drawn \in [Callers -> Nat] /\ TokenCost \in Nat
    BY <1>1, LimiterAssumption DEF QueueTypes, LimiterAssumption
  <2>2. PICK d \in Nat : drawn' = [drawn EXCEPT ![r] = d]
    <3>1. drawn[r] \in Nat /\ drawn[r] + TokenCost \in Nat
      BY <2>1
    <3> QED BY <1>2, <3>1 DEF Draws
  <2> QED BY <2>1, <2>2
<1>14. QueueTypes'
  BY <1>1, <1>2, <1>13 DEF QueueTypes
<1>15. LimiterTypeOK'
  BY <1>7, <1>12, <1>14, LimTypesNext
<1>16. \A q \in Callers \ {r} : Same(q)
  BY <1>10, <1>11 DEF Same
<1>17. \A q \in Callers : CallerFits(q)'
  <2>1. \A q \in Callers \ {r} : CallerFits(q)'
    BY <1>1, <1>2, <1>16, CallerStays
  <2>2. CallerFits(r)'
    BY <1>9, <1>10, <1>11, Arrives
  <2> QED BY <2>1, <2>2
<1>18. LocksHeld'
  <2> SUFFICES ASSUME NEW k \in LimitKeys, NEW g \in 1 .. MaxGen, bucket'[k][g].lock # Nobody
               PROVE  Holds(bucket[k][g].lock, k, g)'
    BY DEF LocksHeld
  <2>1. ~Owns(r, k, g) /\ bucket'[k][g] = bucket[k][g]
    BY <1>6
  <2>2. PICK p : p = bucket[k][g].lock
    OBVIOUS
  <2>3. bucket'[k][g].lock = p /\ p # Nobody
    BY <2>1, <2>2
  <2>4. p \in Callers /\ Holds(p, k, g)
    BY <1>1, <2>2, <2>3, BucketIs DEF LocksHeld
  <2>5. p # r
    BY <2>1, <2>4 DEF Holds, Owns
  <2>6. Same(p)
    BY <1>16, <2>4, <2>5
  <2>7. Holds(p, k, g)'
    BY <2>4, <2>6 DEF Holds, Same
  <2> QED BY <2>3, <2>7 DEF Holds
<1>19. ASSUME NEW k \in LimitKeys
       PROVE  \E g \in 1 .. MaxGen : /\ \A h \in 1 .. MaxGen : h # g => bucket'[k][h].tokens = bucket[k][h].tokens
                                     /\ (\E h \in 1 .. MaxGen : Owns(r, k, h)) => Owns(r, k, g)
  <2>1. CASE \E h \in 1 .. MaxGen : Owns(r, k, h)
    <3>1. PICK g \in 1 .. MaxGen : Owns(r, k, g)
      BY <2>1
    <3>2. \A h \in 1 .. MaxGen : h # g => ~Owns(r, k, h)
      BY <1>5, <3>1, OneGeneration
    <3>3. \A h \in 1 .. MaxGen : h # g => bucket'[k][h].tokens = bucket[k][h].tokens
      BY <1>6, <3>2
    <3> QED BY <3>1, <3>3
  <2>2. CASE ~\E h \in 1 .. MaxGen : Owns(r, k, h)
    <3>1. \A h \in 1 .. MaxGen : bucket'[k][h].tokens = bucket[k][h].tokens
      BY <1>6, <2>2
    <3>2. MaxGen \in 1 .. MaxGen
      BY LimConstants
    <3> QED BY <2>2, <3>1, <3>2
  <2> QED BY <2>1, <2>2
<1>20. ASSUME NEW k \in LimitKeys
       PROVE  /\ TokensOf(bucket[k], MaxGen) \in Nat /\ TokensOf(bucket'[k], MaxGen) \in Nat
              /\ TokensOf(bucket'[k], MaxGen) <= TokensOf(bucket[k], MaxGen)
              /\ ok /\ (\E h \in 1 .. MaxGen : Owns(r, k, h))
                    => TokensOf(bucket'[k], MaxGen) + Consumes(k) <= TokensOf(bucket[k], MaxGen)
  <2>1. PICK g \in 1 .. MaxGen : /\ \A h \in 1 .. MaxGen : h # g => bucket'[k][h].tokens = bucket[k][h].tokens
                                 /\ (\E h \in 1 .. MaxGen : Owns(r, k, h)) => Owns(r, k, g)
    BY <1>19
  <2>2. PICK b, c : b = bucket[k] /\ c = bucket'[k]
    OBVIOUS
  <2>3. \A i \in 1 .. MaxGen : b[i].tokens \in Nat /\ c[i].tokens \in Nat
    BY <1>1, <1>6, <2>2, BucketIs
  <2>4. \A i \in 1 .. MaxGen : i # g => c[i].tokens = b[i].tokens
    BY <2>1, <2>2
  <2>5. MaxGen \in Nat
    BY LimConstants
  <2>6. /\ TokensOf(b, MaxGen) \in Nat /\ TokensOf(c, MaxGen) \in Nat
        /\ TokensOf(c, MaxGen) + b[g].tokens = TokensOf(b, MaxGen) + c[g].tokens
    <3>1. OneMoves(b, c, MaxGen, g)
      BY <2>3, <2>4 DEF OneMoves
    <3> QED BY <2>5, <3>1, TokensOfMove
  <2>7. c[g].tokens <= b[g].tokens /\ b[g].tokens \in Nat /\ c[g].tokens \in Nat
    BY <1>6, <2>2, <2>3
  <2>8. ok /\ Owns(r, k, g) => c[g].tokens + Consumes(k) <= b[g].tokens
    BY <1>6, <2>2
  <2>9. Consumes(k) \in Nat
    BY LimConstants
  <2>10. TokensOf(c, MaxGen) <= TokensOf(b, MaxGen)
    BY <2>6, <2>7
  <2>11. ok /\ Owns(r, k, g) => TokensOf(c, MaxGen) + Consumes(k) <= TokensOf(b, MaxGen)
    BY <2>6, <2>7, <2>8, <2>9
  <2> QED BY <2>1, <2>2, <2>6, <2>10, <2>11
<1>21. TokensBalance'
  <2>1. CASE ~ok
    <3>1. Admitted' = Admitted
      BY <1>3, <1>9, <1>10, <2>1 DEF Admitted
    <3>2. FillsCover
      <4> SUFFICES ASSUME NEW k \in LimitKeys
                   PROVE  TokensOf(bucket'[k], MaxGen) + fills[k] <= TokensOf(bucket[k], MaxGen) + fills'[k]
        BY DEF FillsCover
      <4>1. fills'[k] = fills[k] /\ fills[k] \in Nat
        BY <1>1, <1>2 DEF BucketTypes
      <4> QED BY <1>20, <4>1
    <3> QED BY <1>1, <1>7, <3>1, <3>2, BalanceKeep
  <2>2. CASE ok
    <3> SUFFICES ASSUME NEW a \in DOMAIN Dimensions, \A c \in Confs : Limited(c, Dimensions[a])
                 PROVE  Cardinality(Admitted') * Consumes(Dimensions[a])
                          + TokensOf(bucket'[Dimensions[a]], MaxGen) <= fills'[Dimensions[a]]
      BY DEF TokensBalance, Admitted
    <3>1. PICK k : k = Dimensions[a]
      OBVIOUS
    <3>2. k \in LimitKeys
      BY <3>1, DimensionsAre
    <3>3. Cardinality(Admitted') = Cardinality(Admitted) + 1
      <4>1. Admitted' = Admitted \cup {r} /\ r \notin Admitted
        BY <1>3, <1>9, <1>10, <2>2 DEF Admitted
      <4>2. IsFiniteSet(Admitted)
        BY AdmittedFinite
      <4> QED BY <4>1, <4>2, FS_AddElement
    <3>4. \E h \in 1 .. MaxGen : Owns(r, k, h)
      <4>1. a \in 1 .. (Len(Dimensions) + 1) - 1
        BY DimensionsAre
      <4>2. PICK j \in DOMAIN spec[r] : spec[r][j].key = k
        BY <1>5, <3>1, <4>1 DEF SpecsUpTo
      <4>3. spec[r][j].gen \in 1 .. MaxGen
        <5>1. spec[r][j] \in SpecRecs
          BY <1>5, <4>2
        <5> QED BY <5>1 DEF SpecRecs
      <4> QED BY <4>2, <4>3 DEF Owns
    <3>5. /\ TokensOf(bucket[k], MaxGen) \in Nat /\ TokensOf(bucket'[k], MaxGen) \in Nat
          /\ TokensOf(bucket'[k], MaxGen) + Consumes(k) <= TokensOf(bucket[k], MaxGen)
      BY <1>20, <2>2, <3>2, <3>4
    <3>6. PICK n, c : n = Cardinality(Admitted) /\ c = Consumes(k)
      OBVIOUS
    <3>7. n \in Nat /\ c \in Nat
      BY <3>6, AdmittedFinite, LimConstants
    <3>8. n * c + TokensOf(bucket[k], MaxGen) <= fills[k]
      BY <1>1, <3>1, <3>6 DEF TokensBalance, Admitted
    <3>9. (n + 1) * c = n * c + c /\ n * c \in Nat
      BY <3>7, OneMore
    <3>10. fills[k] \in Nat /\ fills'[k] = fills[k]
      BY <1>1, <1>2, <3>2 DEF BucketTypes
    <3>11. PICK t, u, p : t = TokensOf(bucket[k], MaxGen) /\ u = TokensOf(bucket'[k], MaxGen) /\ p = n * c
      OBVIOUS
    <3>12. p \in Nat /\ t \in Nat /\ u \in Nat /\ u + c <= t /\ p + t <= fills[k]
      BY <3>5, <3>6, <3>8, <3>9, <3>11
    <3>13. (p + c) + u <= fills[k]
      BY <3>7, <3>10, <3>12
    <3>14. (n + 1) * c + u <= fills[k]
      BY <3>9, <3>11, <3>13
    <3> QED BY <3>1, <3>3, <3>6, <3>10, <3>11, <3>14
  <2> QED BY <1>4, <2>1, <2>2
<1>22. WaitingQueued'
  BY <1>1, <1>2, <1>9, <1>10 DEF WaitingQueued
<1> QED BY <1>15, <1>17, <1>18, <1>21, <1>22 DEF LimInv

LEMMA LimStarts == LimiterInit => LimInv
<1> SUFFICES ASSUME LimiterInit PROVE LimInv
  OBVIOUS
<1>1. /\ conf = FirstConf /\ cur = [k \in LimitKeys |-> IF k \in GlobalKeys THEN 1 ELSE 0] /\ bucketsMade = cur
      /\ bucket = [k \in LimitKeys |-> [g \in 1 .. MaxGen |->
                      IF k \in GlobalKeys /\ g = 1 THEN FullBucket(conf, k) ELSE NoBucket]]
      /\ fills = [k \in LimitKeys |-> IF k \in GlobalKeys THEN LimitOf(conf, k).burst ELSE 0]
  BY DEF LimiterInit
<1>2. /\ rdb \in BOOLEAN /\ queue = <<>> /\ consumer = [state |-> "select", req |-> Nobody] /\ stopping = FALSE
      /\ lpc = [r \in Callers |-> "start"] /\ at = [r \in Callers |-> 1] /\ spec = [r \in Callers |-> <<>>]
      /\ cancelled = [r \in Callers |-> FALSE] /\ limAnswer = [r \in Callers |-> "none"]
      /\ drawn = [r \in Callers |-> 0] /\ events = 0 /\ late = {}
  BY DEF LimiterInit
<1>3. conf \in Confs /\ MaxEvents \in Nat
  BY <1>1, LimiterAssumption DEF LimiterAssumption
<1>4. PICK none : none = NoBucket
  OBVIOUS
<1>5. none \in BucketRecs /\ none.tokens = 0 /\ none.lock = Nobody
  BY <1>4 DEF NoBucket, BucketRecs
<1>6. ASSUME NEW k \in LimitKeys
      PROVE  /\ FullBucket(conf, k) \in BucketRecs /\ FullBucket(conf, k).tokens = LimitOf(conf, k).burst
             /\ FullBucket(conf, k).lock = Nobody /\ LimitOf(conf, k).burst \in Nat
  BY <1>3, FullIs
<1>7. ASSUME NEW k \in LimitKeys, NEW g \in 1 .. MaxGen
      PROVE  bucket[k][g] = IF k \in GlobalKeys /\ g = 1 THEN FullBucket(conf, k) ELSE none
  BY <1>1, <1>4
<1>8. BucketTypes
  <2>1. cur \in [LimitKeys -> 0 .. MaxGen]
    <3>1. 0 \in 0 .. MaxGen /\ 1 \in 0 .. MaxGen
      BY LimConstants
    <3> QED BY <1>1, <3>1
  <2>2. bucket \in [LimitKeys -> [1 .. MaxGen -> BucketRecs]]
    <3>1. \A k \in LimitKeys, g \in 1 .. MaxGen : bucket[k][g] \in BucketRecs
      BY <1>5, <1>6, <1>7
    <3>2. bucket = [k \in LimitKeys |-> [g \in 1 .. MaxGen |-> bucket[k][g]]]
      BY <1>1
    <3> QED BY <3>1, <3>2
  <2>3. fills \in [LimitKeys -> Nat]
    BY <1>1, <1>6
  <2> QED BY <1>1, <2>1, <2>2, <2>3 DEF BucketTypes
<1>9. CallerTypes
  <2>1. <<>> \in Seq(SpecRecs) /\ 1 \in 1 .. 8
    OBVIOUS
  <2> QED BY <1>2, <2>1 DEF CallerTypes, LimPcs
<1>10. QueueTypes
  <2>1. events \in 0 .. MaxEvents
    BY <1>2, <1>3
  <2>2. queue \in Seq(Callers) /\ late \subseteq Callers
    BY <1>2
  <2>3. consumer \in [state : {"select", "tokens", "rpm", "user", "drain", "done"}, req : Callers \cup {Nobody}]
    BY <1>2
  <2>4. /\ cancelled \in [Callers -> BOOLEAN] /\ limAnswer \in [Callers -> {"none", "yes", "no"}]
        /\ drawn \in [Callers -> Nat]
    BY <1>2
  <2>5. rdb \in BOOLEAN /\ stopping \in BOOLEAN
    BY <1>2
  <2> QED BY <1>3, <2>1, <2>2, <2>3, <2>4, <2>5 DEF QueueTypes
<1>11. LimiterTypeOK
  BY <1>8, <1>9, <1>10, LimTypes
<1>12. \A r \in Callers : CallerFits(r)
  BY <1>2 DEF CallerFits
<1>13. LocksHeld
  <2>1. \A k \in LimitKeys, g \in 1 .. MaxGen : bucket[k][g].lock = Nobody
    BY <1>5, <1>6, <1>7
  <2> QED BY <2>1 DEF LocksHeld
<1>14. TokensBalance
  <2> SUFFICES ASSUME NEW a \in DOMAIN Dimensions
               PROVE  Cardinality(Admitted) * Consumes(Dimensions[a])
                        + TokensOf(bucket[Dimensions[a]], MaxGen) <= fills[Dimensions[a]]
    BY DEF TokensBalance, Admitted
  <2>1. PICK k : k = Dimensions[a]
    OBVIOUS
  <2>2. k \in LimitKeys /\ Consumes(k) \in Nat
    BY <2>1, DimensionsAre, LimConstants
  <2>3. Cardinality(Admitted) = 0
    <3>1. Admitted = {}
      BY <1>2 DEF Admitted
    <3> QED BY <3>1, FS_EmptySet
  <2>4. PICK b, z : b = bucket[k] /\ z = [g \in 1 .. MaxGen |-> none]
    OBVIOUS
  <2>5. MaxGen \in Nat /\ 1 \in 1 .. MaxGen
    BY LimConstants
  <2>6. TokensOf(z, MaxGen) = 0
    <3>1. PICK F : TokensOf(z, MaxGen) = F[MaxGen] /\ SumsUp(F, z, MaxGen)
      BY <2>5, TokensOfSteps
    <3> DEFINE T == {i \in Nat : i <= MaxGen => F[i] = 0}
    <3>2. 0 \in T
      BY <3>1 DEF SumsUp
    <3>3. ASSUME NEW i \in Nat, i \in T PROVE i + 1 \in T
      <4> SUFFICES ASSUME i + 1 <= MaxGen PROVE F[i + 1] = 0
        OBVIOUS
      <4>1. i + 1 \in 1 .. MaxGen /\ (i + 1) - 1 = i /\ F[i] = 0
        BY <2>5, <3>3
      <4>2. z[i + 1].tokens = 0
        BY <1>5, <2>4, <4>1
      <4> QED BY <3>1, <4>1, <4>2 DEF SumsUp
    <3> HIDE DEF T
    <3>4. MaxGen \in T
      BY <2>5, <3>2, <3>3, Numbers
    <3> QED BY <2>5, <3>1, <3>4 DEF T
  <2>7. \A i \in 1 .. MaxGen : z[i].tokens = 0 /\ b[i].tokens \in Nat
    BY <1>5, <1>8, <2>2, <2>4, BucketIs
  <2>8. \A i \in 1 .. MaxGen : i # 1 => b[i].tokens = z[i].tokens
    BY <1>5, <1>7, <2>2, <2>4, <2>7
  <2>9. TokensOf(b, MaxGen) \in Nat /\ TokensOf(b, MaxGen) = b[1].tokens
    <3>1. \A i \in 1 .. MaxGen : z[i].tokens \in Nat /\ b[i].tokens \in Nat
      BY <2>7
    <3>2. /\ TokensOf(z, MaxGen) \in Nat /\ TokensOf(b, MaxGen) \in Nat
          /\ TokensOf(b, MaxGen) + z[1].tokens = TokensOf(z, MaxGen) + b[1].tokens
      <4>1. OneMoves(z, b, MaxGen, 1)
        BY <2>8, <3>1 DEF OneMoves
      <4>2. 1 \in 1 .. MaxGen
        BY <2>5
      <4> QED BY <2>5, <4>1, <4>2, TokensOfMove
    <3>3. z[1].tokens = 0 /\ b[1].tokens \in Nat
      BY <2>5, <2>7
    <3> QED BY <2>6, <3>2, <3>3
  <2>10. b[1].tokens = fills[k]
    <3>1. b[1] = IF k \in GlobalKeys THEN FullBucket(conf, k) ELSE none
      BY <1>7, <2>2, <2>4, <2>5
    <3>2. fills[k] = IF k \in GlobalKeys THEN LimitOf(conf, k).burst ELSE 0
      BY <1>1, <2>2
    <3>3. CASE k \in GlobalKeys
      BY <1>6, <2>2, <3>1, <3>2, <3>3
    <3>4. CASE k \notin GlobalKeys
      BY <1>5, <3>1, <3>2, <3>4
    <3> QED BY <3>3, <3>4
  <2>11. 0 * Consumes(k) = 0
    BY <2>2
  <2>12. fills[k] \in Nat
    BY <1>8, <2>2 DEF BucketTypes
  <2> QED BY <2>1, <2>3, <2>4, <2>9, <2>10, <2>11, <2>12
<1>15. WaitingQueued
  BY <1>2, LimiterAssumption DEF WaitingQueued, LimiterAssumption
<1> QED BY <1>11, <1>12, <1>13, <1>14, <1>15 DEF LimInv

LEMMA LimKeeps == LimInv /\ [LimiterNext]_limiterVars => LimInv'
<1> SUFFICES ASSUME LimInv, [LimiterNext]_limiterVars PROVE LimInv'
  OBVIOUS
<1>1. CASE UNCHANGED limiterVars
  <2>1. BucketTypes /\ QueueTypes /\ WaitingQueued
    BY LimTypes DEF LimInv
  <2>2. /\ UNCHANGED <<rdb, conf, queue, consumer, stopping, cancelled, limAnswer, drawn, late, events>>
        /\ UNCHANGED <<lpc, at, spec>> /\ UNCHANGED buckets
    BY <1>1 DEF limiterVars, buckets
  <2>3. QueueTypes'
    BY <2>1, <2>2 DEF QueueTypes
  <2>4. WaitingQueued'
    BY <2>1, <2>2 DEF WaitingQueued
  <2> QED BY <2>1, <2>2, <2>3, <2>4, BucketsStay, LimStays
<1>2. CASE Consumer
  BY <1>2, TakeRequestKeeps, CheckStepKeeps, StopsKeep, DrainQueueKeeps DEF Consumer
<1>3. CASE \E r \in Callers : Caller(r) \/ AllowCancelled(r) \/ ContextDone(r)
                                \/ CheckCancelled(r) \/ ScriptFails(r)
  <2>1. PICK r \in Callers : Caller(r) \/ AllowCancelled(r) \/ ContextDone(r)
                                \/ CheckCancelled(r) \/ ScriptFails(r)
    BY <1>3
  <2>2. CASE Caller(r)
    BY <2>2, AllowKeeps, AllowReturnsKeeps, LegacyCheckKeeps, buildLimitSpecsKeeps, LockBucketKeeps, DecideKeeps
       DEF Caller
  <2> QED BY <2>1, <2>2, CancelsKeep, ScriptFailsKeeps
<1>4. CASE LimiterTick \/ IdleExpires \/ Reload
  BY <1>4, AdministrationKeeps
<1>5. CASE Stop
  BY <1>5, StopsKeep
<1> QED BY <1>1, <1>2, <1>3, <1>4, <1>5 DEF LimiterNext

\* Of the requests that lock, one that has come to a bucket of the highest rank can go on: whoever had
\* that bucket would wait for one of a higher rank.
LEMMA LockOrder == LimInv => SomeoneProceeds
<1> SUFFICES ASSUME LimInv, NEW r0 \in Callers, lpc[r0] = "lock",
                    ~\E r \in Callers : \/ lpc[r] = "decide"
                                        \/ /\ lpc[r] = "lock"
                                           /\ LET s == spec[r][LockTarget(r)] IN bucket[s.key][s.gen].lock = Nobody
             PROVE  FALSE
  BY DEF SomeoneProceeds
<1>1. BucketTypes /\ CallerTypes /\ LocksHeld /\ \A q \in Callers : CallerFits(q)
  BY LimTypes DEF LimInv
<1> DEFINE Rank(r) == DimRank(spec[r][at[r]].key)
           T == {n \in Nat : \E r \in Callers : lpc[r] = "lock" /\ n = 8 - Rank(r)}
<1>2. ASSUME NEW r \in Callers, lpc[r] = "lock"
      PROVE  /\ at[r] \in DOMAIN spec[r] /\ spec[r] \in Seq(SpecRecs) /\ spec[r][at[r]] \in SpecRecs
             /\ SpecsUpTo(spec[r], Len(Dimensions) + 1)
             /\ Rank(r) \in 1 .. 8
  <2>1. spec[r] \in Seq(SpecRecs) /\ at[r] \in 1 .. 8 /\ at[r] <= Len(spec[r]) /\ SpecsUpTo(spec[r], Len(Dimensions) + 1)
    BY <1>1, <1>2 DEF CallerTypes, CallerFits
  <2>2. at[r] \in DOMAIN spec[r]
    BY <2>1
  <2>3. PICK a \in DOMAIN Dimensions : spec[r][at[r]].key = Dimensions[a]
    BY <2>1, <2>2 DEF SpecsUpTo
  <2>4. Rank(r) \in 1 .. 8
    BY <2>3, DimensionsAre
  <2>5. spec[r][at[r]] \in SpecRecs
    BY <2>1, <2>2
  <2> QED BY <2>1, <2>2, <2>4, <2>5
<1> HIDE DEF Rank
<1>3. \A r \in Callers : lpc[r] = "lock" => 8 - Rank(r) \in T
  <2> SUFFICES ASSUME NEW r \in Callers, lpc[r] = "lock" PROVE 8 - Rank(r) \in T
    OBVIOUS
  <2>1. 8 - Rank(r) \in Nat
    BY <1>2
  <2> QED BY <2>1
<1>4. T \subseteq Nat /\ T # {}
  BY <1>3
<1>5. \E n \in T : \A m \in T : n <= m
  <2> HIDE DEF T
  <2> QED BY <1>4, LeastNumber
<1>6. PICK n \in T : \A m \in T : n <= m
  BY <1>5
<1>7. PICK r \in Callers : lpc[r] = "lock" /\ n = 8 - Rank(r)
  BY <1>6
<1> HIDE DEF T
<1>8. PICK s : s = spec[r][at[r]]
  OBVIOUS
<1>9. s.key \in LimitKeys /\ s.gen \in 1 .. MaxGen
  BY <1>2, <1>7, <1>8 DEF SpecRecs
<1>10. PICK q : q = bucket[s.key][s.gen].lock
  OBVIOUS
<1>11. q # Nobody
  BY <1>7, <1>8, <1>10 DEF LockTarget
<1>12. q \in Callers /\ Holds(q, s.key, s.gen)
  BY <1>1, <1>9, <1>10, <1>11, BucketIs DEF LocksHeld
<1>13. lpc[q] = "lock" /\ \E i \in DOMAIN spec[q] : i < at[q] /\ spec[q][i].key = s.key /\ spec[q][i].gen = s.gen
  BY <1>12 DEF Holds
<1>14. PICK i \in DOMAIN spec[q] : i < at[q] /\ spec[q][i].key = s.key
  BY <1>13
<1>15. at[q] \in DOMAIN spec[q] /\ SpecsUpTo(spec[q], Len(Dimensions) + 1) /\ Rank(q) \in 1 .. 8
  BY <1>2, <1>12, <1>13
<1>16. DimRank(spec[q][i].key) < DimRank(spec[q][at[q]].key)
  BY <1>14, <1>15 DEF SpecsUpTo
<1>17. Rank(r) < Rank(q)
  BY <1>8, <1>14, <1>16 DEF Rank
<1>18. n <= 8 - Rank(q)
  BY <1>3, <1>6, <1>12, <1>13
<1>19. Rank(r) \in 1 .. 8
  BY <1>2, <1>7
<1> QED BY <1>7, <1>15, <1>17, <1>18, <1>19

\* RateLimiter: however the requests, the consumer of the queue, refills, expiry, failing scripts, Reload and
\* Stop interleave, and whatever limits the configurations set, whoever Check admits has paid in every
\* dimension that all of them limit, whoever was queued when the limiter stopped has an answer, and localCheck
\* never makes all requests wait for each other.
THEOREM LimiterCorrect == LimiterSpec => []LimiterSound
<1>1. LimInv => LimiterSound
  <2> SUFFICES ASSUME LimInv PROVE LimiterSound
    OBVIOUS
  <2>1. LimiterTypeOK /\ TokensBalance /\ WaitingQueued /\ BucketTypes
    BY LimTypes DEF LimInv
  <2>2. AdmittedWasPaid
    <3> SUFFICES ASSUME NEW a \in 1 .. Len(Dimensions), \A c \in Confs : Limited(c, Dimensions[a])
                 PROVE  Cardinality(Admitted) * Consumes(Dimensions[a]) <= fills[Dimensions[a]]
      BY DEF AdmittedWasPaid, Admitted
    <3>1. a \in DOMAIN Dimensions
      BY DimensionsAre
    <3>2. PICK k : k = Dimensions[a]
      OBVIOUS
    <3>3. k \in LimitKeys
      BY <3>1, <3>2, DimensionsAre
    <3>4. PICK p : p = Cardinality(Admitted) * Consumes(k)
      OBVIOUS
    <3>5. p \in Nat
      <4>1. Cardinality(Admitted) \in Nat /\ Consumes(k) \in Nat
        BY AdmittedFinite, LimConstants
      <4> QED BY <3>4, <4>1
    <3>6. p + TokensOf(bucket[k], MaxGen) <= fills[k]
      BY <2>1, <3>1, <3>2, <3>4 DEF TokensBalance, Admitted
    <3>7. TokensOf(bucket[k], MaxGen) \in Nat /\ fills[k] \in Nat
      BY <2>1, <3>3, KeySum DEF BucketTypes
    <3>8. p <= fills[k]
      BY <3>5, <3>6, <3>7
    <3> QED BY <3>2, <3>4, <3>8
  <2>3. StopAnswersQueued
    BY <2>1, LimiterAssumption DEF StopAnswersQueued, WaitingQueued, LimiterAssumption
  <2> QED BY <2>1, <2>2, <2>3, LockOrder DEF LimiterSound
<1> QED BY <1>1, LimStarts, LimKeeps, PTL DEF LimiterSpec

-----------------------------------------------------------------------------
(* Texts put together.                                                     *)

\* F is what the loop over the parts p has put together after each of them.
JoinSteps(F, p) ==
    /\ F[0] = <<>>
    /\ \A i \in 1 .. Len(p) : F[i] = F[i - 1] \o p[i]

\* The loop has such a history, and the text is its last entry.
LEMMA JoinedSteps ==
  ASSUME NEW X, NEW p \in Seq(Seq(X))
  PROVE  \E F : Concatenation(p) = F[Len(p)] /\ JoinSteps(F, p)
<1> DEFINE Step(F, i) == IF i = 0 THEN <<>> ELSE F[i - 1] \o p[i]
           Rec(F, n) == F = [i \in 0 .. n |-> Step(F, i)]
           T == {n \in Nat : n <= Len(p) => \E F : Rec(F, n)}
<1>0. Len(p) \in Nat
  OBVIOUS
<1>1. \E F : Rec(F, Len(p))
  <2>1. 0 \in T
    <3> DEFINE F0 == [i \in 0 .. 0 |-> <<>>]
    <3>1. Rec(F0, 0)
      OBVIOUS
    <3> QED BY <3>1
  <2>2. ASSUME NEW n \in Nat, n \in T PROVE n + 1 \in T
    <3> SUFFICES ASSUME n + 1 <= Len(p) PROVE \E F : Rec(F, n + 1)
      <4> HIDE DEF Rec
      <4> QED OBVIOUS
    <3>1. n <= Len(p)
      BY <1>0
    <3>2. PICK F : Rec(F, n)
      BY <2>2, <3>1
    <3> DEFINE G == [i \in 0 .. n + 1 |-> IF i <= n THEN F[i] ELSE Step(F, i)]
    <3>3. \A i \in 0 .. n : G[i] = F[i]
      OBVIOUS
    <3>4. \A i \in 0 .. n + 1 : Step(G, i) = Step(F, i)
      BY <3>3
    <3>5. \A i \in 0 .. n : F[i] = Step(F, i)
      BY <3>2
    <3>6. Rec(G, n + 1)
      <4>1. \A i \in 0 .. n + 1 : i <= n => i \in 0 .. n
        OBVIOUS
      <4> HIDE DEF Step
      <4>2. ASSUME NEW i \in 0 .. n + 1 PROVE G[i] = Step(G, i)
        <5>1. CASE i <= n
          BY <5>1, <4>1, <3>4, <3>5
        <5>2. CASE ~(i <= n)
          BY <5>2, <3>4
        <5> QED BY <5>1, <5>2
      <4>3. G = [i \in 0 .. n + 1 |-> G[i]]
        OBVIOUS
      <4> HIDE DEF G
      <4> QED BY <4>2, <4>3
    <3> QED BY <3>6
  <2> HIDE DEF T
  <2>3. Nat \subseteq T
    BY <2>1, <2>2, Numbers
  <2>4. Len(p) \in T
    BY <2>3, <1>0
  <2>5. Len(p) <= Len(p) => \E F : Rec(F, Len(p))
    <3> HIDE DEF Rec
    <3> QED BY <2>4 DEF T
  <2>6. Len(p) <= Len(p)
    BY <1>0
  <2> QED BY <2>5, <2>6
<1>2. PICK F : F = CHOOSE u : Rec(u, Len(p))
  OBVIOUS
<1>3. Rec(F, Len(p))
  BY <1>1, <1>2
<1>4. Concatenation(p) = F[Len(p)]
  BY <1>2 DEF Concatenation
<1>5. \A i \in 0 .. Len(p) : F[i] = Step(F, i)
  BY <1>3
<1>6. F[0] = <<>>
  <2>1. 0 \in 0 .. Len(p)
    BY <1>0
  <2> QED BY <2>1, <1>5
<1>7. ASSUME NEW i \in 1 .. Len(p) PROVE F[i] = F[i - 1] \o p[i]
  <2>1. i \in 0 .. Len(p) /\ i # 0
    BY <1>0
  <2>2. F[i] = Step(F, i)
    <3> HIDE DEF Step
    <3> QED BY <2>1, <1>5
  <2> QED BY <2>1, <2>2
<1> QED BY <1>4, <1>6, <1>7 DEF JoinSteps

\* Every entry of such a history is a text.
LEMMA JoinTyped ==
  ASSUME NEW X, NEW p \in Seq(Seq(X)), NEW F, JoinSteps(F, p)
  PROVE  \A i \in 0 .. Len(p) : F[i] \in Seq(X)
<1> DEFINE T == {n \in Nat : n <= Len(p) => F[n] \in Seq(X)}
<1>0. Len(p) \in Nat
  OBVIOUS
<1>1. 0 \in T
  <2>1. F[0] = <<>>
    BY DEF JoinSteps
  <2>2. <<>> \in Seq(X)
    OBVIOUS
  <2>3. F[0] \in Seq(X)
    BY <2>1, <2>2
  <2> QED BY <2>3
<1>2. ASSUME NEW n \in Nat, n \in T PROVE n + 1 \in T
  <2> SUFFICES ASSUME n + 1 <= Len(p) PROVE F[n + 1] \in Seq(X)
    OBVIOUS
  <2>1. F[n] \in Seq(X) /\ n + 1 \in 1 .. Len(p) /\ (n + 1) - 1 = n
    BY <1>0, <1>2
  <2>2. F[n + 1] = F[n] \o p[n + 1]
    BY <2>1 DEF JoinSteps
  <2>3. p[n + 1] \in Seq(X)
    BY <2>1
  <2> QED BY <2>1, <2>2, <2>3
<1> HIDE DEF T
<1>3. Nat \subseteq T
  BY <1>1, <1>2, Numbers
<1>4. ASSUME NEW i \in 0 .. Len(p) PROVE F[i] \in Seq(X)
  <2>1. i \in Nat /\ i <= Len(p)
    BY <1>0
  <2>2. i \in T
    BY <2>1, <1>3
  <2> QED BY <2>1, <2>2 DEF T
<1> QED BY <1>4

\* There is one such history.
LEMMA JoinUnique ==
  ASSUME NEW X, NEW p \in Seq(Seq(X)), NEW F, JoinSteps(F, p)
  PROVE  Concatenation(p) = F[Len(p)]
<1>0. Len(p) \in Nat
  OBVIOUS
<1>1. PICK G : Concatenation(p) = G[Len(p)] /\ JoinSteps(G, p)
  BY JoinedSteps
<1> DEFINE T == {n \in Nat : n <= Len(p) => F[n] = G[n]}
<1>2. 0 \in T
  BY <1>1 DEF JoinSteps
<1>3. ASSUME NEW n \in Nat, n \in T PROVE n + 1 \in T
  <2> SUFFICES ASSUME n + 1 <= Len(p) PROVE F[n + 1] = G[n + 1]
    OBVIOUS
  <2>1. F[n] = G[n] /\ n + 1 \in 1 .. Len(p) /\ (n + 1) - 1 = n
    BY <1>0, <1>3
  <2>2. F[n + 1] = F[n] \o p[n + 1]
    BY <2>1 DEF JoinSteps
  <2>3. G[n + 1] = G[n] \o p[n + 1]
    BY <2>1, <1>1 DEF JoinSteps
  <2> QED BY <2>1, <2>2, <2>3
<1> HIDE DEF T
<1>4. Nat \subseteq T
  BY <1>2, <1>3, Numbers
<1>5. Len(p) \in T /\ Len(p) <= Len(p)
  BY <1>4, <1>0
<1>6. F[Len(p)] = G[Len(p)]
  BY <1>5 DEF T
<1> QED BY <1>1, <1>6

\* What is put together of texts is a text.
LEMMA JoinedText ==
  ASSUME NEW X, NEW p \in Seq(Seq(X))
  PROVE  Concatenation(p) \in Seq(X)
<1>1. PICK F : Concatenation(p) = F[Len(p)] /\ JoinSteps(F, p)
  BY JoinedSteps
<1>2. Len(p) \in 0 .. Len(p)
  OBVIOUS
<1> QED BY <1>1, <1>2, JoinTyped

\* Nothing put together is the empty text.
LEMMA JoinedNone ==
  Concatenation(<<>>) = <<>>
<1>1. <<>> \in Seq(Seq({}))
  OBVIOUS
<1>2. PICK F : Concatenation(<<>>) = F[Len(<<>>)] /\ JoinSteps(F, <<>>)
  BY <1>1, JoinedSteps
<1>3. Len(<<>>) = 0
  OBVIOUS
<1> QED BY <1>2, <1>3 DEF JoinSteps

\* A last part is put at the end.
LEMMA JoinedAppend ==
  ASSUME NEW X, NEW p \in Seq(Seq(X)), NEW t \in Seq(X)
  PROVE  Concatenation(Append(p, t)) = Concatenation(p) \o t
<1>0. PICK n \in Nat : n = Len(p)
  OBVIOUS
<1>1. PICK q : q = Append(p, t)
  OBVIOUS
<1>2. q \in Seq(Seq(X)) /\ Len(q) = n + 1 /\ q[n + 1] = t
  BY <1>0, <1>1
<1>3. \A i \in 1 .. n : q[i] = p[i]
  BY <1>0, <1>1
<1>4. PICK F : Concatenation(q) = F[Len(q)] /\ JoinSteps(F, q)
  BY <1>2, JoinedSteps
<1>5. JoinSteps(F, p)
  <2>1. F[0] = <<>>
    BY <1>4 DEF JoinSteps
  <2>2. ASSUME NEW i \in 1 .. Len(p) PROVE F[i] = F[i - 1] \o p[i]
    <3>1. i \in 1 .. n /\ i \in 1 .. Len(q)
      BY <1>0, <1>2
    <3>2. F[i] = F[i - 1] \o q[i]
      BY <3>1, <1>4 DEF JoinSteps
    <3> QED BY <3>1, <3>2, <1>3
  <2> QED BY <2>1, <2>2 DEF JoinSteps
<1>6. Concatenation(p) = F[n]
  BY <1>0, <1>5, JoinUnique
<1>7. F[n + 1] = F[n] \o t
  <2>1. n + 1 \in 1 .. Len(q) /\ (n + 1) - 1 = n
    BY <1>2
  <2>2. F[n + 1] = F[(n + 1) - 1] \o q[n + 1]
    BY <2>1, <1>4 DEF JoinSteps
  <2> QED BY <2>1, <2>2, <1>2
<1> QED BY <1>1, <1>2, <1>4, <1>6, <1>7

\* The letters of texts.
Letters == {"R"} \cup UNION {Members(d) : d \in Deltas}

LEMMA RIsLetter ==
  "R" \in Letters
BY DEF Letters

LEMMA DeltasAreTexts ==
  \A d \in Deltas : d \in Seq(Letters)
<1> SUFFICES ASSUME NEW d \in Deltas PROVE d \in Seq(Letters)
  OBVIOUS
<1>1. d \in Seq(Members(d))
  BY PolicyAssumption
<1>2. Members(d) \subseteq Letters
  BY DEF Letters
<1> QED BY <1>1, <1>2

\* A text in which a term is replaced is a text.
LEMMA ReplaceTyped ==
  ASSUME NEW d \in Seq(Letters), NEW w
  PROVE  replaceAll(d, w) \in Seq(Letters)
<1> DEFINE starts == Replaced(d, w)
           Put(i) == IF i \in starts THEN <<"R", "R">>
                      ELSE IF \E j \in starts : j < i /\ i < j + Len(w) THEN <<>> ELSE <<d[i]>>
           p == [i \in DOMAIN d |-> Put(i)]
<1>1. ASSUME NEW i \in 1 .. Len(d) PROVE Put(i) \in Seq(Letters)
  <2>1. <<"R", "R">> \in Seq(Letters) /\ <<d[i]>> \in Seq(Letters) /\ <<>> \in Seq(Letters)
    BY RIsLetter
  <2> HIDE DEF starts
  <2> QED BY <2>1
<1>2. replaceAll(d, w) = IF w = Blank THEN d ELSE Concatenation(p)
  BY DEF replaceAll
<1> HIDE DEF Put
<1>3. p \in Seq(Seq(Letters))
  <2>1. p = [i \in 1 .. Len(d) |-> Put(i)] /\ Len(d) \in Nat
    OBVIOUS
  <2> QED BY <2>1, <1>1
<1> HIDE DEF p
<1> QED BY <1>2, <1>3, JoinedText

\* F is what the loop over the terms has made of the text d after each of them.
RedactSteps(F, d, terms) ==
    /\ F[0] = d
    /\ \A i \in 1 .. Len(terms) : F[i] = replaceAll(F[i - 1], terms[i])

LEMMA RedactedSteps ==
  ASSUME NEW d \in Seq(Letters), NEW W, NEW terms \in Seq(W)
  PROVE  \E F : redactText(d, terms) = F[Len(terms)] /\ RedactSteps(F, d, terms)
<1> DEFINE Step(F, i) == IF i = 0 THEN d ELSE replaceAll(F[i - 1], terms[i])
           Rec(F, n) == F = [i \in 0 .. n |-> Step(F, i)]
           T == {n \in Nat : n <= Len(terms) => \E F : Rec(F, n)}
<1>0. Len(terms) \in Nat
  OBVIOUS
<1>1. \E F : Rec(F, Len(terms))
  <2>1. 0 \in T
    <3> DEFINE F0 == [i \in 0 .. 0 |-> d]
    <3>1. Rec(F0, 0)
      OBVIOUS
    <3> QED BY <3>1
  <2>2. ASSUME NEW n \in Nat, n \in T PROVE n + 1 \in T
    <3> SUFFICES ASSUME n + 1 <= Len(terms) PROVE \E F : Rec(F, n + 1)
      <4> HIDE DEF Rec
      <4> QED OBVIOUS
    <3>1. n <= Len(terms)
      BY <1>0
    <3>2. PICK F : Rec(F, n)
      BY <2>2, <3>1
    <3> DEFINE G == [i \in 0 .. n + 1 |-> IF i <= n THEN F[i] ELSE Step(F, i)]
    <3>3. \A i \in 0 .. n : G[i] = F[i]
      OBVIOUS
    <3>4. \A i \in 0 .. n + 1 : Step(G, i) = Step(F, i)
      BY <3>3
    <3>5. \A i \in 0 .. n : F[i] = Step(F, i)
      BY <3>2
    <3>6. Rec(G, n + 1)
      <4>1. \A i \in 0 .. n + 1 : i <= n => i \in 0 .. n
        OBVIOUS
      <4> HIDE DEF Step
      <4>2. ASSUME NEW i \in 0 .. n + 1 PROVE G[i] = Step(G, i)
        <5>1. CASE i <= n
          BY <5>1, <4>1, <3>4, <3>5
        <5>2. CASE ~(i <= n)
          BY <5>2, <3>4
        <5> QED BY <5>1, <5>2
      <4>3. G = [i \in 0 .. n + 1 |-> G[i]]
        OBVIOUS
      <4> HIDE DEF G
      <4> QED BY <4>2, <4>3
    <3> QED BY <3>6
  <2> HIDE DEF T
  <2>3. Nat \subseteq T
    BY <2>1, <2>2, Numbers
  <2>4. Len(terms) \in T
    BY <2>3, <1>0
  <2>5. Len(terms) <= Len(terms) => \E F : Rec(F, Len(terms))
    <3> HIDE DEF Rec
    <3> QED BY <2>4 DEF T
  <2>6. Len(terms) <= Len(terms)
    BY <1>0
  <2> QED BY <2>5, <2>6
<1>2. PICK F : F = CHOOSE u : Rec(u, Len(terms))
  OBVIOUS
<1>3. Rec(F, Len(terms))
  BY <1>1, <1>2
<1>4. redactText(d, terms) = F[Len(terms)]
  BY <1>2 DEF redactText
<1>5. \A i \in 0 .. Len(terms) : F[i] = Step(F, i)
  BY <1>3
<1>6. F[0] = d
  <2>1. 0 \in 0 .. Len(terms)
    BY <1>0
  <2> QED BY <2>1, <1>5
<1>7. ASSUME NEW i \in 1 .. Len(terms) PROVE F[i] = replaceAll(F[i - 1], terms[i])
  <2>1. i \in 0 .. Len(terms) /\ i # 0
    BY <1>0
  <2>2. F[i] = Step(F, i)
    <3> HIDE DEF Step
    <3> QED BY <2>1, <1>5
  <2> QED BY <2>1, <2>2
<1> QED BY <1>4, <1>6, <1>7 DEF RedactSteps

\* A text in which terms are hidden is a text, whatever the terms are and share.
LEMMA RedactTyped ==
  ASSUME NEW d \in Seq(Letters), NEW W, NEW terms \in Seq(W)
  PROVE  redactText(d, terms) \in Seq(Letters)
<1>0. Len(terms) \in Nat
  OBVIOUS
<1>1. PICK F : redactText(d, terms) = F[Len(terms)] /\ RedactSteps(F, d, terms)
  BY RedactedSteps
<1> DEFINE T == {n \in Nat : n <= Len(terms) => F[n] \in Seq(Letters)}
<1>2. 0 \in T
  BY <1>1 DEF RedactSteps
<1>3. ASSUME NEW n \in Nat, n \in T PROVE n + 1 \in T
  <2> SUFFICES ASSUME n + 1 <= Len(terms) PROVE F[n + 1] \in Seq(Letters)
    OBVIOUS
  <2>1. F[n] \in Seq(Letters) /\ n + 1 \in 1 .. Len(terms) /\ (n + 1) - 1 = n
    BY <1>0, <1>3
  <2>2. F[n + 1] = replaceAll(F[n], terms[n + 1])
    BY <2>1, <1>1 DEF RedactSteps
  <2> QED BY <2>1, <2>2, ReplaceTyped
<1> HIDE DEF T
<1>4. Nat \subseteq T
  BY <1>2, <1>3, Numbers
<1>5. Len(terms) \in T /\ Len(terms) <= Len(terms)
  BY <1>4, <1>0
<1> QED BY <1>1, <1>5 DEF T

\* The text of events: a completion adds nothing, anything else its text.
StreamEvents == [type : {"delta", "completed"}, text : Seq(Letters)]

LEMMA TextOfNone ==
  TextOf(<<>>) = <<>>
<1>1. [i \in DOMAIN <<>> |-> IF (<<>>)[i].type = "completed" THEN <<>> ELSE (<<>>)[i].text] = <<>>
  OBVIOUS
<1> QED BY <1>1, JoinedNone DEF TextOf

LEMMA TextOfAppend ==
  ASSUME NEW f \in Seq(StreamEvents), NEW e \in StreamEvents
  PROVE  /\ TextOf(f) \in Seq(Letters)
         /\ TextOf(Append(f, e)) = TextOf(f) \o (IF e.type = "completed" THEN <<>> ELSE e.text)
<1> DEFINE Seen(x) == IF x.type = "completed" THEN <<>> ELSE x.text
           Pieces(t) == [i \in DOMAIN t |-> Seen(t[i])]
<1>1. ASSUME NEW x \in StreamEvents PROVE Seen(x) \in Seq(Letters)
  <2>1. <<>> \in Seq(Letters) /\ x.text \in Seq(Letters)
    BY DEF StreamEvents
  <2> QED BY <2>1
<1>2. \A t : TextOf(t) = Concatenation(Pieces(t))
  BY DEF TextOf
<1>3. Seen(e) = IF e.type = "completed" THEN <<>> ELSE e.text
  OBVIOUS
<1> HIDE DEF Seen
<1>4. PICK n \in Nat : n = Len(f)
  OBVIOUS
<1>5. PICK g : g = Append(f, e)
  OBVIOUS
<1>6. g \in Seq(StreamEvents) /\ Len(g) = n + 1 /\ g[n + 1] = e /\ \A i \in 1 .. n : g[i] = f[i]
  BY <1>4, <1>5
<1>7. PICK a, b : a = Pieces(f) /\ b = Pieces(g)
  OBVIOUS
<1>8. a \in Seq(Seq(Letters)) /\ Len(a) = n
  <2>1. \A i \in 1 .. Len(f) : Seen(f[i]) \in Seq(Letters)
    BY <1>1
  <2> QED BY <2>1, <1>4, <1>7
<1>9. b \in Seq(Seq(Letters)) /\ Len(b) = n + 1
  <2>1. \A i \in 1 .. Len(g) : Seen(g[i]) \in Seq(Letters)
    BY <1>1, <1>6
  <2> QED BY <2>1, <1>6, <1>7
<1>10. (\A i \in 1 .. n : a[i] = Seen(f[i])) /\ (\A i \in 1 .. n + 1 : b[i] = Seen(g[i]))
  BY <1>4, <1>6, <1>7
<1>11. Seen(e) \in Seq(Letters)
  BY <1>1
<1>12. PICK c : c = Append(a, Seen(e))
  OBVIOUS
<1>13. c \in Seq(Seq(Letters)) /\ Len(c) = n + 1 /\ c[n + 1] = Seen(e) /\ \A i \in 1 .. n : c[i] = a[i]
  BY <1>8, <1>11, <1>12
<1>14. ASSUME NEW i \in 1 .. n + 1 PROVE b[i] = c[i]
  <2>1. i \in 1 .. n \/ i = n + 1
    OBVIOUS
  <2> QED BY <2>1, <1>6, <1>10, <1>13
<1>15. b = c
  <2>1. b = [i \in 1 .. n + 1 |-> b[i]] /\ c = [i \in 1 .. n + 1 |-> c[i]]
    BY <1>9, <1>13
  <2> QED BY <2>1, <1>14
<1> HIDE DEF Pieces
<1>16. Concatenation(c) = Concatenation(a) \o Seen(e)
  BY <1>8, <1>11, <1>12, JoinedAppend
<1>17. TextOf(f) = Concatenation(a) /\ TextOf(g) = Concatenation(b)
  BY <1>2, <1>7
<1>18. Concatenation(a) \in Seq(Letters)
  BY <1>8, JoinedText
<1> QED BY <1>3, <1>5, <1>15, <1>16, <1>17, <1>18

-----------------------------------------------------------------------------
(* ServicePolicy: what merging keeps.                                      *)

\* Some of the rules r forbid the request of text t to model m, an entry of spaces counting for nothing.
LeavesOut(list, m) == normalizeStringList(list) # {} /\ m \notin normalizeStringList(list)
Forbids(r, m, t) ==
    /\ r.set
    /\ \/ LeavesOut(r.allow, m)
       \/ m \in r.block
       \/ r.max > 0 /\ Len(t) > r.max
       \/ checkBlockedContent(r, t)

PolicySet == [set : BOOLEAN, on : BOOLEAN, rules : GuardrailRuleSet]
IsPolicy(p) == p \in PolicySet /\ (~p.set => ~p.rules.set)

LEMMA NoRulesTyped ==
  NoRules \in GuardrailRuleSet /\ ~NoRules.set /\ NoRules.allow = {}
BY DEF NoRules, GuardrailRuleSet

LEMMA NoPolicyTyped ==
  IsPolicy(NoPolicy) /\ NoPolicy.rules = NoRules /\ ~NoPolicy.on /\ ~NoPolicy.set
BY NoRulesTyped DEF NoPolicy, IsPolicy, PolicySet

\* A model is let through by the merged list exactly when both lists let it through.
LEMMA MergeAllow ==
  ASSUME NEW A \in SUBSET Words, NEW B \in SUBSET Words, NEW m, m \notin {Blank, DenyAll}
  PROVE  /\ mergeAllowModels(A, B) \in SUBSET Words
         /\ Blank \notin mergeAllowModels(A, B)
         /\ LeavesOut(mergeAllowModels(A, B), m) <=> LeavesOut(A, m) \/ LeavesOut(B, m)
<1>1. DenyAll # Blank
  BY DEF DenyAll, Blank
<1>2. DenyAll \in Words
  BY DEF Words
<1> QED BY <1>1, <1>2 DEF mergeAllowModels, normalizeStringList, LeavesOut

\* Whoever forbids something has rules.
LEMMA ForbidsHasRules ==
  ASSUME NEW r \in GuardrailRuleSet, NEW m, m # Blank, NEW t, Forbids(r, m, t)
  PROVE  guardrailRuleSetHasRules(r)
<1>1. CASE LeavesOut(r.allow, m)
  BY <1>1 DEF Forbids, LeavesOut, guardrailRuleSetHasRules
<1>2. CASE m \in r.block
  <2>1. m \in normalizeStringList(r.block)
    BY <1>2 DEF normalizeStringList
  <2> QED BY <2>1 DEF Forbids, guardrailRuleSetHasRules
<1>3. CASE r.max > 0
  BY <1>3 DEF Forbids, guardrailRuleSetHasRules
<1>4. CASE checkBlockedContent(r, t)
  <2>1. normalizeStringList(r.terms) # {}
    BY <1>4 DEF normalizeStringList, checkBlockedContent
  <2> QED BY <2>1 DEF Forbids, guardrailRuleSetHasRules
<1> QED BY <1>1, <1>2, <1>3, <1>4 DEF Forbids

\* Merged rules forbid what one of the two forbids, and nothing else.
LEMMA MergeRules ==
  ASSUME NEW b \in GuardrailRuleSet, NEW o \in GuardrailRuleSet
  PROVE  /\ mergeGuardrailRuleSets(b, o) \in GuardrailRuleSet
         /\ Blank \notin b.allow /\ Blank \notin o.allow => Blank \notin mergeGuardrailRuleSets(b, o).allow
         /\ \A m, t : m \notin {Blank, DenyAll} /\ Len(t) \in Nat
              => (Forbids(mergeGuardrailRuleSets(b, o), m, t) <=> Forbids(b, m, t) \/ Forbids(o, m, t))
<1>1. PICK x : x = [set    |-> TRUE,
                   allow  |-> mergeAllowModels(b.allow, o.allow),
                   block  |-> mergeUniqueStrings(b.block, o.block),
                   terms  |-> mergeUniqueStrings(b.terms, o.terms),
                   redact |-> mergeUniqueStrings(b.redact, o.redact),
                   max    |-> minPositive(b.max, o.max)]
  OBVIOUS
<1>2. /\ x.set /\ x.allow = mergeAllowModels(b.allow, o.allow) /\ x.block = mergeUniqueStrings(b.block, o.block)
      /\ x.terms = mergeUniqueStrings(b.terms, o.terms) /\ x.redact = mergeUniqueStrings(b.redact, o.redact)
      /\ x.max = minPositive(b.max, o.max)
  BY <1>1
<1>3. /\ b.set \in BOOLEAN /\ b.allow \in SUBSET Words /\ b.block \in SUBSET Words /\ b.terms \in SUBSET Words
      /\ b.redact \in SUBSET Words /\ b.max \in Int
      /\ o.set \in BOOLEAN /\ o.allow \in SUBSET Words /\ o.block \in SUBSET Words /\ o.terms \in SUBSET Words
      /\ o.redact \in SUBSET Words /\ o.max \in Int
  BY DEF GuardrailRuleSet
<1>4. PICK g : g = mergeGuardrailRuleSets(b, o)
  OBVIOUS
<1>5. g = IF ~b.set THEN o ELSE IF ~o.set THEN b ELSE IF guardrailRuleSetHasRules(x) THEN x ELSE NoRules
  BY <1>1, <1>4 DEF mergeGuardrailRuleSets
<1>6. \E m : m \notin {Blank, DenyAll}
  <2>1. <<"any">> \notin {Blank, DenyAll}
    BY DEF Blank, DenyAll
  <2> QED BY <2>1
<1>7. x.allow \in SUBSET Words /\ Blank \notin x.allow
  <2>1. PICK m : m \notin {Blank, DenyAll}
    BY <1>6
  <2>2. PICK A \in SUBSET Words, B \in SUBSET Words : A = b.allow /\ B = o.allow
    BY <1>3
  <2>3. mergeAllowModels(A, B) \in SUBSET Words /\ Blank \notin mergeAllowModels(A, B)
    BY <2>1, MergeAllow
  <2> QED BY <1>2, <2>2, <2>3
<1>8. x \in GuardrailRuleSet
  <2>1. x.block \in SUBSET Words /\ x.terms \in SUBSET Words /\ x.redact \in SUBSET Words
    BY <1>2, <1>3 DEF mergeUniqueStrings, normalizeStringList
  <2>2. x.max \in Int
    BY <1>2, <1>3 DEF minPositive
  <2> QED BY <1>1, <1>2, <1>7, <2>1, <2>2 DEF GuardrailRuleSet
<1>9. g \in GuardrailRuleSet
  BY <1>5, <1>8, NoRulesTyped
<1>10. Blank \notin b.allow /\ Blank \notin o.allow => Blank \notin g.allow
  BY <1>5, <1>7, NoRulesTyped
<1>11. ASSUME NEW m, NEW t, m \notin {Blank, DenyAll}, Len(t) \in Nat
       PROVE  Forbids(g, m, t) <=> Forbids(b, m, t) \/ Forbids(o, m, t)
  <2>1. CASE ~b.set
    <3>1. ~Forbids(b, m, t) /\ g = o
      BY <2>1, <1>5 DEF Forbids
    <3> QED BY <3>1
  <2>2. CASE b.set /\ ~o.set
    <3>1. ~Forbids(o, m, t) /\ g = b
      BY <2>2, <1>5 DEF Forbids
    <3> QED BY <3>1
  <2>3. CASE b.set /\ o.set
    <3>1. LeavesOut(x.allow, m) <=> LeavesOut(b.allow, m) \/ LeavesOut(o.allow, m)
      <4>1. PICK A \in SUBSET Words, B \in SUBSET Words : A = b.allow /\ B = o.allow
        BY <1>3
      <4>2. LeavesOut(mergeAllowModels(A, B), m) <=> LeavesOut(A, m) \/ LeavesOut(B, m)
        BY <1>11, MergeAllow
      <4> QED BY <1>2, <4>1, <4>2
    <3>2. m \in x.block <=> m \in b.block \/ m \in o.block
      BY <1>2, <1>11 DEF mergeUniqueStrings, normalizeStringList
    <3>3. x.max > 0 /\ Len(t) > x.max <=> (b.max > 0 /\ Len(t) > b.max) \/ (o.max > 0 /\ Len(t) > o.max)
      <4>1. PICK k \in Nat : k = Len(t)
        BY <1>11
      <4> QED BY <4>1, <1>2, <1>3 DEF minPositive
    <3>4. checkBlockedContent(x, t) <=> checkBlockedContent(b, t) \/ checkBlockedContent(o, t)
      <4>1. x.terms \ {Blank} = (b.terms \ {Blank}) \cup (o.terms \ {Blank})
        BY <1>2 DEF mergeUniqueStrings, normalizeStringList
      <4> QED BY <4>1 DEF checkBlockedContent
    <3>5. Forbids(x, m, t) <=> Forbids(b, m, t) \/ Forbids(o, m, t)
      BY <2>3, <1>2, <3>1, <3>2, <3>3, <3>4 DEF Forbids
    <3>6. CASE guardrailRuleSetHasRules(x)
      <4>1. g = x
        BY <1>5, <2>3, <3>6
      <4> QED BY <4>1, <3>5
    <3>7. CASE ~guardrailRuleSetHasRules(x)
      <4>1. g = NoRules
        BY <1>5, <2>3, <3>7
      <4>2. ~Forbids(g, m, t)
        BY <4>1, NoRulesTyped DEF Forbids
      <4>3. ~Forbids(x, m, t)
        BY <1>8, <1>11, <3>7, ForbidsHasRules
      <4> QED BY <4>2, <4>3, <3>5
    <3> QED BY <3>6, <3>7
  <2> QED BY <2>1, <2>2, <2>3, <1>3
<1>12. \A m, t : m \notin {Blank, DenyAll} /\ Len(t) \in Nat => (Forbids(g, m, t) <=> Forbids(b, m, t) \/ Forbids(o, m, t))
  BY <1>11
<1> QED BY <1>4, <1>9, <1>10, <1>12

\* A policy whose rules forbid something is on.
OnWhenItForbids(p) == \A m, t : m # Blank /\ Forbids(p.rules, m, t) => p.on

\* The same of policies: an overlay adds its rules, switched on or not, and takes none away.
LEMMA MergePolicies ==
  ASSUME NEW b, NEW o, IsPolicy(b), IsPolicy(o)
  PROVE  /\ IsPolicy(mergeServicePolicies(b, o))
         /\ OnWhenItForbids(mergeServicePolicies(b, o))
         /\ Blank \notin b.rules.allow /\ Blank \notin o.rules.allow => Blank \notin mergeServicePolicies(b, o).rules.allow
         /\ \A m, t : m \notin {Blank, DenyAll} /\ Len(t) \in Nat
              => (Forbids(mergeServicePolicies(b, o).rules, m, t) <=> Forbids(b.rules, m, t) \/ Forbids(o.rules, m, t))
<1>1. PICK r : r = IF o.set THEN mergeGuardrailRuleSets(b.rules, o.rules) ELSE b.rules
  OBVIOUS
<1>2. PICK on : on = (b.on \/ o.on)
  OBVIOUS
<1>3. PICK p : p = mergeServicePolicies(b, o)
  OBVIOUS
<1>4. p = IF ~r.set /\ ~on THEN NoPolicy ELSE [set |-> TRUE, on |-> on \/ guardrailRuleSetHasRules(r), rules |-> r]
  BY <1>1, <1>2, <1>3 DEF mergeServicePolicies
<1>5. b.rules \in GuardrailRuleSet /\ o.rules \in GuardrailRuleSet /\ b.on \in BOOLEAN /\ o.on \in BOOLEAN /\ o.set \in BOOLEAN
  BY DEF IsPolicy, PolicySet
<1>6. r \in GuardrailRuleSet
  BY <1>1, <1>5, MergeRules
<1>7. Blank \notin b.rules.allow /\ Blank \notin o.rules.allow => Blank \notin r.allow
  BY <1>1, <1>5, MergeRules
<1>8. ASSUME NEW m, NEW t, m \notin {Blank, DenyAll}, Len(t) \in Nat
      PROVE  Forbids(r, m, t) <=> Forbids(b.rules, m, t) \/ Forbids(o.rules, m, t)
  <2>1. CASE o.set
    BY <2>1, <1>1, <1>5, <1>8, MergeRules
  <2>2. CASE ~o.set
    <3>1. ~Forbids(o.rules, m, t)
      BY <2>2 DEF IsPolicy, Forbids
    <3> QED BY <3>1, <2>2, <1>1
  <2> QED BY <2>1, <2>2, <1>5
<1>9. CASE ~r.set /\ ~on
  <2>1. p = NoPolicy
    BY <1>4, <1>9
  <2>2. \A m, t : ~Forbids(p.rules, m, t) /\ ~Forbids(r, m, t)
    BY <2>1, <1>9, NoPolicyTyped, NoRulesTyped DEF Forbids
  <2>3. IsPolicy(p) /\ Blank \notin p.rules.allow
    BY <2>1, NoPolicyTyped, NoRulesTyped
  <2>4. OnWhenItForbids(p)
    BY <2>2 DEF OnWhenItForbids
  <2> QED BY <2>2, <2>3, <2>4, <1>3, <1>8
<1>10. CASE ~(~r.set /\ ~on)
  <2>1. p = [set |-> TRUE, on |-> on \/ guardrailRuleSetHasRules(r), rules |-> r]
    BY <1>4, <1>10
  <2>2. p.set /\ p.rules = r /\ p.on = (on \/ guardrailRuleSetHasRules(r))
    BY <2>1
  <2>3. guardrailRuleSetHasRules(r) \in BOOLEAN /\ on \in BOOLEAN
    BY <1>2, <1>6 DEF guardrailRuleSetHasRules, GuardrailRuleSet
  <2>4. IsPolicy(p)
    BY <2>1, <2>2, <2>3, <1>6 DEF IsPolicy, PolicySet
  <2>5. OnWhenItForbids(p)
    BY <2>2, <1>6, ForbidsHasRules DEF OnWhenItForbids
  <2> QED BY <2>2, <2>4, <2>5, <1>3, <1>7, <1>8
<1> QED BY <1>9, <1>10

\* A request is refused exactly when some level forbids it, but for lists with an entry of spaces.
LEMMA AllLevelsBind ==
  ASSUME \A l \in {"tenant", "project", "service"} : IsPolicy(policies[l]), DOMAIN policies = {"tenant", "project", "service"}
  PROVE  EffectiveIsAllLevels /\ IsPolicy(resolveEffectivePolicy(policies))
<1>1. PICK a, b, c : a = policies["tenant"] /\ b = policies["project"] /\ c = policies["service"]
  OBVIOUS
<1>2. IsPolicy(a) /\ IsPolicy(b) /\ IsPolicy(c) /\ IsPolicy(NoPolicy)
  BY <1>1, NoPolicyTyped
<1>3. PICK p : p = mergeServicePolicies(NoPolicy, a)
  OBVIOUS
<1>4. PICK q : q = mergeServicePolicies(p, b)
  OBVIOUS
<1>5. PICK e : e = mergeServicePolicies(q, c)
  OBVIOUS
<1>6. e = resolveEffectivePolicy(policies)
  BY <1>1, <1>3, <1>4, <1>5 DEF resolveEffectivePolicy
<1>7. IsPolicy(p)
  BY <1>2, <1>3, MergePolicies
<1>8. IsPolicy(q)
  BY <1>2, <1>4, <1>7, MergePolicies
<1>9. IsPolicy(e)
  BY <1>2, <1>5, <1>8, MergePolicies
<1>10. OnWhenItForbids(e)
  BY <1>2, <1>5, <1>8, MergePolicies
<1>11. ASSUME NEW m \in Models, NEW t \in Deltas
       PROVE  Forbids(e.rules, m, t) <=> Forbids(a.rules, m, t) \/ Forbids(b.rules, m, t) \/ Forbids(c.rules, m, t)
  <2>1. m \notin {Blank, DenyAll}
    BY PolicyAssumption
  <2>2. Len(t) \in Nat
    <3>1. t \in Seq(Letters)
      BY DeltasAreTexts
    <3> QED BY <3>1
  <2>3. Forbids(p.rules, m, t) <=> Forbids(NoPolicy.rules, m, t) \/ Forbids(a.rules, m, t)
    BY <2>1, <2>2, <1>2, <1>3, MergePolicies
  <2>4. Forbids(q.rules, m, t) <=> Forbids(p.rules, m, t) \/ Forbids(b.rules, m, t)
    BY <2>1, <2>2, <1>2, <1>4, <1>7, MergePolicies
  <2>5. Forbids(e.rules, m, t) <=> Forbids(q.rules, m, t) \/ Forbids(c.rules, m, t)
    BY <2>1, <2>2, <1>2, <1>5, <1>8, MergePolicies
  <2>6. ~Forbids(NoPolicy.rules, m, t)
    BY NoPolicyTyped, NoRulesTyped DEF Forbids
  <2> QED BY <2>3, <2>4, <2>5, <2>6
<1>12. Blank \notin a.rules.allow /\ Blank \notin b.rules.allow /\ Blank \notin c.rules.allow => Blank \notin e.rules.allow
  <2>1. Blank \notin NoPolicy.rules.allow
    BY NoPolicyTyped, NoRulesTyped
  <2>2. Blank \notin a.rules.allow => Blank \notin p.rules.allow
    BY <2>1, <1>2, <1>3, MergePolicies
  <2>3. Blank \notin p.rules.allow /\ Blank \notin b.rules.allow => Blank \notin q.rules.allow
    BY <1>2, <1>4, <1>7, MergePolicies
  <2>4. Blank \notin q.rules.allow /\ Blank \notin c.rules.allow => Blank \notin e.rules.allow
    BY <1>2, <1>5, <1>8, MergePolicies
  <2> QED BY <2>2, <2>3, <2>4
<1>13. ASSUME NEW m \in Models, NEW t \in Deltas, NEW r \in GuardrailRuleSet
       PROVE  RequestRefused([set |-> TRUE, on |-> TRUE, rules |-> [r EXCEPT !.allow = normalizeStringList(@)]], m, t)
                <=> Forbids(r, m, t)
  <2>1. PICK x : x = [set |-> TRUE, on |-> TRUE, rules |-> [r EXCEPT !.allow = normalizeStringList(@)]]
    OBVIOUS
  <2>2. /\ x.on /\ x.rules.set = r.set /\ x.rules.allow = normalizeStringList(r.allow) /\ x.rules.block = r.block
        /\ x.rules.max = r.max /\ x.rules.terms = r.terms
    BY <2>1 DEF GuardrailRuleSet
  <2>3. checkBlockedContent(x.rules, t) <=> checkBlockedContent(r, t)
    BY <2>2 DEF checkBlockedContent
  <2>4. r.set \in BOOLEAN
    BY DEF GuardrailRuleSet
  <2>5. RequestRefused(x, m, t) <=> Forbids(r, m, t)
    BY <2>2, <2>3, <2>4 DEF RequestRefused, Forbids, LeavesOut
  <2> QED BY <2>1, <2>5
<1>14. ASSUME NEW m \in Models, NEW t \in Deltas, Forbids(e.rules, m, t) PROVE RequestRefused(e, m, t)
  <2>1. m # Blank
    BY PolicyAssumption
  <2>2. e.on /\ e.rules.set
    BY <2>1, <1>10, <1>14 DEF OnWhenItForbids, Forbids
  <2>3. LeavesOut(e.rules.allow, m) => e.rules.allow # {} /\ m \notin e.rules.allow
    BY <2>1 DEF LeavesOut, normalizeStringList
  <2> QED BY <2>2, <2>3, <1>14 DEF RequestRefused, Forbids
<1>15. ASSUME NEW m \in Models, NEW t \in Deltas, RequestRefused(e, m, t), Blank \notin e.rules.allow PROVE Forbids(e.rules, m, t)
  <2>1. normalizeStringList(e.rules.allow) = e.rules.allow
    BY <1>15 DEF normalizeStringList
  <2> QED BY <2>1, <1>15 DEF RequestRefused, Forbids, LeavesOut
<1>16. a.rules \in GuardrailRuleSet /\ b.rules \in GuardrailRuleSet /\ c.rules \in GuardrailRuleSet
  BY <1>2 DEF IsPolicy, PolicySet
<1> DEFINE Refuses(l, m, t) == LET r == policies[l].rules
                               IN  RequestRefused([set |-> TRUE, on |-> TRUE,
                                                   rules |-> [r EXCEPT !.allow = normalizeStringList(@)]], m, t)
<1>17. ASSUME NEW m \in Models, NEW t \in Deltas, NEW l \in DOMAIN policies PROVE Refuses(l, m, t) <=> Forbids(policies[l].rules, m, t)
  <2>1. policies[l].rules \in GuardrailRuleSet
    BY DEF IsPolicy, PolicySet
  <2> QED BY <2>1, <1>13
<1> HIDE DEF Refuses
<1>18. ASSUME NEW m \in Models, NEW t \in Deltas
       PROVE  /\ (\E l \in DOMAIN policies : Refuses(l, m, t)) => RequestRefused(e, m, t)
              /\ RequestRefused(e, m, t) => \/ \E l \in DOMAIN policies : Refuses(l, m, t)
                                            \/ \E l \in DOMAIN policies : Blank \in policies[l].rules.allow
  <2>1. (\E l \in DOMAIN policies : Refuses(l, m, t)) <=> Forbids(e.rules, m, t)
    BY <1>1, <1>11, <1>17
  <2>2. (\E l \in DOMAIN policies : Blank \in policies[l].rules.allow) \/ Blank \notin e.rules.allow
    BY <1>1, <1>12
  <2> QED BY <2>1, <2>2, <1>14, <1>15
<1>19. EffectiveIsAllLevels
  BY <1>6, <1>18 DEF EffectiveIsAllLevels, Refuses
<1> QED BY <1>6, <1>9, <1>19

-----------------------------------------------------------------------------
(* ServicePolicy: the filter of a stream.                                  *)

\* The policies and their bound.
LevelsGood ==
    /\ DOMAIN policies = {"tenant", "project", "service"}
    /\ \A l \in {"tenant", "project", "service"} : IsPolicy(policies[l])
    /\ IsPolicy(effective) /\ (effective.rules.set => effective.on)

\* The types of a stream's state.
StreamTypes ==
    /\ kind \in {"", "live", "owned"}
    /\ ended \in BOOLEAN
    /\ failed \in BOOLEAN
    /\ filter \in {"", "running", "refused", "ended", "failed", "left"}
    /\ produced \in Seq(StreamEvents) /\ forwarded \in Seq(StreamEvents)
    /\ accumulated \in Seq(Letters) /\ hides \in Seq(Words)
    /\ received \in 0 .. Len(produced)

\* What there is before a stream, and before its events.
Unstarted ==
    /\ (filter = "") <=> (kind = "")
    /\ kind = "" => produced = <<>> /\ ~ended /\ ~failed /\ accumulated = <<>> /\ forwarded = <<>>
    /\ kind = "owned" /\ ~ended => produced = <<>>
    /\ filter = "ended" => ended
    /\ failed => ended

\* The producer ends with the completion or with an error, and a live one waits for each event to be received.
ProducerGood ==
    /\ kind = "live" => Len(produced) <= received + 1
    /\ ~ended \/ failed => \A i \in DOMAIN produced : produced[i].type # "completed"
    /\ ended /\ ~failed /\ kind = "live" => produced # <<>> /\ produced[Len(produced)].type = "completed"

\* The filter has passed on what it has received, with the terms to hide hidden, and has the text of it.
FilterGood ==
    /\ Len(forwarded) <= received
    /\ \A i \in DOMAIN forwarded : forwarded[i] = Hidden(produced[i])
    /\ filter = "running" => Len(forwarded) = received /\ Text = accumulated

PolicyInv ==
    /\ LevelsGood /\ StreamTypes /\ Unstarted /\ ProducerGood /\ FilterGood
    /\ NothingForbiddenPasses /\ EndsWhole

LEMMA NoneThere ==
  ASSUME NEW s, s = <<>>
  PROVE  Len(s) = 0 /\ DOMAIN s = {}
<1>1. Len(<<>>) = 0 /\ DOMAIN <<>> = {}
  OBVIOUS
<1> QED BY <1>1, Zenon

LEMMA PolicyInitially ==
  PolicyInit => PolicyInv
<1> SUFFICES ASSUME PolicyInit PROVE PolicyInv
  OBVIOUS
<1>1. {Levels[i] : i \in DOMAIN Levels} = {"tenant", "project", "service"}
  BY DEF Levels
<1>2. LevelsGood
  BY <1>1, NoPolicyTyped, NoRulesTyped DEF LevelsGood, PolicyInit
<1>3. produced = <<>> /\ forwarded = <<>> /\ accumulated = <<>> /\ hides = <<>> /\ received = 0 /\ filter = "" /\ kind = ""
  BY DEF PolicyInit
<1>4. ended = FALSE /\ failed = FALSE
  BY DEF PolicyInit
<1>5. /\ <<>> \in Seq(StreamEvents) /\ <<>> \in Seq(Letters) /\ <<>> \in Seq(Words)
      /\ Len(<<>>) = 0 /\ 0 \in 0 .. 0 /\ DOMAIN <<>> = {}
  OBVIOUS
<1>6. StreamTypes
  BY <1>3, <1>4, <1>5 DEF StreamTypes
<1>7. Unstarted /\ ProducerGood
  BY <1>3, <1>4, <1>5 DEF Unstarted, ProducerGood
<1>8. Len(forwarded) = 0 /\ DOMAIN forwarded = {} /\ Len(forwarded) <= received
  <2>1. Len(forwarded) = 0 /\ DOMAIN forwarded = {}
    BY <1>3, NoneThere
  <2>2. received = 0
    BY <1>3
  <2> QED BY <2>1, <2>2
<1>9. FilterGood /\ NothingForbiddenPasses
  BY <1>3, <1>8 DEF FilterGood, NothingForbiddenPasses
<1>10. EndsWhole
  BY <1>3, <1>4, <1>8 DEF EndsWhole
<1> QED BY <1>2, <1>6, <1>7, <1>9, <1>10 DEF PolicyInv

\* Nothing is forbidden in the empty text.
LEMMA NothingInNothing ==
  ASSUME NEW r \in GuardrailRuleSet
  PROVE  ~checkBlockedContent(r, <<>>) /\ (r.max > 0 => Len(<<>>) <= r.max)
<1>1. ASSUME NEW w \in r.terms \ {Blank} PROVE ~Occurs(w, <<>>)
  <2>1. w \in Words
    BY DEF GuardrailRuleSet
  <2>2. w \in Seq(Members(w))
    BY <2>1, PolicyAssumption
  <2>3. Len(w) \in Nat /\ Len(w) # 0
    BY <2>2 DEF Blank
  <2>4. PICK n \in Nat : n = Len(w) /\ n > 0
    BY <2>3
  <2>5. Len(<<>>) = 0
    OBVIOUS
  <2>6. 1 .. (0 - n + 1) = {}
    BY <2>4
  <2> QED BY <2>4, <2>5, <2>6 DEF Occurs
<1>2. r.max \in Int /\ Len(<<>>) = 0
  BY DEF GuardrailRuleSet
<1> QED BY <1>1, <1>2 DEF checkBlockedContent

\* Administrators choose among the rule sets.
LEMMA PolicyEditStep ==
  ASSUME PolicyInv, NEW l \in DOMAIN policies, NEW on \in BOOLEAN, NEW r \in RuleSets,
         EditPolicy(l, [set |-> TRUE, on |-> on, rules |-> r])
  PROVE  PolicyInv'
<1>1. PICK p : p = [set |-> TRUE, on |-> on, rules |-> r]
  OBVIOUS
<1>2. p \in PolicySet /\ p.set
  BY <1>1, PolicyAssumption DEF PolicySet
<1>3. policies' = [policies EXCEPT ![l] = p] /\ UNCHANGED streamState
  BY <1>1 DEF EditPolicy
<1>4. LevelsGood'
  BY <1>2, <1>3 DEF PolicyInv, LevelsGood, IsPolicy, streamState
<1>5. UNCHANGED <<effective, hides, kind, produced, received, ended, failed, filter, accumulated, forwarded>>
  BY <1>3 DEF streamState
<1>6. Text' = Text
  BY <1>5 DEF Text
<1>7. StreamTypes' /\ Unstarted' /\ ProducerGood'
  BY <1>5 DEF PolicyInv, StreamTypes, Unstarted, ProducerGood
<1>8. FilterGood' /\ NothingForbiddenPasses' /\ EndsWhole'
  BY <1>5, <1>6 DEF PolicyInv, FilterGood, NothingForbiddenPasses, EndsWhole, Hidden
<1> QED BY <1>4, <1>7, <1>8 DEF PolicyInv

\* The order a stream starts with is a list of terms.
LEMMA OrdersTyped ==
  ASSUME NEW S \in SUBSET Words, NEW s \in Orders(S)
  PROVE  s \in Seq(Words)
<1>1. IsFiniteSet(S)
  BY PolicyAssumption, FS_Subset
<1>2. PICK n \in Nat : n = Cardinality(S)
  BY <1>1, FS_CardinalityType
<1>3. s \in [1 .. n -> S]
  BY <1>2 DEF Orders
<1> QED BY <1>3

LEMMA PolicyCreateStep ==
  ASSUME PolicyInv, NEW k \in {"live", "owned"}, CreateStream(k)
  PROVE  PolicyInv'
<1>1. PICK p : p = resolveEffectivePolicy(policies)
  OBVIOUS
<1>2. /\ kind = "" /\ kind' = k /\ filter' = "running" /\ p.on
      /\ effective' = p /\ hides' \in Orders(p.rules.redact)
      /\ UNCHANGED <<policies, produced, received, ended, failed, accumulated, forwarded>>
  BY <1>1 DEF CreateStream
<1>3. IsPolicy(p)
  BY <1>1, AllLevelsBind DEF PolicyInv, LevelsGood
<1>4. produced = <<>> /\ ~ended /\ ~failed /\ accumulated = <<>> /\ forwarded = <<>>
  BY <1>2 DEF PolicyInv, Unstarted
<1>5. received = 0 /\ Len(<<>>) = 0 /\ DOMAIN <<>> = {}
  <2>1. Len(<<>>) = 0 /\ DOMAIN <<>> = {} /\ 0 .. 0 = {0}
    OBVIOUS
  <2>2. received \in 0 .. Len(produced)
    BY DEF PolicyInv, StreamTypes
  <2> QED BY <2>1, <2>2, <1>4
<1>6. LevelsGood'
  BY <1>2, <1>3 DEF PolicyInv, LevelsGood
<1>7. hides' \in Seq(Words)
  <2>1. p.rules.redact \in SUBSET Words
    BY <1>3 DEF IsPolicy, PolicySet, GuardrailRuleSet
  <2> QED BY <2>1, <1>2, OrdersTyped
<1>8. StreamTypes'
  BY <1>2, <1>7 DEF PolicyInv, StreamTypes
<1>9. k # "" /\ ended' = ended /\ failed' = failed /\ produced' = <<>> /\ forwarded' = <<>> /\ received' = 0 /\ accumulated' = <<>>
  BY <1>2, <1>4, <1>5
<1>10. Unstarted'
  <2>1. kind' # "" /\ filter' # "" /\ filter' # "ended"
    BY <1>2
  <2>2. ~failed'
    BY <1>4, <1>9
  <2> QED BY <2>1, <2>2, <1>9, Zenon DEF Unstarted
<1>11. ProducerGood'
  <2>1. Len(produced') = 0 /\ DOMAIN produced' = {}
    BY <1>9, NoneThere
  <2>2. ~ended'
    BY <1>4, <1>9
  <2>3. Len(produced') <= received' + 1
    <3>1. received' = 0
      BY <1>9
    <3> QED BY <2>1, <3>1
  <2> QED BY <2>1, <2>2, <2>3 DEF ProducerGood
<1>12. Text' = <<>>
  BY <1>9, TextOfNone DEF Text
<1>13. FilterGood'
  <2>1. Len(forwarded') = 0 /\ DOMAIN forwarded' = {}
    BY <1>9, NoneThere
  <2>2. Len(forwarded') <= received' /\ Len(forwarded') = received'
    <3>1. received' = 0
      BY <1>9
    <3> QED BY <2>1, <3>1
  <2> QED BY <2>1, <2>2, <1>9, <1>12 DEF FilterGood
<1>14. NothingForbiddenPasses'
  <2>1. p.rules \in GuardrailRuleSet
    BY <1>3 DEF IsPolicy, PolicySet
  <2>2. ~checkBlockedContent(p.rules, <<>>) /\ (p.rules.max > 0 => Len(<<>>) <= p.rules.max)
    BY <2>1, NothingInNothing
  <2> QED BY <2>2, <1>2, <1>5, <1>9, <1>12 DEF NothingForbiddenPasses
<1>15. EndsWhole'
  <2>1. filter' # "ended"
    BY <1>2
  <2>2. ~failed'
    BY <1>4, <1>9
  <2> QED BY <2>1, <2>2, <1>13, Zenon DEF EndsWhole, FilterGood
<1> QED BY <1>6, <1>8, <1>10, <1>11, <1>13, <1>14, <1>15 DEF PolicyInv

\* An event more changes nothing of those before it.
LEMMA OneEventMore ==
  ASSUME NEW X, NEW s \in Seq(X), NEW e \in X, NEW u, u = Append(s, e)
  PROVE  /\ u \in Seq(X) /\ Len(u) = Len(s) + 1 /\ u[Len(u)] = e /\ u # <<>> /\ Len(s) \in Nat
         /\ DOMAIN u = 1 .. Len(s) + 1 /\ DOMAIN s = 1 .. Len(s)
         /\ \A i \in 1 .. Len(s) : u[i] = s[i]
<1>1. u \in Seq(X) /\ Len(u) = Len(s) + 1 /\ u[Len(s) + 1] = e /\ Len(s) \in Nat /\ \A i \in 1 .. Len(s) : u[i] = s[i]
  OBVIOUS
<1>2. DOMAIN u = 1 .. Len(u) /\ DOMAIN s = 1 .. Len(s)
  BY <1>1
<1>3. u # <<>>
  BY <1>1
<1> QED BY <1>1, <1>2, <1>3

\* What the producer adds: nothing the filter has passed on changes.
LEMMA PolicyMadeStep ==
  ASSUME PolicyInv, kind = "live", ~ended, received = Len(produced), ProducerKeeps,
         NEW e \in StreamEvents, produced' = Append(produced, e),
         failed' = failed, ended' \in BOOLEAN, ended' <=> e.type = "completed"
  PROVE  PolicyInv'
<1>1. UNCHANGED <<policies, effective, hides, kind, received, filter, accumulated, forwarded>>
  BY DEF ProducerKeeps
<1>2. produced \in Seq(StreamEvents) /\ failed \in BOOLEAN
  BY DEF PolicyInv, StreamTypes
<1>3. /\ produced' \in Seq(StreamEvents) /\ Len(produced') = Len(produced) + 1 /\ produced'[Len(produced')] = e
      /\ produced' # <<>> /\ Len(produced) \in Nat /\ DOMAIN produced' = 1 .. Len(produced) + 1
      /\ DOMAIN produced = 1 .. Len(produced) /\ \A i \in 1 .. Len(produced) : produced'[i] = produced[i]
  BY <1>2, OneEventMore
<1>4. PICK n \in Nat : n = Len(produced)
  BY <1>3
<1>5. LevelsGood'
  BY <1>1 DEF PolicyInv, LevelsGood
<1>6. StreamTypes'
  <2>1. received' \in 0 .. Len(produced')
    BY <1>1, <1>3, <1>4
  <2> QED BY <2>1, <1>1, <1>2, <1>3 DEF PolicyInv, StreamTypes
<1>7. filter # "ended" /\ filter # ""
  BY DEF PolicyInv, Unstarted
<1>8. Unstarted'
  BY <1>1, <1>7 DEF PolicyInv, Unstarted
<1>9. \A i \in 1 .. n : produced[i].type # "completed"
  BY <1>3, <1>4 DEF PolicyInv, ProducerGood
<1>10. ~failed => ~failed'
  OBVIOUS
<1>11. e.type # "completed" => \A i \in DOMAIN produced' : produced'[i].type # "completed"
  <2>1. SUFFICES ASSUME e.type # "completed", NEW i \in 1 .. n + 1 PROVE produced'[i].type # "completed"
    BY <1>3, <1>4
  <2>2. CASE i = n + 1
    BY <2>1, <2>2, <1>3, <1>4
  <2>3. CASE i # n + 1
    <3>1. i \in 1 .. n
      BY <2>3
    <3> QED BY <3>1, <1>3, <1>4, <1>9
  <2> QED BY <2>2, <2>3
<1>12. ~failed
  BY DEF PolicyInv, Unstarted
<1>13. ProducerGood'
  <2>1. kind' = "live" => Len(produced') <= received' + 1
    BY <1>1, <1>3, <1>4
  <2>2. ~ended' \/ failed' => \A i \in DOMAIN produced' : produced'[i].type # "completed"
    BY <1>11, <1>12
  <2> QED BY <2>1, <2>2, <1>3 DEF ProducerGood
<1>14. Text' = Text
  BY <1>1 DEF Text
<1>15. DOMAIN forwarded = 1 .. Len(forwarded) /\ Len(forwarded) \in Nat /\ Len(forwarded) <= n
  <2>1. forwarded \in Seq(StreamEvents) /\ Len(forwarded) <= received
    BY DEF PolicyInv, StreamTypes, FilterGood
  <2> QED BY <2>1, <1>4
<1>16. \A i \in DOMAIN forwarded : produced'[i] = produced[i]
  BY <1>3, <1>4, <1>15
<1>17. hides' = hides
  BY <1>1
<1>18. FilterGood'
  BY <1>1, <1>14, <1>16, <1>17 DEF PolicyInv, FilterGood, Hidden
<1>19. NothingForbiddenPasses'
  BY <1>1, <1>14, <1>16 DEF PolicyInv, NothingForbiddenPasses
<1>20. EndsWhole'
  BY <1>1, <1>7, <1>12, <1>18 DEF EndsWhole, FilterGood
<1> QED BY <1>5, <1>6, <1>8, <1>13, <1>18, <1>19, <1>20 DEF PolicyInv

\* A live producer sends.
LEMMA PolicySendStep ==
  ASSUME PolicyInv, NEW d \in Deltas, SendDelta(d)
  PROVE  PolicyInv'
<1>1. d \in Seq(Letters)
  BY DeltasAreTexts
<1>2. PICK e : e = Delta(d)
  OBVIOUS
<1>3. e \in StreamEvents /\ e.type = "delta"
  BY <1>1, <1>2 DEF Delta, StreamEvents
<1>4. /\ kind = "live" /\ ~ended /\ received = Len(produced) /\ ProducerKeeps
      /\ produced' = Append(produced, e) /\ failed' = failed /\ ended' = ended
  BY <1>2 DEF SendDelta, Producing, AllReceived
<1>5. ended' \in BOOLEAN /\ (ended' <=> e.type = "completed")
  BY <1>3, <1>4 DEF PolicyInv, StreamTypes
<1> QED BY <1>3, <1>4, <1>5, PolicyMadeStep

\* An answer is a text.
LEMMA AnswersAreTexts ==
  ASSUME PolicyInv, NEW said \in Answers
  PROVE  said \in Seq(Letters)
<1>1. CASE said \in Deltas
  BY <1>1, DeltasAreTexts
<1>2. CASE said = Concatenation([i \in DOMAIN produced |-> produced[i].text])
  <2>1. PICK s : s = [i \in DOMAIN produced |-> produced[i].text]
    OBVIOUS
  <2>2. produced \in Seq(StreamEvents)
    BY DEF PolicyInv, StreamTypes
  <2>3. ASSUME NEW i \in 1 .. Len(produced) PROVE produced[i].text \in Seq(Letters)
    <3>1. produced[i] \in StreamEvents
      BY <2>2
    <3> QED BY <3>1 DEF StreamEvents
  <2>4. s \in Seq(Seq(Letters))
    BY <2>1, <2>2, <2>3
  <2> QED BY <1>2, <2>1, <2>4, JoinedText
<1> QED BY <1>1, <1>2 DEF Answers

LEMMA PolicySendCompletedStep ==
  ASSUME PolicyInv, NEW said \in Answers, SendCompleted(said)
  PROVE  PolicyInv'
<1>1. said \in Seq(Letters)
  BY AnswersAreTexts
<1>2. PICK e : e = Completed(said)
  OBVIOUS
<1>3. e \in StreamEvents /\ e.type = "completed"
  BY <1>1, <1>2 DEF Completed, StreamEvents
<1>4. /\ kind = "live" /\ ~ended /\ received = Len(produced) /\ ProducerKeeps
      /\ produced' = Append(produced, e) /\ failed' = failed /\ ended' = TRUE
  BY <1>2 DEF SendCompleted, Producing, AllReceived
<1>5. ended' \in BOOLEAN /\ (ended' <=> e.type = "completed")
  BY <1>3, <1>4
<1> QED BY <1>3, <1>4, <1>5, PolicyMadeStep

\* It fails: what it has sent has no completion.
LEMMA PolicySendErrorStep ==
  ASSUME PolicyInv, SendError
  PROVE  PolicyInv'
<1>1. UNCHANGED <<policies, effective, hides, kind, received, filter, accumulated, forwarded, produced>>
  BY DEF SendError, ProducerKeeps
<1>2. kind = "live" /\ ~ended /\ failed' = TRUE /\ ended' = TRUE
  BY DEF SendError, Producing
<1>3. LevelsGood'
  BY <1>1 DEF PolicyInv, LevelsGood
<1>4. StreamTypes'
  BY <1>1, <1>2 DEF PolicyInv, StreamTypes
<1>5. filter # "ended" /\ filter # ""
  BY <1>2 DEF PolicyInv, Unstarted
<1>6. Unstarted'
  BY <1>1, <1>2, <1>5 DEF Unstarted
<1>7. \A i \in DOMAIN produced : produced[i].type # "completed"
  BY <1>2 DEF PolicyInv, ProducerGood
<1>8. ProducerGood'
  BY <1>1, <1>2, <1>7 DEF PolicyInv, ProducerGood
<1>9. Text' = Text
  BY <1>1 DEF Text
<1>10. FilterGood' /\ NothingForbiddenPasses'
  BY <1>1, <1>9 DEF PolicyInv, FilterGood, NothingForbiddenPasses, Hidden
<1>11. EndsWhole'
  BY <1>1, <1>5, <1>7, <1>10 DEF EndsWhole, FilterGood
<1> QED BY <1>3, <1>4, <1>6, <1>8, <1>10, <1>11 DEF PolicyInv

\* A gateway-owned stream: all of it is in the buffer before the filter has anything.
LEMMA PolicySendOwnedStep ==
  ASSUME PolicyInv, NEW d \in Deltas \cup {<<>>}, SendOwned(d)
  PROVE  PolicyInv'
<1>1. UNCHANGED <<policies, effective, hides, kind, received, filter, accumulated, forwarded>>
  BY DEF SendOwned, ProducerKeeps
<1>2. kind = "owned" /\ ~ended /\ failed' = failed /\ ended' = TRUE
  BY DEF SendOwned, Producing
<1>3. d \in Seq(Letters)
  <2>1. <<>> \in Seq(Letters)
    OBVIOUS
  <2> QED BY <2>1, DeltasAreTexts
<1>4. produced' = <<Completed(d)>> \/ produced' = <<Delta(d), Completed(d)>>
  BY DEF SendOwned
<1>5. Completed(d) \in StreamEvents /\ Delta(d) \in StreamEvents
  BY <1>3 DEF Completed, Delta, StreamEvents
<1>6. produced' \in Seq(StreamEvents)
  <2>1. <<Completed(d)>> \in Seq(StreamEvents) /\ <<Delta(d), Completed(d)>> \in Seq(StreamEvents)
    BY <1>5
  <2> QED BY <2>1, <1>4
<1>7. produced = <<>>
  BY <1>2 DEF PolicyInv, Unstarted
<1>8. received = 0 /\ forwarded \in Seq(StreamEvents) /\ Len(forwarded) <= 0
  <2>1. Len(<<>>) = 0 /\ 0 .. 0 = {0}
    OBVIOUS
  <2>2. received \in 0 .. Len(produced) /\ forwarded \in Seq(StreamEvents) /\ Len(forwarded) <= received
    BY DEF PolicyInv, StreamTypes, FilterGood
  <2> QED BY <2>1, <2>2, <1>7
<1>9. forwarded = <<>> /\ DOMAIN forwarded = {} /\ Len(forwarded) = 0
  BY <1>8
<1>10. LevelsGood'
  BY <1>1 DEF PolicyInv, LevelsGood
<1>11. StreamTypes'
  <2>1. Len(produced') \in Nat
    BY <1>6
  <2>2. received' \in 0 .. Len(produced')
    BY <1>1, <1>8, <2>1
  <2> QED BY <2>2, <1>1, <1>2, <1>6 DEF PolicyInv, StreamTypes
<1>12. filter # "ended" /\ filter # ""
  BY <1>2 DEF PolicyInv, Unstarted
<1>13. Unstarted' /\ ~failed
  BY <1>1, <1>2, <1>12 DEF PolicyInv, Unstarted
<1>14. ProducerGood'
  BY <1>1, <1>2, <1>13 DEF ProducerGood
<1>15. Text' = Text
  BY <1>1 DEF Text
<1>16. FilterGood'
  BY <1>1, <1>8, <1>9, <1>15 DEF PolicyInv, FilterGood
<1>17. NothingForbiddenPasses'
  BY <1>1, <1>9, <1>15 DEF PolicyInv, NothingForbiddenPasses
<1>18. EndsWhole'
  BY <1>1, <1>2, <1>8, <1>9, <1>13 DEF EndsWhole
<1> QED BY <1>10, <1>11, <1>13, <1>14, <1>16, <1>17, <1>18 DEF PolicyInv

\* What the filter takes it passes on with the terms hidden, or it ends.
LEMMA PolicyPassStep ==
  ASSUME PolicyInv, NEW stop \in BOOLEAN, filter = "running", received < Len(produced), received' = received + 1,
         FilterKeeps, PassesOnUnless(stop), accumulated' \in Seq(Letters),
         ~stop => /\ accumulated' = TextOf(Append(forwarded, Hidden(NextEvent)))
                  /\ ~checkBlockedContent(effective.rules, accumulated')
                  /\ effective.rules.max > 0 => Len(accumulated') <= effective.rules.max
                  /\ NextEvent.type = "completed" => ~ResponseRefused(effective, NextEvent.text)
  PROVE  PolicyInv'
<1>1. UNCHANGED <<policies, effective, hides, kind, produced, ended, failed>>
  BY DEF FilterKeeps
<1>2. /\ produced \in Seq(StreamEvents) /\ forwarded \in Seq(StreamEvents) /\ hides \in Seq(Words)
      /\ received \in Nat /\ Len(produced) \in Nat
  <2>1. produced \in Seq(StreamEvents) /\ forwarded \in Seq(StreamEvents) /\ hides \in Seq(Words)
    BY DEF PolicyInv, StreamTypes
  <2>2. received \in 0 .. Len(produced)
    BY DEF PolicyInv, StreamTypes
  <2>3. Len(produced) \in Nat
    BY <2>1
  <2> QED BY <2>1, <2>2, <2>3
<1>3. Len(forwarded) = received /\ Text = accumulated /\ \A i \in DOMAIN forwarded : forwarded[i] = Hidden(produced[i])
  BY DEF PolicyInv, FilterGood
<1>4. PICK e : e = NextEvent
  OBVIOUS
<1>5. e = produced[received + 1] /\ received + 1 \in 1 .. Len(produced)
  BY <1>2, <1>4 DEF NextEvent
<1>6. e \in StreamEvents
  BY <1>2, <1>5
<1>7. PICK h : h = Hidden(e)
  OBVIOUS
<1>8. h \in StreamEvents /\ h.type = e.type
  <2>1. e.text \in Seq(Letters)
    BY <1>6 DEF StreamEvents
  <2>2. redactText(e.text, hides) \in Seq(Letters)
    BY <2>1, <1>2, RedactTyped
  <2> QED BY <2>2, <1>6, <1>7 DEF Hidden, StreamEvents
<1>9. filter' = (IF stop THEN "refused" ELSE "running") /\ forwarded' = IF stop THEN forwarded ELSE Append(forwarded, h)
  BY <1>4, <1>7 DEF PassesOnUnless
<1>10. LevelsGood'
  BY <1>1 DEF PolicyInv, LevelsGood
<1>11. forwarded' \in Seq(StreamEvents) /\ received' \in 0 .. Len(produced)
  <2>1. Append(forwarded, h) \in Seq(StreamEvents)
    BY <1>2, <1>8
  <2> QED BY <2>1, <1>2, <1>9
<1>12. StreamTypes'
  BY <1>1, <1>9, <1>11 DEF PolicyInv, StreamTypes
<1>13. kind # ""
  BY DEF PolicyInv, Unstarted
<1>14. Unstarted'
  BY <1>1, <1>9, <1>13 DEF PolicyInv, Unstarted
<1>15. ProducerGood'
  <2>1. kind = "live" => Len(produced) <= received' + 1
    BY <1>2 DEF PolicyInv, ProducerGood
  <2> QED BY <2>1, <1>1 DEF PolicyInv, ProducerGood
<1>16. filter' # "ended" /\ filter' # ""
  BY <1>9
<1>17. hides' = hides /\ produced' = produced /\ effective' = effective /\ failed' = failed
  BY <1>1
<1>18. CASE stop
  <2>1. filter' = "refused" /\ forwarded' = forwarded
    BY <1>18, <1>9
  <2>2. Text' = Text
    BY <2>1 DEF Text
  <2>3. FilterGood'
    BY <2>1, <2>2, <1>2, <1>3, <1>17 DEF FilterGood, Hidden
  <2>4. NothingForbiddenPasses'
    BY <2>1, <2>2, <1>17 DEF PolicyInv, NothingForbiddenPasses
  <2>5. EndsWhole'
    BY <2>3, <1>16, <1>17 DEF PolicyInv, EndsWhole, FilterGood
  <2> QED BY <2>3, <2>4, <2>5, <1>10, <1>12, <1>14, <1>15 DEF PolicyInv
<1>19. CASE ~stop
  <2>1. filter' = "running" /\ forwarded' = Append(forwarded, h)
    BY <1>19, <1>9
  <2>2. Text' = accumulated'
    BY <2>1, <1>4, <1>7, <1>19 DEF Text
  <2>3. PICK n \in Nat : n = received /\ n = Len(forwarded)
    BY <1>2, <1>3
  <2>4. /\ Len(forwarded') = Len(forwarded) + 1 /\ forwarded'[Len(forwarded')] = h
        /\ DOMAIN forwarded' = 1 .. Len(forwarded) + 1 /\ DOMAIN forwarded = 1 .. Len(forwarded)
        /\ \A i \in 1 .. Len(forwarded) : forwarded'[i] = forwarded[i]
    BY <2>1, <1>2, <1>8, OneEventMore
  <2>5. /\ Len(forwarded') = n + 1 /\ forwarded'[n + 1] = h
        /\ DOMAIN forwarded' = 1 .. n + 1 /\ DOMAIN forwarded = 1 .. n
        /\ \A i \in 1 .. n : forwarded'[i] = forwarded[i]
    BY <2>3, <2>4
  <2>6. ASSUME NEW i \in 1 .. n + 1, i # n + 1 PROVE i \in 1 .. n
    BY <2>6
  <2>7. ASSUME NEW i \in DOMAIN forwarded' PROVE forwarded'[i] = Hidden(produced[i])
    <3>1. CASE i = n + 1
      BY <3>1, <2>3, <2>5, <1>5, <1>7
    <3>2. CASE i # n + 1
      BY <3>2, <2>5, <2>6, <2>7, <1>3
    <3> QED BY <3>1, <3>2
  <2>8. FilterGood'
    <3>1. Len(forwarded') <= received'
      BY <2>3, <2>5
    <3>2. Len(forwarded') = received'
      BY <2>3, <2>5
    <3>3. \A i \in DOMAIN forwarded' : forwarded'[i] = Hidden(produced[i])'
      BY <2>7, <1>17 DEF Hidden
    <3> QED BY <3>1, <3>2, <3>3, <2>2 DEF FilterGood
  <2>9. ASSUME NEW i \in DOMAIN forwarded', forwarded'[i].type = "completed"
        PROVE  ~ResponseRefused(effective, produced[i].text)
    <3>1. CASE i = n + 1
      BY <3>1, <2>3, <2>5, <2>9, <1>4, <1>5, <1>8, <1>19
    <3>2. CASE i # n + 1
      <4>1. i \in 1 .. n /\ forwarded'[i] = forwarded[i]
        BY <3>2, <2>5, <2>6, <2>9
      <4> QED BY <4>1, <2>5, <2>9 DEF PolicyInv, NothingForbiddenPasses
    <3> QED BY <3>1, <3>2
  <2>10. NothingForbiddenPasses'
    BY <2>2, <2>9, <1>17, <1>19 DEF NothingForbiddenPasses
  <2>11. EndsWhole'
    <3>1. failed' => \A i \in DOMAIN produced' : produced'[i].type # "completed"
      BY <1>17 DEF PolicyInv, EndsWhole
    <3> QED BY <3>1, <2>8, <1>16 DEF EndsWhole, FilterGood
  <2> QED BY <2>8, <2>10, <2>11, <1>10, <1>12, <1>14, <1>15 DEF PolicyInv
<1> QED BY <1>18, <1>19

\* A piece of text is checked together with all that has come before it.
LEMMA PolicyDeltaStep ==
  ASSUME PolicyInv, FilterDelta
  PROVE  PolicyInv'
<1>1. PICK e : e = NextEvent
  OBVIOUS
<1>2. PICK acc : acc = Accumulate(accumulated, Hidden(e).text)
  OBVIOUS
<1>3. PICK stop \in BOOLEAN :
        stop <=> checkBlockedContent(effective.rules, acc) \/ (effective.rules.max > 0 /\ Len(acc) > effective.rules.max)
  <2> DEFINE c == checkBlockedContent(effective.rules, acc) \/ (effective.rules.max > 0 /\ Len(acc) > effective.rules.max)
  <2>1. c = TRUE \/ c = FALSE
    BY DEF checkBlockedContent
  <2> QED BY <2>1
<1>4. /\ filter = "running" /\ received < Len(produced) /\ e.type = "delta" /\ received' = received + 1
      /\ FilterKeeps /\ accumulated' = acc
  BY <1>1, <1>2 DEF FilterDelta, Receives
<1>5. PassesOnUnless(stop)
  BY <1>1, <1>2, <1>3 DEF FilterDelta, PassesOnUnless
<1>6. /\ produced \in Seq(StreamEvents) /\ forwarded \in Seq(StreamEvents) /\ hides \in Seq(Words)
      /\ received \in Nat /\ Len(produced) \in Nat /\ accumulated \in Seq(Letters) /\ Text = accumulated
  <2>1. /\ produced \in Seq(StreamEvents) /\ forwarded \in Seq(StreamEvents) /\ hides \in Seq(Words)
        /\ accumulated \in Seq(Letters) /\ Text = accumulated
    BY <1>4 DEF PolicyInv, StreamTypes, FilterGood
  <2>2. received \in 0 .. Len(produced)
    BY DEF PolicyInv, StreamTypes
  <2>3. Len(produced) \in Nat
    BY <2>1
  <2> QED BY <2>1, <2>2, <2>3
<1>7. e \in StreamEvents
  BY <1>1, <1>4, <1>6 DEF NextEvent
<1>8. PICK h : h = Hidden(e)
  OBVIOUS
<1>9. h \in StreamEvents /\ h.type = "delta" /\ h.text \in Seq(Letters)
  <2>1. e.text \in Seq(Letters)
    BY <1>7 DEF StreamEvents
  <2>2. redactText(e.text, hides) \in Seq(Letters)
    BY <2>1, <1>6, RedactTyped
  <2> QED BY <2>2, <1>4, <1>7, <1>8 DEF Hidden, StreamEvents
<1>10. acc = accumulated \o h.text /\ acc \in Seq(Letters)
  BY <1>2, <1>6, <1>8, <1>9 DEF Accumulate
<1>11. TextOf(Append(forwarded, h)) = Text \o h.text
  BY <1>6, <1>9, TextOfAppend DEF Text
<1>12. effective.rules.max \in Int /\ Len(acc) \in Nat
  BY <1>10 DEF PolicyInv, LevelsGood, IsPolicy, PolicySet, GuardrailRuleSet
<1>13. ~stop => /\ accumulated' = TextOf(Append(forwarded, Hidden(NextEvent)))
                /\ ~checkBlockedContent(effective.rules, accumulated')
                /\ effective.rules.max > 0 => Len(accumulated') <= effective.rules.max
                /\ NextEvent.type = "completed" => ~ResponseRefused(effective, NextEvent.text)
  <2>1. accumulated' = TextOf(Append(forwarded, Hidden(NextEvent)))
    BY <1>1, <1>4, <1>6, <1>8, <1>10, <1>11
  <2>2. NextEvent.type # "completed"
    BY <1>1, <1>4
  <2>3. ASSUME ~stop PROVE ~checkBlockedContent(effective.rules, acc) /\ (effective.rules.max > 0 => Len(acc) <= effective.rules.max)
    BY <2>3, <1>3, <1>12
  <2> QED BY <2>1, <2>2, <2>3, <1>4
<1>14. accumulated' \in Seq(Letters)
  BY <1>4, <1>10
<1> QED BY <1>4, <1>5, <1>13, <1>14, PolicyPassStep

\* The completion adds nothing to the text, and its answer is checked by itself.
LEMMA PolicyCompletedStep ==
  ASSUME PolicyInv, FilterCompleted
  PROVE  PolicyInv'
<1>1. PICK e : e = NextEvent
  OBVIOUS
<1>3. PICK stop \in BOOLEAN : stop <=> ResponseRefused(effective, e.text)
  <2> DEFINE c == ResponseRefused(effective, e.text)
  <2>1. c = TRUE \/ c = FALSE
    BY DEF ResponseRefused
  <2> QED BY <2>1
<1>4. /\ filter = "running" /\ received < Len(produced) /\ e.type = "completed" /\ received' = received + 1
      /\ FilterKeeps /\ accumulated' = accumulated
  BY <1>1 DEF FilterCompleted, Receives
<1>5. PassesOnUnless(stop)
  BY <1>1, <1>3 DEF FilterCompleted, PassesOnUnless
<1>6. /\ produced \in Seq(StreamEvents) /\ forwarded \in Seq(StreamEvents) /\ hides \in Seq(Words)
      /\ received \in Nat /\ Len(produced) \in Nat /\ accumulated \in Seq(Letters) /\ Text = accumulated
  <2>1. /\ produced \in Seq(StreamEvents) /\ forwarded \in Seq(StreamEvents) /\ hides \in Seq(Words)
        /\ accumulated \in Seq(Letters) /\ Text = accumulated
    BY <1>4 DEF PolicyInv, StreamTypes, FilterGood
  <2>2. received \in 0 .. Len(produced)
    BY DEF PolicyInv, StreamTypes
  <2>3. Len(produced) \in Nat
    BY <2>1
  <2> QED BY <2>1, <2>2, <2>3
<1>7. e \in StreamEvents
  BY <1>1, <1>4, <1>6 DEF NextEvent
<1>8. PICK h : h = Hidden(e)
  OBVIOUS
<1>9. h \in StreamEvents /\ h.type = "completed"
  <2>1. e.text \in Seq(Letters)
    BY <1>7 DEF StreamEvents
  <2>2. redactText(e.text, hides) \in Seq(Letters)
    BY <2>1, <1>6, RedactTyped
  <2> QED BY <2>2, <1>4, <1>7, <1>8 DEF Hidden, StreamEvents
<1>10. TextOf(Append(forwarded, h)) = Text \o <<>>
  BY <1>6, <1>9, TextOfAppend DEF Text
<1>11. Text \o <<>> = accumulated
  BY <1>6
<1>12. ~checkBlockedContent(effective.rules, accumulated) /\ (effective.rules.max > 0 => Len(accumulated) <= effective.rules.max)
  BY <1>4, <1>6 DEF PolicyInv, NothingForbiddenPasses
<1>13. ~stop => /\ accumulated' = TextOf(Append(forwarded, Hidden(NextEvent)))
                /\ ~checkBlockedContent(effective.rules, accumulated')
                /\ effective.rules.max > 0 => Len(accumulated') <= effective.rules.max
                /\ NextEvent.type = "completed" => ~ResponseRefused(effective, NextEvent.text)
  BY <1>1, <1>3, <1>4, <1>8, <1>10, <1>11, <1>12
<1>14. accumulated' \in Seq(Letters)
  BY <1>4, <1>6
<1> QED BY <1>4, <1>5, <1>13, <1>14, PolicyPassStep

\* The filter returns: of its own only once all of a live stream was passed on.
LEMMA PolicyReturnStep ==
  ASSUME PolicyInv, NEW how \in {"ended", "failed", "left"}, FilterReturns(how),
         how = "ended" => ended /\ (kind = "live" /\ ~failed => received = Len(produced))
  PROVE  PolicyInv'
<1>1. /\ filter = "running" /\ filter' = how
      /\ UNCHANGED <<policies, effective, hides, kind, produced, ended, failed, received, accumulated, forwarded>>
  BY DEF FilterReturns, FilterKeeps
<1>2. LevelsGood' /\ ProducerGood'
  BY <1>1 DEF PolicyInv, LevelsGood, ProducerGood
<1>3. StreamTypes'
  BY <1>1 DEF PolicyInv, StreamTypes
<1>4. Unstarted'
  BY <1>1 DEF PolicyInv, Unstarted
<1>5. Text' = Text
  BY <1>1 DEF Text
<1>6. FilterGood' /\ NothingForbiddenPasses'
  BY <1>1, <1>5 DEF PolicyInv, FilterGood, NothingForbiddenPasses, Hidden
<1>7. EndsWhole'
  <2>1. filter' = "ended" /\ kind = "live" /\ ~failed
          => produced # <<>> /\ Len(forwarded) = Len(produced) /\ produced[Len(produced)].type = "completed"
    BY <1>1 DEF PolicyInv, FilterGood, ProducerGood
  <2>2. failed => \A i \in DOMAIN produced : produced[i].type # "completed"
    BY DEF PolicyInv, EndsWhole
  <2> QED BY <2>1, <2>2, <1>1, <1>6 DEF EndsWhole, FilterGood
<1> QED BY <1>2, <1>3, <1>4, <1>6, <1>7 DEF PolicyInv

LEMMA PolicyStep ==
  PolicyInv /\ [PolicyNext]_policyVars => PolicyInv'
<1> SUFFICES ASSUME PolicyInv, [PolicyNext]_policyVars PROVE PolicyInv'
  OBVIOUS
<1>1. CASE UNCHANGED policyVars
  <2>1. UNCHANGED <<policies, effective, hides, kind, produced, received, ended, failed, filter, accumulated, forwarded>>
    BY <1>1 DEF policyVars, streamState
  <2>2. Text' = Text
    BY <2>1 DEF Text
  <2>3. (LevelsGood /\ StreamTypes /\ Unstarted /\ ProducerGood)'
    BY <2>1 DEF PolicyInv, LevelsGood, StreamTypes, Unstarted, ProducerGood
  <2>4. (FilterGood /\ NothingForbiddenPasses /\ EndsWhole)'
    BY <2>1, <2>2 DEF PolicyInv, FilterGood, NothingForbiddenPasses, EndsWhole, Hidden
  <2> QED BY <2>3, <2>4 DEF PolicyInv
<1>2. ASSUME NEW level \in DOMAIN policies, NEW on \in BOOLEAN, NEW r \in RuleSets,
             EditPolicy(level, [set |-> TRUE, on |-> on, rules |-> r])
      PROVE  PolicyInv'
  BY <1>2, PolicyEditStep
<1>3. ASSUME NEW k \in {"live", "owned"}, CreateStream(k) PROVE PolicyInv'
  BY <1>3, PolicyCreateStep
<1>4. ASSUME NEW d \in Deltas, SendDelta(d) PROVE PolicyInv'
  BY <1>4, PolicySendStep
<1>5. ASSUME NEW said \in Answers, SendCompleted(said) PROVE PolicyInv'
  BY <1>5, PolicySendCompletedStep
<1>6. ASSUME NEW d \in Deltas \cup {<<>>}, SendOwned(d) PROVE PolicyInv'
  BY <1>6, PolicySendOwnedStep
<1>7. CASE SendError
  BY <1>7, PolicySendErrorStep
<1>8. CASE FilterDelta \/ FilterCompleted
  BY <1>8, PolicyDeltaStep, PolicyCompletedStep
<1>9. CASE FilterSeesError
  BY <1>9, PolicyReturnStep DEF FilterSeesError
<1>10. CASE FilterSeesEventsClosed
  BY <1>10, PolicyReturnStep DEF FilterSeesEventsClosed, AllReceived
<1>11. CASE FilterSeesErrorsClosed
  BY <1>11, PolicyReturnStep DEF FilterSeesErrorsClosed, ErrorsClosed, AllReceived
<1>12. CASE ReaderLeaves
  BY <1>12, PolicyReturnStep DEF ReaderLeaves
<1> QED BY <1>1, <1>2, <1>3, <1>4, <1>5, <1>6, <1>7, <1>8, <1>9, <1>10, <1>11, <1>12 DEF PolicyNext

LEMMA PolicyInvIsSound ==
  PolicyInv => PolicySound
<1> SUFFICES ASSUME PolicyInv PROVE PolicySound
  OBVIOUS
<1>1. EffectiveIsAllLevels
  BY AllLevelsBind DEF PolicyInv, LevelsGood
<1>2. PolicyTypeOK
  BY DEF PolicyTypeOK, PolicyInv, StreamTypes, ProducerGood, FilterGood, LevelsGood
<1> QED BY <1>1, <1>2 DEF PolicySound, PolicyInv

\* For any models, rules and answers, however administrators edit the policies of the three levels and however a
\* stream is cut: a request is refused exactly when some level forbids it (resolveEffectivePolicy, applyRequestPolicy),
\* what a client gets holds no blocked term and is not too long, the pieces and the answer of the completion alike,
\* whatever the terms to hide are; and a live stream that ends by itself was passed on whole unless its producer
\* failed, in which case no completion was sent (filterResponseStream).
THEOREM PolicyCorrect == PolicySpec => []PolicySound
BY PolicyInitially, PolicyStep, PolicyInvIsSound, PTL DEF PolicySpec

-----------------------------------------------------------------------------
(* MCRequestPath.                                                          *)

\* In a behaviour of the run each module does what it does alone, or nothing.
LEMMA PathImplements == PathSpec => CacheSpec /\ RecSpec
<1>1. PathInit => CacheInit /\ RecInit
  BY DEF PathInit
<1>2. [PathNext]_pathVars => [CacheNext]_cacheVars /\ [RecNext]_recVars
  BY DEF PathNext, pathVars
<1> QED BY <1>1, <1>2, PTL DEF PathSpec, CacheSpec, RecSpec

\* No step on a request's path answers from a row of the semantic cache that was switched off, but for
\* one that a concurrent count wrote back, and none blanks a stored request (semantic_cache.go,
\* responses.go UpdateResponse).
THEOREM PathStepsCorrect == PathSpec => PathSteps
<1>1. PathInit => CacheInv /\ RecInv
  BY CacheStarts, RecInitially DEF PathInit
<1>2. [PathNext]_pathVars => [CacheNext]_cacheVars /\ [RecNext]_recVars
  BY DEF PathNext, pathVars
<1>3. CacheInv /\ RecInv /\ [PathNext]_pathVars => (CacheInv /\ RecInv)'
  BY <1>2, CacheInductive, RecInductive
<1>4. UNCHANGED cacheVars => OffStaysOff
  BY DEF cacheVars, OffStaysOff
<1>5. RecInv /\ UNCHANGED recVars => RequestKept
  BY DEF recVars, RequestKept
<1>6. CacheInv /\ RecInv /\ [PathNext]_pathVars => [OffStaysOff /\ RequestKept]_pathVars
  BY <1>2, <1>4, <1>5, OffStaysOffStep, RequestKeptStep
<1> QED BY <1>1, <1>3, <1>6, PTL DEF PathSpec, PathSteps
=============================================================================

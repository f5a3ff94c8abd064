----------------------------- MODULE RateLimiter -----------------------------
(***************************************************************************)
(* The token buckets of internal/service/limiter between the requests that *)
(* pass the rate_limit filter (Allow, CheckTenant, CheckModel) and then    *)
(* the check of a candidate provider (Check), the consumer of the queue,   *)
(* Reload, and Stop.  One tenant, model, provider and API key.  Refills    *)
(* are lazy in the code: a bucket counts the time when it is next used.    *)
(* Here tokens come when the time passes, which no user can tell apart.    *)
(***************************************************************************)
EXTENDS Integers, Sequences, FiniteSets, Selections

CONSTANTS
    Callers,        \* requests
    Nobody,
    Confs,          \* configurations, the first of them the one at start
    FirstConf,
    TokenCost,      \* tokens a request asks for
    DisabledBurst,  \* burst of the global token bucket without globalTPM
    UserQPS,        \* QPS of the API key, 0 for the default
    QueueSize,
    MaxGen,         \* bound: buckets created for one key
    MaxEvents       \* bound: ticks, reloads, idle periods and failed scripts together

\* The limits of one scope in LimiterConfig; 0 and below: none.
Limits == [tpm : Int, tpmBurst : Int, qps : Int, qpsBurst : Int, rpm : Int, rpmBurst : Int]

ASSUME LimiterAssumption ==
    /\ IsFiniteSet(Callers) /\ Nobody \notin Callers
    /\ FirstConf \in Confs
    /\ \A c \in Confs : c \in [global : Limits, tenant : Limits, provider : Limits, model : Limits, userBurst : Int]
    /\ TokenCost \in Nat \ {0} /\ DisabledBurst \in Nat /\ UserQPS \in Int /\ QueueSize \in Nat \ {0}
    /\ MaxGen \in Nat \ {0} /\ MaxEvents \in Nat

VARIABLES
    rdb,        \* SetRedis was called at start
    conf,       \* l.cfg
    cur,        \* the bucket a key stands for, 0 if there is none
    bucketsMade,       \* buckets created for a key
    bucket,     \* all buckets, also those that Reload has replaced
    queue,
    consumer,   \* where consumeLoop is
    stopping,   \* stopCh is closed
    lpc, at,    \* where a request is, and at which dimension
    spec,       \* the limitSpecs it has built
    cancelled,  \* its context is done
    limAnswer,     \* what is in its Result channel
    drawn,      \* history: tokens it has taken from the global token bucket
    fills,      \* history: tokens that came to a key, the first burst included
    late,       \* history: requests queued after Stop
    events      \* how many ticks, reloads, idle periods and failed scripts there were

buckets == <<cur, bucketsMade, bucket, fills>>
caller  == <<lpc, at, spec, cancelled, limAnswer>>
limiterVars == <<rdb, conf, cur, bucketsMade, bucket, queue, consumer, stopping, lpc, at, spec,
                 cancelled, limAnswer, drawn, fills, late, events>>

-----------------------------------------------------------------------------
(* Limits of a configuration.                                               *)

perMinuteBurst(limit, configured) ==
    IF limit <= 0 THEN 0
    ELSE IF configured > 0 THEN configured
    ELSE IF limit \div 60 > 0 THEN limit \div 60 ELSE 1

tokenBurst(limit, configured, disabled) ==
    IF limit <= 0 THEN disabled ELSE perMinuteBurst(limit, configured)

requestLimit(c) ==
    [on |-> c.qps > 0 \/ c.rpm > 0,
     burst |-> IF c.qps > 0 THEN (IF c.qpsBurst > 0 THEN c.qpsBurst ELSE c.qps)
               ELSE perMinuteBurst(c.rpm, c.rpmBurst)]

UserLimit(c) ==
    LET rate == IF UserQPS > 0 THEN UserQPS ELSE c.global.qps
        burst == IF c.userBurst <= 0 THEN 100 ELSE c.userBurst
    IN  [on |-> rate > 0,
         burst |-> IF UserQPS > 0 /\ rate > 0 /\ burst > rate THEN rate ELSE burst]

\* A key is the kind of its Redis name, a scope and what is counted.
BucketKey(scope, metric) == <<"all", scope, metric>>
\* Allow and CheckTenant have names of their own in Redis and share the buckets
\* of Check in memory.
LegacyKey(scope, metric) == <<IF rdb THEN "legacy" ELSE "all", scope, metric>>

LimitOf(c, k) ==
    IF k[2] = "user" THEN UserLimit(c)
    ELSE CASE k[3] = "rpm" -> [on |-> c.global.rpm > 0,
                               burst |-> perMinuteBurst(c.global.rpm, c.global.rpmBurst)]
           [] k[3] = "qps" -> requestLimit(c[k[2]])
           [] k[3] = "tokens" ->
                [on |-> c[k[2]].tpm > 0,
                 burst |-> tokenBurst(c[k[2]].tpm, c[k[2]].tpmBurst,
                                      IF k[2] = "global" THEN DisabledBurst ELSE 0)]

Limited(c, k) == LimitOf(c, k).on /\ LimitOf(c, k).burst > 0

Consumes(k) == IF k[3] = "tokens" THEN TokenCost ELSE 1

GlobalKeys == {BucketKey("global", "tokens"), BucketKey("global", "qps"), BucketKey("global", "rpm")}

\* The keys that some configuration limits, and the buckets that always exist.
LimitKeys ==
    {k \in {"all", "legacy"} \X {"global", "tenant", "provider", "model"} \X {"tokens", "qps", "rpm"} :
        /\ k[3] = "rpm" => k[2] = "global"
        /\ \E c \in Confs : Limited(c, k)}
    \cup GlobalKeys \cup {BucketKey("user", "qps")}

\* The order in which buildLimitSpecs adds the dimensions, and localCheck locks.
Dimensions ==
    MembersIn(<< BucketKey("global", "tokens"), BucketKey("global", "qps"), BucketKey("tenant", "tokens"),
                 BucketKey("tenant", "qps"), BucketKey("provider", "tokens"), BucketKey("provider", "qps"),
                 BucketKey("model", "tokens"), BucketKey("model", "qps") >>, LimitKeys)

\* CheckTenant and CheckModel of the filter.
LegacyDimensions ==
    MembersIn(<< LegacyKey("tenant", "tokens"), LegacyKey("tenant", "qps"),
                 LegacyKey("model", "tokens"), LegacyKey("model", "qps") >>, LimitKeys)

-----------------------------------------------------------------------------
(* Buckets.                                                                 *)

FullBucket(c, k) == [tokens |-> LimitOf(c, k).burst, burst |-> LimitOf(c, k).burst,
                on |-> LimitOf(c, k).on, lock |-> Nobody]
NoBucket == [tokens |-> 0, burst |-> 0, on |-> FALSE, lock |-> Nobody]

Now(k) == bucket[k][cur[k]]

\* Key k has a bucket with the limits of conf: the bucket it has, or a new one.
Created(k) ==
    /\ cur' = [cur EXCEPT ![k] = bucketsMade[k] + 1]
    /\ bucketsMade' = [bucketsMade EXCEPT ![k] = @ + 1]
    /\ fills' = [fills EXCEPT ![k] = @ + LimitOf(conf, k).burst]

\* TryConsume, the scripts, and localCheck.
Enough(tokens, n) == tokens >= n

\* The scripts get the burst of the configuration, a bucket in memory has its own.
InRedis(k) == rdb /\ k[2] # "user"
WithBurst(b, k, burst) ==
    IF InRedis(k) THEN [b EXCEPT !.burst = burst, !.tokens = IF @ > burst THEN burst ELSE @]
    ELSE b

\* TryConsume of n from the bucket of k, which is created when it is missing or,
\* for the user's, when its limits have changed.  ok tells the outcome.
TryConsume(k, n, ok) ==
    LET new == \/ cur[k] = 0
               \/ k[2] = "user" /\ <<Now(k).on, Now(k).burst>>
                                    # <<LimitOf(conf, k).on, LimitOf(conf, k).burst>>
        g == IF new THEN bucketsMade[k] + 1 ELSE cur[k]
        b == IF new THEN FullBucket(conf, k) ELSE WithBurst(Now(k), k, LimitOf(conf, k).burst)
    IN  /\ b.lock = Nobody
        /\ g <= MaxGen
        /\ IF new THEN Created(k) ELSE UNCHANGED <<cur, bucketsMade, fills>>
        /\ ok = Enough(b.tokens, n)
        /\ bucket' = [bucket EXCEPT ![k][g] =
                         [b EXCEPT !.tokens = IF ok THEN @ - n ELSE @]]

Draws(r, k, ok) ==
    drawn' = [drawn EXCEPT ![r] = IF ok /\ k[2] = "global" /\ k[3] = "tokens"
                                  THEN @ + TokenCost ELSE @]

Event == events < MaxEvents /\ events' = events + 1

\* check takes from the buckets in memory also if their rate is zero.
AlwaysTaken(k) == ~InRedis(k) /\ k[2] \in {"global", "user"}

\* A limit that is off is skipped by redisTryConsume and bucketMap.tryConsume, and a
\* failed script lets the request pass.
Skipped(k) ==
    \/ ~Limited(conf, k) /\ ~AlwaysTaken(k) /\ UNCHANGED events
    \/ Limited(conf, k) /\ InRedis(k) /\ Event

\* One dimension of the legacy checks.
Consume(r, k, ok) ==
    \/ Skipped(k) /\ ok = TRUE /\ UNCHANGED <<buckets, drawn>>
    \/ /\ Limited(conf, k) \/ AlwaysTaken(k)
       /\ TryConsume(k, Consumes(k), ok)
       /\ Draws(r, k, ok)
       /\ UNCHANGED events

-----------------------------------------------------------------------------
(* Allow and the consumer of the queue.                                     *)

LimiterInit ==
    /\ rdb \in BOOLEAN
    /\ conf = FirstConf
    /\ cur = [k \in LimitKeys |-> IF k \in GlobalKeys THEN 1 ELSE 0]
    /\ bucketsMade = cur
    /\ bucket = [k \in LimitKeys |-> [g \in 1..MaxGen |->
                    IF k \in GlobalKeys /\ g = 1 THEN FullBucket(conf, k) ELSE NoBucket]]
    /\ queue = <<>>
    /\ consumer = [state |-> "select", req |-> Nobody]
    /\ stopping = FALSE
    /\ lpc = [r \in Callers |-> "start"]
    /\ at = [r \in Callers |-> 1]
    /\ spec = [r \in Callers |-> <<>>]
    /\ cancelled = [r \in Callers |-> FALSE]
    /\ limAnswer = [r \in Callers |-> "none"]
    /\ drawn = [r \in Callers |-> 0]
    /\ fills = [k \in LimitKeys |-> IF k \in GlobalKeys THEN LimitOf(conf, k).burst ELSE 0]
    /\ events = 0
    /\ late = {}

MoveTo(r, where) ==
    /\ lpc' = [lpc EXCEPT ![r] = where]
    /\ at' = [at EXCEPT ![r] = 1]

Allow(r) ==
    /\ lpc[r] = "start"
    /\ Len(queue) < QueueSize
    /\ queue' = Append(queue, r)
    /\ late' = IF stopping THEN late \cup {r} ELSE late
    /\ MoveTo(r, "wait")
    /\ UNCHANGED <<rdb, conf, buckets, consumer, stopping, spec, cancelled, limAnswer, drawn, events>>

AllowReturns(r) ==
    /\ lpc[r] = "wait"
    /\ limAnswer[r] # "none"
    /\ MoveTo(r, IF limAnswer[r] # "yes" THEN "refused" ELSE IF LegacyDimensions = <<>> THEN "specs" ELSE "legacy")
    /\ limAnswer' = [limAnswer EXCEPT ![r] = "none"]
    /\ UNCHANGED <<rdb, conf, buckets, queue, consumer, stopping, spec, cancelled, drawn, late, events>>

\* The context ends before the request is queued.
AllowCancelled(r) ==
    /\ lpc[r] = "start"
    /\ MoveTo(r, "refused")
    /\ UNCHANGED <<rdb, conf, buckets, queue, consumer, stopping, spec, cancelled, limAnswer, drawn, late, events>>

\* The context ends while the request waits for its answer.
ContextDone(r) ==
    /\ lpc[r] = "wait"
    /\ cancelled' = [cancelled EXCEPT ![r] = TRUE]
    /\ MoveTo(r, "refused")
    /\ UNCHANGED <<rdb, conf, buckets, queue, consumer, stopping, spec, limAnswer, drawn, late, events>>

Answered(r, yes) == limAnswer' = [limAnswer EXCEPT ![r] = IF yes THEN "yes" ELSE "no"]

TakeRequest ==
    /\ consumer.state = "select"
    /\ queue # <<>>
    /\ queue' = Tail(queue)
    /\ IF cancelled[Head(queue)]
       THEN Answered(Head(queue), FALSE) /\ UNCHANGED consumer
       ELSE consumer' = [state |-> "tokens", req |-> Head(queue)] /\ UNCHANGED limAnswer
    /\ UNCHANGED <<rdb, conf, buckets, stopping, lpc, at, spec, cancelled, drawn, late, events>>

\* check: the global tokens, the global RPM, then the user's bucket, one by one.
CheckedNext ==
    CASE consumer.state = "tokens" -> IF conf.global.rpm > 0 THEN "rpm" ELSE "user"
      [] consumer.state = "rpm" -> "user"
      [] consumer.state = "user" -> "select"

CheckedKey ==
    CASE consumer.state = "tokens" -> LegacyKey("global", "tokens")
      [] consumer.state = "rpm" -> LegacyKey("global", "rpm")
      [] consumer.state = "user" -> BucketKey("user", "qps")

CheckStep ==
    /\ consumer.state \in {"tokens", "rpm", "user"}
    /\ \E ok \in BOOLEAN :
          /\ Consume(consumer.req, CheckedKey, ok)
          /\ IF ok /\ CheckedNext # "select"
             THEN consumer' = [consumer EXCEPT !.state = CheckedNext] /\ UNCHANGED limAnswer
             ELSE /\ consumer' = [state |-> "select", req |-> Nobody]
                  /\ Answered(consumer.req, ok)
    /\ UNCHANGED <<rdb, conf, queue, stopping, lpc, at, spec, cancelled, late>>

Stop ==
    /\ ~stopping
    /\ stopping' = TRUE
    /\ UNCHANGED <<rdb, conf, buckets, queue, consumer, caller, drawn, late, events>>

SeeStop ==
    /\ consumer.state = "select"
    /\ stopping
    /\ consumer' = [consumer EXCEPT !.state = "drain"]
    /\ UNCHANGED <<rdb, conf, buckets, queue, stopping, caller, drawn, late, events>>

\* The drain ends when the queue has nothing to take.
DrainedEmpty == queue = <<>>

DrainQueue ==
    /\ consumer.state = "drain"
    /\ IF DrainedEmpty
       THEN consumer' = [consumer EXCEPT !.state = "done"] /\ UNCHANGED <<queue, limAnswer>>
       ELSE queue' = Tail(queue) /\ Answered(Head(queue), FALSE) /\ UNCHANGED consumer
    /\ UNCHANGED <<rdb, conf, buckets, stopping, lpc, at, spec, cancelled, drawn, late, events>>

-----------------------------------------------------------------------------
(* CheckTenant and CheckModel of the filter, and Check of a candidate.      *)

LegacyCheck(r) ==
    /\ lpc[r] = "legacy"
    /\ \E ok \in BOOLEAN :
          /\ Consume(r, LegacyDimensions[at[r]], ok)
          /\ IF ~ok THEN MoveTo(r, "refused")
             ELSE IF at[r] = Len(LegacyDimensions) THEN MoveTo(r, "specs")
             ELSE at' = [at EXCEPT ![r] = @ + 1] /\ UNCHANGED lpc
    /\ UNCHANGED <<rdb, conf, queue, consumer, stopping, spec, cancelled, limAnswer, late>>

\* buildLimitSpecs reads the configuration and the buckets dimension by dimension,
\* without a lock.  A request whose context is done is refused first.
CheckCancelled(r) ==
    /\ lpc[r] = "specs" /\ at[r] = 1
    /\ MoveTo(r, "refused")
    /\ UNCHANGED <<rdb, conf, buckets, queue, consumer, stopping, spec, cancelled, limAnswer, drawn, late, events>>

buildLimitSpecs(r) ==
    LET k == Dimensions[at[r]]
        g == IF cur[k] = 0 THEN bucketsMade[k] + 1 ELSE cur[k]
    IN  /\ lpc[r] = "specs"
        /\ IF ~Limited(conf, k) THEN UNCHANGED <<spec, buckets>>
           ELSE /\ g <= MaxGen
                /\ spec' = [spec EXCEPT ![r] = Append(@, [key |-> k, gen |-> g,
                                                          burst |-> LimitOf(conf, k).burst])]
                /\ IF cur[k] = 0
                   THEN Created(k) /\ bucket' = [bucket EXCEPT ![k][g] = FullBucket(conf, k)]
                   ELSE UNCHANGED buckets
        /\ IF at[r] < Len(Dimensions)
           THEN at' = [at EXCEPT ![r] = @ + 1] /\ UNCHANGED lpc
           ELSE MoveTo(r, IF spec'[r] = <<>> THEN "admitted" ELSE IF rdb THEN "script" ELSE "lock")
        /\ UNCHANGED <<rdb, conf, queue, consumer, stopping, cancelled, limAnswer, drawn, late, events>>

\* Mutant: every second request locks its buckets in the opposite order.
LockTarget_AnyOrder(r) ==
    IF r = CHOOSE x \in Callers : TRUE THEN at[r] ELSE Len(spec[r]) + 1 - at[r]
\* localCheck locks the buckets in the order of the specs.
LockTarget(r) == at[r]

LockBucket(r) ==
    LET s == spec[r][LockTarget(r)] IN
    /\ lpc[r] = "lock"
    /\ bucket[s.key][s.gen].lock = Nobody
    /\ bucket' = [bucket EXCEPT ![s.key][s.gen].lock = r]
    /\ IF at[r] = Len(spec[r]) THEN MoveTo(r, "decide")
       ELSE at' = [at EXCEPT ![r] = @ + 1] /\ UNCHANGED lpc
    /\ UNCHANGED <<rdb, conf, cur, bucketsMade, fills, queue, consumer, stopping, spec, cancelled,
                   limAnswer, drawn, late, events>>

Specs(r) == {spec[r][i] : i \in 1..Len(spec[r])}

\* All specs are looked at before any token is taken.
Fit(r) ==
    \A s \in Specs(r) :
       Enough(WithBurst(bucket[s.key][s.gen], s.key, s.burst).tokens, Consumes(s.key))

\* The buckets of the specs after the decision, unlocked.
After(r, ok) ==
    [k \in LimitKeys |-> [g \in 1..MaxGen |->
       LET own == {s \in Specs(r) : s.key = k /\ s.gen = g}
           b == IF ok THEN WithBurst(bucket[k][g], k, (CHOOSE s \in own : TRUE).burst)
                ELSE bucket[k][g]
       IN  IF own = {} THEN bucket[k][g]
           ELSE [b EXCEPT !.lock = Nobody, !.tokens = IF ok THEN @ - Consumes(k) ELSE @]]]

\* The decision of localCheck and of multiBucketLua; the context may have ended.
Decide(r) ==
    /\ lpc[r] \in {"decide", "script"}
    /\ \E ok \in {Fit(r), FALSE} :
        /\ MoveTo(r, IF ok THEN "admitted" ELSE "refused")
        /\ bucket' = After(r, ok)
        /\ spec' = [spec EXCEPT ![r] = <<>>]
        /\ Draws(r, BucketKey("global", "tokens"), ok /\ \E s \in Specs(r) : s.key = BucketKey("global", "tokens"))
        /\ UNCHANGED <<rdb, conf, cur, bucketsMade, fills, queue, consumer, stopping, cancelled,
                       limAnswer, late, events>>

\* multiBucketLua fails, and the request is refused.
ScriptFails(r) ==
    /\ lpc[r] = "script"
    /\ Event
    /\ MoveTo(r, "refused")
    /\ spec' = [spec EXCEPT ![r] = <<>>]
    /\ UNCHANGED <<rdb, conf, buckets, queue, consumer, stopping, cancelled, limAnswer, drawn, late>>

-----------------------------------------------------------------------------
(* Time and administration.                                                 *)

\* Time passes, enough for a token of every limit that has a rate.
LimiterTick ==
    LET more == {k \in LimitKeys : cur[k] # 0 /\ Now(k).on /\ Now(k).tokens < Now(k).burst}
    IN  /\ more # {}
        /\ Event
        /\ bucket' = [k \in LimitKeys |->
                         IF k \in more THEN [bucket[k] EXCEPT ![cur[k]].tokens = @ + 1] ELSE bucket[k]]
        /\ fills' = [k \in LimitKeys |-> IF k \in more THEN fills[k] + 1 ELSE fills[k]]
        /\ UNCHANGED <<rdb, conf, cur, bucketsMade, queue, consumer, stopping, caller, drawn, late>>

\* Nobody comes for ten minutes: refillLoop drops the buckets of users, tenants,
\* providers and models, and Redis, after two minutes, all of them.
IdleExpires ==
    LET idle == {k \in LimitKeys : cur[k] # 0 /\ (rdb \/ k \notin GlobalKeys)}
    IN  /\ idle # {}
        /\ Event
        /\ \A r \in Callers : lpc[r] \in {"start", "admitted", "refused"}
        /\ \A k \in idle : bucketsMade[k] < MaxGen
        /\ cur' = [k \in LimitKeys |-> IF k \in idle THEN 0 ELSE cur[k]]
        /\ UNCHANGED <<rdb, conf, bucketsMade, bucket, fills, queue, consumer, stopping, caller, drawn,
                       late>>

\* Reload: the configuration, the global buckets and the users' are new; the buckets
\* of tenants, providers and models stay as they are, and so does Redis.
Reload ==
    \E c \in Confs \ {conf} :
       LET anew == IF rdb THEN {} ELSE GlobalKeys
       IN /\ Event
          /\ \A k \in anew : bucketsMade[k] < MaxGen
          /\ conf' = c
          /\ cur' = [k \in LimitKeys |-> IF k \in anew THEN bucketsMade[k] + 1
                                         ELSE IF k = BucketKey("user", "qps") THEN 0 ELSE cur[k]]
          /\ bucketsMade' = [k \in LimitKeys |-> IF k \in anew THEN bucketsMade[k] + 1 ELSE bucketsMade[k]]
          /\ bucket' = [k \in LimitKeys |->
                           IF k \in anew THEN [bucket[k] EXCEPT ![bucketsMade[k] + 1] = FullBucket(c, k)]
                           ELSE bucket[k]]
          /\ fills' = [k \in LimitKeys |-> IF k \in anew THEN fills[k] + LimitOf(c, k).burst
                                           ELSE fills[k]]
          /\ UNCHANGED <<rdb, queue, consumer, stopping, caller, drawn, late>>

-----------------------------------------------------------------------------
Consumer == TakeRequest \/ CheckStep \/ SeeStop \/ DrainQueue

Caller(r) ==
    \/ Allow(r) \/ AllowReturns(r) \/ LegacyCheck(r) \/ buildLimitSpecs(r)
    \/ LockBucket(r) \/ Decide(r)

LimiterNext ==
    \/ Consumer
    \/ \E r \in Callers : Caller(r) \/ AllowCancelled(r) \/ ContextDone(r)
                             \/ CheckCancelled(r) \/ ScriptFails(r)
    \/ LimiterTick
    \/ IdleExpires
    \/ Stop
    \/ Reload

LimiterSpec == LimiterInit /\ [][LimiterNext]_limiterVars

-----------------------------------------------------------------------------
(* Properties.                                                              *)

\* Type invariant.
LimiterTypeOK ==
    /\ rdb \in BOOLEAN /\ conf \in Confs /\ stopping \in BOOLEAN
    /\ cur \in [LimitKeys -> 0..MaxGen] /\ bucketsMade \in [LimitKeys -> 0..MaxGen]
    /\ bucket \in [LimitKeys -> [1..MaxGen -> [tokens : Nat, burst : Nat, on : BOOLEAN,
                                               lock : Callers \cup {Nobody}]]]
    /\ queue \in Seq(Callers)
    /\ consumer \in [state : {"select", "tokens", "rpm", "user", "drain", "done"},
                      req : Callers \cup {Nobody}]
    /\ lpc \in [Callers -> {"start", "wait", "legacy", "specs", "lock", "script", "decide",
                            "admitted", "refused"}]
    /\ at \in [Callers -> 1..8]
    /\ spec \in [Callers -> Seq([key : LimitKeys, gen : 1..MaxGen, burst : Nat])]
    /\ cancelled \in [Callers -> BOOLEAN] /\ limAnswer \in [Callers -> {"none", "yes", "no"}]
    /\ drawn \in [Callers -> Nat] /\ fills \in [LimitKeys -> Nat]
    /\ events \in 0..MaxEvents /\ late \subseteq Callers

\* Check: however requests, refills, expiry and Reload interleave, the requests it
\* admits have each taken their share from every dimension that is limited: what they
\* ask for together is no more than the bursts and the refills there were.
AdmittedWasPaid ==
    \A i \in 1..Len(Dimensions) :
       (\A c \in Confs : Limited(c, Dimensions[i])) =>
          Cardinality({r \in Callers : lpc[r] = "admitted"}) * Consumes(Dimensions[i])
             <= fills[Dimensions[i]]

\* consumeLoop and Stop: when the consumer has returned, a caller still waiting came
\* after Stop; whoever was queued before it has an answer.
StopAnswersQueued ==
    consumer.state = "done" =>
       \A r \in Callers : lpc[r] = "wait" /\ limAnswer[r] = "none" => r \in late

\* localCheck: requests that lock the same buckets do not all wait for each other.
SomeoneProceeds ==
    (\E r \in Callers : lpc[r] = "lock") =>
       \E r \in Callers :
          \/ lpc[r] = "decide"
          \/ /\ lpc[r] = "lock"
             /\ LET s == spec[r][LockTarget(r)] IN bucket[s.key][s.gen].lock = Nobody

\* admission.go, of WithAdmissionChecked: it "prevents double-consuming token buckets".
\* A request that the filter has admitted does not pay for its tokens again.
TokensTakenOnce == \A r \in Callers : drawn[r] <= TokenCost

\* The limiter as its callers see it (Check, consumeLoop, Stop): whoever is admitted has paid in
\* every limited dimension, whoever is queued when it stops has an answer, and the locks of
\* the buckets never make everyone wait.
LimiterSound == LimiterTypeOK /\ AdmittedWasPaid /\ StopAnswersQueued /\ SomeoneProceeds
=============================================================================

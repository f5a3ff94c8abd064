---------------------------- MODULE MCRequestPath ----------------------------
(***************************************************************************)
(* Small instances of the modules a request passes, checked in one run.     *)
(* They share no state: in a behaviour one of them, part, moves and the     *)
(* others keep an initial state, so that the states are those of each       *)
(* module alone, one after the other.                                      *)
(***************************************************************************)
EXTENDS RateLimiter, SyncResponses, ResponseCache, CandidateRouting, ServicePolicy, StreamEncoding,
        InferenceOrchestrator, ResponseRecords, WasmPool, TLC

CONSTANT i1

CONSTANT Troubled     \* the request of Create whose client may leave or whose writes may fail

VARIABLE part

\* Two configurations of the limiter: a global budget of tokens, and one that a reload
\* brings, with a limit of requests per minute and a smaller burst.
Unlimited == [tpm |-> 0, tpmBurst |-> 0, qps |-> 0, qpsBurst |-> 0, rpm |-> 0, rpmBurst |-> 0]
Limits1 == [global |-> [Unlimited EXCEPT !.tpm = 60, !.tpmBurst = 3], tenant |-> [Unlimited EXCEPT !.qps = 2],
            provider |-> Unlimited, model |-> Unlimited, userBurst |-> 2]
Limits2 == [global |-> [Unlimited EXCEPT !.tpm = 60, !.tpmBurst = 2, !.rpm = 30],
            tenant |-> [Unlimited EXCEPT !.qps = 2, !.qpsBurst = 1],
            provider |-> Unlimited, model |-> Unlimited, userBurst |-> 0]
TheLimits == {Limits1, Limits2}

\* Prompts of two tenants, one with a project; 2 is similar to 1 and to 3.
Asked == {[who |-> <<"t", "b">>, prompt |-> 1], [who |-> <<"t", "">>, prompt |-> 2], [who |-> <<"t", "">>, prompt |-> 3],
          [who |-> <<"u", "">>, prompt |-> 2]}

\* Three providers, two of them with one model; each world sets one part of the router
\* to work: rotation, pins, sorting with hints and loads, models with rules and plugins.
RouteProviders == <<"a", "b", "c">>
RouteNames == {"a", "b", "c"}
RouteWeight == [a |-> 2, b |-> 1, c |-> 1]
RouteModel == [a |-> "m", b |-> "n", c |-> "m"]
RouteCost == [a |-> 2, b |-> 1, c |-> 1]
RouteLatency == [a |-> 1, b |-> 3, c |-> 2]
RouteAlias == [a |-> "m", b |-> "", c |-> ""]
RouteHash == [s |-> 3, t |-> 5] @@ ("" :> 0)
Well == [instance |-> TRUE, enabled |-> TRUE, drain |-> FALSE, health |-> "healthy", supports |-> {"tools"}]
AllWell == [p \in RouteNames |-> Well]
SomeDrained == [RouteNames -> {Well, [Well EXCEPT !.drain = TRUE]}]
SomeIll ==
    { AllWell, [AllWell EXCEPT !["a"].enabled = FALSE], [AllWell EXCEPT !["c"].instance = FALSE],
      [p \in RouteNames |-> IF p = "b" THEN [Well EXCEPT !.supports = {}] ELSE [Well EXCEPT !.health = "unhealthy"]] }
Ask == [model |-> "", session |-> "", text |-> FALSE, needs |-> {}, scope |-> RouteNames, preferred |-> "", hint |-> ""]
Router(strategy) == [strategy |-> strategy, affinity |-> FALSE, rule |-> [on |-> FALSE, tools |-> FALSE, providers |-> {}]]
RouteWorlds ==
    { [confs |-> {Router("round_robin")}, reqs |-> {[Ask EXCEPT !.text = TRUE]}, recs |-> SomeDrained, loads |-> {},
       maxClock |-> 0, maxAnswers |-> 0, plugins |-> {<<>>}],
      [confs |-> {Router("cost_based"), [Router("sticky") EXCEPT !.affinity = TRUE]},
       reqs |-> {[Ask EXCEPT !.session = "s", !.text = TRUE, !.hint = h] : h \in {"session", "prefix"}},
       recs |-> SomeIll, loads |-> {}, maxClock |-> 2, maxAnswers |-> 0, plugins |-> {<<>>}],
      [confs |-> {Router("least_load")},
       reqs |-> {[Ask EXCEPT !.hint = h] : h \in {"", "fast", "cheap", "tpm", "p2c", "kv_cache", "random"}},
       recs |-> {AllWell}, loads |-> {-1, 0, 1}, maxClock |-> 0, maxAnswers |-> 1, plugins |-> {<<>>}],
      [confs |-> {[Router("") EXCEPT !.rule = [on |-> TRUE, tools |-> TRUE, providers |-> {"a", "b"}]]},
       reqs |-> {[Ask EXCEPT !.model = m, !.needs = n, !.preferred = q] :
                    m \in {"", "m", "alias", "z"}, n \in {{}, {"tools"}}, q \in {"", "b"}},
       recs |-> SomeIll, loads |-> {}, maxClock |-> 0, maxAnswers |-> 0, plugins |-> {<<>>, <<"c", "z">>, <<"b", "b">>}] }

\* Policies of a level, and the pieces a model answers with.
SetRules == [NoRules EXCEPT !.set = TRUE]
PolicyRules ==
    { NoRules, SetRules, [SetRules EXCEPT !.allow = {<<"m1">>}], [SetRules EXCEPT !.allow = {<<"m2">>}, !.max = 3],
      [SetRules EXCEPT !.allow = {<<"m1">>, <<"m2">>}, !.block = {<<"m1">>}], [SetRules EXCEPT !.allow = {Blank}],
      [SetRules EXCEPT !.terms = {<<"a", "b">>}], [SetRules EXCEPT !.redact = {<<"b">>}],
      [SetRules EXCEPT !.redact = {<<"a", "b">>, <<"b", "a">>}],
      [SetRules EXCEPT !.redact = {<<"c">>}, !.terms = {<<"c", "a">>}, !.max = 2] }
PolicyDeltas == {<<"b">>, <<"c", "a">>, <<"a", "b">>}
PolicyModels == {<<"m1">>, <<"m2">>}

\* What redactText finds by positions is what a reading from left to right replaces, and of two terms, whatever
\* they share, none is left.
LeftToRight(text, term) ==
    LET from[i \in 1 .. Len(text) + Len(term) + 1] ==
            IF i > Len(text) THEN <<>>
            ELSE IF i + Len(term) - 1 <= Len(text) /\ SubSeq(text, i, i + Len(term) - 1) = term
                 THEN <<"R", "R">> \o from[i + Len(term)] ELSE <<text[i]>> \o from[i + 1]
    IN  from[1]
ShortTexts(lengths) == UNION {[1 .. n -> {"a", "b"}] : n \in lengths}
ASSUME RedactHides ==
    \A text \in ShortTexts(0 .. 5), x \in ShortTexts(1 .. 3), y \in ShortTexts(1 .. 3) :
        /\ replaceAll(text, x) = LeftToRight(text, x)
        /\ \A term \in {x, y} : ~Occurs(term, redactText(text, <<x, y>>))

Parts == {"limiter", "sync", "cache", "routing", "policy", "encoding", "orchestrator", "records", "wasm"}

PathInit ==
    /\ part \in Parts
    /\ LimiterInit /\ (part # "limiter" => ~rdb)
    /\ SrInit
    /\ CacheInit   /\ (part # "cache" => driver = CHOOSE d \in Drivers : TRUE)
    /\ RoutingInit /\ (part # "routing" => routerCfg = Router("round_robin"))
    /\ PolicyInit
    /\ EncInit     /\ (part # "encoding" => upstream = "chat" /\ surface = "chat")
    /\ OrcInit     /\ (part # "orchestrator" => flow = "create")
    /\ RecInit     /\ (part # "records" => recDriver = "sqlite" /\ ~durable)
    /\ PoolInit    /\ pool = <<i1>>    \* instances are interchangeable
                   /\ IF part = "wasm" THEN Cardinality({wants[c] : c \in WasmCalls}) = 2
                      ELSE host = "filter" /\ wants = [c \in WasmCalls |-> "allow"]

\* Bounds on what comes together.  Create: one trouble of one request, and then the
\* others do not fall back or call tools.  The caches: a failure among two requests; the
\* first is of the tenant with several prompts, and the last reads the caches.  The hosts of
\* WASM other than filters: one call.  Streams: under policies of the project and the service
\* that are switched on, since a filter sees what the levels merge to, and not where it was set.
SrFewTroubles ==
    /\ gone' \cup torn' \subseteq {Troubled} /\ Cardinality(gone') + srFaults' <= 1
    /\ gone' # {} \/ srFaults' > 0 => \A q \in Reqs \ {Troubled} : sr'[q].at = 1 /\ sr'[q].rounds = 0
CacheFewTroubles ==
    /\ cacheFaults' > 0 => ask'[MaxAsks].pc = "idle"
    /\ ask'[1].pc \in {"semantic", "skipped"} => ask'[1].q.who[1] = "t"
    /\ ask'[MaxAsks].pc # "skipped"
PolicyFewStreams ==
    kind' # "" => policies["tenant"] = NoPolicy /\ \A l \in DOMAIN policies : policies[l].on = policies[l].set
WasmFewCalls == host = "filter" \/ \E c \in WasmCalls : callAt'[c] = "start"

PathNext ==
    \/ /\ part = "limiter" /\ LimiterNext
       /\ UNCHANGED <<part, srVars, cacheVars, routeVars, policyVars, encVars, orcVars, recVars, poolVars>>
    \/ /\ part = "sync" /\ SrNext /\ SrFewTroubles
       /\ UNCHANGED <<part, limiterVars, cacheVars, routeVars, policyVars, encVars, orcVars, recVars, poolVars>>
    \/ /\ part = "cache" /\ CacheNext /\ CacheFewTroubles
       /\ UNCHANGED <<part, limiterVars, srVars, routeVars, policyVars, encVars, orcVars, recVars, poolVars>>
    \/ /\ part = "routing" /\ RoutingNext
       /\ UNCHANGED <<part, limiterVars, srVars, cacheVars, policyVars, encVars, orcVars, recVars, poolVars>>
    \/ /\ part = "policy" /\ PolicyNext /\ PolicyFewStreams
       /\ UNCHANGED <<part, limiterVars, srVars, cacheVars, routeVars, encVars, orcVars, recVars, poolVars>>
    \/ /\ part = "encoding" /\ EncNext
       /\ UNCHANGED <<part, limiterVars, srVars, cacheVars, routeVars, policyVars, orcVars, recVars, poolVars>>
    \/ /\ part = "orchestrator" /\ OrcNext
       /\ UNCHANGED <<part, limiterVars, srVars, cacheVars, routeVars, policyVars, encVars, recVars, poolVars>>
    \/ /\ part = "records" /\ RecNext
       /\ UNCHANGED <<part, limiterVars, srVars, cacheVars, routeVars, policyVars, encVars, orcVars, poolVars>>
    \/ /\ part = "wasm" /\ PoolNext /\ WasmFewCalls
       /\ UNCHANGED <<part, limiterVars, srVars, cacheVars, routeVars, policyVars, encVars, orcVars, recVars>>

pathVars == <<part, limiterVars, srVars, cacheVars, routeVars, policyVars, encVars, orcVars, recVars, poolVars>>

PathSpec == PathInit /\ [][PathNext]_pathVars

-----------------------------------------------------------------------------
\* What no step on a request's path does: answer from a row of the semantic cache that was
\* switched off, or blank a stored request (semantic_cache.go, responses.go UpdateResponse).
PathSteps == [][OffStaysOff /\ RequestKept]_pathVars
=============================================================================

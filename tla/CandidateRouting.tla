-------------------------- MODULE CandidateRouting --------------------------
(***************************************************************************)
(* How the providers that may answer a request are found and put in order:  *)
(* planCandidates filters the tenant's providers, the Router applies its    *)
(* rule, the escape for a model asked for by name, affinity and strategy,   *)
(* and a router plugin may have the last word.  Plans and the promotions of *)
(* the providers that answered interleave with reloads, scrapes and time.   *)
(***************************************************************************)
EXTENDS Integers, Sequences, FiniteSets, SequencesExt

CONSTANTS
    ProvSeq,      \* the providers of the tenant in the order of the list
    Weight, ModelOf, UnitCost, LatencyOf,   \* of each provider
    AliasOf,      \* what each provider takes the name "alias" for
    HashOf,       \* the hash of each session
    Worlds,       \* what varies together, and the bounds: configurations, requests, records, scrapes, plugin answers
    SessionTTL, PrefixTTL, MaxOpenRoutes

ProvSet == {ProvSeq[i] : i \in DOMAIN ProvSeq}
RouteSessions == DOMAIN HashOf

ASSUME RoutingAssumption ==
    /\ IsInjective(ProvSeq) /\ SessionTTL \in Nat /\ PrefixTTL \in Nat
    /\ MaxOpenRoutes \in Nat /\ \A w \in Worlds : w.maxClock \in Nat /\ w.maxAnswers \in Nat

VARIABLES
    world,
    routerCfg,       \* strategy, affinity, rule
    rrWeights,
    affinity,        \* session and prefix entries of the configured chain
    profiles,        \* session and prefix entries of the two profiles
    inference,       \* the scraped load of each provider; -1 when there is none or it is stale
    answers,         \* requests each provider has answered
    routes,          \* planned and not yet answered
    routeClock,
    lastPlan,        \* history: what the last plan was made from and what it gave, until a request ends
    stuckTo,         \* history: where the requests with the sticky profile of a session last went
    waited           \* history: round robin plans a provider has been passed over

routeVars == <<world, routerCfg, rrWeights, affinity, profiles, inference, answers, routes, routeClock,
               lastPlan, stuckTo, waited>>

NoPin == [to |-> "", at |-> 0]
Fresh == [session |-> [s \in RouteSessions |-> NoPin], prefix |-> NoPin]
NoPlan == [made |-> FALSE, ctx |-> "", listed |-> <<>>, eligible |-> <<>>, ordered |-> <<>>,
           strategy |-> "", plugin |-> <<>>, want |-> ""]

ToFront(s, name) ==
    IF \E i \in DOMAIN s : s[i] = name THEN <<name>> \o SelectSeq(s, LAMBDA x : x # name) ELSE s

-----------------------------------------------------------------------------
(* planCandidates: the filter.                                              *)

\* registryFilterReason, for a record of the registry and what the request needs.
registryFilterReason(record, ctx) ==
    CASE ~record.enabled -> "provider_disabled"
      [] record.drain -> "provider_drain"
      [] record.health \notin {"", "healthy", "degraded"} -> "provider_unhealthy"
      [] ~(ctx.needs \subseteq record.supports) -> "capability"
      [] OTHER -> ""

\* resolveModel: an alias leads to a model, any other name to itself.
resolveModel(p, requested) == IF requested = "alias" /\ AliasOf[p] # "" THEN AliasOf[p] ELSE requested
providerMatchesRequestedModel(p, requested) ==
    requested # "" /\ (ModelOf[p] = requested \/ resolveModel(p, requested) = ModelOf[p])

providersMatchingRequestedModel(items, model) ==
    LET matched == SelectSeq(items, LAMBDA p : providerMatchesRequestedModel(p, model))
    IN  IF matched = <<>> THEN items ELSE matched

modelRequiredButUnavailable(model, all, filtered) ==
    /\ model # "" /\ \E i \in DOMAIN all : ModelOf[all[i]] = model
    /\ ~\E i \in DOMAIN filtered : ModelOf[filtered[i]] = model

\* What is left of the list: providers that are there, in the key's scope, allowed by their record
\* and of the model, if some are.
Routable(recs, ctx) ==
    LET there == SelectSeq(ProvSeq, LAMBDA p : recs[p].instance)
        allowed == SelectSeq(there, LAMBDA p : /\ p \in ctx.scope /\ ctx.preferred \in {"", p}
                                               /\ registryFilterReason(recs[p], ctx) = "")
        left == providersMatchingRequestedModel(allowed, ctx.model)
    IN  IF modelRequiredButUnavailable(ctx.model, there, left) THEN <<>> ELSE left

-----------------------------------------------------------------------------
(* The Router: rule, bypass, affinity.                                      *)

\* The first rule that matches decides, even if it leaves no one.
applyRuleEngine(cands, ctx) ==
    IF routerCfg.rule.on /\ ctx.tools = routerCfg.rule.tools
       THEN SelectSeq(cands, LAMBDA p : p \in routerCfg.rule.providers) ELSE cands

physicalModelBypassCandidate(cands, model) == SelectSeq(cands, LAMBDA p : model # "" /\ ModelOf[p] = model)

EffWeight(p) == IF Weight[p] <= 0 THEN 1 ELSE Weight[p]
TotalWeight(cands) == FoldLeft(LAMBDA n, p : n + EffWeight(p), 0, cands)

pickByHash(cands, s) ==
    LET pick == HashOf[s] % TotalWeight(cands)
        upTo(k) == TotalWeight(SubSeq(cands, 1, k))
    IN  cands[CHOOSE k \in DOMAIN cands : pick < upTo(k) /\ pick >= upTo(k - 1)]

\* SessionAffinity.Pin: the order, and the entries with the choice for a new session.
SessionPin(entries, cands, s) ==
    IF Len(cands) <= 1 \/ s = "" THEN [order |-> cands, entries |-> entries]
    ELSE LET live == entries[s].to # "" /\ (SessionTTL = 0 \/ routeClock - entries[s].at <= SessionTTL)
             entry == IF live THEN entries[s] ELSE [to |-> pickByHash(cands, s), at |-> routeClock]
         IN  [order |-> ToFront(cands, entry.to), entries |-> [entries EXCEPT ![s] = entry]]

PrefixPin(entry, cands, text) ==
    IF Len(cands) <= 1 \/ ~text \/ entry.to = "" \/ (PrefixTTL > 0 /\ routeClock - entry.at > PrefixTTL)
       THEN cands ELSE ToFront(cands, entry.to)

\* CompositeAffinity.Pin: the first of the chain that changes the head; the session is entered anyway.
chainPin(cands, ctx) ==
    LET on == routerCfg.affinity \/ routerCfg.strategy = "sticky"
        s == IF on THEN SessionPin(affinity.session, cands, ctx.session)
             ELSE [order |-> cands, entries |-> affinity.session]
    IN  [order |-> IF Len(cands) <= 1 \/ s.order[1] # cands[1] \/ ~routerCfg.affinity THEN s.order
                   ELSE PrefixPin(affinity.prefix, cands, ctx.text),
         entries |-> s.entries]

applyAffinity(cands, ctx) ==
    LET c == chainPin(cands, ctx)
        p == IF ctx.profile = "sticky" /\ Len(cands) > 1 THEN SessionPin(profiles.session, c.order, ctx.session)
             ELSE [order |-> IF ctx.profile = "cache" THEN PrefixPin(profiles.prefix, c.order, ctx.text) ELSE c.order,
                   entries |-> profiles.session]
    IN  [order |-> p.order, chain |-> c.entries, profile |-> p.entries]

\* ResolveRouteStrategy and strategyAfterAffinity.
NormalizeRoutingProfile(raw) ==
    CASE raw = "load"     -> <<"latency", "least_load">>    [] raw = "fast"     -> <<"latency", "least_latency">>
      [] raw = "cheap"    -> <<"cost", "cost_based">>       [] raw = "tpm"      -> <<"throughput", "least_tpm">>
      [] raw = "p2c"      -> <<"balanced", "power_of_two">> [] raw = "session"  -> <<"sticky", "sticky">>
      [] raw = "prefix"   -> <<"cache", "">>                [] raw = "kv_cache" -> <<"cache", "least_kv_cache">>
      [] raw = "random"   -> <<"random", "random">>         [] raw = "balanced" -> <<"balanced", "round_robin">>
      [] OTHER            -> <<"", "">>

strategyAfterAffinity(ctx, before, after) ==
    CASE ctx.profile = "cache" /\ before # <<>> /\ before[1] # after[1] -> "sticky"
      [] ctx.override # "" -> ctx.override
      [] OTHER -> routerCfg.strategy

-----------------------------------------------------------------------------
(* The Router: strategies.                                                  *)

\* sort.SliceStable of a short slice: insertion from the right.
InsertBy(Less(_, _), s, x) ==
    LET stop == {j \in DOMAIN s : ~Less(x, s[j])}
        k == IF stop = {} THEN 0 ELSE CHOOSE j \in stop : \A i \in stop : i <= j
    IN  SubSeq(s, 1, k) \o <<x>> \o SubSeq(s, k + 1, Len(s))
StableSort(Less(_, _), s) == FoldLeft(LAMBDA acc, x : InsertBy(Less, acc, x), <<>>, s)

CurrentLoad(p) == Cardinality({r \in routes : r.plan[1] = p})
Tie(p, q) == Weight[p] > Weight[q]
\* A value some of the providers have; those that have none come last.
KnownFirst(known, value, p, q) ==
    IF {p, q} \subseteq known /\ value[p] # value[q] THEN value[p] < value[q]
    ELSE IF (p \in known) # (q \in known) THEN p \in known ELSE Tie(p, q)

LessLoad(p, q) ==
    IF inference[p] >= 0 /\ inference[q] >= 0 /\ inference[p] # inference[q] THEN inference[p] < inference[q]
    ELSE IF CurrentLoad(p) # CurrentLoad(q) THEN CurrentLoad(p) < CurrentLoad(q) ELSE Tie(p, q)
LessLatency(p, q) == KnownFirst({x \in DOMAIN answers : answers[x] > 0}, LatencyOf, p, q)
LessCache(p, q) == KnownFirst({x \in DOMAIN inference : inference[x] >= 0}, inference, p, q)
LessTPM(p, q) == IF answers[p] # answers[q] THEN answers[p] < answers[q] ELSE Tie(p, q)
LessCost(p, q) == IF UnitCost[p] # UnitCost[q] THEN UnitCost[p] < UnitCost[q] ELSE Tie(p, q)

\* Smooth weighted round robin: the weights after a turn, and the first of the largest above -1.
RaisedWeights(cands) ==
    [p \in ProvSet |-> IF \E i \in DOMAIN cands : cands[i] = p THEN rrWeights[p] + EffWeight(p) ELSE rrWeights[p]]
RoundRobinIndex(cands, w) ==
    LET above == {i \in DOMAIN cands : w[cands[i]] > -1}
    IN  IF above = {} THEN 1
        ELSE CHOOSE i \in above : \A j \in above : w[cands[j]] < w[cands[i]] \/ (w[cands[j]] = w[cands[i]] /\ i <= j)
weightedRoundRobin_Greedy(cands) ==
    LET w == RaisedWeights(cands) IN [order |-> ToFront(cands, cands[RoundRobinIndex(cands, w)]), weights |-> w]
weightedRoundRobin(cands) ==
    LET w == RaisedWeights(cands)
        selected == cands[RoundRobinIndex(cands, w)]
    IN  [order |-> ToFront(cands, selected), weights |-> [w EXCEPT ![selected] = @ - TotalWeight(cands)]]

comparableLoad(p) == IF inference[p] >= 0 THEN inference[p] ELSE CurrentLoad(p)
\* Of two at random the less loaded goes first and the other last.
powerOfTwoChoices(cands, i, j) ==
    LET pick == IF comparableLoad(cands[j]) < comparableLoad(cands[i]) THEN j ELSE i
    IN  <<cands[pick]>> \o SelectSeq(cands, LAMBDA p : p \notin {cands[i], cands[j]}) \o <<cands[i + j - pick]>>

\* The orders a strategy may give.
orderByStrategy(cands, strategy) ==
    IF Len(cands) <= 1 THEN {cands}
    ELSE CASE strategy = "least_load"    -> {StableSort(LessLoad, cands)}
           [] strategy = "least_latency" -> {StableSort(LessLatency, cands)}
           [] strategy = "least_kv_cache" -> {StableSort(LessCache, cands)}
           [] strategy = "least_tpm"     -> {StableSort(LessTPM, cands)}
           [] strategy = "cost_based"    -> {StableSort(LessCost, cands)}
           [] strategy = "round_robin"   -> {weightedRoundRobin(cands).order}
           [] strategy = "random"        -> {[i \in DOMAIN cands |-> cands[f[i]]] :
                                                f \in {g \in [DOMAIN cands -> DOMAIN cands] : IsInjective(g)}}
           [] strategy = "power_of_two"  ->
                 IF Len(cands) = 2 THEN {StableSort(LessLoad, cands)}
                 ELSE {powerOfTwoChoices(cands, two[1], two[2]) : two \in {q \in (DOMAIN cands) \X (DOMAIN cands) : q[1] # q[2]}}
           [] OTHER -> {cands}

\* tryPluginRouter: the names it gives that are candidates, then those it does not mention.
tryPluginRouter(cands, names) ==
    IF names = <<>> THEN cands
    ELSE SelectSeq(names, LAMBDA n : \E i \in DOMAIN cands : cands[i] = n)
            \o SelectSeq(cands, LAMBDA p : ~\E i \in DOMAIN names : names[i] = p)

-----------------------------------------------------------------------------
(* Steps.                                                                   *)

RoutingInit ==
    /\ world \in Worlds /\ routerCfg \in world.confs
    /\ rrWeights = [p \in ProvSet |-> 0] /\ affinity = Fresh /\ profiles = Fresh
    /\ inference = [p \in ProvSet |-> -1] /\ answers = [p \in ProvSet |-> 0]
    /\ routes = {} /\ routeClock = 0 /\ lastPlan = NoPlan
    /\ stuckTo = Fresh.session /\ waited = [p \in ProvSet |-> 0]

\* buildRouteContext with the hints of the request applied.
buildRouteContext(req) ==
    LET n == NormalizeRoutingProfile(req.hint)
    IN  [model |-> req.model, session |-> req.session, text |-> req.text, tools |-> "tools" \in req.needs,
         needs |-> req.needs, scope |-> req.scope, preferred |-> req.preferred,
         profile |-> n[1], override |-> n[2]]

Live(entry) == entry.to # "" /\ (SessionTTL = 0 \/ routeClock - entry.at <= SessionTTL)
Among(s, name) == \E i \in DOMAIN s : s[i] = name

\* A plan that comes to an order; ExplainOrderCandidates runs under the router's lock.
PlanCandidates(req, recs, plugin) ==
    \E ctx \in {buildRouteContext(req)} :
    \E cands \in {applyRuleEngine(Routable(recs, ctx), ctx)} :
    \E bypass \in {physicalModelBypassCandidate(cands, ctx.model)} :
    \E pinned \in {IF bypass = <<>> THEN applyAffinity(cands, ctx)
                   ELSE [order |-> cands, chain |-> affinity.session, profile |-> profiles.session]} :
    \E strategy \in {IF bypass = <<>> THEN strategyAfterAffinity(ctx, cands, pinned.order) ELSE ""} :
    \E order \in IF bypass = <<>> THEN orderByStrategy(pinned.order, strategy) ELSE {<<bypass[1]>>} :
    \E plan \in {IF bypass = <<>> THEN tryPluginRouter(order, plugin) ELSE order} :
      LET turn == strategy = "round_robin" /\ Len(cands) > 1
          sticky == ctx.profile = "sticky" /\ ctx.session # "" /\ bypass = <<>> /\ Len(cands) > 1
          want == IF sticky /\ Live(stuckTo[ctx.session]) /\ Among(cands, stuckTo[ctx.session].to)
                     THEN stuckTo[ctx.session].to ELSE ""
      IN  /\ Cardinality(routes) < MaxOpenRoutes /\ cands # <<>>
          /\ lastPlan' = [made |-> TRUE, ctx |-> ctx, listed |-> SelectSeq(ProvSeq, LAMBDA p : recs[p].instance),
                          eligible |-> cands, ordered |-> plan, strategy |-> strategy, plugin |-> plugin,
                          want |-> want]
          /\ routes' = routes \cup {[ctx |-> ctx, plan |-> plan]}
          /\ stuckTo' = IF sticky /\ ~Live(stuckTo[ctx.session])
                           THEN [stuckTo EXCEPT ![ctx.session] = [to |-> order[1], at |-> routeClock]] ELSE stuckTo
          /\ waited' = IF turn THEN [p \in ProvSet |-> IF order[1] = p THEN 0
                                                       ELSE IF Among(cands, p) THEN waited[p] + 1 ELSE waited[p]]
                       ELSE waited
          /\ rrWeights' = IF turn THEN weightedRoundRobin(pinned.order).weights ELSE rrWeights
          /\ affinity' = [affinity EXCEPT !.session = pinned.chain]
          /\ profiles' = [profiles EXCEPT !.session = pinned.profile]
          /\ UNCHANGED <<world, routerCfg, inference, answers, routeClock>>

\* The request is answered by one of the providers of its plan, after the others failed, and
\* PromoteAffinity enters it; a stream answered at the first attempt promotes nothing.
Promote(entries, ctx, p) ==
    [session |-> IF ctx.session = "" THEN entries.session
                 ELSE [entries.session EXCEPT ![ctx.session] = [to |-> p, at |-> routeClock]],
     prefix |-> IF ctx.text THEN [to |-> p, at |-> routeClock] ELSE entries.prefix]

PromoteAffinity(r, p, promotes) ==
    LET ctx == r.ctx
        both == Promote(profiles, ctx, p)
        chain == Promote(affinity, ctx, p)
    IN  /\ r \in routes /\ Among(r.plan, p)
        /\ routes' = routes \ {r} /\ lastPlan' = NoPlan
        /\ answers' = [answers EXCEPT ![p] = IF @ < world.maxAnswers THEN @ + 1 ELSE @]
        /\ affinity' = IF ~promotes THEN affinity
                       ELSE [session |-> IF routerCfg.affinity \/ routerCfg.strategy = "sticky" THEN chain.session ELSE affinity.session,
                             prefix |-> IF routerCfg.affinity THEN chain.prefix ELSE affinity.prefix]
        /\ profiles' = IF ~promotes THEN profiles
                       ELSE [session |-> IF ctx.profile = "sticky" THEN both.session ELSE profiles.session,
                             prefix |-> IF ctx.profile = "cache" THEN both.prefix ELSE profiles.prefix]
        /\ stuckTo' = IF promotes /\ ctx.profile = "sticky" /\ ctx.session # ""
                         THEN [stuckTo EXCEPT ![ctx.session] = [to |-> p, at |-> routeClock]] ELSE stuckTo
        /\ UNCHANGED <<world, routerCfg, rrWeights, inference, routeClock, waited>>

\* The request fails everywhere or its client leaves.
RouteAbandoned(r) ==
    /\ r \in routes /\ routes' = routes \ {r} /\ lastPlan' = NoPlan
    /\ UNCHANGED <<world, routerCfg, rrWeights, affinity, profiles, inference, answers, routeClock, stuckTo, waited>>

\* scrapeAll for one endpoint: its load, or a failure that makes what is known stale.
ScrapeOne(p, load) ==
    /\ load \in world.loads /\ inference' = [inference EXCEPT ![p] = load]
    /\ UNCHANGED <<world, routerCfg, rrWeights, affinity, profiles, answers, routes, routeClock, lastPlan, stuckTo, waited>>

\* Reload forgets every affinity and keeps the weights of the round robin.
ReloadRouter(conf) ==
    /\ conf \in world.confs /\ routerCfg' = conf
    /\ affinity' = Fresh /\ profiles' = Fresh /\ stuckTo' = Fresh.session
    /\ UNCHANGED <<world, rrWeights, inference, answers, routes, routeClock, lastPlan, waited>>

RouteTick ==
    /\ routeClock < world.maxClock /\ routeClock' = routeClock + 1
    /\ UNCHANGED <<world, routerCfg, rrWeights, affinity, profiles, inference, answers, routes, lastPlan, stuckTo, waited>>

RoutingNext ==
    \/ \E req \in world.reqs, recs \in world.recs, plugin \in world.plugins : PlanCandidates(req, recs, plugin)
    \/ \E r \in routes, p \in ProvSet, b \in BOOLEAN : PromoteAffinity(r, p, b)
    \/ \E r \in routes : RouteAbandoned(r)
    \/ \E p \in ProvSet, load \in world.loads : ScrapeOne(p, load)
    \/ \E conf \in world.confs : ReloadRouter(conf)
    \/ RouteTick

RoutingSpec == RoutingInit /\ [][RoutingNext]_routeVars

-----------------------------------------------------------------------------
(* Properties.                                                              *)

RoutingTypeOK ==
    /\ \A p \in ProvSet : inference[p] >= -1 /\ answers[p] \in 0..world.maxAnswers
    /\ Cardinality(routes) <= MaxOpenRoutes
    /\ FoldLeft(LAMBDA n, p : n + rrWeights[p], 0, ProvSeq) = 0

\* Of the providers that the rules leave (eligible), affinity, strategy and plugin only change the order: every
\* one of them is in the plan, so that fallback can reach it, and nothing else is.  Only a plugin that names one twice puts it
\* there twice, and a model asked for by name gives one provider.
PlanKeepsCandidates ==
    lastPlan.made =>
        LET plan == lastPlan.ordered
            bypass == physicalModelBypassCandidate(lastPlan.eligible, lastPlan.ctx.model)
        IN  IF bypass # <<>> THEN plan = <<bypass[1]>>
            ELSE /\ \A p \in ProvSet : Among(plan, p) <=> Among(lastPlan.eligible, p)
                 /\ IsInjective(lastPlan.plugin) => Len(plan) = Len(lastPlan.eligible)

\* The requests of a session that ask for the sticky profile go where the last one of them went,
\* as long as that provider is eligible, the entry is not too old and nothing was reloaded, whatever
\* other requests did in between.
StickyHolds == lastPlan.made /\ lastPlan.want # "" /\ lastPlan.plugin = <<>> => lastPlan.ordered[1] = lastPlan.want

\* However the set of eligible providers changes from plan to plan, round robin passes no provider
\* over more often than a round of all weights has turns.
NoneStarves == \A p \in ProvSet : waited[p] <= TotalWeight(ProvSeq)

\* A request for a model that a listed provider has by that name is never planned onto a provider of
\* another model, also when all that have it are out.
ModelHonoured ==
    lastPlan.made /\ (\E i \in DOMAIN lastPlan.listed : ModelOf[lastPlan.listed[i]] = lastPlan.ctx.model)
        => \A i \in DOMAIN lastPlan.ordered : providerMatchesRequestedModel(lastPlan.ordered[i], lastPlan.ctx.model)

\* What OrderCandidates makes of the eligible providers: all of them and nothing else, the pinned one
\* first, none passed over for longer than a round, and none of another model.
RoutingSound == RoutingTypeOK /\ PlanKeepsCandidates /\ StickyHolds /\ NoneStarves /\ ModelHonoured
=============================================================================

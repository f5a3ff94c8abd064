# TLA+ models of the gateway

These modules model the parts of the gateway in which several goroutines,
processes, replicas or stores have to agree, from the admission of a request to the
operator that configures the gateway. TLC checks them on small instances; TLAPS
proves the main safety results of twenty-four of them for every value of the constants.
`PROJECT.json` lists components, runs, mutants, hazards and theorems, and maps
each definition to the lines of the source it stands for.

## 1. Inventory

A request enters through an HTTP handler, is authenticated, admitted by the
limiter and the budget, gets an ordered list of candidate providers from the
router, and is tried on one candidate after the other under the circuit breaker.
What is to be remembered of it (response row, bodies, usage, trace) is written after
the fact, mostly on the event bus. Batch jobs run the same requests from a table.
Administrators change keys, roles, providers, services and plugins while requests are
served. Several replicas of the process share a SQL database (Postgres, or SQLite for
a single one), Redis and, if configured, Kafka; an operator in Kubernetes drives the
admin API of a gateway from custom resources.

| Component | State | Operations | Interacts with | What is hard |
| --- | --- | --- | --- | --- |
| Batch jobs | `batch_jobs`, `batch_items` rows | Create, item handler, Cancel, recovery | event bus, database transactions | overlapping transactions, duplicate events, timeouts, crashes |
| Circuit breaker | state per tenant and provider, snapshot in Redis | IsAvailable, RecordSuccess, RecordFailure, PersistState, RestoreState | request paths, replicas | late reports, restarts |
| Event bus | channel, flags, Kafka offsets | Publish, PublishEvent, worker and reader loops, Close | batch, ledger, persistence | shutdown, a full channel, redelivery |
| Streaming responses | goroutine, two channels, response row, provider loads | CreateStream, runStreamWithFallback, handler loop | providers, caches, plugins, persistence | disconnects, select among ready channels, retries |
| Budget ledger | Redis hash with deltas, SQL row, two locks | consume, reserve, commit, release, flush, invalidate | event bus, Redis, database | two stores without a transaction, failures between steps |
| Rate limiter | token buckets, queue | Allow, CheckTenant, CheckModel, Check, Reload, Stop | admission, Redis | several buckets at once, the queue at shutdown |
| Create, retry, singleflight | candidate loop, shared calls, row, charge | Create, callWithRetrySF, persistence | breaker, providers, event bus | one caller's context for all, clients that leave |
| Background persistence | two tables of a response | CreateResponse, UpdateResponse, details events | event bus, both request paths | events in any order, repeated or lost |
| Response and semantic cache | LRU map, Redis, rows with embeddings | Get, Set, hit counts, expiry | request paths | layers that disagree, read-modify-write of rows |
| Router and affinity | pins, round-robin counters, signals | planCandidates, OrderCandidates, PromoteAffinity, Reload | manager, statistics, plugins | every candidate once, in the right order |
| Service policies | rules of tenant, project, service | merge, filterResponseStream | catalog, streams | terms in pieces, channels that close together |
| Protocol conversion | parser and encoder states | three upstream protocols, three surfaces | streams | nesting and ends of frames |
| Inference orchestrator | workflow of ports | Create, CreateStream, drain | ports | usage of a stream whose client left |
| WebAssembly hosts | pool of instances | take, call, return, close | filters, guardrails, plugins | an instance given back twice |
| Identity cache | local map, Redis, revisions | Authenticate, Invalidate* | admin API, replicas | revisions read apart from the row |
| Roles and permissions | rows, local and Redis cache | HasPermission, role administration | replicas | nothing invalidates, lost commands |
| Keys, users, projects | rows | create, update, rotate, revoke, virtual keys | authentication | look-up and write apart |
| Providers | manager, registry rows, tenant lists, statistics | Upsert, Delete, Reload, probe, restart | admin API, router | two copies of one record |
| Service catalog | services, versions, subscriptions | publish, stage, promote, roll back, review | keys, requests | reads and writes in separate transactions |
| Alerts | aggregator, channels, quota marks | Notify, Reload | health checks, requests | deduplication, a full semaphore |
| Pricing feed | table, cache file | refresh, load, charge | requests | death between the steps of a write |
| Plugin marketplace | rows, files, loaded plugins | upload, update, delete, start | request chain | file and row without a transaction |
| Startup and seeding | default tenant, provider list, keys | seed | other gateways, administrators | starts at the same time |
| Configuration reload | version of each service | Reload with roll-back | limiter, router, alerts, manager | overlapping reloads, refusals |
| Runtime | jobs, server, hooks | Run | all of the above | order of shutdown, time limit |
| Operator | resources, cluster, gateway, status | list, plan, deliver, autoscale, patch | Kubernetes, admin API | edits between calls, restarts |

`PROJECT.json` says of the parts without a module (single sign-on, other guardrails,
handlers, migrations, console) why they have none.

## 2. Modules

Each module has its state as variables, one action per operation or per step that
others can see, an initial state, a next-state relation and a specification. Amounts,
payloads, names and times are abstracted to what the properties tell apart.

### BatchJobs (`service/batch/service.go`, `repository/sqlstore/batches.go`)

One job with `N` items; jobs share no row. `item` and `job` are the committed
rows, `wr`, `seen`, `saw` and `pref` what an open transaction has written and
read, `jobLock` the row lock of the job, `queue` the events not yet delivered.
`Visible` says what a statement sees: with `ReadCommitted` (Postgres, `BeginTx`
with nil options) the rows committed before the statement and the transaction's own
writes; otherwise (SQLite) one transaction runs at a time (`MayBegin`).

Each statement is an action: `CreateBatchJob`, `CreateBatchItem`, `PublishItem`;
`MarkBatchItemRunning`, `ClaimCommit`, `CheckJob`, `Execute`, `UpdateItemTerminal`,
`AddTokens`, then the three steps of `refreshBatchJobStatusTx` (`RefreshCount`,
`RefreshStatus`, `RefreshCommit`); `CancelBegin`, `CancelItems`,
`CancelCountRunning` and the same three steps. `RecoverStaleRunning` publishes an
item again while its first handler may be alive, `HandlerTimeout` cuts a handler
off at any statement, and `Crash` loses the goroutines and, unless the events are
in Kafka (`Durable`), the queue.

### CircuitBreaker (`service/responses/circuit_breaker.go`, callers in `create.go`)

One tenant and provider, in every replica. The methods are functions on the state
of a breaker (`Available`, `AfterAvailable`, `AfterSuccess`, `AfterFailure`,
`Restored`), each executed under its mutex. A request is a slot that goes through
`Admit`, `CallFails` or `CallSucceeds`, and `ToolsFail`; between these steps
anything may happen to the breaker. Time is the flag `cooled`: the recovery timeout
has passed since the last failure. `PersistState`, `SnapshotExpires` and `Restart`
are the snapshot that all replicas overwrite. `run` and `restored` are history
variables. `TryAcquireHalfOpenRequest` and `ReleaseHalfOpenRequest` have no caller
outside the tests and no action.

### EventBus (`internal/pkg/eventbus/bus.go`)

Each event is published by a goroutine of its own, whose progress is `pub`:
`PublishEvent` (the flag), `WriteKafka`, `DispatchEventInMemory` (the flag again),
`SendToChannel`, `RunInline`. Workers take from `queue`; the reader fetches from
`log` and commits an offset. `Close` is one action per effect: the flag, the
cancelled context (with Kafka), the closed channel, the wait. The broker may
acknowledge a write, refuse it, or store it and lose the acknowledgement. `runs`
and `ok` are history variables.

### StreamFallback (`service/responses/stream.go` and `persist.go`, `handler/responses.go`)

A stream is a goroutine at `pc`, an upstream with two channels (`up`), and a
handler. The goroutine tries the candidates in order: `SkipCandidate`,
`RateLimited`, `UseCandidate`, `PluginBlocks`, `PluginAnswers`, `OpenUpstream`, then
the `select` of the reading loop, each branch an action enabled by what is ready:
`ReadPayload`, the four actions of a closed stream (`OutputBudgetTooLow`,
`PostCheckBlocks`, `FinalizeStream` and, later, `Settle`), `ReadError` with retry
and fallback, `ReadCtxDone` with the drain. `Emit` is a send on an unbuffered
channel that does not watch the context: the goroutine continues when the handler
receives, and not before. Guardrails, plugins, limits, the breaker and the budget
are nondeterministic choices here. `SetRowWithCtx` is an update with the request's
context, which does nothing once that is cancelled; `SetRow` uses a detached one. Every
UpdateResponse and RecordUsage may be refused, in which case the code drops the error
and goes on; `rowLost` and `usageLost` remember that. A cached replay may end at an
event that cannot be decoded. A provider's content is a payload event or none; text is not modelled.

### BudgetLedger (`repository/sqlstore/budget_ledger.go`, `identity.go`)

One scope with a hard budget. `db` is the row, `hash` the Redis hash with the
totals and the deltas not yet in the row. A request ensures that the hash exists
(`EnsureExists`, `TakeInitLock`, `WaitRedisKey`, `CheckAgain`, `LoadScope`,
`WriteHash`), runs its script (`Eval`, atomic in Redis), and publishes a flush or
does it itself. A flush is `TakeFlushLock`, `ReadSpentDelta`, `ReadReservedDelta`,
`FlushUpdate`, `FlushClearSpent`, `FlushClearReserved`, of which a read, the UPDATE or
an HINCRBYFLOAT may fail (`FlushFails`, `Reduces`). When a request flushes by itself
and that fails, it is answered with the error although its script has charged it
(`FlushErrs`), and so is one whose transaction fails (`TransactionFails`). `RedisFails` makes any call of a request fail, with
or without its effect, and sends the request to the `Transaction` on the row.
`UpdateBudget` and `DeleteHash` are an administrator's change, with a flush in
between. `Crash` kills a flusher between any two steps, and `FlushLockExpires`
removes the lock it leaves. `charged` and `held` are history: what has been granted.

### BudgetAccount (what the budget store promises)

The abstract specification that `BudgetLedger` implements: a request is granted only
if the account has room and refused only if it has none, in one step. The answer may
come later than the charge, and it may be an error: then the caller was charged at most
once, is not told whether, and what was charged stays so. Once Redis has
failed or an administrator has changed the budget, the account is degraded and
promises nothing. The mapping is `AnswerOf`, the answers of the requests, and
`Degraded`.

### The request path

* `RateLimiter` (`service/limiter`): a request takes from the buckets of every kind in
  the order of the code, each under its lock; the queue has one consumer; `Reload`
  replaces buckets, `Stop` answers the queue. Refills are steps of time.
* `SyncResponses` (`service/responses/create.go`, `retry.go`, `admission.go`,
  `hydration.go`): the candidate loop of `Create` with retries, shared upstream calls
  with the context of the first caller, tool rounds, charge, row, callback and
  `publishOrInline`; clients leave at any moment. The previous response may be missing or
  unreadable. An answer that a guardrail blocked is charged and stored like another, but
  what fails in that is dropped and the client always gets the guardrail's error: the
  results `blocked`, `blocked_error` and `blocked_budget`.
* `ResponseCache` (`service/cache`, `responses/cache.go`, `semantic_cache.go`): the
  exact cache in memory and Redis and the semantic one in SQL, with their writes on
  goroutines. The bucket of a request is part of the exact key only.
* `CandidateRouting` (`service/router`, `route_trace.go`): filters, rules, the escape
  for a named model, pins, every strategy and router plugins, under reloads, scrapes
  and time. Rules leave candidates out before they are ordered; `PlanKeepsCandidates` is
  about what is left.
* `ServicePolicy` (`service/catalog`): rules of three levels merged, and the goroutine
  that filters a stream. Terms and texts are sequences of letters, so a term of any length
  may be cut between two pieces. `redactText` replaces by positions what `ReplaceAll`
  does from left to right; `RedactHides` has TLC compare the two on all short texts. The
  completion carries the answer, which is checked before it is redacted. The producer may
  put an error into its channel and closes both channels in either case; the filter may
  see the closed events first and lose the error. `EndsWhole` says what remains true.
* `StreamEncoding` (`service/provider/compat_*`, `handler/response.go`): the parsers
  and encoders of streams as two automata and the loop between them. What Anthropic's
  message_start carries (`prefill`) is stored and never sent; the checks after the stream
  (`checked`) may replace or block the answer when its text has already been sent. The
  properties say what the client and the store have in each of these cases.
* `InferenceOrchestrator` (`application/inference`): `Create` and `CreateStream` over
  ports that answer or fail. The errors of the usage and repository ports are dropped at
  the end of a stream (`refused`), also when they come from the client's cancelled context;
  a stream may be nil, and its completion may carry no response.
* `ResponseRecords` (`sqlstore/responses.go`, `persist.go`): the row and the bodies of
  a response under events applied late, twice or never.
* `WasmPool` (the three WebAssembly hosts): take, write, call, read, give back, close. A
  guest that calls proc_exit closes its own instance, which the filter gives back.

### The control plane

* `IdentityCache` (`service/auth/auth.go`): both levels, revisions, and administrators
  who commit, drop and bump in this order. Any command to Redis may fail, and the code
  ignores a failed DEL and a failed INCR. `ver` counts changes, `announced` is the last
  one whose INCR succeeded, `mixed` tells that a fill overlapped one.
* `PermissionCache` (`service/rbac`): permissions in memory and Redis, commands that
  get lost (`commandLost`), roles changed by two administrators.
* `KeyAdministration` (`service/adminconsole`, `sqlstore/api_keys.go`,
  `virtual_keys.go`): calls that look a row up and write it later, rotation,
  revocation, deletion of virtual keys (which leaves a tombstone, as ids are not used
  again), a look-up of the parent that may find nothing, and the authentication of a virtual key.
* `ProviderRegistry` (`service/provider`): manager, rows, tenant list and statistics
  under administrators, health checks, reloads and restarts. A write may take effect and
  be answered by an error, or succeed and not be read back, in which case the manager is
  not told; a provider that cannot be built is refused by the manager.
* `ServiceCatalog` (`service/catalog`): versions, publication, staging, subscriptions. A
  review reads the service's row and then, in a later step, the service at its prefix; a
  subscription is looked up for and inserted in two steps without a transaction or a
  foreign key, so that its service may be gone (`orphans`).
* `AlertDelivery` (`service/alert`), `PricingFeed` (`service/pricing`), `PluginMarket`
  (`handler/admin_plugin.go`, `app/gateway/plugins.go`): see their headers. A SETNX of
  the alerts may be applied and its reply lost (`AlertReplyLost`); the cached feed may be
  unreadable at start (`unread`), which leaves the table empty; a plugin's file may refuse
  to be removed (`kept`), and its row goes all the same.
* `GatewayStartup` (`app/gateway/seed.go`): the statements of gateways that start
  together. `ConfigReload` (`app/config/reloader.go`): overlapping reloads.

`Selections` holds the loops over lists that several of these modules use.

### Loops and processes

* `GatewayLifecycle` (`app/gateway/runtime.go`, `handler/server.go`): jobs, server,
  signal, time limit, hooks, closes, and requests in each phase. The Close of the bus
  is a sequence (`CloseBus`): the flag, under Kafka the cancelled context, the closed
  channel, a wait of 30 s (`BusLimit`); workers whose context is cancelled leave when they
  find the channel empty (`WorkersLeave`), and a publisher that read the flag before puts
  its record, or panics, after that (`Publish`).
* `OperatorReconcile` (`cmd/operator`, `service/platform`): one resource of each of the
  five kinds, the watch, the reconcile loop call by call, its deliveries and status. A
  recreated resource has a new uid and begins at generation 1; a status is patched by
  name, with the generation of the snapshot and no uid.

### Instances

An `MC` module holds the values of constants. Three of them check several modules in
one run: the modules share no variable, the variable `part` is chosen at the start,
the module it names moves and the others keep one initial state, so the states are
those of each module alone (`MCLoops`, `MCRequestPath`, `MCControlPlane`). The others
have two parts, which are two instances of one module (SQLite and Postgres, with and
without Kafka, retries, an administrator).

## 3. Runs

| Run | Distinct states | Checks | Instance |
| --- | --- | --- | --- |
| `batch` | 639194 | `TypeOK`, `TokensCountedOnce`, `CountersNeverAhead`, `ResultIsFinal`; with serial transactions `SerialSettled`, `SerialFinalStatusKept`, `SerialCancelCompletes` | two items, two workers, a cancellation, one recovery, one timeout, one crash; SQLite, and Postgres with Kafka |
| `bus` | 475990 | `DeliverySound`, `ChannelDelivers` | four events, one without a handler, a buffer of one, two workers, one crash; with Kafka two of three events |
| `stream` | 520417 | `StreamSettled`, `OneSource`, `PlainLoadExact`, `PlainStreamEnds` | two streams over two candidates; one stream with a retry |
| `ledger` | 417783 | `LedgerSound`, `Accounted`, `SpentReachesRow`, `ImplementsAccount` | two requests of cost 1 and 2, budget 2, a flusher, one failed call or one death; or an administrator |
| `loops` | 431160 | `BreakerSound`, `OpenEnds`, `OperatorSound`, `EventuallySynced`, `LifeSound`, `EventuallyExits` | two replicas, two requests, threshold two; two edits and one trouble of the operator; three requests at shutdown |
| `request_path` | 969022 | `LimiterSound`, `CreateSound`, `CacheSound`, `RoutingSound`, `PolicySound`, `EncodingSound`, `OrchestratorSound`, `RecordsSound`, `PoolSound`, `PathSteps` | two of each actor, one fault of each kind |
| `control_plane` | 1226462 | `IdentitySound`, `AccessSound`, `RegistrySound`, `CatalogSound`, `UpkeepSound`, `ConfigSound`, `ControlSteps` | two replicas, requests, administrators; one or two faults |
| `batch_early_completion` | | `CompletedMeansAll` is violated | as `batch` |
| `bus_redelivery` | | `FailedIsNotCommitted` is violated | three events, two workers |
| `stream_client_gone` | | `DisconnectSettles` is violated | one stream, one candidate, under fairness |
| `wasm_guardrail` | | `OneCallAnInstance` is violated | two calls |
| `records_late_details` | | `AnswerKept` is violated | as `request_path` |

A property named `...Sound` is the conjunction of a module's type invariant and its
named safety properties, each with a comment of its own in the module; `PathSteps` and
`ControlSteps` are conjunctions of action properties.

**Why the bounds are enough.** The interesting cases need two of something: two
transactions on two items; a request that reports after another changed the
breaker; a full channel (buffer one) and two workers that empty it; two streams
that share a load counter and one that falls back from the first candidate to the
second; two requests that do not both fit the budget, and a flush between them; two
replicas with a cache each; two administrators of whom one writes between the look-up
and the write of the other. One crash, one timeout and one failed call reach every
place where such an event may happen; a second would be independent of the first.
Where it is not (a lost DEL followed by an EXPIRE), the proof found it and the model's
condition names it (`commandLost`). The threshold two separates the first failure from
the one that trips.

**Restrictions of the instances** that the modules do not have, named in the `MC`
modules: with `Busy` and `OnlySlot` the second replica of the breaker has one slot;
`MaxTroubles` and `MaxDisturbed` bound faults of two kinds together; `Reserver` is the
request that may reserve beside an administrator; `FewCallers` limits events with
Kafka; `SrFewTroubles`, `CacheFewTroubles`, `WasmFewCalls`, `IdFewTroubles`,
`RbacFewTroubles`, `AlertFewTroubles`, `CatFewTroubles` let the second actor rest once
something has failed; `PolicyFewStreams` starts streams under the rules of project and
service only, as the filter sees what the levels merge to; `KeyFewProjects` leaves the project of a virtual key to the
administrator; `PriceOneCharge` is one charge a start; `AdminsInOrder` and
`ReloadsInOrder` break a symmetry. The theorems need none of them.

**Symmetry** is not used: most runs check liveness or compare sums of modules.

**Deadlock** is checked in `batch`, `bus` and `ledger`, where quiescence is an explicit
step or something can always be done. In `StreamFallback` a system whose streams have
all ended stops (and a goroutine may be blocked for ever, which `stream_client_gone`
shows); in the three sum runs bounded histories end.

**Fairness.** `BatchJobs`: the worker goroutines run, and a cancellation that has
begun goes on; nothing makes a client cancel. `CircuitBreaker`: time passes, calls
end since each has a timeout, and clients keep coming; without traffic an open
breaker stays open, as `IsAvailable` is what moves it. `EventBus`: publishers that
have begun, workers, the reader and a Close that has begun run; nobody has to
publish or close. `StreamFallback`: goroutines run, an upstream stream ends (its
context has a limit of ten minutes), the handler's select takes what is ready;
clients need not leave. `BudgetLedger`: requests and flushes run, the ticker of
five seconds starts flushes, locks expire; `FlushUpdate` is strongly fair, since
the UPDATE may fail now and then but not for ever. `OperatorReconcile`: the operator's
loop runs (`OpStep`), its ticker ticks (`OnTick`), the watch delivers
(`InformerDelivers`), and Kubernetes starts a process that ended again
(`StartOperator`); users need not edit. `GatewayLifecycle`: the steps of `Run` once it
has begun, its two time limits among them, and the workers of the bus (`WriteRecord`); nothing makes a client come or a
request end, which is why the time limit matters.

Each property has a mutant, an operator just before the one it replaces, that
changes the model as a plausible mistake in the code would (a dropped condition, an
off-by-one, an update in the wrong order) and makes the property fail.

## 4. What the runs say about the code

Five runs show a disagreement between the code and what the repository says:

* `batch_early_completion`: Create publishes an item before it inserts the next, and
  the refresh counts the rows present instead of `total_items`; a fast worker closes
  the job while items are still to come.
* `bus_redelivery`: an offset commit covers all earlier messages of the partition,
  so a message whose handler failed is committed with the next one.
* `stream_client_gone`: a goroutine that is sending when the handler leaves waits for
  ever; the row stays `in_progress` and the load is not released.
* `wasm_guardrail`: the guardrail host gives an instance back twice, so two calls may
  work in one memory.
* `records_late_details`: the details event of CreateResponse, applied after the
  update, writes an empty body over the answer.

Some properties hold only under a condition, which their statement or their run
names. The conditions are not idle; without them TLC finds:

* `JobSettles`, `CountersExact` under READ COMMITTED: two transactions that finish
  the last two items each miss the other's row, and the job stays `running`.
* `DispatchedIsHandled` with Kafka: the workers may leave before the channel is closed,
  and a publisher whose write failed sends to a channel nobody reads. It excepts a panic:
  a publisher that has passed the flag sends on the channel that Close has closed.
* `LoadExact` with retries: the retry does not increment the load again but its end
  decrements it, so that the stream goes on without its place in the load.
* `Accounted` after a death between the UPDATE and the reduction of the deltas: the
  next flush adds them again. `WithinBudget` after a failed call: the transaction
  works on a row without the deltas. Both, and `NotUndercounted`, with an
  administrator: the hash is deleted with deltas in it, or before a script that then
  finds no budget.
* `ChargeMatchesRow`: a completed row may be uncharged, or a charged one in progress,
  when the one write was refused and the other was not; nothing repeats either.
* `ImplementsAccount`: a caller may get an error and have been charged.
* `StaleNeedsOverlap`: a fill that reads the row before a change and the revisions
  after it caches a stale identity that compares as current, and a change whose INCR
  failed is not noticed at all until its entries have expired.
* `ChargedOnce`: an answer that was blocked may be uncharged, and its client is told of
  the guardrail alone.
* `StreamSettles`: a stream of the orchestrator whose ports refuse leaves its usage
  unrecorded or its row open, and nobody is told.
* `RoutedByRow`: a health status that was written and not read back, or a write that
  was answered by an error after it took effect, leaves the manager behind the row until
  the next call or restart.
* `EndsWhole`: a stream whose producer failed may end without an error, and the client
  knows it only by the missing completion.
* `TextWhole`, `StoredAgrees`: text in message_start is stored and not sent; an answer
  that a check replaced is stored in another form than it was sent.
* `KeyOpensItsService`: a prefix given again between the two reads of a review makes a
  key for the wrong service.
* `NewestInForce`: a cached feed that cannot be read leaves all requests free until the
  next refresh. `NoFileLeft`: a file that could not be removed stays without a row.
* `TakenIsStored`: records are lost when Close runs out of its 30 s, and under Kafka when
  they are put after the workers left.
* `ReadyWasDelivered`: a resource deleted and created again during a reconcile shows the
  status of the one before it until the next reconcile (`StatusIsOwn`).
* `AllowedWasGranted`: nothing invalidates permissions, so only the lives of the
  entries bound their age, and an EXPIRE after a lost DEL gives the old set a new one.
* `ServicesAgree`: reloads that overlap leave services apart, and the first reload
  that fails is not rolled back, as there is no previous configuration.

Behaviour the models have, which no property forbids and a reader may want to know:

* Limiter: the tokens of a request can be taken twice, at the filter and at the
  candidate (`TokensTakenOnce` states the contrary and is not checked).
* Create: a client that leaves can leave its row `in_progress` and uncharged; a
  follow-up that names a response right after its answer may be refused, as the row is
  completed on the bus; one upstream failure is reported to the breaker once per
  request that shared the call.
* Caches: a semantic hit copied to memory gets a fresh life and its key has no
  project; the hit count writes the whole row back.
* Router: the comparison of least_load is not transitive; a prefix pin can override a
  session's, and a sorting strategy both; affinity has no effect under the sorting strategies; a plugin can name
  a provider twice.
* Policies: the closed error channel may be taken while events remain; a policy that is
  not enabled becomes so in a merge; a term redacted piece by piece is not found across
  two pieces.
* Conversion: tool arguments to Anthropic clients can be malformed (`{}` followed by
  a delta), the tool index of chat is the position in the chunk, thinking is not passed
  on.
* Orchestrator: when the closed error channel is taken first, usage is not recorded.
* Records: SQLite has no foreign key on details; in Postgres an event for a deleted
  response fails for ever under Kafka.
* WebAssembly: a call that returns its instance while Close runs sends on a closed
  channel.
* Keys and catalog: approving twice makes two keys, rejecting takes none back, keys
  outlive services; staging archives a version that is still served.
* Providers: an outage of the database during Upsert takes the provider out of routing;
  a reload drops providers that are only in the database until the next restart,
  whose seed undoes a drain.
* Alerts: an alert dropped for want of a slot counts as told; two quota checks at once
  both send; a reload forgets what was told; the HTTP status of a channel is ignored.
* Prices: keys with capitals are not found. Plugins: a delete removes the file before
  the row; only the default tenant's plugins are loaded; gRPC plugins are asked in the
  order of a map.
* Startup: gateways that start together can lose a provider from the tenant's list, and
  a restart adds and activates again what an administrator removed.
* Lifecycle: a signal before the server exists is not waited for; the goroutines of
  a full bus are not awaited; a failing listener exits with status 0.
* Operator: its own status patch wakes it; any error ends the process; what a deleted
  resource configured stays; fields of value zero are omitted.
* The limit of half-open probes is compared with a counter nobody increments; items
  that are pending at a crash are not recovered; a flush that outlives its lock of ten
  seconds can run beside another (not modelled).
* The `select` of `runStreamWithFallback` and of the handler may take the end of
  a stream before its error: the models take both branches, and no property says
  that a failed upstream is never stored as completed.

## 5. Proofs

The theorems hold for every value of the constants that satisfies the module's
`ASSUME` (any number of requests, replicas, items, events, faults and so on; the sets
are finite where a counter or a pool is bounded by one). They need none of the
restrictions of the instances. Each safety result has the same shape: an inductive
invariant that TLC checked first on an instance, a lemma for what each action does to
it, and a last step that combines them. `LoopProofs`, `ServingProofs`, `PathProofs` and
`ControlProofs` each hold the proofs of several modules, the last two also those of the
composed instances.

An induction over data is done by hand: a set of numbers that is not empty has a least
one (`LeastNumber`, from the well-foundedness of `<` on `Nat`), so a set that holds 0 and
with each number the next holds all (`Numbers`); cited of a set, that needs no operator
as a parameter. What a loop over a list computes is then proved of the function that the
loop fills (`MembersInSteps`, `TokensOfSteps`, `JoinedSteps`), which is why the modules
that are proved about take `MembersIn` and `Concatenation` from `Selections` and not
`SelectSeq` and `FlattenSeq`.

What each invariant adds to its property:

**Batch jobs** (`BatchJobsProofs`). `TypeCorrect`; `TokensOnce`, the tokens of an item
are counted once; `FinalResult`, an action property. A commit makes an item completed
and its tokens counted, so one needs that the row was not terminal before. `IInv` adds
what row locks and WHERE clauses maintain: at most one open transaction has written an
item (`LockExclusive`), such an item is not terminal (`WritesOpen`), only a process in a
transaction has writes (`WritesInTx`), updates change rows that exist (`WritesPresent`),
and Create inserts rows that do not (`InsertsFresh`). `CountersCorrect`: a row's counters
are cardinalities, and no commit makes a terminal item less so, hence what any open
transaction has counted is never ahead of the rows. `SerialCorrect` and the action
property `SerialFinal`, when transactions run one at a time: what the open one has counted
is what is there, so that the counters are those of the items and the status follows.

**Circuit breaker** (`LoopProofs`). `BreakerCorrect`, from `TypeCorrect`,
`OpensOnly`, `OpensAlways` and `CooledProbes`. `Sound` relates, in each replica, the
counter of a closed breaker to the history of failures: they agree unless the state
was restored from a snapshot.

**Event bus** (`EventBusProofs`). `DeliveryCorrect`: an event runs at most once from
the channel, whatever Close and a crash do, and what is committed was fetched and
handled. `ChannelExclusive` is the core: an event is with its publisher, in the channel
or with one worker. `ChannelOnce`, `WorkerAlone`, `RunOnce` and `FetchedWasHandled` are
its parts.

**Streams** (`StreamFallbackProofs`). `SettledCorrect` (a stream that ended has one
charge and a row that agrees with it, but for the write that was itself refused), `SourceCorrect` (a client gets the content of
one provider), `LoadCorrect` and `PlainLoadCorrect` (without retries the load counters
are exact, in the module and in its instance). `Good(s)`
says for each place of the goroutine what has been sent, charged, stored and refused; `LoadOK`
says that the streams at a provider are those that hold a place in its load.

**Budget ledger** (`BudgetLedgerProofs`). `LedgerCorrect` (within the budget, never
undercounted, no row overstated), `AccountedCorrect`, and `Refinement`: the ledger
implements `BudgetAccount`. The invariant adds who holds the two locks, what a flusher
has read and still has to subtract, and `Packed`: the reservations lie side by side in
the budget, which says that a sum over requests fits without an induction over a sum.
The refinement maps answers by `AnswerOf` and is a stutter or a step of the account for
every action: the script is the charge, and what follows it, the flush with its failure
included, is the answer. A degraded account allows anything, so the mapped steps are the
ones before a failure of Redis.

**Runtime** (`ServingProofs`). `LifeCorrect`: `LifeInv` says that hooks run in their order
(`HooksInOrder`), that a shutdown within its limit waits for every request
(`ShutdownWaits`), what fits the bus (`LifeRoom`), and that a record is lost to the bus
only by its limit or, under Kafka, by workers that have left (`BusLosses`).

**Records** (`PathProofs`). `RecordsCorrect` and the action property `RequestStays`:
`RecInv` says that a completed response was updated (`CompletedWasUpdated`).

**Caches** (`PathProofs`). `CacheCorrect` and the action property `OffStays`: `CacheInv`
says of every copy of an answer, in memory, in Redis, in a row or in the hands of a
request, whose it is and when it was given; keys and ids occur once in their lists
(`KeysOnce`, `IdsOnce`), and a row that is switched off is the one of its last change
unless a count wrote it back (`OffIsOff`). `PathStepsCorrect` carries both action
properties of this module to the composed instance.

**Rate limiter** (`PathProofs`). `LimiterCorrect`: `LimInv` balances, in each dimension,
the tokens that came with those in all generations of a bucket and those that admitted
requests took (`TokensBalance`, a sum proved step by step along the generations); says
that a locked bucket is one its request has come past (`LocksHeld`), and that a request
without an answer is queued or with the consumer (`WaitingQueued`). Deadlock is excluded
by the order of the dimensions: the list of a request is sorted by `DimRank`
(`SpecsUpTo`), so of the requests that hold or want a lock the one furthest on waits for
nobody. The proof found that where no bucket of the old kind matters the model looked for
one that is not there; such a request now goes on to the next check.

**Service policies** (`PathProofs`). `PolicyCorrect`: merging two levels keeps what each
forbids and adds nothing (`Forbids`), so three merges do; the blanks that `EffectiveIsAllLevels`
exempts are what makes an allow list empty. Of a stream, `PolicyInv` says what its producer
can have done (`ProducerGood`: a completion is the last event, and a producer that failed
sends none) and that a running filter has passed on all it received, each event redacted by
itself, with the text of it in its buffer (`FilterGood`). Nothing is assumed of the terms
but that they are finitely many sequences of letters.

**Reload** (`ControlProofs`). `ReloadCorrect`: `ReloadInv` says how far a reload has come
(`ReloadShape`), that reloads that did not overlap were alone (`OneAtATime`), and which
services run which version half way (`Agreed`, `HalfWay`, `Settled`).

**Roles and keys** (`ControlProofs`). `RbacCorrect`: every copy of a permission (in
Redis, in an answer on its way, in a replica) is at most so old (`RedisFresh`,
`AskFresh`, `LocalFresh`), and a deleted role gives nothing (`RoleKept`). `KeysCorrect`
and the action property `KeyStepsCorrect`: a virtual key (`VKeyGood`), a call between
its look-up and its write (`CallGood`) and an authentication (`AuthGood`) carry what was
compared. Both attempts failed at first and changed the model: with two faults, an
EXPIRE that follows a lost DEL renews a set that should be gone, which the condition of
`AllowedWasGranted` did not name; and the model gave the id of a deleted virtual key to a
new one, which the code's random ids rule out.

**Identity cache** (`ServingProofs`). `IdentityCorrect`: `IdInv` says
that a counter that has moved leaves every copy made before it behind (`CountersGood`,
`CachesGood`), and for a request in the middle of a fill what it has read is no newer
than its revisions (`RevsGood`, `NameGood`, `EntryGood`), unless the fill overlapped a
change. Only a change that was announced moves a counter.

**WebAssembly hosts** (`PathProofs`). `PoolCorrect`: `PoolInv` says that an open instance is known to the pool or to a
call (`Known`), that a filter's instance is in one place (`Exclusive`), and that its
memory is its call's (`OwnMemory`).

**Orchestrator** (`ServingProofs`). `OrchestratorCorrect`: `OrcInv` says which places each
flow passes (`OwnPlaces`), that a record is made between an answer and its row or at the
end of a stream, never twice (`RecordedAt`), and that a stream ends with it unless its port
refused (`StreamSettles`), and that a completed response that was the
last event is what was kept (`LastKept`).

**Service catalog** (`ControlProofs`). `CatalogCorrect` and the action property
`CatalogStepsCorrect`: `CatInv` says of every service
that its row, its versions' statuses and what was published agree (`RowsGood`), and of a
transition between its read and its write that the version and the published one it read
are still there unless the service is gone for good (`WorkGood`). Every key and every
service is among the holders of its prefix, and the service of the prefix a review read
first among those of the one it read then (`KeysGood`), so a key that opens another
service shows two holders of either. A subscription without its service is one whose row
came too late (`SubsGood`). `OneApproval` is why no key is left behind: the unique
placeholder key of the user lets one approval of a subscription pass, and that one makes
one key; a subscription of a consumer that is known has no such guard, which
`NoKeyLeftBehind` exempts.

**Providers** (`ServingProofs`). `RegistryCorrect`: `RegInv` says that a provider whose
last change was made alone is in step as long as everybody at it is still before the first
write (`Clean` implies `Synced`), that whoever is alone at a provider knows the row it
started from, so that undoing goes back to it (`RegCallGood`), that a check which has
stored its row and read it back applies that row (`RegCheckGood`), and that a call alone at the tenant's
list has read it as it is (`TenantListGood`).

**Create** (`ServingProofs`). `CreateCorrect`: `SrInv` says of a request at each place of
the candidate loop how often it was charged, what its row is, and where its update and
its callback are (`ReqSound`): on the bus, on a goroutine, or run. It says of a shared
call that it has an owner which waits for it, and that nobody waits for a call that is
not under way (`CallsOwned`). A failed call gives all that shared it their cause.

**Operator** (`LoopProofs`). `OperatorCorrect`: the invariant says, for each call of a
reconcile by its number, what the calls before it have brought about, so that a status is
written only after every part it speaks of was accepted; that a generation stands for
one spec of one uid (`SameGeneration`) and a status is that of the resource listed unless
another has its name (`StatusOnItsWay`); and that an edit which the channel of one dropped
finds a reconcile still to come.

**Alerts, prices, plugins, seeding** (`ControlProofs`). `AlertsCorrect`, `PricesCorrect`,
`MarketCorrect` and `SeedCorrect`: a send in flight holds a place of the semaphore
(`SlotsHeld`) and the marks of the deduplication are exact (`MemoryExact`); feeds with one
number have the same prices wherever they are (`FeedsAgree`), and the table, the file and a
refresh keep their order in time, or the table is empty and the file unread
(`TableOfNewest`, `InForce`); an operation
half way knows what of its plugin is there (`OpsSound`, `Cleared`), and ids are given out one after
the other (`Dense`); and of a gateway that seeds each step has left what the next one
needs (`TenantFirst`, `Backfilled`, `KeysSeeded`).

**Composition** (`ControlProofs`). `ControlImplements`: a behaviour of the composed control
plane is a behaviour of each component, by the steps of one and the stuttering of the
others. With it the theorems above become those of what the run checks: `AccessCorrect`,
`UpkeepCorrect`, `ConfigCorrect`, and for the action properties `ControlStepsCorrect`.

**Left to TLC.** Liveness, fairness and `ENABLED`, which the prover does not handle:
`SerialCancelCompletes`, `ChannelDelivers`, `PlainStreamEnds`, `SpentReachesRow`,
`OpenEnds`, `EventuallySynced`, `EventuallyExits`. Of the invariants, two:
`RoutingSound`, which is about stable sorts, sums of weights and how long a round-robin
lets a provider wait, and `EncodingSound`, whose automata run over the whole sequence of
what a client was sent. Both need inductions inside the data of a state, on top of the one
over steps.

## 6. Plan

All components of section 1 are modelled and checked. What is left to prove, in the
order of what it would say:

1. `RoutingSound`: that ordering candidates permutes them, for each strategy by its own
   induction over the loop that builds the list.
2. `EncodingSound`: an encoder as a step function with its state as a variable, so that
   what the automata accept becomes an invariant of that state.
3. The liveness properties, if a prover for them becomes available.

## 7. Not modelled

Time is abstract: deadlines and expiries are steps that may happen. The amounts of
the ledger are integers, whereas the code adds floating-point numbers. The ledger
has one scope; the scripts are atomic over all scopes of a request. The budget
policies other than hard rejection, the token quota ledger, the local budget cache,
the stream of a gateway-owned tool loop, and single messages (as opposed to streams)
of the wire formats are left out. A second job, tenant or provider key shares no state
with the first and is left out of `BatchJobs` and `CircuitBreaker`. What guardrails,
tools, embeddings and plugins compute is a choice. Usage records, audit rows and
metrics are only inserted and have no property.

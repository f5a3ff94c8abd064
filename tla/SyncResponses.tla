--------------------------- MODULE SyncResponses ---------------------------
(***************************************************************************)
(* Create: a response that is not streamed.  The requests here are the same *)
(* but for the response they continue: those at one provider at a time      *)
(* share one upstream call, made with the context of the first.  Each       *)
(* keeps its own row, is charged for itself, falls back for itself, and     *)
(* leaves the completion of its row and its callback to the event bus.  The *)
(* client may leave at any moment: everything on the request's context then *)
(* fails.  Limiter, breaker, guardrails, plugins and budgets are choices.   *)
(***************************************************************************)
EXTENDS Integers, FiniteSets

CONSTANTS
    Reqs, Nobody2,
    NCand,              \* candidates of a plan
    MaxRetries, MaxLoopRounds,
    BusSize, PersistSlots,  \* of the event bus's channel, of persistSem
    MaxSrFault          \* bound on failures of the store

ASSUME SrAssumption ==
    /\ Nobody2 \notin Reqs
    /\ NCand \in Nat \ {0} /\ MaxRetries \in Nat /\ MaxLoopRounds \in Nat \ {0}
    /\ BusSize \in Nat /\ PersistSlots \in Nat /\ MaxSrFault \in Nat

Cand == 1..NCand

\* sfKey: the request's cache key and the provider.
sfKeys == Cand \X (Reqs \cup {Nobody2})

VARIABLES
    sr,        \* of each request: where it is, its candidate, what it got, its result ...
    srow,      \* the status of its row in responses
    charges,   \* how often a budget was charged for it
    gone,      \* the client has left
    flight,    \* of each key: the request whose context the shared call uses
    tries,     \*  and the retries made
    stored,    \* the response cache has the answer
    jobs, persistPool,   \* in the bus, on goroutines of their own
    called,    \* callbacks sent
    upfail, cut, torn,  \* requests that met an upstream failure, a call cut off by its owner's
                        \* leaving, a failed call of the store
    srFaults

srVars == <<sr, srow, charges, gone, flight, tries, stored, jobs, persistPool, called, upfail, cut, torn, srFaults>>
back == <<jobs, persistPool, called>>
calls == <<flight, tries>>
told == <<upfail, cut>>

NoReq == [pc |-> "idle", at |-> 1, fb |-> FALSE, got |-> "none", prev |-> Nobody2, rounds |-> 0,
          block |-> FALSE, res |-> "none"]

SrInit ==
    /\ sr = [q \in Reqs |-> NoReq]
    /\ srow = [q \in Reqs |-> "none"]
    /\ charges = [q \in Reqs |-> 0]
    /\ gone = {}
    /\ flight = [k \in sfKeys |-> Nobody2] /\ tries = [k \in sfKeys |-> 0]
    /\ stored = FALSE
    /\ jobs = {} /\ persistPool = {} /\ called = [q \in Reqs |-> 0]
    /\ upfail = {} /\ cut = {} /\ torn = {}
    /\ srFaults = 0

-----------------------------------------------------------------------------
Goes(q, pc) == sr' = [sr EXCEPT ![q].pc = pc]
Ends(q, res) == sr' = [sr EXCEPT ![q].pc = "done", ![q].res = res]

\* A write on the request's context.
Writes(q, ok) ==
    \/ ok /\ q \notin gone /\ UNCHANGED <<torn, srFaults>>
    \/ ~ok /\ q \in gone /\ torn' = torn \cup {q} /\ UNCHANGED srFaults
    \/ ~ok /\ q \notin gone /\ srFaults < MaxSrFault /\ srFaults' = srFaults + 1 /\ torn' = torn \cup {q}
UpdateRow(q, ok, st) == srow' = IF ok THEN [srow EXCEPT ![q] = st] ELSE srow

\* hydratePreviousResponse: the response that a request continues has to be completed; that
\* the store fails while it is read is an error of the request.
Hydrates(prev) == prev = Nobody2 \/ srow[prev] = "completed"

HydrationFails(q, prev) ==
    /\ sr[q].pc = "idle" /\ prev \notin {q, Nobody2}
    /\ Writes(q, FALSE)
    /\ sr' = [sr EXCEPT ![q] = [NoReq EXCEPT !.pc = "done", !.res = "error", !.prev = prev]]
    /\ UNCHANGED <<srow, charges, gone, calls, stored, back, told>>

Create(q, prev) ==
    /\ sr[q].pc = "idle" /\ prev # q
    /\ sr' = [sr EXCEPT ![q] = IF Hydrates(prev)
                                THEN [NoReq EXCEPT !.pc = "admit", !.prev = prev]
                                ELSE [NoReq EXCEPT !.pc = "done", !.res = "invalid_previous", !.prev = prev]]
    /\ UNCHANGED <<srow, charges, gone, calls, stored, back, told, torn, srFaults>>

\* validateToolOwnership: a tool without exactly one owner, or the gateway's without executor.
RefuseTools(q) ==
    /\ sr[q].pc = "admit"
    /\ Ends(q, "invalid_tools")
    /\ UNCHANGED <<srow, charges, gone, calls, stored, back, told, torn, srFaults>>

\* PreCall of the guardrails, admitRequest: refused, or the cache is asked.
AdmitCreate(q, ok) ==
    /\ sr[q].pc = "admit"
    /\ IF ok THEN Goes(q, "cache") ELSE Ends(q, "refused")
    /\ UNCHANGED <<srow, charges, gone, calls, stored, back, told, torn, srFaults>>

\* lookupCache, lookupSemanticCache: an answer of the cache leaves no row and no charge.
LookupShared(q) ==
    /\ sr[q].pc = "cache"
    /\ IF stored /\ sr[q].prev = Nobody2 THEN Ends(q, "cached") ELSE Goes(q, "plan")
    /\ UNCHANGED <<srow, charges, gone, calls, stored, back, told, torn, srFaults>>

\* planCandidates has none, or the row is created.
PlanCreate(q, found, ok) ==
    /\ sr[q].pc = "plan"
    /\ \/ ~found /\ ok /\ Ends(q, "no_provider") /\ UNCHANGED <<srow, torn, srFaults>>
       \/ found /\ Writes(q, ok) /\ UpdateRow(q, ok, "in_progress")
                /\ IF ok THEN Goes(q, "try") ELSE Ends(q, "error")
    /\ UNCHANGED <<charges, gone, calls, stored, back, told>>

-----------------------------------------------------------------------------
(* The loop over the candidates.                                            *)

Trying(q) == sr[q].pc = "try" /\ sr[q].at \in Cand

sfKey(q) == <<sr[q].at, sr[q].prev>>

\* A refusal of the provider's own bucket, or by its breaker: the next one.
SkipCandidate(q) ==
    /\ Trying(q)
    /\ sr' = [sr EXCEPT ![q].at = @ + 1]
    /\ UNCHANGED <<srow, charges, gone, calls, stored, back, told, torn, srFaults>>

\* Any other refusal ends the request: markRateLimitResponse.
RateLimited(q, ok) ==
    /\ Trying(q)
    /\ Writes(q, ok) /\ UpdateRow(q, ok, "error")
    /\ Ends(q, "rate_limited")
    /\ UNCHANGED <<charges, gone, calls, stored, back, told>>

\* A fallback sets the row in progress again; a failure of that is ignored.  The request joins
\* the call under way at the provider, or makes it.
CallProvider(q, ok) ==
    /\ Trying(q)
    /\ LET p == sfKey(q)
       IN  /\ IF sr[q].fb THEN Writes(q, ok) /\ UpdateRow(q, ok, "in_progress")
              ELSE ok /\ UNCHANGED <<srow, torn, srFaults>>
           /\ flight' = [flight EXCEPT ![p] = IF @ = Nobody2 THEN q ELSE @]
    /\ Goes(q, "call")
    /\ UNCHANGED <<charges, gone, tries, stored, back, told>>

\* The requests that get the result of the call of key p.
Sharing(p) == {q \in Reqs : sr[q].pc = "call" /\ sfKey(q) = p}

\* The call is over, for all that share it.
Lands(p, got) ==
    /\ sr' = [q \in Reqs |-> IF q \in Sharing(p) THEN [sr[q] EXCEPT !.pc = "got", !.got = got] ELSE sr[q]]
    /\ flight' = [flight EXCEPT ![p] = Nobody2]
    /\ tries' = [tries EXCEPT ![p] = 0]
    /\ UNCHANGED <<srow, charges, gone, stored, back, torn, srFaults>>

UpstreamAnswers(p) == flight[p] # Nobody2 /\ Lands(p, "ok") /\ UNCHANGED told

\* callWithRetry: an error that is not worth a retry, the last one, or a plugin's BLOCK.
UpstreamFails(p) ==
    /\ flight[p] # Nobody2
    /\ Lands(p, "error")
    /\ upfail' = upfail \cup {q \in Reqs : sr[q].pc = "call" /\ sfKey(q) = p}
    /\ UNCHANGED cut

UpstreamRetries(p) ==
    /\ flight[p] # Nobody2 /\ tries[p] < MaxRetries
    /\ tries' = [tries EXCEPT ![p] = @ + 1]
    /\ UNCHANGED <<sr, srow, charges, gone, flight, stored, back, told, torn, srFaults>>

\* The context of the call is done: that of its owner, whoever else waits.
UpstreamCut(p) ==
    /\ flight[p] \in gone
    /\ Lands(p, "error")
    /\ cut' = cut \cup {q \in Reqs : sr[q].pc = "call" /\ sfKey(q) = p}
    /\ UNCHANGED upfail

\* markErrorWithProvider, and on to the next candidate.
CallFailed(q, ok) ==
    /\ sr[q].pc = "got" /\ sr[q].got = "error"
    /\ Writes(q, ok) /\ UpdateRow(q, ok, "error")
    /\ sr' = [sr EXCEPT ![q].pc = "try", ![q].at = @ + 1, ![q].fb = TRUE, ![q].got = "none"]
    /\ UNCHANGED <<charges, gone, calls, stored, back, told>>

\* No candidate was called: markRateLimitResponse.
NoneLeftRow(q, ok) == Writes(q, ok) /\ UpdateRow(q, ok, "error")

NoCandidateLeft(q, ok) ==
    /\ sr[q].pc = "try" /\ sr[q].at \notin Cand
    /\ IF sr[q].fb THEN ok /\ Ends(q, "error") /\ UNCHANGED <<srow, torn, srFaults>>
       ELSE NoneLeftRow(q, ok) /\ Ends(q, "no_provider")
    /\ UNCHANGED <<charges, gone, calls, stored, back, told>>

-----------------------------------------------------------------------------
(* The answer.                                                              *)

\* runGatewayToolLoop: tools that the gateway owns are run, and the provider is called again,
\* at most MaxLoopRounds times.
ToolRound(q) ==
    /\ sr[q].pc = "got" /\ sr[q].got = "ok" /\ sr[q].rounds < MaxLoopRounds /\ q \notin gone
    /\ sr' = [sr EXCEPT ![q].rounds = @ + 1]
    /\ UNCHANGED <<srow, charges, gone, calls, stored, back, told, torn, srFaults>>

\* A tool, a call or the limit of rounds: the request fails, without fallback or charge.
ToolLoopFails(q, ok) ==
    /\ sr[q].pc = "got" /\ sr[q].got = "ok"
    /\ Writes(q, ok) /\ UpdateRow(q, ok, "error")
    /\ Ends(q, "tool_error")
    /\ UNCHANGED <<charges, gone, calls, stored, back, told>>

\* recordOutputBudgetError: it is charged nevertheless.
FailsCharged(q, ok, paid) ==
    /\ Writes(q, ok) /\ UpdateRow(q, ok, "error")
    /\ paid => ok
    /\ charges' = [charges EXCEPT ![q] = IF paid THEN @ + 1 ELSE @]

\* validateVisibleOutputBudget: no visible output.
OutputBudgetError(q, ok, paid) ==
    /\ sr[q].pc = "got" /\ sr[q].got = "ok"
    /\ FailsCharged(q, ok, paid)
    /\ Ends(q, "output_budget")
    /\ UNCHANGED <<gone, calls, stored, back, told>>

\* PostCall: a blocked answer is persisted, and charged, all the same.
PostCall(q, block) ==
    /\ sr[q].pc = "got" /\ sr[q].got = "ok"
    /\ sr' = [sr EXCEPT ![q].pc = "consume", ![q].block = block]
    /\ UNCHANGED <<srow, charges, gone, calls, stored, back, told, torn, srFaults>>

\* An error of persistSuccess is the request's, but for a blocked answer, whose client is told
\* ErrGuardrailBlocked: "blocked" if it was persisted, and these two if the error was dropped.
PersistFails(q, res) ==
    Ends(q, IF ~sr[q].block THEN res ELSE IF res = "budget" THEN "blocked_budget" ELSE "blocked_error")

\* persistSuccess: HasQuota, ConsumeBudgets.
ConsumeBudgets(q, ok) ==
    /\ sr[q].pc = "consume"
    /\ Writes(q, ok)
    /\ charges' = [charges EXCEPT ![q] = IF ok THEN @ + 1 ELSE @]
    /\ IF ok THEN Goes(q, "usage") ELSE PersistFails(q, "error")
    /\ UNCHANGED <<srow, gone, calls, stored, back, told>>

\* recordBudgetExceeded, recordQuotaExceeded; the latter charges the cost without tokens.
BudgetExceeded(q, ok, paid) ==
    /\ sr[q].pc = "consume"
    /\ FailsCharged(q, ok, paid)
    /\ PersistFails(q, "budget")
    /\ UNCHANGED <<gone, calls, stored, back, told>>

\* Mutant: the next candidate is tried.
UsageFailed_Next(q) == sr' = [sr EXCEPT ![q] = [@ EXCEPT !.pc = "try", !.at = @ + 1, !.fb = TRUE]]
\* The usage record was refused after the charge: the request ends.
UsageFailed(q) == PersistFails(q, "error")

\* CreateUsageRecord.
ChargeUsage(q, ok) ==
    /\ sr[q].pc = "usage"
    /\ Writes(q, ok)
    /\ IF ok THEN Goes(q, "publish") ELSE UsageFailed(q)
    /\ UNCHANGED <<srow, charges, gone, calls, stored, back, told>>

-----------------------------------------------------------------------------
(* The event bus, and what runs on it.                                      *)

Busy == Cardinality(jobs) >= BusSize

\* handleUpdateResponseEvent: three attempts on a context of its own.
Completes(q, ok) ==
    \/ ok /\ srow' = [srow EXCEPT ![q] = "completed"] /\ UNCHANGED <<torn, srFaults>>
    \/ ~ok /\ srFaults < MaxSrFault /\ srFaults' = srFaults + 1 /\ torn' = torn \cup {q} /\ UNCHANGED srow

\* PublishEvent: to the bus, and in the request when that is full.
PublishCompletion(q, ok) ==
    /\ sr[q].pc = "publish"
    /\ IF Busy THEN Completes(q, ok) /\ UNCHANGED jobs
       ELSE ok /\ jobs' = jobs \cup {<<"update", q>>} /\ UNCHANGED <<srow, torn, srFaults>>
    /\ Goes(q, "callback")
    /\ UNCHANGED <<charges, gone, calls, stored, persistPool, called, told>>

\* The pool is full as well: the request runs it.
RunInline(q) == called' = [called EXCEPT ![q] = @ + 1] /\ UNCHANGED <<jobs, persistPool>>

\* publishOrInline, of alerts and callback.
publishOrInline(q) ==
    /\ sr[q].pc = "callback"
    /\ CASE ~Busy -> jobs' = jobs \cup {<<"callback", q>>} /\ UNCHANGED <<persistPool, called>>
         [] Busy /\ Cardinality(persistPool) < PersistSlots -> persistPool' = persistPool \cup {q} /\ UNCHANGED <<jobs, called>>
         [] OTHER -> RunInline(q)
    /\ Goes(q, "answer")
    /\ UNCHANGED <<srow, charges, gone, calls, stored, told, torn, srFaults>>

\* writeCache, and the result; a blocked answer is in no cache.
AnswerCreate(q) ==
    /\ sr[q].pc = "answer"
    /\ stored' = (stored \/ (~sr[q].block /\ sr[q].prev = Nobody2))
    /\ Ends(q, IF sr[q].block THEN "blocked" ELSE "ok")
    /\ UNCHANGED <<srow, charges, gone, calls, back, told, torn, srFaults>>

RunUpdate(q, ok) ==
    /\ <<"update", q>> \in jobs
    /\ jobs' = jobs \ {<<"update", q>>}
    /\ Completes(q, ok)
    /\ UNCHANGED <<sr, charges, gone, calls, stored, persistPool, called, told>>

\* sendCallback, on a worker of the bus or on a goroutine; its failure is logged.
RunCallback(q) ==
    /\ \/ <<"callback", q>> \in jobs /\ jobs' = jobs \ {<<"callback", q>>} /\ UNCHANGED persistPool
       \/ q \in persistPool /\ persistPool' = persistPool \ {q} /\ UNCHANGED jobs
    /\ called' = [called EXCEPT ![q] = @ + 1]
    /\ UNCHANGED <<sr, srow, charges, gone, calls, stored, told, torn, srFaults>>

CallerLeaves(q) ==
    /\ sr[q].pc \notin {"idle", "done"} /\ q \notin gone
    /\ gone' = gone \cup {q}
    /\ UNCHANGED <<sr, srow, charges, calls, stored, back, told, torn, srFaults>>

-----------------------------------------------------------------------------
SrNext ==
    \/ \E q \in Reqs :
          \/ \E prev \in Reqs \cup {Nobody2} : Create(q, prev) \/ HydrationFails(q, prev)
          \/ \E ok \in BOOLEAN :
                \/ AdmitCreate(q, ok) \/ RateLimited(q, ok) \/ CallProvider(q, ok) \/ CallFailed(q, ok)
                \/ NoCandidateLeft(q, ok) \/ ToolLoopFails(q, ok)
                \/ ConsumeBudgets(q, ok) \/ ChargeUsage(q, ok) \/ PublishCompletion(q, ok) \/ RunUpdate(q, ok)
                \/ \E b \in BOOLEAN : PlanCreate(q, b, ok) \/ OutputBudgetError(q, ok, b) \/ BudgetExceeded(q, ok, b)
          \/ RefuseTools(q) \/ LookupShared(q) \/ SkipCandidate(q) \/ ToolRound(q)
          \/ \E block \in BOOLEAN : PostCall(q, block)
          \/ publishOrInline(q) \/ AnswerCreate(q) \/ RunCallback(q) \/ CallerLeaves(q)
    \/ \E p \in sfKeys : UpstreamAnswers(p) \/ UpstreamFails(p) \/ UpstreamRetries(p) \/ UpstreamCut(p)

SrSpec == SrInit /\ [][SrNext]_srVars

-----------------------------------------------------------------------------
(* Properties.                                                              *)

\* Type invariant.  A call under way has an owner that waits for it, so no provider stays
\* occupied by a call nobody makes; the goroutines stay within their number.
SrTypeOK ==
    /\ \A q \in Reqs :
          /\ sr[q].pc \in {"idle", "admit", "cache", "plan", "try", "call", "got", "consume", "usage", "publish",
                           "callback", "answer", "done"}
          /\ sr[q].at \in 1..NCand + 1
          /\ srow[q] \in {"none", "in_progress", "error", "completed"}
          /\ sr[q].rounds \in 0..MaxLoopRounds
    /\ gone \subseteq Reqs
    /\ \A p \in sfKeys :
          /\ tries[p] \in 0..MaxRetries
          /\ Sharing(p) # {} <=> flight[p] # Nobody2
          /\ flight[p] # Nobody2 => flight[p] \in Sharing(p)
    /\ persistPool \subseteq Reqs /\ Cardinality(persistPool) <= PersistSlots
    /\ jobs \subseteq {"update", "callback"} \X Reqs /\ Cardinality(jobs) <= BusSize

\* A request is charged at most once over all its candidates, an answered one exactly once,
\* and its row is completed, so that others may continue from it, only when it was charged.
\* An answer that a guardrail blocks is charged as well, unless the store failed or the budget
\* is used up, which create.go does not tell anyone.
ChargedOnce ==
    \A q \in Reqs :
        /\ charges[q] <= 1
        /\ sr[q].res \in {"ok", "blocked"} \/ srow[q] = "completed" => charges[q] = 1
        /\ sr[q].res = "blocked_error" => q \in torn

\* A row that stays in progress after its request and its jobs are over: only when the client
\* left or a write failed.
RowSettles ==
    \A q \in Reqs : sr[q].pc = "done" /\ srow[q] = "in_progress" /\ <<"update", q>> \notin jobs
        => q \in torn

\* A client that waits gets an error only for an upstream failure, a failed store, or because
\* the owner of a call it shared has left.
FailsWithCause ==
    \A q \in Reqs : sr[q].res = "error" => q \in upfail \/ q \in torn \/ q \in cut

\* Alerts and callback of a request that persistSuccess charged and recorded run once, however
\* full the bus and the pool are; of any other, never.
CallbackOnce ==
    \A q \in Reqs :
        /\ called[q] <= 1
        /\ sr[q].res \in {"ok", "blocked"} /\ <<"callback", q>> \notin jobs /\ q \notin persistPool => called[q] = 1
        /\ sr[q].res \in {"blocked_error", "blocked_budget", "error", "budget"} => called[q] = 0

\* A request of Create, over all its candidates, retries and shared calls: it is charged once, its
\* row settles, it fails only with a cause of its own, and its callback runs once.
CreateSound == SrTypeOK /\ ChargedOnce /\ RowSettles /\ FailsWithCause /\ CallbackOnce
=============================================================================

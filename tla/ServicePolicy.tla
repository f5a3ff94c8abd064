--------------------------- MODULE ServicePolicy ---------------------------
(***************************************************************************)
(* What a service refuses and hides.  Rules are set for a tenant, a project *)
(* and a service and merged when a request comes; the answer of a stream    *)
(* goes through filterResponseStream, a goroutine between the producer of   *)
(* the stream and the HTTP handler.  A term to block may come in pieces; the*)
(* producer may fail, closes both of its channels in any case, and select   *)
(* takes any ready case.                                                    *)
(***************************************************************************)
EXTENDS Integers, Sequences, FiniteSets, Selections

CONSTANTS
    Models,      \* names of models
    RuleSets,    \* the rule sets administrators choose from, NoRules among them
    Deltas,      \* pieces of text the upstream produces
    MaxPolicyEdits, MaxDeltas

Levels == <<"tenant", "project", "service">>
NoRules == [set |-> FALSE, allow |-> {}, block |-> {}, terms |-> {}, redact |-> {}, max |-> 0]
NoPolicy == [set |-> FALSE, on |-> FALSE, rules |-> NoRules]
Blank == <<>>               \* an entry of spaces
DenyAll == <<"deny_all">>   \* __gateyes_deny_all__

\* Events of a stream: a piece of the text, and the end with the whole answer.
Delta(d) == [type |-> "delta", text |-> d]
Completed(answer) == [type |-> "completed", text |-> answer]

\* The names and terms that rules have, and the rules.
Words == {DenyAll} \cup UNION {r.allow \cup r.block \cup r.terms \cup r.redact : r \in RuleSets}
GuardrailRuleSet ==
    [set : BOOLEAN, allow : SUBSET Words, block : SUBSET Words, terms : SUBSET Words, redact : SUBSET Words, max : Int]

\* Texts are sequences of letters, and there are finitely many terms.
ASSUME PolicyAssumption ==
    /\ MaxPolicyEdits \in Nat /\ MaxDeltas \in Nat
    /\ Models \cap {Blank, DenyAll} = {}
    /\ \A r \in RuleSets : r \in GuardrailRuleSet
    /\ \A t \in Words \cup Deltas : t \in Seq(Members(t))
    /\ IsFiniteSet(Words)

VARIABLES
    policies,    \* of each level its policy, the rules for requests and answers alike
    policyEdits,
    effective,   \* the policy the stream was started under
    hides,       \* its terms to hide, in the order of the list
    kind,        \* "live": channels without a buffer; "owned": all events are in the buffer at once
    produced,    \* the events of the producer
    received,    \* how many of them the filter has taken
    ended,       \* the producer has closed its channels: the errors first, then the events
    failed,      \* it has put an error into its channel before that
    filter,      \* "running", or how it returned
    accumulated, \* the buffer of the filter
    forwarded    \* events the handler got, as the filter passed them on

streamState == <<effective, hides, kind, produced, received, ended, failed, filter, accumulated, forwarded>>
policyVars == <<policies, policyEdits, streamState>>

PolicyInit ==
    /\ policies = [l \in {Levels[i] : i \in DOMAIN Levels} |-> NoPolicy]
    /\ policyEdits = 0
    /\ effective = NoPolicy /\ hides = <<>> /\ kind = "" /\ produced = <<>> /\ received = 0
    /\ ended = FALSE /\ failed = FALSE /\ filter = "" /\ accumulated = <<>> /\ forwarded = <<>>

-----------------------------------------------------------------------------
(* Merging.                                                                 *)

normalizeStringList(list) == list \ {Blank}

mergeAllowModels(base, overlay) ==
    LET b == normalizeStringList(base)
        o == normalizeStringList(overlay)
    IN  IF b = {} THEN o
        ELSE IF o = {} THEN b
        ELSE IF b \cap o = {} THEN {DenyAll} ELSE b \cap o

mergeUniqueStrings(base, overlay) == normalizeStringList(base) \cup normalizeStringList(overlay)

minPositive(a, b) == IF a <= 0 THEN b ELSE IF b <= 0 THEN a ELSE IF a < b THEN a ELSE b

guardrailRuleSetHasRules(r) ==
    /\ r.set
    /\ \/ \E list \in {r.allow, r.block, r.terms, r.redact} : normalizeStringList(list) # {}
       \/ r.max > 0

mergeGuardrailRuleSets(base, overlay) ==
    LET merged == [set    |-> TRUE,
                   allow  |-> mergeAllowModels(base.allow, overlay.allow),
                   block  |-> mergeUniqueStrings(base.block, overlay.block),
                   terms  |-> mergeUniqueStrings(base.terms, overlay.terms),
                   redact |-> mergeUniqueStrings(base.redact, overlay.redact),
                   max    |-> minPositive(base.max, overlay.max)]
    IN  IF ~base.set THEN overlay
        ELSE IF ~overlay.set THEN base
        ELSE IF guardrailRuleSetHasRules(merged) THEN merged ELSE NoRules

\* Rules count even where the policy that holds them is switched off.
mergeServicePolicies(base, overlay) ==
    LET rules == IF overlay.set THEN mergeGuardrailRuleSets(base.rules, overlay.rules) ELSE base.rules
        on == base.on \/ overlay.on
    IN  IF ~rules.set /\ ~on THEN NoPolicy
        ELSE [set |-> TRUE, on |-> on \/ guardrailRuleSetHasRules(rules), rules |-> rules]

resolveEffectivePolicy(p) ==
    mergeServicePolicies(mergeServicePolicies(mergeServicePolicies(NoPolicy, p["tenant"]), p["project"]), p["service"])

-----------------------------------------------------------------------------
(* Applying.                                                                *)

Occurs(term, text) == \E i \in 1..(Len(text) - Len(term) + 1) : SubSeq(text, i, i + Len(term) - 1) = term
checkBlockedContent(r, text) == \E term \in r.terms \ {Blank} : Occurs(term, text)

\* applyRequestPolicy: whether a request is refused.
RequestRefused(p, model, text) ==
    /\ p.on /\ p.rules.set
    /\ \/ p.rules.allow # {} /\ model \notin p.rules.allow
       \/ model \in p.rules.block
       \/ p.rules.max > 0 /\ Len(text) > p.rules.max
       \/ checkBlockedContent(p.rules, text)

\* strings.ReplaceAll: where the term occurs, from the left and without overlaps, a longer text is put.
Replaced(text, term) ==
    CHOOSE S \in SUBSET DOMAIN text :
        \A i \in DOMAIN text :
            i \in S <=> /\ i + Len(term) - 1 <= Len(text) /\ SubSeq(text, i, i + Len(term) - 1) = term
                       /\ \A j \in S : j < i => j + Len(term) <= i
replaceAll(text, term) ==
    LET starts == Replaced(text, term)
        part(i) == IF i \in starts THEN <<"R", "R">>
                   ELSE IF \E j \in starts : j < i /\ i < j + Len(term) THEN <<>> ELSE <<text[i]>>
    IN  IF term = Blank THEN text ELSE Concatenation([i \in DOMAIN text |-> part(i)])

\* redactText, term by term.  It sees one piece at a time: a term that is cut in two goes past it.
redactText(text, terms) ==
    LET after[i \in 0 .. Len(terms)] == IF i = 0 THEN text ELSE replaceAll(after[i - 1], terms[i])
    IN  after[Len(terms)]

\* applyResponsePolicy: the whole answer, before anything is hidden in it.
ResponseRefused(p, text) ==
    /\ p.on /\ p.rules.set
    /\ checkBlockedContent(p.rules, text) \/ (p.rules.max > 0 /\ Len(text) > p.rules.max)

-----------------------------------------------------------------------------
(* The stream.                                                              *)

\* The rules of a stream are merged once, when it starts: later edits do not reach it.
EditPolicy(level, p) ==
    /\ kind = "" /\ policyEdits < MaxPolicyEdits /\ policies[level] # p
    /\ policies' = [policies EXCEPT ![level] = p]
    /\ policyEdits' = policyEdits + 1
    /\ UNCHANGED streamState

\* CreateStream, CreatePromptInvocationStream: without a policy there is no filter.  The lists of terms
\* have an order, which the sets of the rules leave open.
Orders(terms) == {s \in [1 .. Cardinality(terms) -> terms] : Members(s) = terms}
CreateStream(k) ==
    LET p == resolveEffectivePolicy(policies)
    IN  /\ kind = "" /\ p.on /\ p.rules.set
        /\ kind' = k /\ effective' = p /\ hides' \in Orders(p.rules.redact) /\ filter' = "running"
        /\ UNCHANGED <<policies, policyEdits, produced, received, ended, failed, accumulated, forwarded>>

Producing == kind # "" /\ ~ended
AllReceived == received = Len(produced)
ProducerKeeps == UNCHANGED <<policies, policyEdits, effective, hides, kind, received, filter, accumulated, forwarded>>

\* runStreamWithFallback sends: it waits until its event is received.
SendDelta(d) ==
    /\ Producing /\ kind = "live" /\ AllReceived /\ Len(produced) < MaxDeltas
    /\ produced' = Append(produced, Delta(d))
    /\ ProducerKeeps /\ UNCHANGED <<ended, failed>>

\* The answer it ends with need not be the pieces it sent: checks may have replaced it, and a replay
\* without a transcript has no pieces.
SendCompleted(answer) ==
    /\ Producing /\ kind = "live" /\ AllReceived
    /\ produced' = Append(produced, Completed(answer)) /\ ended' = TRUE
    /\ ProducerKeeps /\ UNCHANGED failed

\* Its upstream or its replay fails: the error goes to a channel that has room, and both are closed.
SendError ==
    /\ Producing /\ kind = "live" /\ AllReceived
    /\ failed' = TRUE /\ ended' = TRUE
    /\ ProducerKeeps /\ UNCHANGED produced

\* createGatewayOwnedStream: one delta and the end go to the buffer, and both channels are closed.
SendOwned(d) ==
    /\ Producing /\ kind = "owned"
    /\ produced' = (IF d = <<>> THEN <<Completed(d)>> ELSE <<Delta(d), Completed(d)>>) /\ ended' = TRUE
    /\ ProducerKeeps /\ UNCHANGED failed

FilterKeeps == UNCHANGED <<policies, policyEdits, effective, hides, kind, produced, ended, failed>>
NextEvent == produced[received + 1]
Hidden(e) == [e EXCEPT !.text = redactText(@, hides)]
Receives(type) ==
    /\ filter = "running" /\ received < Len(produced) /\ NextEvent.type = type
    /\ received' = received + 1 /\ FilterKeeps
PassesOnUnless(refused) ==
    /\ filter' = IF refused THEN "refused" ELSE filter
    /\ forwarded' = IF refused THEN forwarded ELSE Append(forwarded, Hidden(NextEvent))

\* filterResponseStream: hide, accumulate, check what has come so far, pass on.
Accumulate_Delta(acc, text) == text
Accumulate(acc, text) == acc \o text

FilterDelta ==
    LET acc == Accumulate(accumulated, Hidden(NextEvent).text)
    IN  /\ Receives("delta")
        /\ accumulated' = acc
        /\ PassesOnUnless(checkBlockedContent(effective.rules, acc)
                             \/ (effective.rules.max > 0 /\ Len(acc) > effective.rules.max))

\* The answer is checked before anything is hidden in it.
FilterCompleted ==
    /\ Receives("completed")
    /\ PassesOnUnless(ResponseRefused(effective, NextEvent.text))
    /\ UNCHANGED accumulated

FilterReturns(how) ==
    /\ filter = "running" /\ filter' = how
    /\ FilterKeeps /\ UNCHANGED <<received, accumulated, forwarded>>

\* select takes any ready case: the error that waits, or the closed events although an error waits, or
\* the closed errors although events are left in the buffer.  A live producer closes only after its
\* last event was received.
FilterSeesError == failed /\ FilterReturns("failed")
FilterSeesEventsClosed == ended /\ AllReceived /\ FilterReturns("ended")
ErrorsClosed == ended /\ ~failed /\ (kind = "live" => AllReceived)
FilterSeesErrorsClosed == ErrorsClosed /\ FilterReturns("ended")

\* The client leaves: the context ends the filter, but not a producer that waits to send.
ReaderLeaves == FilterReturns("left")

\* The answers of the model: its pieces put together, or what replaced them.
Answers == Deltas \cup {Concatenation([i \in DOMAIN produced |-> produced[i].text])}

PolicyNext ==
    \/ \E level \in DOMAIN policies, on \in BOOLEAN, r \in RuleSets :
          EditPolicy(level, [set |-> TRUE, on |-> on, rules |-> r])
    \/ \E k \in {"live", "owned"} : CreateStream(k)
    \/ \E d \in Deltas : SendDelta(d)
    \/ \E answer \in Answers : SendCompleted(answer)
    \/ \E d \in Deltas \cup {<<>>} : SendOwned(d)
    \/ SendError \/ FilterDelta \/ FilterCompleted
    \/ FilterSeesError \/ FilterSeesEventsClosed \/ FilterSeesErrorsClosed \/ ReaderLeaves

PolicySpec == PolicyInit /\ [][PolicyNext]_policyVars

-----------------------------------------------------------------------------
(* Properties.                                                              *)

TextOf(events) ==
    Concatenation([i \in DOMAIN events |-> IF events[i].type = "completed" THEN <<>> ELSE events[i].text])
Text == TextOf(forwarded)

PolicyTypeOK ==
    /\ filter \in {"", "running", "refused", "ended", "failed", "left"} /\ kind \in {"", "live", "owned"}
    /\ received \in 0 .. Len(produced) /\ (kind = "live" => Len(produced) <= received + 1)
    /\ filter = "running" => Text = accumulated
    /\ effective.rules.set => effective.on

\* A request is refused exactly when the rules of some level refuse it: no level can take back what
\* another one forbids, also where their lists of models have nothing in common, and nothing is
\* refused that no level forbids (but for a list of blanks, which forbids everything on its own).
EffectiveIsAllLevels ==
    LET eff == resolveEffectivePolicy(policies)
        blanks == \E l \in DOMAIN policies : Blank \in policies[l].rules.allow
        Refuses(l, m, t) == LET r == policies[l].rules
                            IN  RequestRefused([set |-> TRUE, on |-> TRUE,
                                                rules |-> [r EXCEPT !.allow = normalizeStringList(@)]], m, t)
    IN  \A m \in Models, t \in Deltas :
            LET some == \E l \in DOMAIN policies : Refuses(l, m, t)
            IN  /\ some => RequestRefused(eff, m, t)
                /\ RequestRefused(eff, m, t) => some \/ blanks

\* However the answer is cut in pieces, the text the client has got holds no blocked term and is no
\* longer than allowed; the same of the answer that its completion carries, before it was hidden in.
NothingForbiddenPasses ==
    filter # "" => /\ ~checkBlockedContent(effective.rules, Text)
                   /\ effective.rules.max > 0 => Len(Text) <= effective.rules.max
                   /\ \A i \in DOMAIN forwarded :
                         forwarded[i].type = "completed" => ~ResponseRefused(effective, produced[i].text)

\* The client gets the events of the producer in their order, each once, none left out, with the terms to
\* hide hidden in each.  A live stream that ends without an error and without the client leaving has
\* passed on all of them, the completion last, unless the producer failed: that error may be lost, but
\* then no completion is ever sent.  From the buffer of a gateway-owned stream events may be lost.
EndsWhole ==
    /\ Len(forwarded) <= received /\ \A i \in DOMAIN forwarded : forwarded[i] = Hidden(produced[i])
    /\ filter = "ended" /\ kind = "live" /\ ~failed
          => produced # <<>> /\ Len(forwarded) = Len(produced) /\ produced[Len(produced)].type = "completed"
    /\ failed => \A i \in DOMAIN produced : produced[i].type # "completed"

\* The policy of a service binds with all its levels, on requests (applyRequestPolicy) and on streams however
\* they are cut (filterResponseStream), and a stream it lets through is whole.
PolicySound == PolicyTypeOK /\ EffectiveIsAllLevels /\ NothingForbiddenPasses /\ EndsWhole
=============================================================================

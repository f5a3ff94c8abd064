---------------------------- MODULE AlertDelivery ----------------------------
(***************************************************************************)
(* Alerts: which events are told, once a window, to which channels.         *)
(*                                                                          *)
(* A notifier (the health checker, a request, a background write) asks the  *)
(* aggregator whether its key was told within the window, and then hands    *)
(* the alert to every channel whose labels match, each in a goroutine that  *)
(* holds a slot of a semaphore; with no slot left the alert is dropped.     *)
(* The quota alert has a memory of its own, read before the sending and     *)
(* written after it.  Reload swaps the configuration, the channels and the  *)
(* aggregator in four writes under a lock that the senders do not take, and *)
(* its new aggregator no longer knows Redis.                                *)
(***************************************************************************)
EXTENDS Selections, FiniteSets

CONSTANTS
    Notifiers,    \* goroutines that raise events
    AlertConfs,   \* configurations: enabled, channels listed, legacy URLs
    AlertEvents,  \* events: memory ("dedup", "quota", "none"), key, labels
    DedupWindow,  \* ticks of the aggregator's window
    QuotaWindow,  \* ticks of the 24 hours of a quota alert
    SendSlots,    \* capacity of sendSem
    MaxReloads    \* bound on reloads and on failures of Redis

ASSUME AlertAssumption ==
    /\ DedupWindow \in Nat \ {0}
    /\ QuotaWindow \in Nat \ {0}
    /\ SendSlots \in Nat \ {0}
    /\ \A c \in AlertConfs : /\ c.enabled \in BOOLEAN
                             /\ c.listed \in Seq(Members(c.listed)) /\ c.legacy \in Seq(Members(c.legacy))
    /\ AlertEvents # {} /\ \A e \in AlertEvents : e.memory \in {"dedup", "quota", "none"}

VARIABLES
    alertConf,    \* s.cfg
    channels,     \* s.channels
    aggRedis,     \* the aggregator has a Redis client
    redisAlive,   \* Redis answers
    told,         \* of each memory and key, the ticks since it was recorded
    reloadAt,     \* the next write of a Reload under way, with its configuration
    notifierAt,   \* where each notifier is
    event,        \* the event it raises
    remaining,    \* the channels its loop has still to visit
    inFlight,     \* the sends that hold a slot
    asked,        \* ghost: what the last question was answered, and what it should be
    raised,       \* ghost: of each memory and key, the ticks since an alert was let through, or recorded
                  \* without the answer coming back
    reloads       \* reloads and failures of Redis so far

alertVars == <<alertConf, channels, aggRedis, redisAlive, told, reloadAt, notifierAt, event,
               remaining, inFlight, asked, raised, reloads>>

Memories == {"redis", "local", "quota"}
AlertKeys == {e.key : e \in AlertEvents}
WindowOf(m) == IF m = "quota" THEN QuotaWindow ELSE DedupWindow
\* An age beyond every window, and that of a key never recorded.
Never == IF DedupWindow > QuotaWindow THEN DedupWindow ELSE QuotaWindow
NoReload == [step |-> 0, conf |-> CHOOSE c \in AlertConfs : TRUE]
NoEvent == CHOOSE e \in AlertEvents : TRUE
NoQuestion == [admitted |-> FALSE, due |-> FALSE]

\* The channels listed, where their type is known; with none, one for each
\* of the legacy URLs.
buildChannels(c) ==
    LET known == MembersIn(c.listed, {ch \in Members(c.listed) : ch.type \in {"feishu", "webhook"}})
    IN  IF known # <<>> THEN known ELSE c.legacy

\* A disabled configuration leaves no channel.
EnabledChannels(c) == IF c.enabled THEN buildChannels(c) ELSE <<>>

\* Every label of the channel, and not just one of them, is the alert's.
Match(ch, labels) == \A l \in DOMAIN ch.labels : labels[l] = ch.labels[l]

AlertInit ==
    /\ alertConf \in AlertConfs
    /\ channels = EnabledChannels(alertConf)
    /\ aggRedis \in BOOLEAN
    /\ redisAlive = TRUE
    /\ told = [m \in Memories |-> [k \in AlertKeys |-> Never]]
    /\ reloadAt = NoReload
    /\ notifierAt = [n \in Notifiers |-> "idle"]
    /\ event = [n \in Notifiers |-> NoEvent]
    /\ remaining = [n \in Notifiers |-> <<>>]
    /\ inFlight = {}
    /\ asked = NoQuestion
    /\ raised = [m \in Memories |-> [k \in AlertKeys |-> Never]]
    /\ reloads = 0

NotifierMoves(n, next) ==
    /\ notifierAt' = [notifierAt EXCEPT ![n] = next]
    /\ event' = IF next = "idle" THEN [event EXCEPT ![n] = NoEvent] ELSE event
LockFree == reloadAt.step = 0
Recent(ages, m, k) == ages[m][k] < WindowOf(m)

-----------------------------------------------------------------------------
(* Raising an event.                                                        *)

\* An event that takes no memory is sent at once; the others ask first.
\* Nothing happens while alerts are off.
Notify(n, e) ==
    /\ notifierAt[n] = "idle"
    /\ alertConf.enabled
    /\ event' = [event EXCEPT ![n] = e]
    /\ notifierAt' = [notifierAt EXCEPT ![n] = CASE e.memory = "none" -> "send"
                                               [] e.memory = "dedup" -> "ask"
                                               [] e.memory = "quota" -> "check"]
    /\ UNCHANGED <<alertConf, channels, aggRedis, redisAlive, told, reloadAt, remaining,
                   inFlight, asked, raised, reloads>>

\* The memory that answers: Redis, or the process's own map where there is
\* no Redis or it fails.
MemoryAsked == IF aggRedis /\ redisAlive THEN "redis" ELSE "local"

\* A key recorded within the window is refused and its record kept as it is.
Recorded(m, k) == IF Recent(told, m, k) THEN told ELSE [told EXCEPT ![m][k] = 0]

Answered(m, k) ==
    asked' = [admitted |-> ~Recent(told, m, k), due |-> ~Recent(raised, m, k)]
LetThrough(m, k) ==
    raised' = IF Recent(told, m, k) THEN raised ELSE [raised EXCEPT ![m][k] = 0]

ShouldSend(n) ==
    /\ notifierAt[n] = "ask"
    /\ LET m == MemoryAsked
           k == event[n].key
       IN  /\ told' = Recorded(m, k)
           /\ Answered(m, k)
           /\ LetThrough(m, k)
           /\ NotifierMoves(n, IF Recent(told, m, k) THEN "idle" ELSE "send")
    /\ UNCHANGED <<alertConf, channels, aggRedis, redisAlive, reloadAt, remaining,
                   inFlight, reloads>>

\* Redis records the key and its answer is lost: the process's own map is asked as well.
AlertReplyLost(n) ==
    LET k == event[n].key
        Noted(ages, m) == IF Recent(told, m, k) THEN ages ELSE [ages EXCEPT ![m][k] = 0]
    IN  /\ notifierAt[n] = "ask"
        /\ MemoryAsked = "redis" /\ reloads < MaxReloads
        /\ told' = Noted(Noted(told, "redis"), "local")
        /\ raised' = Noted(Noted(raised, "redis"), "local")
        /\ Answered("local", k)
        /\ NotifierMoves(n, IF Recent(told, "local", k) THEN "idle" ELSE "send")
        /\ reloads' = reloads + 1
        /\ UNCHANGED <<alertConf, channels, aggRedis, redisAlive, reloadAt, remaining, inFlight>>

\* The quota alert looks at its memory under the read lock, then at the
\* user's share of the quota, and records only after it has sent.
CheckQuotaUsage(n) ==
    /\ notifierAt[n] = "check"
    /\ LockFree
    /\ LET k == event[n].key
       IN  /\ Answered("quota", k)
           /\ \E over \in BOOLEAN :
                 NotifierMoves(n, IF Recent(told, "quota", k) \/ ~over THEN "idle" ELSE "send")
    /\ UNCHANGED <<alertConf, channels, aggRedis, redisAlive, told, reloadAt, remaining,
                   inFlight, raised, reloads>>

AfterSending(n) == IF event[n].memory = "quota" THEN "mark" ELSE "idle"

\* The mark, at the end of the quota check.
MarkNotified(n) == [told EXCEPT !["quota"][event[n].key] = 0]

NotifiedUser(n) ==
    /\ notifierAt[n] = "mark"
    /\ LockFree
    /\ told' = MarkNotified(n)
    /\ raised' = [raised EXCEPT !["quota"][event[n].key] = 0]
    /\ NotifierMoves(n, "idle")
    /\ UNCHANGED <<alertConf, channels, aggRedis, redisAlive, reloadAt, remaining,
                   inFlight, asked, reloads>>

-----------------------------------------------------------------------------
(* Sending.                                                                 *)

\* send reads the configuration and the channels once more, without a lock.
Send(n) ==
    /\ notifierAt[n] = "send"
    /\ IF alertConf.enabled /\ channels # <<>>
       THEN /\ remaining' = [remaining EXCEPT ![n] = channels]
            /\ NotifierMoves(n, "loop")
       ELSE /\ UNCHANGED remaining
            /\ NotifierMoves(n, AfterSending(n))
    /\ UNCHANGED <<alertConf, channels, aggRedis, redisAlive, told, reloadAt, inFlight,
                   asked, raised, reloads>>

\* A matching channel takes a slot, where one is free; the alert is dropped
\* for this channel otherwise.  A slot is named by a number not in use.
FreeSlots_OneMore == (1 .. SendSlots + 1) \ {f.slot : f \in inFlight}
FreeSlots == (1 .. SendSlots) \ {f.slot : f \in inFlight}

Started(n) ==
    LET ch == Head(remaining[n])
        free == FreeSlots
    IN  IF Match(ch, event[n].labels) /\ free # {}
        THEN inFlight \cup {[slot |-> CHOOSE s \in free : \A t \in free : s <= t,
                             channel |-> ch, labels |-> event[n].labels]}
        ELSE inFlight

SendLoop(n) ==
    /\ notifierAt[n] = "loop"
    /\ inFlight' = Started(n)
    /\ remaining' = [remaining EXCEPT ![n] = Tail(@)]
    /\ NotifierMoves(n, IF Len(remaining[n]) = 1 THEN AfterSending(n) ELSE "loop")
    /\ UNCHANGED <<alertConf, channels, aggRedis, redisAlive, told, reloadAt, asked,
                   raised, reloads>>

\* The webhook or Feishu call ended, answered or timed out: its result is
\* ignored and the slot given back.
SendEnds(f) ==
    /\ inFlight' = inFlight \ {f}
    /\ UNCHANGED <<alertConf, channels, aggRedis, redisAlive, told, reloadAt, notifierAt, event,
                   remaining, asked, raised, reloads>>

-----------------------------------------------------------------------------
(* The surroundings.                                                        *)

\* Reload: the configuration, the channels, none where it is disabled, and
\* a new aggregator, which has neither Redis nor a record.
Reload ==
    /\ CASE reloadAt.step = 0 ->
              /\ reloads < MaxReloads
              /\ \E c \in AlertConfs :
                    /\ alertConf' = c
                    /\ reloadAt' = [step |-> 1, conf |-> c]
              /\ reloads' = reloads + 1
              /\ UNCHANGED <<channels, aggRedis, told, raised>>
         [] reloadAt.step = 1 ->
              /\ channels' = buildChannels(reloadAt.conf)
              /\ reloadAt' = [reloadAt EXCEPT !.step = 2]
              /\ UNCHANGED <<alertConf, aggRedis, told, raised, reloads>>
         [] reloadAt.step = 2 ->
              /\ channels' = EnabledChannels(reloadAt.conf)
              /\ reloadAt' = [reloadAt EXCEPT !.step = 3]
              /\ UNCHANGED <<alertConf, aggRedis, told, raised, reloads>>
         [] reloadAt.step = 3 ->
              /\ aggRedis' = FALSE
              /\ told' = [told EXCEPT !["local"] = [k \in AlertKeys |-> Never]]
              /\ raised' = [raised EXCEPT !["local"] = [k \in AlertKeys |-> Never]]
              /\ reloadAt' = NoReload
              /\ UNCHANGED <<alertConf, channels, reloads>>
    /\ UNCHANGED <<redisAlive, notifierAt, event, remaining, inFlight, asked>>

\* Redis fails and comes back, with what it had recorded.
RedisTurns ==
    /\ aggRedis
    /\ reloads < MaxReloads
    /\ redisAlive' = ~redisAlive
    /\ reloads' = reloads + 1
    /\ UNCHANGED <<alertConf, channels, aggRedis, told, reloadAt, notifierAt, event, remaining,
                   inFlight, asked, raised>>

Older(ages) == [m \in Memories |-> [k \in AlertKeys |-> IF ages[m][k] < Never THEN ages[m][k] + 1 ELSE Never]]
AlertTick ==
    /\ Older(told) # told \/ Older(raised) # raised
    /\ told' = Older(told)
    /\ raised' = Older(raised)
    /\ UNCHANGED <<alertConf, channels, aggRedis, redisAlive, reloadAt, notifierAt, event,
                   remaining, inFlight, asked, reloads>>

AlertNext ==
    \/ \E n \in Notifiers, e \in AlertEvents : Notify(n, e)
    \/ \E n \in Notifiers : ShouldSend(n) \/ AlertReplyLost(n)
    \/ \E n \in Notifiers : CheckQuotaUsage(n)
    \/ \E n \in Notifiers : NotifiedUser(n)
    \/ \E n \in Notifiers : Send(n)
    \/ \E n \in Notifiers : SendLoop(n)
    \/ \E f \in inFlight : SendEnds(f)
    \/ Reload
    \/ RedisTurns
    \/ AlertTick

AlertSpec == AlertInit /\ [][AlertNext]_alertVars

-----------------------------------------------------------------------------
\* The state is of its type, and the sends in flight hold distinct slots:
\* sendSem is never over its capacity.
AlertTypeOK ==
    /\ alertConf \in AlertConfs
    /\ aggRedis \in BOOLEAN /\ redisAlive \in BOOLEAN
    /\ \A m \in Memories, k \in AlertKeys : told[m][k] \in 0 .. Never /\ raised[m][k] \in 0 .. Never
    /\ reloadAt.step \in 0 .. 3
    /\ \A n \in Notifiers :
          /\ notifierAt[n] \in {"idle", "ask", "check", "send", "loop", "mark"}
          /\ notifierAt[n] = "loop" => remaining[n] # <<>>
    /\ Cardinality(inFlight) <= SendSlots
    /\ \A f, g \in inFlight : f.slot = g.slot => f = g

\* The aggregator answers exactly what its window says: a key is refused
\* only if the memory asked let one through within the window or recorded
\* one without its answer coming back (the alert is then lost only if the
\* process's own map refuses it too), so that a storm of refused events never extends the silence, and of the notifiers
\* that ask at once only one is let through (ShouldSend).
DedupExact == asked.admitted = asked.due

\* A send in flight goes to a channel all of whose labels the alert has,
\* and one of a configuration that lists it, whatever was reloaded
\* meanwhile (Match, send).
RoutedByLabels ==
    \A f \in inFlight :
        /\ \A l \in DOMAIN f.channel.labels : f.labels[l] = f.channel.labels[l]
        /\ \E c \in AlertConfs : \E i \in DOMAIN buildChannels(c) : buildChannels(c)[i] = f.channel

\* After a user was marked, the checks that begin within the 24 hours send
\* nothing: a quota alert is on its way only from a check that began before
\* the mark (CheckQuotaUsage).
QuotaMarkHolds ==
    \A n \in Notifiers :
       (notifierAt[n] = "check" /\ notifierAt'[n] = "send") => ~Recent(raised, "quota", event[n].key)

\* The aggregator and the dispatcher of alerts: one in a window, to the channels with its labels.
AlertSound == AlertTypeOK /\ DedupExact /\ RoutedByLabels
=============================================================================

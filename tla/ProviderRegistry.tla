-------------------------- MODULE ProviderRegistry --------------------------
(***************************************************************************)
(* The providers of one gateway: the instances and records that the manager *)
(* keeps and requests are routed by, the rows of the registry in the        *)
(* database, the list of one tenant's providers, and the statistics.  They  *)
(* are changed by administrators (manager first, database second, undone    *)
(* when that fails), by health checks (database first), by a reload of the  *)
(* configuration (manager only) and by a restart.                           *)
(***************************************************************************)
EXTENDS Integers, FiniteSets

CONSTANTS
    Names,             \* of providers
    ConfiguredNames,        \* those the configuration file has, all enabled
    RegCallers,        \* administrators' calls
    Checks,            \* the health loop and a check that is forced
    FailureThreshold,
    MaxRegCalls, MaxRoutes, MaxRegFaults  \* bounds

ASSUME RegAssumption ==
    /\ ConfiguredNames \subseteq Names /\ FailureThreshold \in Nat \ {0}
    /\ MaxRegCalls \in Nat /\ MaxRoutes \in Nat /\ MaxRegFaults \in Nat

VARIABLES
    inst,        \* manager.providers: the names with an instance
    reg,         \* manager.registry
    row,         \* provider_registry
    pstat,       \* Stats: the status, and the current load
    tenantListed,      \* tenant_providers of the tenant
    failures,    \* of consecutive checks
    regOp, check,
    routed,      \* requests at a provider
    tame,        \* the last change of the provider was by a call alone at it, which the
                 \* database did not leave without an answer (see RoutedByRow)
    wanted, listTame,  \* as the calls meant the list to be, when they were alone at it
    regCalls, regFaults    \* calls, checks and reloads so far, and faults

regVars == <<inst, reg, row, pstat, tenantListed, failures, regOp, check, routed, tame, wanted, listTame,
             regCalls, regFaults>>

Health == {"healthy", "degraded", "unhealthy"}
Records == [is : {"there"}, on : BOOLEAN, drain : BOOLEAN, health : Health]
Absent == [is |-> "absent", on |-> FALSE, drain |-> FALSE, health |-> "healthy"]

DefaultRegistryRecordFromConfig(on) == [is |-> "there", on |-> on, drain |-> FALSE, health |-> "healthy"]

NoStat == [is |-> "absent", status |-> "healthy", load |-> 0]
NoRegCall == [pc |-> "idle", name |-> "", rec |-> Absent, prev |-> Absent, prevErr |-> FALSE,
              tenant |-> FALSE, alone |-> TRUE, names |-> {}, listAlone |-> TRUE]
NoCheck == [pc |-> "idle", name |-> "", status |-> "healthy", rec |-> Absent, alone |-> TRUE]

-----------------------------------------------------------------------------
(* Stats                                                                    *)

Register(st, n, status) == [st EXCEPT ![n] = [is |-> "there", status |-> status, load |-> 0]]
Unregister(st, n) == [st EXCEPT ![n] = NoStat]
SetStatus(st, n, status) == IF st[n].is = "there" THEN [st EXCEPT ![n].status = status] ELSE st
IncrementLoad(st, n) == IF st[n].is = "there" THEN [st EXCEPT ![n].load = @ + 1] ELSE st

\* A counter that a registration has reset meanwhile stays at zero.
DecrementLoad(st, n) == IF st[n].is = "there" /\ st[n].load > 0 THEN [st EXCEPT ![n].load = @ - 1] ELSE st

-----------------------------------------------------------------------------
(* Manager                                                                  *)

\* A disabled provider loses its instance and keeps its statistics.
UpsertRuntimeProvider(n, rec) ==
    /\ inst' = IF rec.on THEN inst \cup {n} ELSE inst \ {n}
    /\ pstat' = IF rec.on THEN Register(pstat, n, rec.health) ELSE pstat
    /\ reg' = [reg EXCEPT ![n] = rec]

RemoveRuntimeProvider(n) ==
    /\ inst' = inst \ {n}
    /\ reg' = [reg EXCEPT ![n] = Absent]
    /\ pstat' = Unregister(pstat, n)

ApplyRegistry(n, rec) == reg' = [reg EXCEPT ![n] = rec]

\* registryFilterReason is empty.  What a provider is capable of is left out.
RegistryAllows(rec) == rec.on /\ ~rec.drain /\ rec.health # "unhealthy"

\* planCandidates, of one request: an instance without a record is let through.
Routable(names) == {n \in names \cap inst : reg[n] = Absent \/ RegistryAllows(reg[n])}

\* SeedProviderRegistry: what the file configures is written over the rows, drained or not.
Seeded(rows) == [n \in Names |-> IF n \in ConfiguredNames THEN DefaultRegistryRecordFromConfig(TRUE) ELSE rows[n]]

\* The start of the gateway: the rows are seeded, then every row makes a runtime provider.
Instances(rows) == {n \in Names : rows[n].on}
Statistics(rows) ==
    [n \in Names |-> IF rows[n].on THEN [is |-> "there", status |-> rows[n].health, load |-> 0] ELSE NoStat]

RegInit ==
    /\ row \in [Names -> {Absent, DefaultRegistryRecordFromConfig(TRUE)}] /\ row = Seeded(row)
    /\ inst = Instances(row) /\ reg = row /\ pstat = Statistics(row)
    /\ tenantListed = ConfiguredNames \* SeedTenantProviders
    /\ failures = [n \in Names |-> 0]
    /\ regOp = [c \in RegCallers |-> NoRegCall] /\ check = [k \in Checks |-> NoCheck]
    /\ routed = [n \in Names |-> 0]
    /\ tame = [n \in Names |-> TRUE]
    /\ wanted = ConfiguredNames /\ listTame = TRUE
    /\ regCalls = 0 /\ regFaults = 0

-----------------------------------------------------------------------------
\* Who is at provider n, between its first look and its last write.
AtProvider(n) == {c \in RegCallers : regOp[c].pc \in {"manager", "store", "remove"} /\ regOp[c].name = n}
                 \cup {k \in Checks : check[k].pc \in {"store", "apply"} /\ check[k].name = n}
\* The calls and checks when someone joins those at n: none of them is alone any more.
Joined(n, ops) == [c \in RegCallers |-> IF c \in AtProvider(n) THEN [ops[c] EXCEPT !.alone = FALSE] ELSE ops[c]]
JoinedChecks(n, cks) == [k \in Checks |-> IF k \in AtProvider(n) THEN [cks[k] EXCEPT !.alone = FALSE] ELSE cks[k]]

Call == regCalls < MaxRegCalls /\ regCalls' = regCalls + 1
Fault == regFaults < MaxRegFaults /\ regFaults' = regFaults + 1
DbFails(e) == IF e THEN Fault ELSE UNCHANGED regFaults

unlisted == <<tenantListed, wanted, listTame>>

\* Upsert begins with a look at the row, which a failed call goes back to; err: it failed.
BeginUpsert(c, n, rec, tenant, err) ==
    /\ Call /\ DbFails(err)
    /\ regOp' = [Joined(n, regOp) EXCEPT ![c] =
          [NoRegCall EXCEPT !.pc = "manager", !.name = n, !.rec = rec, !.tenant = tenant, !.prevErr = err,
                            !.prev = IF err THEN Absent ELSE row[n], !.alone = AtProvider(n) = {}]]
    /\ check' = JoinedChecks(n, check)
    /\ tame' = [tame EXCEPT ![n] = @ /\ ~err]
    /\ UNCHANGED <<inst, reg, row, pstat, unlisted, failures, routed>>

\* CreateForTenant, of a name that may exist.
CreateForTenant(c, n, on, err) ==
    regOp[c].pc = "idle" /\ BeginUpsert(c, n, DefaultRegistryRecordFromConfig(on), TRUE, err)

\* Update: the whole record as it is read, with the patch; Upsert reads it again.
mergeRegistryPatch(current, f, v) == [current EXCEPT ![f] = v]
Update(c, n, f, v) ==
    /\ regOp[c].pc = "idle" /\ row[n] # Absent
    /\ BeginUpsert(c, n, mergeRegistryPatch(row[n], f, v), FALSE, FALSE)

UpsertManager(c) ==
    /\ regOp[c].pc = "manager"
    /\ UpsertRuntimeProvider(regOp[c].name, regOp[c].rec)
    /\ regOp' = [regOp EXCEPT ![c].pc = "store"]
    /\ UNCHANGED <<row, unlisted, failures, check, routed, tame, regCalls, regFaults>>

\* A type that has no factory: nothing is changed.
UpsertRefused(c) ==
    /\ regOp[c].pc = "manager" /\ regOp[c].rec.on
    /\ Fault
    /\ regOp' = [regOp EXCEPT ![c] = NoRegCall]
    /\ tame' = [tame EXCEPT ![regOp[c].name] = @ /\ regOp[c].alone]
    /\ UNCHANGED <<inst, reg, row, pstat, unlisted, failures, check, routed, regCalls>>

\* The call leaves the provider, and goes on to the tenant's list if it has to.
Leaves(c, ok) ==
    /\ regOp' = [regOp EXCEPT ![c] = IF ok /\ @.tenant THEN [@ EXCEPT !.pc = "append"] ELSE NoRegCall]
    /\ tame' = [tame EXCEPT ![regOp[c].name] = regOp[c].alone /\ (ok \/ @)]
    /\ UNCHANGED <<unlisted, failures, check, routed, regCalls>>

UpsertStore(c) ==
    /\ regOp[c].pc = "store"
    /\ row' = [row EXCEPT ![regOp[c].name] = regOp[c].rec]
    /\ Leaves(c, TRUE)
    /\ UNCHANGED <<inst, reg, pstat, regFaults>>

\* The row is written and cannot be read back: the call fails and does not come to the list.
UpsertUnread(c) ==
    /\ regOp[c].pc = "store"
    /\ Fault
    /\ row' = [row EXCEPT ![regOp[c].name] = regOp[c].rec]
    /\ regOp' = [regOp EXCEPT ![c] = NoRegCall]
    /\ tame' = [tame EXCEPT ![regOp[c].name] = regOp[c].alone]
    /\ UNCHANGED <<inst, reg, pstat, unlisted, failures, check, routed, regCalls>>

\* Mutant: the manager keeps what the store refused.
Compensate_Not(o) == UNCHANGED <<inst, reg, pstat>>
\* Back to the record read at the start; without one, the provider is removed.  The error
\* of the manager is dropped, and there is none: an enabled record has had an instance.
Compensate(o) ==
    IF ~o.prevErr /\ o.prev # Absent THEN UpsertRuntimeProvider(o.name, o.prev) ELSE RemoveRuntimeProvider(o.name)

UpsertFails(c) ==
    /\ regOp[c].pc = "store"
    /\ Fault
    /\ Compensate(regOp[c])
    /\ Leaves(c, FALSE)
    /\ UNCHANGED row

\* The row is written although the answer is an error, and the manager goes back alone.
UpsertLost(c) ==
    /\ regOp[c].pc = "store"
    /\ Fault
    /\ Compensate(regOp[c])
    /\ row' = [row EXCEPT ![regOp[c].name] = regOp[c].rec]
    /\ regOp' = [regOp EXCEPT ![c] = NoRegCall]
    /\ tame' = [tame EXCEPT ![regOp[c].name] = FALSE]
    /\ UNCHANGED <<unlisted, failures, check, routed, regCalls>>

\* DeleteForTenant: the row first.
Delete(c, n) ==
    /\ regOp[c].pc = "idle" /\ row[n] # Absent
    /\ Call
    /\ row' = [row EXCEPT ![n] = Absent]
    /\ regOp' = [Joined(n, regOp) EXCEPT ![c] =
          [NoRegCall EXCEPT !.pc = "remove", !.name = n, !.alone = AtProvider(n) = {}]]
    /\ check' = JoinedChecks(n, check)
    /\ UNCHANGED <<inst, reg, pstat, unlisted, failures, routed, tame, regFaults>>

DeleteRemove(c) ==
    /\ regOp[c].pc = "remove"
    /\ RemoveRuntimeProvider(regOp[c].name)
    /\ regOp' = [regOp EXCEPT ![c].pc = "unlist"]
    /\ tame' = [tame EXCEPT ![regOp[c].name] = regOp[c].alone]
    /\ UNCHANGED <<row, unlisted, failures, check, routed, regCalls, regFaults>>

\* The row is gone although the answer is an error: the call ends, the manager keeps the
\* provider.
DeleteLost(c) ==
    /\ regOp[c].pc = "remove"
    /\ Fault
    /\ regOp' = [regOp EXCEPT ![c] = NoRegCall]
    /\ tame' = [tame EXCEPT ![regOp[c].name] = FALSE]
    /\ UNCHANGED <<inst, reg, row, pstat, unlisted, failures, check, routed, regCalls>>

-----------------------------------------------------------------------------
(* The tenant's list is read and then replaced.                             *)

AtList == {c \in RegCallers : regOp[c].pc \in {"append2", "unlist2"}}

\* appendTenantProvider, removeTenantProvider: ListTenantProviders
ReadTenantList(c) ==
    /\ regOp[c].pc \in {"append", "unlist"}
    /\ regOp' = [d \in RegCallers |->
          IF d = c THEN [regOp[c] EXCEPT !.pc = IF @ = "append" THEN "append2" ELSE "unlist2",
                                         !.names = tenantListed, !.listAlone = AtList = {}]
          ELSE IF d \in AtList THEN [regOp[d] EXCEPT !.listAlone = FALSE] ELSE regOp[d]]
    /\ UNCHANGED <<inst, reg, row, pstat, unlisted, failures, check, routed, tame, regCalls, regFaults>>

\* Nothing is written for a name that is there.
NewNames(o) == IF o.pc = "append2" THEN o.names \cup {o.name} ELSE o.names \ {o.name}

WriteTenantList(c) ==
    /\ regOp[c].pc \in {"append2", "unlist2"}
    /\ tenantListed' = IF regOp[c].pc = "append2" /\ regOp[c].name \in regOp[c].names THEN tenantListed ELSE NewNames(regOp[c])
    /\ wanted' = IF regOp[c].pc = "append2" THEN wanted \cup {regOp[c].name} ELSE wanted \ {regOp[c].name}
    /\ listTame' = (listTame /\ regOp[c].listAlone)
    /\ regOp' = [regOp EXCEPT ![c] = NoRegCall]
    /\ UNCHANGED <<inst, reg, row, pstat, failures, check, routed, tame, regCalls, regFaults>>

\* An error at the list: a creation is reported as failed though the provider is there, a
\* deletion as done though the list still has it.
ListFails(c) ==
    /\ regOp[c].pc \in {"append", "unlist", "append2", "unlist2"}
    /\ Fault
    /\ regOp' = [regOp EXCEPT ![c] = NoRegCall]
    /\ UNCHANGED <<inst, reg, row, pstat, unlisted, failures, check, routed, tame, regCalls>>

-----------------------------------------------------------------------------
(* checkProvider: the probe of an instance, then the rest.                  *)

StartProbe(k, n) ==
    /\ check[k].pc = "idle" /\ n \in inst /\ Call
    /\ check' = [check EXCEPT ![k] = [NoCheck EXCEPT !.pc = "probe", !.name = n]]
    /\ UNCHANGED <<inst, reg, row, pstat, unlisted, failures, regOp, routed, tame, regFaults>>

failureStatus(count) == IF count >= FailureThreshold THEN "unhealthy" ELSE "degraded"

ProbeAnswers(k, ok) ==
    /\ check[k].pc = "probe"
    /\ LET n == check[k].name
           count == IF ok THEN 0 ELSE IF failures[n] < FailureThreshold THEN failures[n] + 1 ELSE failures[n]
           next == IF ok THEN "healthy" ELSE failureStatus(count)
       IN  IF reg[n] = Absent THEN check' = [check EXCEPT ![k] = NoCheck] /\ UNCHANGED <<pstat, failures, regOp>>
           ELSE /\ failures' = [failures EXCEPT ![n] = count]
                /\ IF reg[n].health = next
                   THEN /\ pstat' = SetStatus(pstat, n, next)
                        /\ check' = [check EXCEPT ![k] = NoCheck]
                        /\ UNCHANGED regOp
                   ELSE /\ regOp' = Joined(n, regOp)
                        /\ check' = [JoinedChecks(n, check) EXCEPT ![k] =
                              [@ EXCEPT !.pc = "store", !.status = next, !.alone = AtProvider(n) = {}]]
                        /\ UNCHANGED pstat
    /\ UNCHANGED <<inst, reg, row, unlisted, routed, tame, regCalls, regFaults>>

\* UpdateProviderRegistry writes this column and reads the row back; none: an error.
CheckStores(k) ==
    /\ check[k].pc = "store"
    /\ LET n == check[k].name
           new == [row[n] EXCEPT !.health = check[k].status]
       IN  \/ /\ row[n] # Absent
              /\ row' = [row EXCEPT ![n] = new]
              /\ check' = [check EXCEPT ![k].pc = "apply", ![k].rec = new]
              /\ UNCHANGED regFaults
           \/ /\ DbFails(row[n] # Absent)
              /\ check' = [check EXCEPT ![k] = NoCheck]
              /\ UNCHANGED row
    /\ UNCHANGED <<inst, reg, pstat, unlisted, failures, regOp, routed, tame, regCalls>>

\* The column is written and the row cannot be read back, or the write is answered by an
\* error: the check ends, and the manager keeps the old status.
CheckLost(k) ==
    /\ check[k].pc = "store" /\ row[check[k].name] # Absent
    /\ Fault
    /\ row' = [row EXCEPT ![check[k].name].health = check[k].status]
    /\ check' = [check EXCEPT ![k] = NoCheck]
    /\ tame' = [tame EXCEPT ![check[k].name] = FALSE]
    /\ UNCHANGED <<inst, reg, pstat, unlisted, failures, regOp, routed, regCalls>>

\* The row goes to the manager's records as it was read.
CheckApplies(k) ==
    /\ check[k].pc = "apply"
    /\ ApplyRegistry(check[k].name, check[k].rec)
    /\ pstat' = SetStatus(pstat, check[k].name, check[k].status)
    /\ tame' = [tame EXCEPT ![check[k].name] = @ /\ check[k].alone]
    /\ check' = [check EXCEPT ![k] = NoCheck]
    /\ UNCHANGED <<inst, row, unlisted, failures, regOp, routed, regCalls, regFaults>>

-----------------------------------------------------------------------------
\* Nobody is alone across a reload.
Scattered ==
    /\ regOp' = [c \in RegCallers |-> [regOp[c] EXCEPT !.alone = FALSE]]
    /\ check' = [k \in Checks |-> [check[k] EXCEPT !.alone = FALSE]]
    /\ tame' = [n \in Names |-> FALSE]

\* Manager.Reload: providers that only the database has are gone until the next start.
ReloadManager ==
    /\ Call
    /\ inst' = ConfiguredNames
    /\ reg' = [n \in Names |-> IF n \in ConfiguredNames THEN DefaultRegistryRecordFromConfig(TRUE) ELSE Absent]
    /\ pstat' = [n \in Names |-> IF n \in ConfiguredNames THEN [is |-> "there", status |-> "healthy", load |-> 0]
                                 ELSE IF n \in inst THEN NoStat ELSE pstat[n]]
    /\ Scattered
    /\ UNCHANGED <<row, unlisted, failures, routed, regFaults>>

\* An error on a provider: those before it have lost their statistics, and nothing else changes.
ReloadFails(done) ==
    /\ Call /\ Fault
    /\ pstat' = [n \in Names |-> IF n \in done THEN [is |-> "there", status |-> "healthy", load |-> 0] ELSE pstat[n]]
    /\ Scattered
    /\ UNCHANGED <<inst, reg, row, unlisted, failures, routed>>

\* The process stops at any moment and starts again.
Restart ==
    /\ Fault
    /\ row' = Seeded(row)
    /\ inst' = Instances(row') /\ reg' = row' /\ pstat' = Statistics(row')
    /\ tenantListed' = tenantListed \cup ConfiguredNames \* SeedTenantProviders merges
    /\ wanted' = tenantListed' /\ listTame' = TRUE
    /\ failures' = [n \in Names |-> 0]
    /\ regOp' = [c \in RegCallers |-> NoRegCall] /\ check' = [k \in Checks |-> NoCheck]
    /\ routed' = [n \in Names |-> 0]
    /\ tame' = [n \in Names |-> TRUE]
    /\ UNCHANGED regCalls

RouteRequest(n) ==
    /\ n \in Routable(tenantListed) /\ routed[n] < MaxRoutes
    /\ routed' = [routed EXCEPT ![n] = @ + 1]
    /\ pstat' = IncrementLoad(pstat, n)
    /\ UNCHANGED <<inst, reg, row, unlisted, failures, regOp, check, tame, regCalls, regFaults>>

FinishRequest(n) ==
    /\ routed[n] > 0
    /\ routed' = [routed EXCEPT ![n] = @ - 1]
    /\ pstat' = DecrementLoad(pstat, n)
    /\ UNCHANGED <<inst, reg, row, unlisted, failures, regOp, check, tame, regCalls, regFaults>>

-----------------------------------------------------------------------------
\* What a patch may set.
Patches == {<<f, b>> : f \in {"on", "drain"}, b \in BOOLEAN} \cup {<<"health", h>> : h \in Health}

RegNext ==
    \/ \E c \in RegCallers :
          \/ \E n \in Names :
                \/ \E on, err \in BOOLEAN : CreateForTenant(c, n, on, err)
                \/ \E p \in Patches : Update(c, n, p[1], p[2])
                \/ Delete(c, n)
          \/ UpsertManager(c) \/ UpsertRefused(c) \/ UpsertStore(c) \/ UpsertUnread(c)
          \/ UpsertFails(c) \/ UpsertLost(c) \/ DeleteRemove(c) \/ DeleteLost(c)
          \/ ReadTenantList(c) \/ WriteTenantList(c) \/ ListFails(c)
    \/ \E k \in Checks :
          \/ \E n \in Names : StartProbe(k, n)
          \/ \E ok \in BOOLEAN : ProbeAnswers(k, ok)
          \/ CheckStores(k) \/ CheckLost(k) \/ CheckApplies(k)
    \/ ReloadManager \/ (\E done \in SUBSET ConfiguredNames : ReloadFails(done)) \/ Restart
    \/ \E n \in Names : RouteRequest(n) \/ FinishRequest(n)

RegSpec == RegInit /\ [][RegNext]_regVars

-----------------------------------------------------------------------------
(* Properties.                                                              *)

\* Type invariant.  A provider's load is never negative and never above the requests at it,
\* though registrations reset it while requests are there.
RegTypeOK ==
    /\ inst \subseteq Names /\ tenantListed \subseteq Names /\ wanted \subseteq Names
    /\ reg \in [Names -> Records \cup {Absent}] /\ row \in [Names -> Records \cup {Absent}]
    /\ \A n \in Names : pstat[n].status \in Health /\ pstat[n].load \in 0..routed[n]
    /\ failures \in [Names -> 0..FailureThreshold]
    /\ \A c \in RegCallers : regOp[c].pc \in {"idle", "manager", "store", "remove", "append", "append2", "unlist", "unlist2"}
    /\ \A k \in Checks : check[k].pc \in {"idle", "probe", "store", "apply"}
    /\ routed \in [Names -> 0..MaxRoutes]

\* When the last change of a provider was made by a call or a check that was alone at it, and
\* nobody is at it now, then what requests are routed by is what the database has: the same
\* record, an instance when it is enabled, its status in the statistics.  It is so after a
\* call that the store refused, after one whose record cannot be read back, and after a
\* restart in the middle of a change.  It is not so after a write that took effect and was
\* answered by an error, or a health status that was written and not read back
\* (provider_registry.go UpdateProviderRegistry, healthcheck.go checkProvider): the row and
\* the manager then differ until the next call alone at the provider, or a restart.
RoutedByRow ==
    \A n \in Names : tame[n] /\ AtProvider(n) = {} =>
        /\ reg[n] = row[n]
        /\ n \in inst <=> row[n].on
        /\ n \in inst => pstat[n].status = row[n].health

\* The tenant's list is what its calls made of it, unless two were at the list at once.
ListKept == listTame => tenantListed = wanted

\* The registry, the manager and the rows tell of a provider the same after every call that was alone
\* (Upsert, Delete, the health checker, Reload), and tenants' lists lose no change.
RegistrySound == RegTypeOK /\ RoutedByRow /\ ListKept
=============================================================================

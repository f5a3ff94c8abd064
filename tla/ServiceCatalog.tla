--------------------------- MODULE ServiceCatalog ---------------------------
(***************************************************************************)
(* Services of a tenant: a row that is edited, numbered versions that hold  *)
(* snapshots of it, one of them published and one staged, and subscriptions *)
(* whose approval makes an API key.  A request is answered from the         *)
(* published snapshot.  Publishing, promoting and rolling back read the row *)
(* and write it in a later transaction, and so do the versions and the      *)
(* subscriptions, whose rows have no foreign key; a review reads the row,    *)
(* then the service at its prefix, makes a user and a key, and writes.      *)
(* Administrators do all this at the same time.                             *)
(***************************************************************************)
EXTENDS Integers, Sequences, FiniteSets

CONSTANTS
    Services, Subs, Admins, Prefixes, Surfaces,
    SurfaceSets,   \* what an administrator may choose for a service
    MaxVersions, MaxKeys, MaxEdits, MaxCalls, MaxCatFaults

\* The string "" marks a row that is not there: it names none of the prefixes, the one an
\* administrator leaves empty included.
ASSUME CatAssumption ==
    /\ "" \notin Prefixes
    /\ MaxVersions \in Nat /\ MaxKeys \in Nat /\ MaxEdits \in Nat
    /\ MaxCalls \in Nat /\ MaxCatFaults \in Nat

VARIABLES
    svc,       \* rows of services
    versions,  \* of each service, its versions in order of number
    sub,       \* rows of service_subscriptions
    keys,      \* API keys made by approvals: for which prefix, of which subscription, and as a
               \* history the prefix the row had when its review began
    users,     \* subscriptions whose approval has made a user
    work,      \* of each administrator, the call under way and what it has read
    edits, calls, catFaults,
    shown,     \* versions that an administrator published
    outdated,  \* services whose staging wrote back a published version read before another change
    holders,   \* of each prefix, the services that had it
    orphans    \* subscriptions whose row came after the deletion of their service

catCounts == <<edits, calls, catFaults>>
catGhosts == <<shown, outdated, holders, orphans>>
catVars == <<svc, versions, sub, keys, users, work, catCounts, catGhosts>>

NoService == [prefix |-> "", enabled |-> FALSE, surfaces |-> {}, published |-> 0, staged |-> 0]
NoSub == [status |-> "none"]
NoWork == [pc |-> "idle"]

Exists(s) == svc[s] # NoService
Open(u) == sub[u].status \in {"pending", "approved", "rejected"}
Snapshot(row) == [prefix |-> row.prefix, surfaces |-> row.surfaces]
Draft(snap) == [status |-> "draft", snap |-> snap]

CatInit ==
    /\ svc = [s \in Services |-> NoService]
    /\ versions = [s \in Services |-> <<>>]
    /\ sub = [u \in Subs |-> NoSub]
    /\ keys = <<>>
    /\ work = [a \in Admins |-> NoWork]
    /\ edits = 0 /\ calls = 0 /\ catFaults = 0
    /\ shown = [s \in Services |-> {}] /\ outdated = {}
    /\ holders = [p \in Prefixes |-> {}]
    /\ users = {} /\ orphans = {}

-----------------------------------------------------------------------------
(* The row and its versions.                                                *)

Free(p) == \A s \in Services : svc[s].prefix # p

NewRow(p, on, surf) == [NoService EXCEPT !.prefix = p, !.enabled = on, !.surfaces = surf]

\* CreateService: the row, then its first version; a failure between them leaves the row alone.
\* An id is not used twice.
CreateService(s, p, on, surf, ok) ==
    /\ ~Exists(s) /\ shown[s] = {} /\ Free(p)
    /\ svc' = [svc EXCEPT ![s] = NewRow(p, on, surf)]
    /\ versions' = [versions EXCEPT ![s] = IF ok THEN <<Draft(Snapshot(NewRow(p, on, surf)))>> ELSE <<>>]
    /\ holders' = [holders EXCEPT ![p] = @ \cup {s}]
    /\ ok \/ catFaults < MaxCatFaults
    /\ catFaults' = IF ok THEN catFaults ELSE catFaults + 1
    /\ UNCHANGED <<sub, keys, users, work, edits, calls, shown, outdated, orphans>>

\* UpdateService: what requests are answered from is the snapshot, all but the switch.
UpdateService(s, p, on, surf) ==
    /\ Exists(s) /\ edits < MaxEdits /\ (p = svc[s].prefix \/ Free(p))
    /\ svc' = [svc EXCEPT ![s].prefix = p, ![s].enabled = on, ![s].surfaces = surf]
    /\ svc' # svc
    /\ edits' = edits + 1
    /\ holders' = [holders EXCEPT ![p] = @ \cup {s}]
    /\ UNCHANGED <<versions, sub, keys, users, work, calls, catFaults, shown, outdated, orphans>>

\* DeleteService: with its versions and subscriptions; the keys stay.
DeleteService(s) ==
    /\ Exists(s) /\ edits < MaxEdits
    /\ svc' = [svc EXCEPT ![s] = NoService]
    /\ versions' = [versions EXCEPT ![s] = <<>>]
    /\ sub' = [u \in Subs |-> IF Open(u) /\ sub[u].svc = s THEN [status |-> "gone"] ELSE sub[u]]
    /\ edits' = edits + 1
    /\ shown' = [shown EXCEPT ![s] = @ \cup {0}]
    /\ UNCHANGED <<keys, users, work, calls, catFaults, outdated, holders, orphans>>

\* The bound on versions is on those of all services together.
FreeVersion == Cardinality({n \in Services \X (1..MaxVersions) : n[2] \in DOMAIN versions[n[1]]}) < MaxVersions

\* CreateServiceVersion takes the snapshot of the row it reads ...
ReadSnapshot(a, s) ==
    /\ work[a] = NoWork /\ Exists(s) /\ FreeVersion
    /\ work' = [work EXCEPT ![a] = [pc |-> "version", svc |-> s, snap |-> Snapshot(svc[s])]]
    /\ UNCHANGED <<svc, versions, sub, keys, users, catCounts, catGhosts>>

\* ... and inserts it under the next number, by MAX and a unique index, though the service be edited
\* or deleted meanwhile.
CreateServiceVersion(a) ==
    /\ work[a].pc = "version" /\ FreeVersion
    /\ versions' = [versions EXCEPT ![work[a].svc] = Append(@, Draft(work[a].snap))]
    /\ work' = [work EXCEPT ![a] = NoWork]
    /\ UNCHANGED <<svc, sub, keys, users, catCounts, catGhosts>>

\* transitionServiceVersion reads the service and the version ...
LoadTransition(a, s, v, mode) ==
    /\ work[a] = NoWork /\ Exists(s) /\ v \in DOMAIN versions[s]
    /\ calls < MaxCalls /\ calls' = calls + 1
    /\ work' = [work EXCEPT ![a] = [pc |-> "transition", svc |-> s, v |-> v, mode |-> mode,
                                    published |-> svc[s].published]]
    /\ UNCHANGED <<svc, versions, sub, keys, users, edits, catFaults, catGhosts>>

\* ... PromoteStagedServiceVersion takes the version from the row ...
PromoteStagedServiceVersion(a, s) ==
    /\ svc[s].staged # 0
    /\ LoadTransition(a, s, svc[s].staged, "published")

\* ... and one transaction archives what was published or staged, gives the version its status, and
\* writes the row, with the published version as it was read when another one is staged.
StatusAfter(ver, v, w, mode) ==
    IF w = v THEN mode ELSE IF ver.status \in {"published", "staged"} THEN "archived" ELSE ver.status
PublishedAfter(t) == IF t.mode = "published" THEN t.v ELSE t.published
StagedAfter_Kept(t) == IF t.mode = "staged" THEN t.v ELSE svc[t.svc].staged
StagedAfter(t) == IF t.mode = "staged" THEN t.v ELSE 0

CommitTransition(a) ==
    LET t == work[a]
        s == t.svc
    IN  /\ t.pc = "transition"
        /\ work' = [work EXCEPT ![a] = NoWork]
        /\ IF ~Exists(s) \/ t.v \notin DOMAIN versions[s]
              THEN UNCHANGED <<svc, versions, shown, outdated>>
              ELSE /\ versions' = [versions EXCEPT ![s] = [w \in DOMAIN @ |->
                                      [versions[s][w] EXCEPT !.status = StatusAfter(versions[s][w], t.v, w, t.mode)]]]
                   /\ svc' = [svc EXCEPT ![s].published = PublishedAfter(t), ![s].staged = StagedAfter(t)]
                   /\ shown' = IF t.mode = "published" THEN [shown EXCEPT ![s] = @ \cup {t.v}] ELSE shown
                   /\ outdated' = IF t.mode = "staged" /\ t.published # svc[s].published
                                     THEN outdated \cup {s} ELSE outdated
        /\ UNCHANGED <<sub, keys, users, catCounts, holders, orphans>>

-----------------------------------------------------------------------------
(* Subscriptions.                                                           *)

\* CreateServiceSubscription looks the service up; there is no row yet ...
AskSubscription(u, s, surf, known) ==
    /\ sub[u] = NoSub /\ Exists(s)
    /\ sub' = [sub EXCEPT ![u] = [status |-> "asked", svc |-> s, surfaces |-> surf, known |-> known, key |-> 0]]
    /\ UNCHANGED <<svc, versions, keys, users, work, catCounts, catGhosts>>

\* ... and inserts the row, though the service be deleted meanwhile.
CreateServiceSubscription(u) ==
    /\ sub[u].status = "asked"
    /\ sub' = [sub EXCEPT ![u].status = "pending"]
    /\ orphans' = IF Exists(sub[u].svc) THEN orphans ELSE orphans \cup {u}
    /\ UNCHANGED <<svc, versions, keys, users, work, catCounts, shown, outdated, holders>>

\* ReviewSubscription, whatever the status: a rejection takes no key back.
Reject(u) ==
    /\ Open(u) /\ calls < MaxCalls
    /\ sub' = [sub EXCEPT ![u].status = "rejected"]
    /\ calls' = calls + 1
    /\ UNCHANGED <<svc, versions, keys, users, work, edits, catFaults, catGhosts>>

loadServiceByPrefix(p) == {s \in Services : Exists(s) /\ svc[s].prefix = p}

\* loadPublishedService
ServedVersion(s) == Exists(s) /\ svc[s].enabled /\ svc[s].published \in DOMAIN versions[s]
ServedSnapshot(s) == versions[s][svc[s].published].snap

\* An approval reads the subscription and its service's row, for the prefix ...
StartApproval(a, u) ==
    /\ Open(u) /\ calls < MaxCalls /\ work[a] = NoWork /\ Exists(sub[u].svc)
    /\ work' = [work EXCEPT ![a] = [pc |-> "load", sub |-> u, svc |-> sub[u].svc, known |-> sub[u].known,
                                    asked |-> svc[sub[u].svc].prefix, prefix |-> svc[sub[u].svc].prefix]]
    /\ calls' = calls + 1
    /\ UNCHANGED <<svc, versions, sub, keys, users, edits, catFaults, catGhosts>>

\* ... then what is published at this prefix, by whatever service has it now.  The reads of the row
\* and of its published version count as one: a version's snapshot does not change.
LoadPublished(a) ==
    LET found == {s \in loadServiceByPrefix(work[a].prefix) : ServedVersion(s)}
    IN  /\ work[a].pc = "load"
        /\ \/ /\ found = {}
              /\ work' = [work EXCEPT ![a] = NoWork]
           \/ \E s \in found :
                 work' = [work EXCEPT ![a].pc = IF work[a].known THEN "key" ELSE "user",
                                      ![a].prefix = ServedSnapshot(s).prefix]
        /\ UNCHANGED <<svc, versions, sub, keys, users, catCounts, catGhosts>>

Taken(u) == u \in users

\* CreateUser for a consumer the subscription does not name: its placeholder key is made of the
\* subscription's id and is unique, so no second approval gets past it.
CreateApprovedUser(a) ==
    /\ work[a].pc = "user"
    /\ IF Taken(work[a].sub)
          THEN users' = users /\ work' = [work EXCEPT ![a] = NoWork]
          ELSE users' = users \cup {work[a].sub} /\ work' = [work EXCEPT ![a].pc = "key"]
    /\ UNCHANGED <<svc, versions, sub, keys, catCounts, catGhosts>>

\* CreateAPIKey for the prefix of the published snapshot.
CreateApprovedKey(a, ok) ==
    /\ work[a].pc = "key" /\ Len(keys) < MaxKeys
    /\ ok \/ catFaults < MaxCatFaults
    /\ catFaults' = IF ok THEN catFaults ELSE catFaults + 1
    /\ keys' = IF ok THEN Append(keys, [prefix |-> work[a].prefix, sub |-> work[a].sub, svc |-> work[a].svc,
                                           asked |-> work[a].asked])
                     ELSE keys
    /\ work' = [work EXCEPT ![a] = IF ok THEN [pc |-> "approve", sub |-> work[a].sub, key |-> Len(keys) + 1]
                                         ELSE NoWork]
    /\ UNCHANGED <<svc, versions, sub, users, edits, calls, catGhosts>>

Approve(a, ok) ==
    /\ work[a].pc = "approve"
    /\ ok \/ catFaults < MaxCatFaults
    /\ catFaults' = IF ok THEN catFaults ELSE catFaults + 1
    /\ sub' = IF ok /\ Open(work[a].sub)
                 THEN [sub EXCEPT ![work[a].sub].status = "approved", ![work[a].sub].key = work[a].key] ELSE sub
    /\ work' = [work EXCEPT ![a] = NoWork]
    /\ UNCHANGED <<svc, versions, keys, users, edits, calls, catGhosts>>

-----------------------------------------------------------------------------
(* Requests.                                                                *)

\* CheckService compares the key's prefixes with the snapshot's.
CheckService(k, s) == keys[k].prefix = ServedSnapshot(s).prefix

\* checkSubscriptionSurface: a key without an approved subscription is not restricted.
checkSubscriptionSurface(k, s, surface) ==
    \A u \in Subs : sub[u].status = "approved" /\ sub[u].svc = s /\ sub[u].key = k
                        => sub[u].surfaces = {} \/ surface \in sub[u].surfaces

\* prepareRuntimeRequest, preparePromptRequest: whether a request with key k for the service's
\* prefix is let through; it changes nothing.
LetsThrough(k, s, surface) ==
    /\ s \in loadServiceByPrefix(svc[s].prefix) /\ ServedVersion(s)
    /\ surface \in ServedSnapshot(s).surfaces
    /\ CheckService(k, s)
    /\ checkSubscriptionSurface(k, s, surface)

CatNext ==
    \/ \E s \in Services, p \in Prefixes, on \in BOOLEAN, surf \in SurfaceSets :
          UpdateService(s, p, on, surf) \/ \E ok \in BOOLEAN : CreateService(s, p, on, surf, ok)
    \/ \E s \in Services : DeleteService(s)
    \/ \E a \in Admins :
          \/ \E s \in Services :
                \/ ReadSnapshot(a, s) \/ PromoteStagedServiceVersion(a, s)
                \/ \E v \in 1..MaxVersions, mode \in {"published", "staged"} : LoadTransition(a, s, v, mode)
          \/ CreateServiceVersion(a) \/ CommitTransition(a)
          \/ \E u \in Subs : StartApproval(a, u)
          \/ LoadPublished(a) \/ CreateApprovedUser(a)
          \/ \E ok \in BOOLEAN : CreateApprovedKey(a, ok) \/ Approve(a, ok)
    \/ \E u \in Subs :
          \/ \E s \in Services, surf \in {{}, {"responses"}}, known \in BOOLEAN : AskSubscription(u, s, surf, known)
          \/ CreateServiceSubscription(u) \/ Reject(u)

CatSpec == CatInit /\ [][CatNext]_catVars

-----------------------------------------------------------------------------
(* Properties.                                                              *)

\* The rows name versions that exist, no two services have one prefix, and a subscription is one of a
\* service that is there, or was inserted after the deletion that should have taken it along: then it
\* stays without a service, and no review gives it a key.
CatTypeOK ==
    /\ \A s \in Services :
          /\ svc[s].published \in 0..Len(versions[s]) /\ svc[s].staged \in 0..Len(versions[s])
          /\ \A v \in DOMAIN versions[s] : versions[s][v].status \in {"draft", "staged", "published", "archived"}
          /\ \A r \in Services : r # s /\ Exists(s) => svc[r].prefix # svc[s].prefix
    /\ \A u \in Subs : Open(u) =>
          /\ sub[u].key \in 0..Len(keys)
          /\ Exists(sub[u].svc) \/ (u \in orphans /\ sub[u].key = 0)

\* However transitions overlap, the statuses of the versions and the row tell the same story: what
\* is staged is what the row says, and a version called published is the one that is served.
StatusAgrees ==
    \A s \in Services : \A v \in DOMAIN versions[s] :
        /\ versions[s][v].status = "staged" <=> svc[s].staged = v
        /\ versions[s][v].status = "published" => svc[s].published = v

\* A request is answered from a version that was published, never from one only drafted or staged.
ServedWasPublished == \A s \in Services : ServedVersion(s) => svc[s].published \in shown[s]

\* What is served changes by a publication or with the service; staging changes it only when it
\* overlapped a publication, whose version it then takes back.
StagingKeepsServed ==
    \A s \in Services : svc'[s].published # svc[s].published /\ svc'[s] # NoService
        => svc'[s].staged = 0 \/ s \in outdated'

\* A key of an approval opens no other service than the subscription's, unless the prefix it names
\* has been another service's (prefixes are given again and keys outlive services), or the one the
\* review read in the service's row has: then the published snapshot may be another service's.
Shared(p) == Cardinality(holders[p]) > 1
KeyOpensItsService ==
    \A k \in DOMAIN keys, s \in Services, surface \in Surfaces :
        LetsThrough(k, s, surface) => keys[k].svc = s \/ Shared(keys[k].prefix) \/ Shared(keys[k].asked)

\* Every key of an approval is one that its subscription names, or is about to name, unless the
\* approval failed after it or the subscription was reviewed again: only then is it left behind.
NoKeyLeftBehind ==
    \A k \in DOMAIN keys :
        \/ Open(keys[k].sub) /\ sub[keys[k].sub].key = k
        \/ \E a \in Admins : work[a].pc = "approve" /\ work[a].key = k
        \/ catFaults > 0 \/ ~Open(keys[k].sub) \/ sub[keys[k].sub].known

\* The catalog: statuses and rows agree, only what was published is served, and a key of an approval
\* opens its service alone and is not left behind.
CatalogSound == CatTypeOK /\ StatusAgrees /\ ServedWasPublished /\ KeyOpensItsService /\ NoKeyLeftBehind
=============================================================================

---------------------------- MODULE IdentityCache ----------------------------
(***************************************************************************)
(* Authentication of one API key by several replicas: the cache in memory  *)
(* of each, the one they share in Redis, the revision counters that tell   *)
(* an entry is out of date, and administrators who change the rows.  What  *)
(* an identity says is the number of changes that were committed when it   *)
(* was read (ver).  Time is relative: an entry has the time left to it and *)
(* the age of what it holds.                                               *)
(***************************************************************************)
EXTENDS Integers, FiniteSets

CONSTANTS
    Replicas, AuthReqs, HomeOf,  \* HomeOf[q]: the replica that serves request q
    AdminHome,                   \* the replica that serves the administrator
    Scopes,                      \* among "api_key", "user", "tenant", "project"
    NoEntry,
    CacheTTL,
    MaxChange, MaxRedisFault      \* bounds

ASSUME IdentityAssumption ==
    /\ HomeOf \in [AuthReqs -> Replicas] /\ AdminHome \in Replicas
    /\ Scopes \subseteq {"api_key", "user", "tenant", "project"} /\ "api_key" \in Scopes
    /\ CacheTTL \in Nat \ {0}
    /\ MaxChange \in Nat /\ MaxRedisFault \in Nat

VARIABLES
    withRedis,  \* a.rdb # nil
    idRow,      \* the rows joined by store.Authenticate
    revision,   \* counters in Redis
    announced,  \* history: the last change whose revision was incremented
    localCache, sharedCache,
    auth,       \* requests
    idAdmin,    \* what is left of the administrator's call
    redisFaults

idVars == <<withRedis, idRow, revision, announced, localCache, sharedCache, auth, idAdmin, redisFaults>>

Creds == 0..MaxChange                  \* a rotation gives the key its next name
NoRevs == [s \in Scopes |-> 0]         \* revisions that do not exist read as empty
IdleReq == [pc |-> "idle", cred |-> 0, ver |-> 0, revs |-> NoRevs, mixed |-> FALSE,
         unchecked |-> FALSE, since |-> 0, age |-> 0]

IdInit ==
    /\ withRedis \in BOOLEAN
    /\ idRow = [ver |-> 0, cred |-> 0, active |-> TRUE]
    /\ revision = NoRevs /\ announced = 0
    /\ localCache = [n \in Replicas |-> [c \in Creds |-> NoEntry]]
    /\ sharedCache = [c \in Creds |-> NoEntry]
    /\ auth = [q \in AuthReqs |-> IdleReq]
    /\ idAdmin = [step |-> "idle", scope |-> "api_key", cred |-> 0]
    /\ redisFaults = 0

-----------------------------------------------------------------------------
(* Authenticate.                                                            *)

\* Request q continues at pc, with the changes f to its record.
GoesTo(q, f) == auth' = [auth EXCEPT ![q] = f]
At(q, pc) == auth[q].pc = pc
\* The outcome; revisions no longer matter.
ServedAs(r) == [r EXCEPT !.pc = "served", !.revs = NoRevs]
SharedEntry(q) == sharedCache[auth[q].cred]

Took(r, e, pc) == [r EXCEPT !.pc = pc, !.ver = e.ver, !.revs = e.revs, !.mixed = e.mixed,
                            !.age = e.age]

\* getCached: the entry, if there is one that has not expired; without Redis it is served.
Begin(q) ==
    /\ auth[q].pc \in {"idle", "served", "refused"}
    /\ \E c \in {idRow.cred, 0} :
          LET e == localCache[HomeOf[q]][c]
              r == [IdleReq EXCEPT !.cred = c, !.since = announced]
          IN  GoesTo(q, IF e = NoEntry THEN [r EXCEPT !.pc = IF withRedis THEN "shared" ELSE "store"]
                      ELSE IF withRedis THEN Took(r, e, "localRevs") ELSE ServedAs(Took(r, e, "served")))
    /\ UNCHANGED <<withRedis, idRow, revision, announced, localCache, sharedCache, idAdmin, redisFaults>>

\* identityCacheRevisions.equal
Current(revs) == revs = revision

\* A command to Redis fails; every caller goes on.
RedisFails ==
    /\ withRedis /\ redisFaults < MaxRedisFault
    /\ redisFaults' = redisFaults + 1

\* currentIdentityRevisions: MGET fails, and the entry counts as valid.
MGetFails(q, r) == RedisFails /\ GoesTo(q, [r EXCEPT !.unchecked = TRUE])

CompareLocal(q) ==
    /\ At(q, "localRevs")
    /\ \/ MGetFails(q, ServedAs(auth[q])) /\ UNCHANGED localCache
       \/ /\ Current(auth[q].revs)
          /\ GoesTo(q, ServedAs(auth[q]))
          /\ UNCHANGED <<localCache, redisFaults>>
       \/ /\ ~Current(auth[q].revs)
          /\ localCache' = [localCache EXCEPT ![HomeOf[q]][auth[q].cred] = NoEntry]
          /\ GoesTo(q, [auth[q] EXCEPT !.pc = "shared"])
          /\ UNCHANGED redisFaults
    /\ UNCHANGED <<withRedis, idRow, revision, announced, sharedCache, idAdmin>>

\* A failed GET counts as no entry.
LookShared(q) ==
    /\ At(q, "shared")
    /\ \/ RedisFails /\ GoesTo(q, [auth[q] EXCEPT !.pc = "store"])
       \/ /\ GoesTo(q, IF SharedEntry(q) = NoEntry
                      THEN [auth[q] EXCEPT !.pc = "store"]
                      ELSE Took(auth[q], SharedEntry(q), "sharedRevs"))
          /\ UNCHANGED redisFaults
    /\ UNCHANGED <<withRedis, idRow, revision, announced, localCache, sharedCache, idAdmin>>

CompareShared(q) ==
    /\ At(q, "sharedRevs")
    /\ \/ MGetFails(q, [auth[q] EXCEPT !.pc = "copy"]) /\ UNCHANGED sharedCache
       \/ /\ auth[q].revs = revision
          /\ GoesTo(q, [auth[q] EXCEPT !.pc = "copy"])
          /\ UNCHANGED <<sharedCache, redisFaults>>
       \/ /\ auth[q].revs # revision
          /\ \/ RedisFails /\ UNCHANGED sharedCache
             \/ /\ sharedCache' = [sharedCache EXCEPT ![auth[q].cred] = NoEntry]
                /\ UNCHANGED redisFaults
          /\ GoesTo(q, [auth[q] EXCEPT !.pc = "store"])
    /\ UNCHANGED <<withRedis, idRow, revision, announced, localCache, idAdmin>>

\* WHERE ak.key = ?
Finds(cred) == cred = idRow.cred

\* store.Authenticate and verifyIdentity: only an active identity is cached.
ReadStore(q) ==
    /\ At(q, "store")
    /\ GoesTo(q, IF Finds(auth[q].cred) /\ idRow.active
               THEN [auth[q] EXCEPT !.pc = IF withRedis THEN "revs" ELSE "put",
                                    !.ver = idRow.ver, !.revs = NoRevs, !.age = 0]
               ELSE [IdleReq EXCEPT !.pc = "refused"])
    /\ UNCHANGED <<withRedis, idRow, revision, announced, localCache, sharedCache, idAdmin, redisFaults>>

\* The revisions of a new entry are read after the identity: mixed tells that a change
\* came between the two.
ReadRevisions(q) ==
    /\ At(q, "revs")
    /\ \/ MGetFails(q, [auth[q] EXCEPT !.pc = "put"])
       \/ /\ GoesTo(q, [auth[q] EXCEPT !.pc = "putBoth", !.revs = revision,
                                     !.mixed = auth[q].ver < announced])
          /\ UNCHANGED redisFaults
    /\ UNCHANGED <<withRedis, idRow, revision, announced, localCache, sharedCache, idAdmin>>

\* Mutant: entries live twice as long.
Life_Doubled == 2 * CacheTTL
\* setCached, and the TTL of setRedisCached.
Life == CacheTTL

NewEntry(q) == [ver |-> auth[q].ver, revs |-> auth[q].revs, mixed |-> auth[q].mixed,
                age |-> auth[q].age, left |-> Life]

\* setCached, of what the store or Redis gave.
PutLocal(q) ==
    /\ auth[q].pc \in {"copy", "put", "putBoth"}
    /\ localCache' = [localCache EXCEPT ![HomeOf[q]][auth[q].cred] = NewEntry(q)]
    /\ GoesTo(q, IF At(q, "putBoth") THEN [auth[q] EXCEPT !.pc = "putShared"] ELSE ServedAs(auth[q]))
    /\ UNCHANGED <<withRedis, idRow, revision, announced, sharedCache, idAdmin, redisFaults>>

setRedisCached(q) ==
    /\ At(q, "putShared")
    /\ \/ RedisFails /\ UNCHANGED sharedCache
       \/ /\ sharedCache' = [sharedCache EXCEPT ![auth[q].cred] = NewEntry(q)]
          /\ UNCHANGED redisFaults
    /\ GoesTo(q, ServedAs(auth[q]))
    /\ UNCHANGED <<withRedis, idRow, revision, announced, localCache, idAdmin>>

-----------------------------------------------------------------------------
(* Administration.  A handler commits its change, then invalidates.         *)

Commits(row, scope, step, oldCred) ==
    /\ idAdmin.step = "idle"
    /\ idRow.ver < MaxChange
    /\ idRow' = [row EXCEPT !.ver = @ + 1]
    /\ idAdmin' = [step |-> step, scope |-> scope, cred |-> oldCred]
    /\ UNCHANGED <<withRedis, revision, announced, localCache, sharedCache, auth, redisFaults>>

\* The handlers of a key drop the entry of its name, here and in Redis, and then bump.
AdminUpdates == Commits(idRow, "api_key", "dropLocal", idRow.cred)
AdminRevokes == Commits([idRow EXCEPT !.active = FALSE], "api_key", "dropLocal", idRow.cred)
AdminRotates == Commits([idRow EXCEPT !.cred = @ + 1, !.active = TRUE], "api_key", "dropLocal",
                        idRow.cred)

\* The handlers of users, tenants and projects only bump the revision of their scope.
OwnerStep == "bump"

UpdateOwner(scope) == Commits(idRow, scope, OwnerStep, idRow.cred)
DeleteOwner(scope) == Commits([idRow EXCEPT !.active = FALSE], scope, OwnerStep, idRow.cred)

deleteLocalCache ==
    /\ idAdmin.step = "dropLocal"
    /\ localCache' = [localCache EXCEPT ![AdminHome][idAdmin.cred] = NoEntry]
    /\ idAdmin' = [idAdmin EXCEPT !.step = "dropShared"]
    /\ UNCHANGED <<withRedis, idRow, revision, announced, sharedCache, auth, redisFaults>>

\* The errors of DEL and INCR are dropped, and the administrator's call succeeds.
invalidateCache ==
    /\ idAdmin.step = "dropShared"
    /\ \/ RedisFails /\ UNCHANGED sharedCache
       \/ /\ sharedCache' = IF withRedis THEN [sharedCache EXCEPT ![idAdmin.cred] = NoEntry] ELSE sharedCache
          /\ UNCHANGED redisFaults
    /\ idAdmin' = [idAdmin EXCEPT !.step = "bump"]
    /\ UNCHANGED <<withRedis, idRow, revision, announced, localCache, auth>>

bumpIdentityRevision ==
    /\ idAdmin.step = "bump"
    /\ \/ RedisFails /\ UNCHANGED <<revision, announced>>
       \/ /\ revision' = IF withRedis THEN [revision EXCEPT ![idAdmin.scope] = @ + 1] ELSE revision
          /\ announced' = idRow.ver
          /\ UNCHANGED redisFaults
    /\ idAdmin' = [idAdmin EXCEPT !.step = "idle"]
    /\ UNCHANGED <<withRedis, idRow, localCache, sharedCache, auth>>

\* Time passes, in units of which no request takes a whole one.
OlderRevision(e) == IF e = NoEntry \/ e.left = 0 THEN NoEntry
            ELSE [e EXCEPT !.left = @ - 1, !.age = @ + 1]

ClockTick ==
    /\ \A q \in AuthReqs : auth[q].pc \in {"idle", "served", "refused"}
    /\ localCache' = [n \in Replicas |-> [c \in Creds |-> OlderRevision(localCache[n][c])]]
    /\ sharedCache' = [c \in Creds |-> OlderRevision(sharedCache[c])]
    /\ auth' = [q \in AuthReqs |-> IdleReq]
    /\ UNCHANGED <<withRedis, idRow, revision, announced, idAdmin, redisFaults>>

-----------------------------------------------------------------------------
Authenticate(q) ==
    \/ Begin(q) \/ CompareLocal(q) \/ LookShared(q) \/ CompareShared(q)
    \/ ReadStore(q) \/ ReadRevisions(q) \/ PutLocal(q) \/ setRedisCached(q)

Administer ==
    \/ AdminUpdates \/ AdminRevokes \/ AdminRotates
    \/ \E s \in Scopes \ {"api_key"} : UpdateOwner(s) \/ DeleteOwner(s)
    \/ deleteLocalCache \/ invalidateCache \/ bumpIdentityRevision

IdNext == (\E q \in AuthReqs : Authenticate(q)) \/ Administer \/ ClockTick

IdSpec == IdInit /\ [][IdNext]_idVars

-----------------------------------------------------------------------------
(* Properties.                                                              *)

Vers == 0..MaxChange
Revs == [Scopes -> Vers]
Entries == [ver : Vers, revs : Revs, mixed : BOOLEAN, age : 0..2 * CacheTTL, left : 0..CacheTTL] \cup {NoEntry}

\* Type invariant.
IdTypeOK ==
    /\ withRedis \in BOOLEAN
    /\ idRow \in [ver : Vers, cred : Creds, active : BOOLEAN]
    /\ revision \in Revs /\ announced \in Vers
    /\ localCache \in [Replicas -> [Creds -> Entries]]
    /\ sharedCache \in [Creds -> Entries]
    /\ auth \in [AuthReqs ->
          [pc : {"idle", "localRevs", "shared", "sharedRevs", "copy", "store", "revs", "put",
                 "putBoth", "putShared", "served", "refused"},
           cred : Creds, ver : Vers, revs : Revs, mixed : BOOLEAN,
           unchecked : BOOLEAN, since : Vers, age : 0..2 * CacheTTL]]
    /\ idAdmin \in [step : {"idle", "dropLocal", "dropShared", "bump"}, scope : Scopes,
                    cred : Creds]
    /\ redisFaults \in 0..MaxRedisFault

\* With Redis: a request that begins after an administrator's call has incremented its
\* revision is served an identity without that change only if a fill read the row before
\* the change and the revisions after it, or if the revisions could not be read.  That
\* the old entry could not be deleted, or that entries could not be written or read,
\* does not matter.  A change whose increment failed is not announced: until the next one that
\* is, entries without it are served, for as long as AgeBounded allows.
StaleNeedsOverlap ==
    withRedis => \A q \in AuthReqs :
       At(q, "served") /\ auth[q].ver < auth[q].since => auth[q].mixed \/ auth[q].unchecked

\* However the two caches feed each other, with or without Redis and whatever fails, what
\* a request is served was in the store at most two lives of an entry ago.
AgeBounded ==
    \A q \in AuthReqs : At(q, "served") => auth[q].age <= 2 * CacheTTL

\* Rotation: once its call has returned, the old name of the key is only served as
\* StaleNeedsOverlap allows, and never by the store: whoever is served under an old name
\* got it from an entry made before.
OldNameDies ==
    \A q \in AuthReqs :
       At(q, "served") /\ auth[q].cred < idRow.cred
          => auth[q].ver < idRow.ver

\* What Authenticate serves from its caches: stale only where a fill overlapped the change, never older than
\* two lives, and an old name never as if it were the key's.
IdentitySound == IdTypeOK /\ StaleNeedsOverlap /\ AgeBounded /\ OldNameDies
=============================================================================

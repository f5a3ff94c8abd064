--------------------------- MODULE PermissionCache ---------------------------
(***************************************************************************)
(* What one user may do, by the database of roles: the permissions cached   *)
(* in the memory of each replica and in Redis, and the administration of    *)
(* one custom role.  Nothing invalidates an entry when a role changes       *)
(* (Invalidate is only called by the timers), so the age of an answer is    *)
(* bounded by the lives of the entries, or not at all when a DEL or an      *)
(* EXPIRE is lost.  sinceHeld counts the units of time since the database   *)
(* last gave the user a permission.                                         *)
(***************************************************************************)
EXTENDS Integers, FiniteSets

CONSTANTS
    RbacNodes, RbacReqs, NodeOf,   \* NodeOf[q]: the replica that serves request q
    Perms,                         \* permission codes
    SystemPerms, LegacyPerms,      \* of the user's system role: in the database, in rolePermissions
    RoleAdmins,                    \* administrators of the custom role
    NoSet,
    PermTTL,
    MaxRoleChange, MaxRbacFault    \* bounds

ASSUME RbacAssumption ==
    /\ NodeOf \in [RbacReqs -> RbacNodes]
    /\ SystemPerms \subseteq Perms /\ LegacyPerms \subseteq Perms
    /\ PermTTL \in Nat \ {0} /\ MaxRoleChange \in Nat /\ MaxRbacFault \in Nat

VARIABLES
    roleRow,       \* the custom role is in table roles
    rolePermRows,  \* its rows in role_permissions
    assigned,      \* the user has it in user_roles
    localPerms,    \* s.local[userID], by replica
    evictTimers,   \* pending AfterFuncs, by replica: the times left to them
    redisPerms, redisLeft,   \* the set in Redis and the time left to it
    permReq, roleOp,
    sinceHeld,
    commandLost,   \* a DEL or EXPIRE of a set with members did not come about
    roleChanges, rbacFaults

rbacVars == <<roleRow, rolePermRows, assigned, localPerms, evictTimers, redisPerms, redisLeft,
              permReq, roleOp, sinceHeld, commandLost, roleChanges, rbacFaults>>
caches == <<localPerms, evictTimers, redisPerms, redisLeft>>
roleRows == <<roleRow, rolePermRows, assigned>>

NoExpiry == PermTTL + 1          \* the key has no expiry
AgeCap == 2 * PermTTL + 1
NoAsk == [pc |-> "idle", got |-> {}]
NoRoleOp == [pc |-> "idle", perms |-> {}]

\* GetUserPermissions: user_roles joined with role_permissions, and not with roles.
GetUserPermissions == SystemPerms \cup (IF assigned THEN rolePermRows ELSE {})

RbacInit ==
    /\ roleRow = FALSE /\ rolePermRows = {} /\ assigned = FALSE
    /\ localPerms = [n \in RbacNodes |-> NoSet]
    /\ evictTimers = [n \in RbacNodes |-> {}]
    /\ redisPerms = {} /\ redisLeft = NoExpiry
    /\ permReq = [q \in RbacReqs |-> NoAsk]
    /\ roleOp = [a \in RoleAdmins |-> NoRoleOp]
    /\ sinceHeld = [p \in Perms |-> IF p \in SystemPerms THEN 0 ELSE AgeCap]
    /\ commandLost = FALSE /\ roleChanges = 0 /\ rbacFaults = 0

-----------------------------------------------------------------------------
(* HasPermission.                                                           *)

AskAt(q, pc) == permReq[q].pc = pc
AskGoes(q, pc, got) == permReq' = [permReq EXCEPT ![q] = [pc |-> pc, got |-> got]]
RbacFault == rbacFaults < MaxRbacFault /\ rbacFaults' = rbacFaults + 1
NoFault == UNCHANGED rbacFaults
Resting == {"idle", "answered"}

\* The answer comes from the set in memory, the one in Redis or the database.
loadLocal(q) ==
    /\ permReq[q].pc \in Resting
    /\ LET set == localPerms[NodeOf[q]]
       IN  IF set = NoSet THEN AskGoes(q, "redis", {}) ELSE AskGoes(q, "answered", set)
    /\ UNCHANGED <<caches, roleRows, roleOp, sinceHeld, commandLost, roleChanges, rbacFaults>>

\* An error, and a set without members, count as a miss.
loadRedis(q) ==
    /\ AskAt(q, "redis")
    /\ \/ RbacFault /\ AskGoes(q, "db", {})
       \/ /\ NoFault
          /\ IF redisPerms = {} THEN AskGoes(q, "db", {}) ELSE AskGoes(q, "keep", redisPerms)
    /\ UNCHANGED <<caches, roleRows, roleOp, sinceHeld, commandLost, roleChanges>>

\* An error of the database is answered no, and not cached.
ReadPermissions(q) ==
    /\ AskAt(q, "db")
    /\ \/ RbacFault /\ AskGoes(q, "answered", {})
       \/ NoFault /\ AskGoes(q, "keepBoth", GetUserPermissions)
    /\ UNCHANGED <<caches, roleRows, roleOp, sinceHeld, commandLost, roleChanges>>

\* time.AfterFunc(s.ttl, ...)
EvictAfter == {PermTTL}

storeLocal(q) ==
    /\ permReq[q].pc \in {"keep", "keepBoth"}
    /\ localPerms' = [localPerms EXCEPT ![NodeOf[q]] = permReq[q].got]
    /\ evictTimers' = [evictTimers EXCEPT ![NodeOf[q]] = @ \cup EvictAfter]
    /\ AskGoes(q, IF AskAt(q, "keepBoth") /\ permReq[q].got # {} THEN "del" ELSE "answered",
               permReq[q].got)
    /\ UNCHANGED <<roleRows, redisPerms, redisLeft, roleOp, sinceHeld, commandLost, roleChanges,
                   rbacFaults>>

\* storeRedis is three commands, of which each may fail unnoticed.
RedisDel(q) ==
    /\ AskAt(q, "del")
    /\ \/ NoFault /\ redisPerms' = {} /\ redisLeft' = NoExpiry /\ UNCHANGED commandLost
       \/ RbacFault /\ UNCHANGED <<redisPerms, redisLeft>> /\ commandLost' = (commandLost \/ redisPerms # {})
    /\ AskGoes(q, "sadd", permReq[q].got)
    /\ UNCHANGED <<localPerms, evictTimers, roleRows, roleOp, sinceHeld, roleChanges>>

RedisSAdd(q) ==
    /\ AskAt(q, "sadd")
    /\ \/ NoFault /\ redisPerms' = redisPerms \cup permReq[q].got
       \/ RbacFault /\ UNCHANGED redisPerms
    /\ AskGoes(q, "expire", permReq[q].got)
    /\ UNCHANGED <<localPerms, evictTimers, redisLeft, roleRows, roleOp, sinceHeld, commandLost,
                   roleChanges>>

\* EXPIRE does nothing to a key that does not exist.
RedisExpire(q) ==
    /\ AskAt(q, "expire")
    /\ \/ /\ NoFault /\ UNCHANGED commandLost
          /\ redisLeft' = IF redisPerms = {} THEN NoExpiry ELSE PermTTL
       \/ RbacFault /\ UNCHANGED redisLeft /\ commandLost' = TRUE
    /\ AskGoes(q, "answered", permReq[q].got)
    /\ UNCHANGED <<localPerms, evictTimers, redisPerms, roleRows, roleOp, sinceHeld, roleChanges>>

\* RequirePermission: the hard-coded map of the role is asked whenever the answer is no.
RequirePermission(q, p) == p \in permReq[q].got \/ p \in LegacyPerms

\* The callback of a timer, whichever entry it was made for.
Invalidate(n) ==
    /\ 0 \in evictTimers[n]
    /\ localPerms' = [localPerms EXCEPT ![n] = NoSet]
    /\ evictTimers' = [evictTimers EXCEPT ![n] = @ \ {0}]
    /\ UNCHANGED <<redisPerms, redisLeft, roleRows, permReq, roleOp, sinceHeld, commandLost,
                   roleChanges, rbacFaults>>

\* A replica dies and starts anew: its memory, timers and requests are gone.
NodeRestarts(n) ==
    /\ RbacFault
    /\ localPerms' = [localPerms EXCEPT ![n] = NoSet]
    /\ evictTimers' = [evictTimers EXCEPT ![n] = {}]
    /\ permReq' = [q \in RbacReqs |-> IF NodeOf[q] = n THEN NoAsk ELSE permReq[q]]
    /\ commandLost' = (commandLost \/ \E q \in RbacReqs : NodeOf[q] = n /\ AskAt(q, "expire"))
    /\ UNCHANGED <<redisPerms, redisLeft, roleRows, roleOp, sinceHeld, roleChanges>>

-----------------------------------------------------------------------------
(* Administration of the custom role.                                       *)

OpGoes(a, pc, perms) == roleOp' = [roleOp EXCEPT ![a] = [pc |-> pc, perms |-> perms]]
RoleChange == roleChanges < MaxRoleChange /\ roleChanges' = roleChanges + 1
\* What the user has ceased to have, or has again, starts to count now.
Held == sinceHeld' = [p \in Perms |-> IF p \in GetUserPermissions' THEN 0 ELSE sinceHeld[p]]

\* The codes of a request become rows; when the permissions cannot be listed, none does.
resolvePermissionIDs(perms, ids) ==
    \/ NoFault /\ ids = perms
    \/ RbacFault /\ ids = {}

\* DELETE the rows of the role, INSERT the new ones.
setRolePermissionsTx(ids) == rolePermRows' = ids

CreateRole(a, perms) ==
    /\ roleOp[a].pc = "idle" /\ roleChanges = 0
    /\ RoleChange
    /\ roleRow' = TRUE
    /\ \E ids \in {perms, {}} : resolvePermissionIDs(perms, ids) /\ setRolePermissionsTx(ids)
    /\ UNCHANGED <<assigned, caches, permReq, roleOp, sinceHeld, commandLost>>

\* No operation of the gateway gives a role to a user: an operator does, in the database.
AssignRole ==
    /\ roleRow /\ ~assigned
    /\ RoleChange
    /\ assigned' = TRUE
    /\ UNCHANGED <<roleRow, rolePermRows>>
    /\ Held
    /\ UNCHANGED <<caches, permReq, roleOp, commandLost, rbacFaults>>

\* GetRole, which UpdateRole and DeleteRole call before their transaction.
FindsRole(a) == roleOp[a].pc = "idle" /\ roleRow

BeginUpdateRole(a, perms) ==
    /\ FindsRole(a)
    /\ \E ids \in {perms, {}} : resolvePermissionIDs(perms, ids) /\ OpGoes(a, "update", ids)
    /\ UNCHANGED <<caches, roleRows, permReq, sinceHeld, commandLost, roleChanges>>

\* The UPDATE of a role that is gone changes no row, and the permissions are inserted.
CommitUpdateRole(a) ==
    /\ roleOp[a].pc = "update"
    /\ RoleChange
    /\ setRolePermissionsTx(roleOp[a].perms)
    /\ OpGoes(a, "idle", {})
    /\ UNCHANGED <<roleRow, assigned>>
    /\ Held
    /\ UNCHANGED <<caches, permReq, commandLost, rbacFaults>>

BeginDeleteRole(a) ==
    /\ FindsRole(a)
    /\ OpGoes(a, "delete", {})
    /\ UNCHANGED <<caches, roleRows, permReq, sinceHeld, commandLost, roleChanges, rbacFaults>>

\* Mutant: the rows of user_roles stay.
Unassign_Not == UNCHANGED assigned
\* DELETE FROM user_roles WHERE role_id = ?
Unassign == assigned' = FALSE

CommitDeleteRole(a) ==
    /\ roleOp[a].pc = "delete"
    /\ RoleChange
    /\ roleRow' = FALSE /\ rolePermRows' = {}
    /\ Unassign
    /\ OpGoes(a, "idle", {})
    /\ Held
    /\ UNCHANGED <<caches, permReq, commandLost, rbacFaults>>

\* Time passes in units of which no request takes a whole one.  A timer that is due has fired.
Less(k) == k - 1
RbacTick ==
    /\ \A q \in RbacReqs : permReq[q].pc \in Resting
    /\ \A n \in RbacNodes : 0 \notin evictTimers[n]
    /\ evictTimers' = [n \in RbacNodes |-> {Less(k) : k \in evictTimers[n]}]
    /\ IF redisLeft \in {0, NoExpiry}
       THEN /\ redisPerms' = IF redisLeft = 0 THEN {} ELSE redisPerms
            /\ redisLeft' = NoExpiry
       ELSE redisLeft' = redisLeft - 1 /\ UNCHANGED redisPerms
    /\ sinceHeld' = [p \in Perms |->
          IF p \in GetUserPermissions \/ sinceHeld[p] = AgeCap THEN sinceHeld[p] ELSE sinceHeld[p] + 1]
    /\ permReq' = [q \in RbacReqs |-> NoAsk]
    /\ UNCHANGED <<localPerms, roleRows, roleOp, commandLost, roleChanges, rbacFaults>>

-----------------------------------------------------------------------------
HasPermission(q) ==
    \/ loadLocal(q) \/ loadRedis(q) \/ ReadPermissions(q) \/ storeLocal(q)
    \/ RedisDel(q) \/ RedisSAdd(q) \/ RedisExpire(q)

RbacNext ==
    \/ \E q \in RbacReqs : HasPermission(q)
    \/ \E n \in RbacNodes : Invalidate(n) \/ NodeRestarts(n)
    \/ \E a \in RoleAdmins :
          \/ \E perms \in SUBSET Perms : CreateRole(a, perms) \/ BeginUpdateRole(a, perms)
          \/ CommitUpdateRole(a) \/ BeginDeleteRole(a) \/ CommitDeleteRole(a)
    \/ AssignRole
    \/ RbacTick

RbacSpec == RbacInit /\ [][RbacNext]_rbacVars

-----------------------------------------------------------------------------
(* Properties.                                                              *)

\* Type invariant.
RbacTypeOK ==
    /\ roleRow \in BOOLEAN /\ rolePermRows \subseteq Perms /\ assigned \in BOOLEAN
    /\ localPerms \in [RbacNodes -> (SUBSET Perms) \cup {NoSet}]
    /\ evictTimers \in [RbacNodes -> SUBSET (0..PermTTL)]
    /\ redisPerms \subseteq Perms /\ redisLeft \in 0..NoExpiry
    /\ permReq \in [RbacReqs -> [pc : {"idle", "redis", "db", "keep", "keepBoth", "del", "sadd",
                                       "expire", "answered"}, got : SUBSET Perms]]
    /\ roleOp \in [RoleAdmins -> [pc : {"idle", "update", "delete"}, perms : SUBSET Perms]]
    /\ sinceHeld \in [Perms -> 0..AgeCap]
    /\ commandLost \in BOOLEAN
    /\ roleChanges \in 0..MaxRoleChange /\ rbacFaults \in 0..MaxRbacFault

\* A user is let through for what the hard-coded map gives the role or the database gave
\* the user at most two lives of an entry ago, whatever the replicas write over each other
\* in Redis, unless the DEL or the EXPIRE of a set was lost: the EXPIRE after a lost DEL
\* gives the old members a new life (HasPermission, storeRedis).
AllowedWasGranted ==
    \A q \in RbacReqs, p \in Perms :
       AskAt(q, "answered") /\ RequirePermission(q, p) /\ ~commandLost
          => p \in LegacyPerms \/ sinceHeld[p] <= 2 * PermTTL

\* A role that was deleted gives nobody anything, although an update that was under way
\* may have written its permissions again (UpdateRole looks the role up before its
\* transaction, GetUserPermissions does not look at table roles).
DeletedRoleGrantsNothing ==
    ~roleRow => GetUserPermissions = SystemPerms

\* What RequirePermission lets through was granted, and a deleted role grants nothing.
RbacSound == RbacTypeOK /\ AllowedWasGranted /\ DeletedRoleGrantsNothing
=============================================================================

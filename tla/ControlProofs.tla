---------------------------- MODULE ControlProofs ----------------------------
(***************************************************************************)
(* Proofs about the control plane: the caches of permissions               *)
(* (PermissionCache), the rows behind a credential (KeyAdministration),    *)
(* the services a subscription opens (ServiceCatalog), the alerts          *)
(* (AlertDelivery), the prices (PricingFeed), the plugins (PluginMarket),  *)
(* the seed of a start (GatewayStartup), the reloads of the configuration  *)
(* (ConfigReload), and their composition (MCControlPlane).                 *)
(***************************************************************************)
EXTENDS MCControlPlane, WellFoundedInduction, FiniteSetTheorems, TLAPS

-----------------------------------------------------------------------------
(* Numbers and selections.                                                 *)

\* A set of numbers with a member has a least one.
LEMMA LeastNumber ==
  ASSUME NEW T, T \subseteq Nat, T # {}
  PROVE  \E x \in T : \A y \in T : x <= y
<1> DEFINE R == OpToRel(<, Nat)
<1>1. IsWellFoundedOn(R, Nat)
  BY NatLessThanWellFounded
<1>2. \A x, y \in Nat : x < y => <<x, y>> \in R
  BY DEF OpToRel
<1> HIDE DEF R
<1>3. PICK x \in T : \A y \in T : ~ (<<y, x>> \in R)
  BY <1>1, WFMin
<1>4. ASSUME NEW y \in T PROVE x <= y
  <2>1. x \in Nat /\ y \in Nat
    OBVIOUS
  <2>2. ~(y < x)
    BY <2>1, <1>2, <1>3
  <2> QED BY <2>1, <2>2
<1> QED BY <1>4

\* A set of numbers that holds 0 and, with a number, the next one holds all.
LEMMA Numbers ==
  ASSUME NEW T, 0 \in T, \A n \in Nat : n \in T => n + 1 \in T
  PROVE  Nat \subseteq T
<1> DEFINE U == {n \in Nat : n \notin T}
<1> SUFFICES ASSUME U # {} PROVE FALSE
  OBVIOUS
<1>1. PICK x \in U : \A y \in U : x <= y
  <2>1. U \subseteq Nat
    OBVIOUS
  <2> HIDE DEF U
  <2> QED BY <2>1, LeastNumber
<1>2. x - 1 \in Nat /\ ~(x <= x - 1) /\ (x - 1) + 1 = x /\ x \notin T
  BY <1>1
<1>3. x - 1 \in T
  BY <1>1, <1>2
<1> QED BY <1>2, <1>3

\* What a loop that filters makes of a sequence is a sequence, of members that pass.
LEMMA MembersInIs ==
  ASSUME NEW X, NEW s \in Seq(X), NEW S
  PROVE  MembersIn(s, S) \in Seq(X \cap S)
<1> DEFINE Step(F, i) == IF i = 0 THEN <<>> ELSE IF s[i] \in S THEN Append(F[i - 1], s[i]) ELSE F[i - 1]
           Rec(F, n) == F = [i \in 0 .. n |-> Step(F, i)]
           T == {n \in Nat : n <= Len(s) => \E F : Rec(F, n)}
<1>0. Len(s) \in Nat
  OBVIOUS
<1>1. \E F : Rec(F, Len(s))
  <2>1. 0 \in T
    <3> DEFINE F0 == [i \in 0 .. 0 |-> <<>>]
    <3>1. Rec(F0, 0)
      OBVIOUS
    <3> QED BY <3>1
  <2>2. ASSUME NEW n \in Nat, n \in T PROVE n + 1 \in T
    <3> SUFFICES ASSUME n + 1 <= Len(s) PROVE \E F : Rec(F, n + 1)
      <4> HIDE DEF Rec
      <4> QED OBVIOUS
    <3>1. n <= Len(s)
      BY <1>0
    <3>2. PICK F : Rec(F, n)
      BY <2>2, <3>1
    <3> DEFINE G == [i \in 0 .. n + 1 |-> IF i <= n THEN F[i] ELSE Step(F, i)]
    <3>3. \A i \in 0 .. n : G[i] = F[i]
      OBVIOUS
    <3>4. \A i \in 0 .. n + 1 : Step(G, i) = Step(F, i)
      BY <3>3
    <3>5. \A i \in 0 .. n : F[i] = Step(F, i)
      BY <3>2
    <3>6. Rec(G, n + 1)
      BY <3>4, <3>5
    <3> QED BY <3>6
  <2> HIDE DEF T
  <2>3. Nat \subseteq T
    BY <2>1, <2>2, Numbers
  <2>4. Len(s) \in T
    BY <2>3, <1>0
  <2>5. Len(s) <= Len(s) => \E F : Rec(F, Len(s))
    <3> HIDE DEF Rec
    <3> QED BY <2>4 DEF T
  <2>6. Len(s) <= Len(s)
    BY <1>0
  <2> QED BY <2>5, <2>6
<1>2. PICK F : F = CHOOSE u : Rec(u, Len(s))
  OBVIOUS
<1>3. Rec(F, Len(s)) 
  BY <1>1, <1>2
<1>4. MembersIn(s, S) = F[Len(s)]
  BY <1>2 DEF MembersIn
<1>5. \A i \in 0 .. Len(s) : F[i] = Step(F, i)
  BY <1>3
<1> DEFINE V == {n \in Nat : n <= Len(s) => F[n] \in Seq(X \cap S)}
<1>6. 0 \in V
  <2>1. 0 \in 0 .. Len(s)
    BY <1>0
  <2>2. F[0] = Step(F, 0)
    BY <2>1, <1>5
  <2>3. F[0] = <<>>
    BY <2>2
  <2>4. F[0] \in Seq(X \cap S)
    BY <2>3
  <2> QED BY <2>4
<1>7. ASSUME NEW n \in Nat, n \in V PROVE n + 1 \in V
  <2> SUFFICES ASSUME n + 1 <= Len(s) PROVE F[n + 1] \in Seq(X \cap S)
    OBVIOUS
  <2>1. F[n] \in Seq(X \cap S) /\ n + 1 \in 0 .. Len(s) /\ s[n + 1] \in X /\ n + 1 # 0
    BY <1>7, <1>0
  <2>2. F[n + 1] = IF s[n + 1] \in S THEN Append(F[n], s[n + 1]) ELSE F[n]
    BY <2>1, <1>5
  <2> QED BY <2>1, <2>2
<1> HIDE DEF V
<1>8. Nat \subseteq V
  BY <1>6, <1>7, Numbers
<1> QED BY <1>8, <1>4, <1>0 DEF V

-----------------------------------------------------------------------------
(* PermissionCache.                                                        *)

FreshSet(set, age) == \A p \in set : sinceHeld[p] <= age

\* A role that is gone is nobody's, and what the user has counts from now.
RoleKept ==
    /\ ~roleRow => ~assigned
    /\ roleChanges = 0 => ~roleRow
    /\ \A p \in GetUserPermissions : sinceHeld[p] = 0

\* The set in Redis: without an expiry only while its EXPIRE is on the way; with one, its
\* members have been held as recently as the time left to it says; while somebody writes it,
\* all its members are held now.
RedisFresh ==
    ~commandLost =>
       /\ redisLeft = NoExpiry /\ redisPerms # {} => \E q \in RbacReqs : permReq[q].pc = "expire"
       /\ redisLeft # NoExpiry => FreshSet(redisPerms, PermTTL - redisLeft)
       /\ (\E q \in RbacReqs : permReq[q].pc \in {"sadd", "expire"}) => FreshSet(redisPerms, 0)

\* What a request has in hand: from the database, from Redis or from either cache.
AskFresh ==
    \A q \in RbacReqs :
       /\ permReq[q].pc \in {"keepBoth", "del", "sadd", "expire"} => FreshSet(permReq[q].got, 0)
       /\ permReq[q].pc = "keep" /\ ~commandLost => FreshSet(permReq[q].got, PermTTL)
       /\ permReq[q].pc = "answered" /\ ~commandLost => FreshSet(permReq[q].got, 2 * PermTTL)

\* An entry in memory has a timer that removes it before it is two lives old.
LocalFresh ==
    ~commandLost => \A n \in RbacNodes :
       localPerms[n] # NoSet => \E k \in evictTimers[n] : FreshSet(localPerms[n], 2 * PermTTL - k)

RbacInv == RbacTypeOK /\ RoleKept /\ RedisFresh /\ AskFresh /\ LocalFresh

LEMMA RbacInitially == RbacInit => RbacInv
<1> SUFFICES ASSUME RbacInit PROVE RbacInv
  OBVIOUS
<1> USE RbacAssumption DEF RbacAssumption
<1>1. RbacTypeOK
  <2>1. sinceHeld \in [Perms -> 0 .. AgeCap]
    BY DEF RbacInit, AgeCap
  <2>2. permReq \in [RbacReqs -> [pc : {"idle", "redis", "db", "keep", "keepBoth", "del", "sadd",
                                       "expire", "answered"}, got : SUBSET Perms]]
    BY DEF RbacInit, NoAsk
  <2>3. roleOp \in [RoleAdmins -> [pc : {"idle", "update", "delete"}, perms : SUBSET Perms]]
    BY DEF RbacInit, NoRoleOp
  <2>4. /\ localPerms \in [RbacNodes -> (SUBSET Perms) \cup {NoSet}]
        /\ evictTimers \in [RbacNodes -> SUBSET (0 .. PermTTL)]
    BY DEF RbacInit
  <2>5. redisPerms \subseteq Perms /\ redisLeft \in 0 .. NoExpiry
    BY DEF RbacInit, NoExpiry
  <2>6. roleRow \in BOOLEAN /\ assigned \in BOOLEAN /\ commandLost \in BOOLEAN
    BY DEF RbacInit
  <2>7. rolePermRows \subseteq Perms /\ roleChanges \in 0 .. MaxRoleChange /\ rbacFaults \in 0 .. MaxRbacFault
    BY DEF RbacInit
  <2> QED BY <2>1, <2>2, <2>3, <2>4, <2>5, <2>6, <2>7 DEF RbacTypeOK
<1>2. RoleKept
  BY DEF RbacInit, RoleKept, GetUserPermissions
<1>3. RedisFresh /\ AskFresh /\ LocalFresh
  BY DEF RbacInit, RedisFresh, AskFresh, LocalFresh, NoAsk
<1> QED BY <1>1, <1>2, <1>3 DEF RbacInv

\* The type invariant is inductive.
LEMMA RbacTyped == RbacTypeOK /\ [RbacNext]_rbacVars => RbacTypeOK'
<1> SUFFICES ASSUME RbacTypeOK, [RbacNext]_rbacVars PROVE RbacTypeOK'
  OBVIOUS
<1> USE RbacAssumption DEF RbacAssumption, RbacTypeOK
<1> USE DEF caches, roleRows, AskGoes, NoFault, RbacFault, AskAt
<1>1. ASSUME NEW q \in RbacReqs, loadLocal(q) PROVE RbacTypeOK'
  BY <1>1 DEF loadLocal, Resting
<1>2. ASSUME NEW q \in RbacReqs, loadRedis(q) PROVE RbacTypeOK'
  BY <1>2 DEF loadRedis
<1>3. ASSUME NEW q \in RbacReqs, ReadPermissions(q) PROVE RbacTypeOK'
  BY <1>3 DEF ReadPermissions, GetUserPermissions
<1>4. ASSUME NEW q \in RbacReqs, storeLocal(q) PROVE RbacTypeOK'
  BY <1>4 DEF storeLocal, EvictAfter
<1>5. ASSUME NEW q \in RbacReqs, RedisDel(q) PROVE RbacTypeOK'
  <2>1. commandLost' \in BOOLEAN
    BY <1>5 DEF RedisDel
  <2>2. UNCHANGED <<roleRow, rolePermRows, assigned, roleOp, sinceHeld, roleChanges>>
    BY <1>5 DEF RedisDel
  <2> QED BY <2>1, <2>2, <1>5 DEF RedisDel, NoExpiry
<1>6. ASSUME NEW q \in RbacReqs, RedisSAdd(q) PROVE RbacTypeOK'
  BY <1>6 DEF RedisSAdd
<1>7. ASSUME NEW q \in RbacReqs, RedisExpire(q) PROVE RbacTypeOK'
  <2>1. commandLost' \in BOOLEAN
    BY <1>7 DEF RedisExpire
  <2>2. UNCHANGED <<roleRow, rolePermRows, assigned, roleOp, sinceHeld, roleChanges>>
    BY <1>7 DEF RedisExpire
  <2> QED BY <2>1, <2>2, <1>7 DEF RedisExpire, NoExpiry
<1>8. ASSUME NEW n \in RbacNodes, Invalidate(n) PROVE RbacTypeOK'
  BY <1>8 DEF Invalidate
<1>9. ASSUME NEW n \in RbacNodes, NodeRestarts(n) PROVE RbacTypeOK'
  <2>1. commandLost' \in BOOLEAN
    BY <1>9 DEF NodeRestarts
  <2>2. UNCHANGED <<roleRow, rolePermRows, assigned, roleOp, sinceHeld, roleChanges>>
    BY <1>9 DEF NodeRestarts
  <2> QED BY <2>1, <2>2, <1>9 DEF NodeRestarts, NoAsk
<1> USE DEF RoleChange, OpGoes, Held
<1>10. ASSUME NEW a \in RoleAdmins, NEW perms \in SUBSET Perms, CreateRole(a, perms) PROVE RbacTypeOK'
  BY <1>10 DEF CreateRole, resolvePermissionIDs, setRolePermissionsTx
<1>11. ASSUME NEW a \in RoleAdmins, NEW perms \in SUBSET Perms, BeginUpdateRole(a, perms) PROVE RbacTypeOK'
  BY <1>11 DEF BeginUpdateRole, resolvePermissionIDs
<1>h. ASSUME Held PROVE (sinceHeld \in [Perms -> 0 .. AgeCap])'
  BY <1>h DEF AgeCap
<1>12. ASSUME NEW a \in RoleAdmins, CommitUpdateRole(a) PROVE RbacTypeOK'
  <2>1. (sinceHeld \in [Perms -> 0 .. AgeCap])'
    BY <1>12, <1>h DEF CommitUpdateRole
  <2> HIDE DEF Held
  <2> QED BY <1>12, <2>1 DEF CommitUpdateRole, setRolePermissionsTx
<1>13. ASSUME NEW a \in RoleAdmins, BeginDeleteRole(a) PROVE RbacTypeOK'
  BY <1>13 DEF BeginDeleteRole
<1>14. ASSUME NEW a \in RoleAdmins, CommitDeleteRole(a) PROVE RbacTypeOK'
  <2>1. (sinceHeld \in [Perms -> 0 .. AgeCap])'
    BY <1>14, <1>h DEF CommitDeleteRole
  <2>2. (roleRow \in BOOLEAN /\ assigned \in BOOLEAN)'
    BY <1>14 DEF CommitDeleteRole, Unassign
  <2> HIDE DEF Held
  <2> QED BY <1>14, <2>1, <2>2 DEF CommitDeleteRole
<1>15. ASSUME AssignRole PROVE RbacTypeOK'
  <2>1. (sinceHeld \in [Perms -> 0 .. AgeCap])'
    BY <1>15, <1>h DEF AssignRole
  <2>2. (assigned \in BOOLEAN)'
    BY <1>15 DEF AssignRole
  <2> HIDE DEF Held
  <2> QED BY <1>15, <2>1, <2>2 DEF AssignRole
<1>16. ASSUME RbacTick PROVE RbacTypeOK'
  <2>1. (evictTimers \in [RbacNodes -> SUBSET (0 .. PermTTL)])'
    <3>1. evictTimers' = [n \in RbacNodes |-> {Less(k) : k \in evictTimers[n]}]
      BY <1>16 DEF RbacTick
    <3>2. \A n \in RbacNodes : {Less(k) : k \in evictTimers[n]} \subseteq 0 .. PermTTL
      <4> TAKE n \in RbacNodes
      <4>1. evictTimers[n] \subseteq 0 .. PermTTL /\ 0 \notin evictTimers[n]
        BY <1>16 DEF RbacTick
      <4>2. \A k \in evictTimers[n] : k - 1 \in 0 .. PermTTL
        BY <4>1
      <4> QED BY <4>2 DEF Less
    <3> QED BY <3>1, <3>2
  <2>2. (sinceHeld \in [Perms -> 0 .. AgeCap])'
    <3>1. sinceHeld' = [p \in Perms |-> IF p \in GetUserPermissions \/ sinceHeld[p] = AgeCap
                                         THEN sinceHeld[p] ELSE sinceHeld[p] + 1]
      BY <1>16 DEF RbacTick
    <3>2. \A p \in Perms : sinceHeld[p] \in 0 .. AgeCap
      OBVIOUS
    <3>4. AgeCap \in Nat
      BY DEF AgeCap
    <3>3. \A p \in Perms : sinceHeld[p] # AgeCap => sinceHeld[p] + 1 \in 0 .. AgeCap
      <4> HIDE DEF RbacTypeOK
      <4> QED BY <3>2, <3>4
    <3> QED BY <3>1, <3>2, <3>3
  <2>3. (redisPerms \subseteq Perms /\ redisLeft \in 0 .. NoExpiry)'
    BY <1>16 DEF RbacTick, NoExpiry
  <2>4. (permReq \in [RbacReqs -> [pc : {"idle", "redis", "db", "keep", "keepBoth", "del", "sadd",
                                       "expire", "answered"}, got : SUBSET Perms]])'
    BY <1>16 DEF RbacTick, NoAsk
  <2> QED BY <1>16, <2>1, <2>2, <2>3, <2>4 DEF RbacTick
<1>17. ASSUME UNCHANGED rbacVars PROVE RbacTypeOK'
  BY <1>17 DEF rbacVars
<1> QED BY <1>1, <1>2, <1>3, <1>4, <1>5, <1>6, <1>7, <1>8, <1>9, <1>10, <1>11, <1>12, <1>13, <1>14,
           <1>15, <1>16, <1>17 DEF RbacNext, HasPermission

\* Every step keeps what the ages of the sets depend on.
LEMMA RbacStep == RbacInv /\ [RbacNext]_rbacVars => RbacInv'
<1> SUFFICES ASSUME RbacInv, [RbacNext]_rbacVars PROVE RbacInv'
  OBVIOUS
<1> USE RbacAssumption DEF RbacAssumption
<1>t. RbacTypeOK /\ RbacTypeOK'
  BY RbacTyped DEF RbacInv
<1>a. /\ RoleKept /\ RedisFresh /\ AskFresh /\ LocalFresh
      /\ \A p \in Perms : sinceHeld[p] \in Nat /\ sinceHeld[p] <= AgeCap
      /\ \A q \in RbacReqs : permReq[q].got \subseteq Perms
      /\ \A n \in RbacNodes : evictTimers[n] \subseteq 0 .. PermTTL /\ (localPerms[n] # NoSet => localPerms[n] \subseteq Perms)
      /\ redisPerms \subseteq Perms /\ redisLeft \in 0 .. PermTTL + 1
      /\ GetUserPermissions \subseteq Perms
  BY <1>t DEF RbacInv, RbacTypeOK, AgeCap, NoExpiry, GetUserPermissions
<1> USE DEF AskAt, AskGoes
\* Requests, to which nothing happens but that one goes on.
<1>b. ASSUME NEW q \in RbacReqs, HasPermission(q)
      PROVE  /\ RoleKept'
             /\ sinceHeld' = sinceHeld
             /\ \A o \in RbacReqs : o # q => permReq'[o] = permReq[o]
  <2>1. UNCHANGED <<roleRow, rolePermRows, assigned, sinceHeld, roleChanges>>
    BY <1>b DEF HasPermission, loadLocal, loadRedis, ReadPermissions, storeLocal, RedisDel, RedisSAdd,
                RedisExpire, caches, roleRows
  <2>2. \A o \in RbacReqs : o # q => permReq'[o] = permReq[o]
    BY <1>b, <1>t DEF RbacTypeOK, HasPermission, loadLocal, loadRedis, ReadPermissions, storeLocal, RedisDel,
                RedisSAdd, RedisExpire
  <2> QED BY <2>1, <2>2, <1>a DEF RoleKept, GetUserPermissions
<1>1. ASSUME NEW q \in RbacReqs, loadLocal(q) PROVE RbacInv'
  <2>0. HasPermission(q)
    BY <1>1 DEF HasPermission
  <2>1. /\ UNCHANGED <<localPerms, evictTimers, redisPerms, redisLeft, commandLost>>
        /\ permReq[q].pc \in {"idle", "answered"}
        /\ permReq'[q] = IF localPerms[NodeOf[q]] = NoSet THEN [pc |-> "redis", got |-> {}]
                         ELSE [pc |-> "answered", got |-> localPerms[NodeOf[q]]]
    BY <1>1, <1>t DEF loadLocal, caches, Resting, RbacTypeOK
  <2>2. RedisFresh' /\ LocalFresh'
    BY <2>0, <2>1, <1>b, <1>a DEF RedisFresh, LocalFresh, FreshSet
  <2>3. localPerms[NodeOf[q]] # NoSet /\ ~commandLost => FreshSet(localPerms[NodeOf[q]], 2 * PermTTL)
    BY <1>a DEF LocalFresh, FreshSet
  <2>4. AskFresh'
    BY <2>0, <2>1, <2>3, <1>b, <1>a DEF AskFresh, FreshSet
  <2> QED BY <2>0, <1>t, <1>b, <2>2, <2>4 DEF RbacInv
<1>2. ASSUME NEW q \in RbacReqs, loadRedis(q) PROVE RbacInv'
  <2>0. HasPermission(q)
    BY <1>2 DEF HasPermission
  <2>1. /\ UNCHANGED <<localPerms, evictTimers, redisPerms, redisLeft, commandLost>>
        /\ permReq[q].pc = "redis"
        /\ \/ permReq'[q] = [pc |-> "db", got |-> {}]
           \/ redisPerms # {} /\ permReq'[q] = [pc |-> "keep", got |-> redisPerms]
    BY <1>2, <1>t DEF loadRedis, caches, RbacTypeOK
  <2>2. RedisFresh' /\ LocalFresh'
    BY <2>0, <2>1, <1>b, <1>a DEF RedisFresh, LocalFresh, FreshSet
  <2>3. ~commandLost => FreshSet(redisPerms, PermTTL)
    BY <1>a DEF RedisFresh, FreshSet, NoExpiry
  <2>4. AskFresh'
    BY <2>0, <2>1, <2>3, <1>b, <1>a DEF AskFresh, FreshSet
  <2> QED BY <2>0, <1>t, <1>b, <2>2, <2>4 DEF RbacInv
<1>3. ASSUME NEW q \in RbacReqs, ReadPermissions(q) PROVE RbacInv'
  <2>0. HasPermission(q)
    BY <1>3 DEF HasPermission
  <2>1. /\ UNCHANGED <<localPerms, evictTimers, redisPerms, redisLeft, commandLost>>
        /\ permReq[q].pc = "db"
        /\ \/ permReq'[q] = [pc |-> "answered", got |-> {}]
           \/ permReq'[q] = [pc |-> "keepBoth", got |-> GetUserPermissions]
    BY <1>3, <1>t DEF ReadPermissions, caches, RbacTypeOK
  <2>2. RedisFresh' /\ LocalFresh'
    BY <2>0, <2>1, <1>b, <1>a DEF RedisFresh, LocalFresh, FreshSet
  <2>3. FreshSet(GetUserPermissions, 0)
    BY <1>a DEF RoleKept, FreshSet
  <2>4. AskFresh'
    BY <2>0, <2>1, <2>3, <1>b, <1>a DEF AskFresh, FreshSet
  <2> QED BY <2>0, <1>t, <1>b, <2>2, <2>4 DEF RbacInv
<1>4. ASSUME NEW q \in RbacReqs, storeLocal(q) PROVE RbacInv'
  <2>0. HasPermission(q)
    BY <1>4 DEF HasPermission
  <2>1. /\ UNCHANGED <<redisPerms, redisLeft, commandLost>>
        /\ permReq[q].pc \in {"keep", "keepBoth"}
        /\ permReq'[q].got = permReq[q].got
        /\ permReq'[q].pc = "answered" \/ (permReq'[q].pc = "del" /\ permReq[q].pc = "keepBoth")
        /\ localPerms'[NodeOf[q]] = permReq[q].got /\ PermTTL \in evictTimers'[NodeOf[q]]
        /\ \A n \in RbacNodes : n # NodeOf[q] => localPerms'[n] = localPerms[n] /\ evictTimers'[n] = evictTimers[n]
    BY <1>4, <1>t DEF storeLocal, EvictAfter, RbacTypeOK
  <2>2. RedisFresh'
    BY <2>0, <2>1, <1>b, <1>a DEF RedisFresh, FreshSet
  <2>3. ~commandLost => FreshSet(permReq[q].got, PermTTL)
    BY <2>1, <1>a DEF AskFresh, FreshSet
  <2>4. AskFresh'
    BY <2>0, <2>1, <2>3, <1>b, <1>a DEF AskFresh, FreshSet
  <2>5. LocalFresh'
    BY <2>0, <2>1, <2>3, <1>b, <1>a DEF LocalFresh, FreshSet
  <2> QED BY <2>0, <1>t, <1>b, <2>2, <2>4, <2>5 DEF RbacInv
<1>5. ASSUME NEW q \in RbacReqs, RedisDel(q) PROVE RbacInv'
  <2>0. HasPermission(q)
    BY <1>5 DEF HasPermission
  <2>1. /\ UNCHANGED <<localPerms, evictTimers>>
        /\ permReq[q].pc = "del" /\ permReq'[q] = [pc |-> "sadd", got |-> permReq[q].got]
        /\ \/ redisPerms' = {} /\ redisLeft' = NoExpiry /\ UNCHANGED commandLost
           \/ /\ UNCHANGED <<redisPerms, redisLeft>>
              /\ commandLost' = (commandLost \/ redisPerms # {})
    BY <1>5, <1>t DEF RedisDel, RbacTypeOK
  <2>2. ~commandLost' => ~commandLost /\ redisPerms' = {}
    BY <2>1
  <2>3. RedisFresh'
    BY <2>0, <2>1, <2>2, <1>b, <1>a DEF RedisFresh, FreshSet
  <2>4. AskFresh'
    BY <2>0, <2>1, <2>2, <1>b, <1>a DEF AskFresh, FreshSet
  <2>5. LocalFresh'
    BY <2>0, <2>1, <2>2, <1>b, <1>a DEF LocalFresh, FreshSet
  <2> QED BY <2>0, <1>t, <1>b, <2>3, <2>4, <2>5 DEF RbacInv
<1>6. ASSUME NEW q \in RbacReqs, RedisSAdd(q) PROVE RbacInv'
  <2>0. HasPermission(q)
    BY <1>6 DEF HasPermission
  <2>1. /\ UNCHANGED <<localPerms, evictTimers, redisLeft, commandLost>>
        /\ permReq[q].pc = "sadd" /\ permReq'[q] = [pc |-> "expire", got |-> permReq[q].got]
        /\ redisPerms' \subseteq redisPerms \cup permReq[q].got
    BY <1>6, <1>t DEF RedisSAdd, RbacTypeOK
  <2>2. FreshSet(permReq[q].got, 0) /\ (~commandLost => FreshSet(redisPerms, 0))
    BY <2>1, <1>a DEF AskFresh, RedisFresh
  <2>3. redisLeft # NoExpiry => PermTTL - redisLeft >= 0
    BY <1>a DEF NoExpiry
  <2>4. ~commandLost => FreshSet(redisPerms', 0) /\ (redisLeft # NoExpiry => FreshSet(redisPerms', PermTTL - redisLeft))
    BY <2>1, <2>2, <2>3, <1>a DEF FreshSet
  <2>5. RedisFresh'
    BY <2>0, <2>1, <2>4, <1>b DEF RedisFresh, FreshSet, NoExpiry
  <2>6. AskFresh'
    BY <2>0, <2>1, <1>b, <1>a DEF AskFresh, FreshSet
  <2>7. LocalFresh'
    BY <2>0, <2>1, <1>b, <1>a DEF LocalFresh, FreshSet
  <2> QED BY <2>0, <1>t, <1>b, <2>5, <2>6, <2>7 DEF RbacInv
<1>7. ASSUME NEW q \in RbacReqs, RedisExpire(q) PROVE RbacInv'
  <2>0. HasPermission(q)
    BY <1>7 DEF HasPermission
  <2>1. /\ UNCHANGED <<localPerms, evictTimers, redisPerms>>
        /\ permReq[q].pc = "expire" /\ permReq'[q] = [pc |-> "answered", got |-> permReq[q].got]
        /\ \/ commandLost'
           \/ /\ UNCHANGED commandLost
              /\ redisLeft' = IF redisPerms = {} THEN NoExpiry ELSE PermTTL
    BY <1>7, <1>t DEF RedisExpire, RbacTypeOK
  <2>2. ~commandLost => FreshSet(redisPerms, 0)
    BY <2>1, <1>a DEF RedisFresh
  <2>3. RedisFresh'
    BY <2>0, <2>1, <2>2, <1>b, <1>a DEF RedisFresh, FreshSet, NoExpiry
  <2>4. AskFresh'
    BY <2>0, <2>1, <1>b, <1>a DEF AskFresh, FreshSet
  <2>5. LocalFresh'
    BY <2>0, <2>1, <1>b, <1>a DEF LocalFresh, FreshSet
  <2> QED BY <2>0, <1>t, <1>b, <2>3, <2>4, <2>5 DEF RbacInv
\* The timers and the clock.
<1>8. ASSUME NEW n \in RbacNodes, Invalidate(n) PROVE RbacInv'
  <2>1. /\ UNCHANGED <<redisPerms, redisLeft, roleRow, rolePermRows, assigned, permReq, sinceHeld,
                       commandLost, roleChanges>>
        /\ localPerms'[n] = NoSet
        /\ \A m \in RbacNodes : m # n => localPerms'[m] = localPerms[m] /\ evictTimers'[m] = evictTimers[m]
    BY <1>8, <1>t DEF Invalidate, RbacTypeOK, roleRows
  <2>2. RoleKept' /\ RedisFresh' /\ AskFresh'
    BY <2>1, <1>a DEF RoleKept, GetUserPermissions, RedisFresh, AskFresh, FreshSet
  <2>3. LocalFresh'
    BY <2>1, <1>a DEF LocalFresh, FreshSet
  <2> QED BY <1>t, <2>2, <2>3 DEF RbacInv
<1>9. ASSUME NEW n \in RbacNodes, NodeRestarts(n) PROVE RbacInv'
  <2>1. /\ UNCHANGED <<redisPerms, redisLeft, roleRow, rolePermRows, assigned, sinceHeld, roleChanges>>
        /\ localPerms'[n] = NoSet
        /\ \A m \in RbacNodes : m # n => localPerms'[m] = localPerms[m] /\ evictTimers'[m] = evictTimers[m]
        /\ \A q \in RbacReqs : permReq'[q] = IF NodeOf[q] = n THEN NoAsk ELSE permReq[q]
    BY <1>9, <1>t DEF NodeRestarts, RbacTypeOK, roleRows
  <2>2. commandLost' = (commandLost \/ \E q \in RbacReqs : NodeOf[q] = n /\ permReq[q].pc = "expire")
    BY <1>9 DEF NodeRestarts
  <2>3. RoleKept'
    BY <2>1, <1>a DEF RoleKept, GetUserPermissions
  <2>7. \A q \in RbacReqs : permReq'[q] = permReq[q] \/ permReq'[q].pc = "idle"
    BY <2>1 DEF NoAsk
  <2>8. ~commandLost' => /\ ~commandLost
                         /\ \A q \in RbacReqs : permReq[q].pc = "expire" => permReq'[q] = permReq[q]
    BY <2>1, <2>2
  <2>4. RedisFresh'
    BY <2>1, <2>7, <2>8, <1>a DEF RedisFresh, FreshSet
  <2>5. AskFresh'
    BY <2>1, <2>7, <2>8, <1>a DEF AskFresh, FreshSet
  <2>6. LocalFresh'
    BY <2>1, <2>2, <1>a DEF LocalFresh, FreshSet
  <2> QED BY <1>t, <2>3, <2>4, <2>5, <2>6 DEF RbacInv
<1>10. ASSUME RbacTick PROVE RbacInv'
  <2>1. /\ UNCHANGED <<localPerms, roleRow, rolePermRows, assigned, commandLost, roleChanges>>
        /\ \A q \in RbacReqs : permReq[q].pc \in {"idle", "answered"} /\ permReq'[q] = NoAsk
        /\ \A n \in RbacNodes : 0 \notin evictTimers[n] /\ evictTimers'[n] = {k - 1 : k \in evictTimers[n]}
    BY <1>10 DEF RbacTick, roleRows, Resting, Less
  <2>2. \A p \in Perms : sinceHeld'[p] = IF p \in GetUserPermissions \/ sinceHeld[p] = AgeCap
                                         THEN sinceHeld[p] ELSE sinceHeld[p] + 1
    BY <1>10 DEF RbacTick
  <2>3. \A p \in Perms : sinceHeld'[p] <= sinceHeld[p] + 1
    BY <2>2, <1>a
  <2>4. RoleKept'
    BY <2>1, <2>2, <1>a DEF RoleKept, GetUserPermissions
  <2>5. AskFresh'
    BY <2>1 DEF AskFresh, NoAsk
  <2>6. LocalFresh'
    <3> SUFFICES ASSUME ~commandLost, NEW n \in RbacNodes, localPerms[n] # NoSet
                 PROVE  \E k \in evictTimers'[n] : \A p \in localPerms[n] : sinceHeld'[p] <= 2 * PermTTL - k
      BY <2>1 DEF LocalFresh, FreshSet
    <3>1. PICK k \in evictTimers[n] : \A p \in localPerms[n] : sinceHeld[p] <= 2 * PermTTL - k
      BY <1>a DEF LocalFresh, FreshSet
    <3>2. k - 1 \in evictTimers'[n] /\ k \in 0 .. PermTTL
      BY <2>1, <3>1, <1>a
    <3>3. \A p \in localPerms[n] : sinceHeld'[p] \in Nat /\ sinceHeld[p] \in Nat /\ sinceHeld'[p] <= sinceHeld[p] + 1
      BY <2>3, <1>a, <1>t DEF RbacTypeOK, AgeCap
    <3>4. \A p \in localPerms[n] : sinceHeld'[p] <= 2 * PermTTL - (k - 1)
      BY <3>1, <3>2, <3>3
    <3> QED BY <3>2, <3>4
  <2>7. RedisFresh'
    <3> SUFFICES ASSUME ~commandLost PROVE RedisFresh'
      BY <2>1 DEF RedisFresh
    <3>1. redisLeft = NoExpiry => redisPerms = {}
      BY <2>1, <1>a DEF RedisFresh
    <3>2. redisLeft # NoExpiry => \A p \in redisPerms : sinceHeld[p] <= PermTTL - redisLeft
      BY <1>a DEF RedisFresh, FreshSet
    <3>3. CASE redisLeft \in {0, NoExpiry}
      <4>1. redisPerms' = {}
        BY <3>1, <3>3, <1>10 DEF RbacTick
      <4> QED BY <4>1, <2>1 DEF RedisFresh, FreshSet, NoAsk
    <3>4. CASE redisLeft \notin {0, NoExpiry}
      <4>1. redisPerms' = redisPerms /\ redisLeft' = redisLeft - 1
        BY <3>4, <1>10 DEF RbacTick
      <4>2. redisLeft' # NoExpiry
        BY <4>1, <1>a DEF NoExpiry
      <4>3. \A p \in redisPerms : sinceHeld'[p] \in Nat /\ sinceHeld[p] \in Nat /\ sinceHeld'[p] <= sinceHeld[p] + 1
        BY <2>3, <1>a, <1>t DEF RbacTypeOK, AgeCap
      <4>4. \A p \in redisPerms' : sinceHeld'[p] <= PermTTL - redisLeft'
        BY <4>1, <4>3, <3>2, <3>4, <1>a
      <4> QED BY <4>2, <4>4, <2>1 DEF RedisFresh, FreshSet, NoAsk
    <3> QED BY <3>3, <3>4
  <2> QED BY <1>t, <2>4, <2>5, <2>6, <2>7 DEF RbacInv
\* Administrators, who only make what is held younger.
<1>c. ASSUME UNCHANGED <<localPerms, evictTimers, redisPerms, redisLeft, permReq, commandLost>>,
             \A p \in Perms : sinceHeld'[p] \in {0, sinceHeld[p]}
      PROVE  RedisFresh' /\ AskFresh' /\ LocalFresh'
  <2>1. \A S \in SUBSET Perms, a \in Int : a >= 0 /\ (\A p \in S : sinceHeld[p] <= a) => \A p \in S : sinceHeld'[p] <= a
    BY <1>c, <1>a
  <2>2. RedisFresh'
    BY <1>c, <2>1, <1>a DEF RedisFresh, FreshSet, NoExpiry
  <2>3. AskFresh'
    BY <1>c, <2>1, <1>a DEF AskFresh, FreshSet
  <2>4. LocalFresh'
    <3> SUFFICES ASSUME ~commandLost, NEW n \in RbacNodes, localPerms[n] # NoSet
                 PROVE  \E k \in evictTimers[n] : \A p \in localPerms[n] : sinceHeld'[p] <= 2 * PermTTL - k
      BY <1>c DEF LocalFresh, FreshSet
    <3>1. PICK k \in evictTimers[n] : \A p \in localPerms[n] : sinceHeld[p] <= 2 * PermTTL - k
      BY <1>a DEF LocalFresh, FreshSet
    <3>2. 2 * PermTTL - k \in Int /\ 2 * PermTTL - k >= 0
      BY <1>a, <3>1
    <3> QED BY <2>1, <3>1, <3>2, <1>a
  <2> QED BY <2>2, <2>3, <2>4
<1>h. ASSUME Held
      PROVE  /\ \A p \in Perms : sinceHeld'[p] \in {0, sinceHeld[p]}
             /\ \A p \in Perms : p \in GetUserPermissions' => sinceHeld'[p] = 0
  BY <1>h DEF Held
<1>g. GetUserPermissions' \subseteq Perms
  BY <1>t DEF GetUserPermissions, RbacTypeOK
<1>11. ASSUME NEW a \in RoleAdmins, NEW perms \in SUBSET Perms, CreateRole(a, perms) PROVE RbacInv'
  <2>1. /\ UNCHANGED <<localPerms, evictTimers, redisPerms, redisLeft, permReq, commandLost, sinceHeld, assigned>>
        /\ roleRow' /\ roleChanges = 0 /\ roleChanges' = 1
    BY <1>11 DEF CreateRole, caches, RoleChange
  <2>2. ~assigned
    BY <2>1, <1>a DEF RoleKept
  <2>3. RoleKept'
    BY <2>1, <2>2, <1>a DEF RoleKept, GetUserPermissions
  <2> QED BY <1>t, <1>c, <2>1, <2>3 DEF RbacInv
<1>12. ASSUME AssignRole PROVE RbacInv'
  <2>1. /\ UNCHANGED <<localPerms, evictTimers, redisPerms, redisLeft, permReq, commandLost, roleRow>>
        /\ roleRow /\ Held
    BY <1>12 DEF AssignRole, caches, RoleChange
  <2>2. RoleKept'
    <3>1. roleChanges' # 0
      BY <1>12, <1>t DEF AssignRole, RoleChange, RbacTypeOK
    <3> QED BY <3>1, <2>1, <1>h, <1>g, <1>a DEF RoleKept
  <2> QED BY <1>t, <1>c, <1>h, <2>1, <2>2 DEF RbacInv
<1>13. ASSUME NEW a \in RoleAdmins, CommitUpdateRole(a) PROVE RbacInv'
  <2>1. /\ UNCHANGED <<localPerms, evictTimers, redisPerms, redisLeft, permReq, commandLost, roleRow, assigned>>
        /\ Held /\ roleChanges' = roleChanges + 1 /\ roleChanges \in Nat
    BY <1>13, <1>t DEF CommitUpdateRole, caches, RoleChange, RbacTypeOK
  <2>2. RoleKept'
    BY <2>1, <1>h, <1>g, <1>a DEF RoleKept
  <2> QED BY <1>t, <1>c, <1>h, <2>1, <2>2 DEF RbacInv
<1>14. ASSUME NEW a \in RoleAdmins, CommitDeleteRole(a) PROVE RbacInv'
  <2>1. /\ UNCHANGED <<localPerms, evictTimers, redisPerms, redisLeft, permReq, commandLost>>
        /\ Held /\ ~roleRow' /\ ~assigned'
    BY <1>14 DEF CommitDeleteRole, caches, Unassign
  <2>2. RoleKept'
    BY <2>1, <1>h, <1>g, <1>a DEF RoleKept
  <2> QED BY <1>t, <1>c, <1>h, <2>1, <2>2 DEF RbacInv
<1>15. ASSUME NEW a \in RoleAdmins, NEW perms \in SUBSET Perms,
              BeginUpdateRole(a, perms) \/ BeginDeleteRole(a) \/ UNCHANGED rbacVars
       PROVE  RbacInv'
  <2>1. UNCHANGED <<localPerms, evictTimers, redisPerms, redisLeft, permReq, commandLost, roleRow, rolePermRows,
                    assigned, sinceHeld, roleChanges>>
    BY <1>15 DEF BeginUpdateRole, BeginDeleteRole, rbacVars, caches, roleRows
  <2>2. RoleKept' /\ RedisFresh' /\ AskFresh' /\ LocalFresh'
    BY <2>1, <1>a DEF RoleKept, GetUserPermissions, RedisFresh, AskFresh, LocalFresh, FreshSet
  <2> QED BY <1>t, <2>2 DEF RbacInv
<1>16. ASSUME UNCHANGED rbacVars PROVE RbacInv'
  <2>2. RoleKept' /\ RedisFresh' /\ AskFresh' /\ LocalFresh'
    BY <1>16, <1>a DEF RoleKept, GetUserPermissions, RedisFresh, AskFresh, LocalFresh, FreshSet, rbacVars
  <2> QED BY <1>t, <2>2 DEF RbacInv
<1> QED BY <1>1, <1>2, <1>3, <1>4, <1>5, <1>6, <1>7, <1>8, <1>9, <1>10, <1>11, <1>12, <1>13, <1>14, <1>15, <1>16
        DEF RbacNext, HasPermission

LEMMA RbacImplied == RbacInv => RbacSound
<1> SUFFICES ASSUME RbacInv PROVE RbacSound
  OBVIOUS
<1>1. AllowedWasGranted
  BY DEF RbacInv, AskFresh, FreshSet, AllowedWasGranted, RequirePermission, AskAt
<1>2. DeletedRoleGrantsNothing
  BY DEF RbacInv, RoleKept, DeletedRoleGrantsNothing, GetUserPermissions
<1> QED BY <1>1, <1>2 DEF RbacInv, RbacSound

\* Whatever replicas, timers, restarts and administrators do, in any number: RequirePermission
\* lets a user through for what the database gave at most two lives of an entry ago, unless a
\* DEL or EXPIRE was lost, and a deleted role grants nothing.
THEOREM RbacCorrect == RbacSpec => []RbacSound
<1>1. RbacInv /\ [RbacNext]_rbacVars => RbacInv'
  BY RbacStep
<1> QED BY <1>1, RbacInitially, RbacImplied, PTL DEF RbacSpec

-----------------------------------------------------------------------------
(* KeyAdministration.                                                      *)

CallRows == [pc : {"idle", "update", "rotate", "revoke", "vcreate", "vupdate"}, key : Keys \cup {NoKey},
             vkey : VKeys \cup {NoKey}, field : {"st", "providers"}, set : KeyRows, moved : BOOLEAN]

KeyCoreTypes ==
    /\ apiKeyRow \in [Keys -> KeyRows]
    /\ vkRow \in [VKeys -> VKeyRows]
    /\ keyOp \in [KeyCallers -> CallRows]
    /\ vauth \in [pc : {"idle", "parent", "accepted"}, vkey : VKeys \cup {NoKey}, vk : VKeyRows, parent : KeyRows]

Live(k) == k \in Keys /\ apiKeyRow[k].st # "absent"

\* The list of a virtual key against that of key k.
Within(list, k) == stringSubset(list, apiKeyRow[k].providers)

\* A virtual key has a parent, and what only users wrote is within the parent's list until
\* that moves.
VKeyGood(v) ==
    VKeyExists(v) =>
       /\ Live(vkRow[v].parent)
       /\ vkRow[v].byUser /\ ~vkRow[v].parentMoved => Within(vkRow[v].providers, vkRow[v].parent)

\* A call under way: its row is its caller's, and what a user compared still holds until the
\* parent's list moves.  A virtual key keeps its parent and its owner as long as it exists.
CallGood(c) ==
    LET op == keyOp[c] IN
    /\ op.pc # "idle" => Live(op.key)
    /\ op.pc \in {"update", "rotate", "revoke"} /\ c \in Users => apiKeyRow[op.key].owner = c
    /\ op.pc \in {"update", "vupdate"} /\ op.field = "st" => op.set.st \in {"active", "revoked"}
    /\ op.pc = "vcreate" /\ c \in Users => op.set.owner = c
    /\ op.pc = "vupdate" =>
          /\ op.vkey \in VKeys /\ vkRow[op.vkey].st # "absent"
          /\ VKeyExists(op.vkey) => vkRow[op.vkey].parent = op.key /\ (c \in Users => vkRow[op.vkey].owner = c)
    /\ op.pc \in {"vcreate", "vupdate"} /\ c \in Users /\ ~op.moved => Within(op.set.providers, op.key)

\* What an authentication has read is what is there, but for the parent's list when it moved.
AuthGood ==
    vauth.pc # "idle" =>
       /\ vauth.vkey \in VKeys /\ vkRow[vauth.vkey].st # "absent"
       /\ vauth.vk.st = "active" /\ Live(vauth.vk.parent)
       /\ VKeyExists(vauth.vkey) => vkRow[vauth.vkey].parent = vauth.vk.parent
       /\ vauth.pc = "accepted" /\ VKeyExists(vauth.vkey) /\ ~vkRow[vauth.vkey].parentMoved
             => vauth.parent.providers = apiKeyRow[vauth.vk.parent].providers

KeyCore ==
    /\ KeyCoreTypes
    /\ \A v \in VKeys : VKeyGood(v)
    /\ \A c \in KeyCallers : CallGood(c)
    /\ AuthGood

OwnersOK == /\ tenantUp \in BOOLEAN /\ projectUp \in BOOLEAN /\ userUp \in [Users -> BOOLEAN]
            /\ writes \in 0 .. MaxWrites

KeyInv == OwnersOK /\ KeyCore

\* Keys are written without a look at others': a key that is there stays and keeps its owner.
KeysKept(rows) ==
    /\ rows \in [Keys -> KeyRows]
    /\ \A k \in Keys : apiKeyRow[k].st # "absent" => rows[k].st # "absent" /\ rows[k].owner = apiKeyRow[k].owner

LEMMA WithFields ==
    ASSUME NEW line \in KeyRows, NEW set \in KeyRows, NEW f \in {"st", "providers"}
    PROVE  /\ With(line, f, set) \in KeyRows
           /\ With(line, f, set).owner = line.owner /\ With(line, f, set).inProject = line.inProject
           /\ With(line, f, set).st = IF f = "st" THEN set.st ELSE line.st
           /\ With(line, f, set).providers = IF f = "providers" THEN set.providers ELSE line.providers
<1>1. CASE f = "st"
  BY <1>1 DEF With, KeyRows
<1>2. CASE f = "providers"
  BY <1>2 DEF With, KeyRows
<1> QED BY <1>1, <1>2

LEMMA NoRowTypes ==
    NoKeyRow \in KeyRows /\ NoVRow \in VKeyRows /\ GoneVRow \in VKeyRows /\ NoCall \in CallRows
<1> QED BY KeyAssumption DEF KeyAssumption, NoKeyRow, NoVRow, GoneVRow, NoCall, KeyRows, VKeyRows, CallRows, Stat

\* PutKeys, of rows that keep the keys there are.
LEMMA PutKept ==
    ASSUME KeyCore, NEW c, NEW rows, KeysKept(rows), PutKeys(c, rows), UNCHANGED vauth
    PROVE  KeyCore'
<1> DEFINE moved == {k \in Keys : rows[k] # [apiKeyRow[k] EXCEPT !.st = rows[k].st]}
<1>1. \A k \in Keys : k \notin moved => rows[k].providers = apiKeyRow[k].providers
  BY DEF KeyCore, KeyCoreTypes, KeyRows
<1>2. /\ apiKeyRow' = rows
      /\ vkRow' = [v \in VKeys |-> [vkRow[v] EXCEPT !.parentMoved = @ \/ vkRow[v].parent \in moved]]
      /\ keyOp' = [d \in KeyCallers |-> IF d = c THEN NoCall ELSE [keyOp[d] EXCEPT !.moved = @ \/ keyOp[d].key \in moved]]
  BY DEF PutKeys
<1> HIDE DEF moved
<1>3. \A v \in VKeys :
         /\ vkRow'[v] \in VKeyRows
         /\ vkRow'[v].st = vkRow[v].st /\ vkRow'[v].owner = vkRow[v].owner /\ vkRow'[v].parent = vkRow[v].parent
         /\ vkRow'[v].providers = vkRow[v].providers
  BY <1>2 DEF KeyCore, KeyCoreTypes, VKeyRows
<1>4. \A v \in VKeys :
         /\ vkRow'[v].byUser = vkRow[v].byUser
         /\ vkRow'[v].parentMoved = (vkRow[v].parentMoved \/ vkRow[v].parent \in moved)
  BY <1>2 DEF KeyCore, KeyCoreTypes, VKeyRows
<1>5. \A d \in KeyCallers :
         \/ keyOp'[d] = NoCall
         \/ /\ keyOp'[d] \in CallRows
            /\ keyOp'[d].pc = keyOp[d].pc /\ keyOp'[d].key = keyOp[d].key /\ keyOp'[d].vkey = keyOp[d].vkey
            /\ keyOp'[d].field = keyOp[d].field /\ keyOp'[d].set = keyOp[d].set
            /\ keyOp'[d].moved = (keyOp[d].moved \/ keyOp[d].key \in moved)
  <2> TAKE d \in KeyCallers
  <2>1. PICK o : o = keyOp[d]
    OBVIOUS
  <2>2. o \in CallRows
    BY <2>1 DEF KeyCore, KeyCoreTypes
  <2>3. keyOp'[d] = NoCall \/ keyOp'[d] = [o EXCEPT !.moved = @ \/ o.key \in moved]
    BY <1>2, <2>1
  <2>4. PICK q : q = [o EXCEPT !.moved = @ \/ o.key \in moved]
    OBVIOUS
  <2>5. /\ q \in CallRows /\ q.pc = o.pc /\ q.key = o.key /\ q.vkey = o.vkey /\ q.field = o.field /\ q.set = o.set
        /\ q.moved = (o.moved \/ o.key \in moved)
    BY <2>2, <2>4 DEF CallRows
  <2> QED BY <2>1, <2>3, <2>4, <2>5
<1>a. \A v \in VKeys :
         /\ vkRow'[v].byUser => vkRow[v].byUser
         /\ ~vkRow'[v].parentMoved => ~vkRow[v].parentMoved /\ vkRow[v].parent \notin moved
  BY <1>4
<1>b. \A d \in KeyCallers : ~keyOp'[d].moved /\ keyOp'[d] # NoCall => ~keyOp[d].moved /\ keyOp[d].key \notin moved
  BY <1>5
<1>6. KeyCoreTypes'
  BY <1>2, <1>3, <1>5, NoRowTypes DEF KeysKept, KeyCore, KeyCoreTypes
<1>7. \A k \in Keys : apiKeyRow[k].st # "absent" => apiKeyRow'[k].st # "absent" /\ apiKeyRow'[k].owner = apiKeyRow[k].owner
  BY <1>2 DEF KeysKept
<1>8. ASSUME NEW v \in VKeys PROVE VKeyGood(v)'
  <2>1. VKeyGood(v)
    BY DEF KeyCore
  <2> QED BY <2>1, <1>1, <1>2, <1>3, <1>a, <1>7 DEF VKeyGood, VKeyExists, Live, Within
<1>9. ASSUME NEW d \in KeyCallers PROVE CallGood(d)'
  <2>1. CASE keyOp'[d] = NoCall
    BY <2>1 DEF CallGood, NoCall
  <2>2. CASE keyOp'[d] # NoCall
    <3>1. CallGood(d)
      BY DEF KeyCore
    <3>2. /\ keyOp'[d].pc = keyOp[d].pc /\ keyOp'[d].key = keyOp[d].key /\ keyOp'[d].vkey = keyOp[d].vkey
          /\ keyOp'[d].field = keyOp[d].field /\ keyOp'[d].set = keyOp[d].set
      BY <2>2, <1>5
    <3> QED BY <2>2, <3>1, <3>2, <1>1, <1>2, <1>3, <1>b, <1>7 DEF CallGood, VKeyExists, Live, Within
  <2> QED BY <2>1, <2>2
<1>10. AuthGood'
  <2> SUFFICES ASSUME vauth.pc # "idle" PROVE AuthGood'
    BY DEF AuthGood
  <2>1. AuthGood
    BY DEF KeyCore
  <2>2. /\ vauth.vkey \in VKeys /\ vkRow[vauth.vkey].st # "absent"
        /\ vauth.vk.st = "active" /\ vauth.vk.parent \in Keys /\ apiKeyRow[vauth.vk.parent].st # "absent"
    BY <2>1 DEF AuthGood, Live
  <2>3. /\ VKeyExists(vauth.vkey)' <=> VKeyExists(vauth.vkey)
        /\ VKeyExists(vauth.vkey) => vkRow[vauth.vkey].parent = vauth.vk.parent
    BY <2>1, <2>2, <1>3 DEF VKeyExists, AuthGood
  <2>4. vauth.pc = "accepted" /\ VKeyExists(vauth.vkey) /\ ~vkRow'[vauth.vkey].parentMoved
           => vauth.parent.providers = apiKeyRow'[vauth.vk.parent].providers
    BY <2>1, <2>2, <2>3, <1>1, <1>2, <1>a DEF AuthGood
  <2> QED BY <2>2, <2>3, <2>4, <1>3, <1>7 DEF AuthGood, Live
<1> QED BY <1>6, <1>8, <1>9, <1>10 DEF KeyCore

\* A step that leaves the lists and owners of the keys alone, deletes virtual keys, and ends
\* calls or authentications.
LEMMA RowsKept ==
    ASSUME KeyCore,
           KeyCoreTypes',
           \A k \in Keys : apiKeyRow[k].st # "absent" =>
              /\ apiKeyRow'[k].st # "absent" /\ apiKeyRow'[k].owner = apiKeyRow[k].owner
              /\ apiKeyRow'[k].providers = apiKeyRow[k].providers,
           \A v \in VKeys : vkRow'[v] = vkRow[v] \/ (VKeyExists(v) /\ vkRow'[v] = GoneVRow),
           \A c \in KeyCallers : keyOp'[c] = keyOp[c] \/ CallGood(c)',
           vauth' = vauth \/ AuthGood'
    PROVE  KeyCore'
<1>1. ASSUME NEW v \in VKeys
      PROVE  /\ VKeyExists(v)' => vkRow'[v] = vkRow[v] /\ VKeyExists(v)
             /\ vkRow[v].st # "absent" => vkRow'[v].st # "absent"
  BY DEF VKeyExists, GoneVRow, NoVRow
<1>2. ASSUME NEW v \in VKeys PROVE VKeyGood(v)'
  <2>1. VKeyGood(v)
    BY DEF KeyCore
  <2> QED BY <1>1, <2>1 DEF VKeyGood, Live, Within
<1>3. ASSUME NEW c \in KeyCallers PROVE CallGood(c)'
  <2> SUFFICES ASSUME keyOp'[c] = keyOp[c] PROVE CallGood(c)'
    OBVIOUS
  <2>1. CallGood(c)
    BY DEF KeyCore
  <2> QED BY <1>1, <2>1 DEF CallGood, Live, Within
<1>4. AuthGood'
  <2> SUFFICES ASSUME vauth' = vauth, vauth.pc # "idle" PROVE AuthGood'
    BY DEF AuthGood
  <2>1. AuthGood
    BY DEF KeyCore
  <2>2. /\ vauth.vkey \in VKeys /\ vkRow[vauth.vkey].st # "absent"
        /\ vauth.vk.st = "active" /\ vauth.vk.parent \in Keys /\ apiKeyRow[vauth.vk.parent].st # "absent"
    BY <2>1 DEF AuthGood, Live
  <2>3. VKeyExists(vauth.vkey)' => vkRow'[vauth.vkey] = vkRow[vauth.vkey] /\ VKeyExists(vauth.vkey)
    BY <1>1, <2>2 DEF VKeyExists
  <2> QED BY <1>1, <2>1, <2>2, <2>3 DEF AuthGood, Live
<1> QED BY <1>2, <1>3, <1>4 DEF KeyCore

LEMMA KeyInitially == KeyInit => KeyInv
<1> SUFFICES ASSUME KeyInit PROVE KeyInv
  OBVIOUS
<1> USE KeyAssumption DEF KeyAssumption
<1>1. OwnersOK
  <2>1. tenantUp \in BOOLEAN /\ projectUp \in BOOLEAN /\ userUp \in [Users -> BOOLEAN]
    BY DEF KeyInit
  <2>3. writes = 0
    BY DEF KeyInit
  <2>2. writes \in 0 .. MaxWrites
    BY <2>3
  <2> QED BY <2>1, <2>2 DEF OwnersOK
<1>2. KeyCoreTypes
  <2>1. apiKeyRow \in [Keys -> KeyRows]
    <3>1. [st : {"active"}, owner : Users, inProject : {FALSE}, providers : Lists] \subseteq KeyRows
      BY DEF KeyRows, Stat
    <3> QED BY <3>1, NoRowTypes DEF KeyInit
  <2>2. vkRow \in [VKeys -> VKeyRows] /\ keyOp \in [KeyCallers -> CallRows]
    BY NoRowTypes DEF KeyInit
  <2>3. vauth \in [pc : {"idle", "parent", "accepted"}, vkey : VKeys \cup {NoKey}, vk : VKeyRows, parent : KeyRows]
    BY NoRowTypes DEF KeyInit, NoAuth
  <2> QED BY <2>1, <2>2, <2>3 DEF KeyCoreTypes
<1>3. /\ \A v \in VKeys : VKeyGood(v)
      /\ \A c \in KeyCallers : CallGood(c)
      /\ AuthGood
  BY DEF KeyInit, VKeyGood, VKeyExists, NoVRow, CallGood, NoCall, AuthGood, NoAuth
<1> QED BY <1>1, <1>2, <1>3 DEF KeyInv, KeyCore

LEMMA OwnersTyped == OwnersOK /\ [KeyNext]_keyVars => OwnersOK'
<1> SUFFICES ASSUME OwnersOK, [KeyNext]_keyVars PROVE OwnersOK'
  OBVIOUS
<1>1. (writes \in 0 .. MaxWrites)'
  <2>1. writes' = writes \/ (writes < MaxWrites /\ writes' = writes + 1)
    <3>1. ASSUME NEW c \in KeyCallers, KeyCall(c) PROVE writes' = writes \/ (writes < MaxWrites /\ writes' = writes + 1)
      <4>1. CASE UpdateAPIKey(c) \/ RotateAPIKey(c) \/ RevokeAPIKey(c) \/ UpdateVirtualKey(c)
        BY <4>1 DEF UpdateAPIKey, RotateAPIKey, RevokeAPIKey, UpdateVirtualKey, PutKeys, Write
      <4>2. CASE \E v \in VKeys : CreateVirtualKey(c, v) \/ DeleteVirtualKey(c, v)
        BY <4>2 DEF CreateVirtualKey, DeleteVirtualKey, Write
      <4>3. CASE \E v \in VKeys : \E f \in Columns :
                    BeginUpdateVirtualKey(c, v, f[1], [NoKeyRow EXCEPT ![f[1]] = f[2]])
        BY <4>3 DEF BeginUpdateVirtualKey
      <4>4. ASSUME NEW k \in Keys,
                   \/ \E u \in Users, p \in BOOLEAN, l \in Lists : CreateAPIKey(c, k, u, p, l)
                   \/ \E f \in Columns : BeginUpdateAPIKey(c, k, f[1], [apiKeyRow[k] EXCEPT ![f[1]] = f[2]])
                   \/ BeginRotateAPIKey(c, k) \/ BeginRevokeAPIKey(c, k)
                   \/ \E u \in Users, p \in BOOLEAN, l \in Lists :
                         BeginCreateVirtualKey(c, k, u, [NoKeyRow EXCEPT !.inProject = p, !.providers = l])
            PROVE  writes' = writes \/ (writes < MaxWrites /\ writes' = writes + 1)
        BY <4>4 DEF CreateAPIKey, GetAPIKey, BeginUpdateAPIKey, BeginRotateAPIKey, BeginRevokeAPIKey,
                    BeginCreateVirtualKey, Write
      <4> QED BY <3>1, <4>1, <4>2, <4>3, <4>4 DEF KeyCall
    <3>2. CASE \E u \in Users : DeleteUser(u) \/ \E up \in BOOLEAN : UpdateUser(u, up)
      BY <3>2 DEF UpdateUser, DeleteUser, PutKeys, Write
    <3>3. CASE \E up \in BOOLEAN : UpdateProject(up) \/ UpdateTenant(up)
      BY <3>3 DEF UpdateProject, UpdateTenant, Write
    <3>4. CASE DeleteProject \/ DeleteTenant \/ EnsureBootstrapKey
      BY <3>4 DEF DeleteProject, DeleteTenant, EnsureBootstrapKey, Revoke, Write
    <3>5. CASE (\E v \in VKeys : AuthenticateVirtualKey(v)) \/ LoadParent \/ ServedKey \/ UNCHANGED keyVars
      BY <3>5 DEF AuthenticateVirtualKey, LoadParent, ServedKey, keyVars
    <3> QED BY <3>1, <3>2, <3>3, <3>4, <3>5 DEF KeyNext
  <2> QED BY <2>1, KeyAssumption DEF OwnersOK, KeyAssumption
<1>2. (tenantUp \in BOOLEAN /\ projectUp \in BOOLEAN /\ userUp \in [Users -> BOOLEAN])'
  <2> USE DEF OwnersOK
  <2>1. CASE \E c \in KeyCallers : KeyCall(c)
    <3>1. PICK c \in KeyCallers : KeyCall(c)
      BY <2>1
    <3>2. ASSUME UpdateAPIKey(c) \/ RotateAPIKey(c) \/ RevokeAPIKey(c) \/ UpdateVirtualKey(c)
          PROVE  UNCHANGED ownerRows
      BY <3>2 DEF UpdateAPIKey, RotateAPIKey, RevokeAPIKey, UpdateVirtualKey
    <3>3. ASSUME NEW v \in VKeys, CreateVirtualKey(c, v) \/ DeleteVirtualKey(c, v) PROVE UNCHANGED ownerRows
      BY <3>3 DEF CreateVirtualKey, DeleteVirtualKey
    <3>4. ASSUME NEW v \in VKeys, NEW f \in Columns,
                 BeginUpdateVirtualKey(c, v, f[1], [NoKeyRow EXCEPT ![f[1]] = f[2]])
          PROVE  UNCHANGED ownerRows
      BY <3>4 DEF BeginUpdateVirtualKey
    <3>5. ASSUME NEW k \in Keys,
                 \/ \E u \in Users, p \in BOOLEAN, l \in Lists : CreateAPIKey(c, k, u, p, l)
                 \/ \E f \in Columns : BeginUpdateAPIKey(c, k, f[1], [apiKeyRow[k] EXCEPT ![f[1]] = f[2]])
                 \/ BeginRotateAPIKey(c, k) \/ BeginRevokeAPIKey(c, k)
                 \/ \E u \in Users, p \in BOOLEAN, l \in Lists :
                       BeginCreateVirtualKey(c, k, u, [NoKeyRow EXCEPT !.inProject = p, !.providers = l])
          PROVE  UNCHANGED ownerRows
      BY <3>5 DEF CreateAPIKey, GetAPIKey, BeginUpdateAPIKey, BeginRotateAPIKey, BeginRevokeAPIKey,
                  BeginCreateVirtualKey
    <3>6. UNCHANGED ownerRows
      BY <3>1, <3>2, <3>3, <3>4, <3>5, Zenon DEF KeyCall
    <3> QED BY <3>6 DEF ownerRows
  <2>2. CASE \E u \in Users : DeleteUser(u) \/ \E up \in BOOLEAN : UpdateUser(u, up)
    BY <2>2 DEF DeleteUser, UpdateUser
  <2>3. CASE \E up \in BOOLEAN : UpdateProject(up) \/ UpdateTenant(up)
    BY <2>3 DEF UpdateProject, UpdateTenant
  <2>4. CASE DeleteProject \/ DeleteTenant \/ EnsureBootstrapKey
    BY <2>4 DEF DeleteProject, DeleteTenant, EnsureBootstrapKey
  <2>5. CASE (\E v \in VKeys : AuthenticateVirtualKey(v)) \/ LoadParent \/ ServedKey \/ UNCHANGED keyVars
    BY <2>5 DEF AuthenticateVirtualKey, LoadParent, ServedKey, ownerRows, keyVars
  <2> QED BY <2>1, <2>2, <2>3, <2>4, <2>5 DEF KeyNext
<1> QED BY <1>1, <1>2 DEF OwnersOK

\* The columns of a request, and the rows they make.
LEMMA ColumnTypes ==
    ASSUME NEW f \in Columns
    PROVE  /\ f[1] \in {"st", "providers"}
           /\ \A line \in KeyRows : [line EXCEPT ![f[1]] = f[2]] \in KeyRows
           /\ \A line \in KeyRows : f[1] = "st" => [line EXCEPT ![f[1]] = f[2]].st \in {"active", "revoked"}
<1>1. CASE \E l \in Lists : f = <<"providers", l>>
  <2>1. PICK l \in Lists : f = <<"providers", l>>
    BY <1>1
  <2>2. f[1] = "providers" /\ f[2] = l
    BY <2>1
  <2>3. ASSUME NEW line \in KeyRows PROVE [line EXCEPT !["providers"] = l] \in KeyRows
    BY DEF KeyRows
  <2> QED BY <2>2, <2>3
<1>2. CASE \E st \in {"active", "revoked"} : f = <<"st", st>>
  <2>1. PICK st \in {"active", "revoked"} : f = <<"st", st>>
    BY <1>2
  <2>2. f[1] = "st" /\ f[2] = st
    BY <2>1
  <2>3. ASSUME NEW line \in KeyRows
        PROVE [line EXCEPT !["st"] = st] \in KeyRows /\ [line EXCEPT !["st"] = st].st = st
    BY DEF KeyRows, Stat
  <2> QED BY <2>2, <2>3
<1> QED BY <1>1, <1>2 DEF Columns

\* A call begins: only its record is new.
LEMMA CallBegins ==
    ASSUME KeyCore, NEW c \in KeyCallers, NEW r \in CallRows, Calls(c, r),
           UNCHANGED <<apiKeyRow, vkRow, vauth>>, CallGood(c)'
    PROVE  KeyCore'
<1>1. KeyCoreTypes' /\ \A d \in KeyCallers : d # c => keyOp'[d] = keyOp[d]
  BY DEF KeyCore, KeyCoreTypes, Calls
<1>2. \A d \in KeyCallers : keyOp'[d] = keyOp[d] \/ CallGood(d)'
  BY <1>1
<1> QED BY <1>1, <1>2, RowsKept

LEMMA KeyCreated ==
    ASSUME KeyCore, NEW c \in KeyCallers, NEW k \in Keys,
           NEW u \in Users, NEW p \in BOOLEAN, NEW l \in Lists, CreateAPIKey(c, k, u, p, l)
    PROVE  KeyCore'
<1>1. PICK r : r = [NoKeyRow EXCEPT !.st = "active", !.owner = u, !.inProject = p, !.providers = l]
  OBVIOUS
<1>2. r \in KeyRows
  BY <1>1 DEF NoKeyRow, KeyRows, Stat
<1>3. apiKeyRow[k].st = "absent" /\ apiKeyRow' = [apiKeyRow EXCEPT ![k] = r] /\ UNCHANGED <<vkRow, keyOp, vauth>>
  BY <1>1 DEF CreateAPIKey
<1>4. KeyCoreTypes'
  BY <1>2, <1>3 DEF KeyCore, KeyCoreTypes
<1>5. \A j \in Keys : apiKeyRow[j].st # "absent" => apiKeyRow'[j] = apiKeyRow[j]
  BY <1>3 DEF KeyCore, KeyCoreTypes
<1> QED BY <1>3, <1>4, <1>5, RowsKept

LEMMA CallOfKey ==
    ASSUME KeyCore, NEW c \in KeyCallers, NEW k \in Keys,
           NEW pc \in {"update", "rotate", "revoke"}, NEW f \in {"st", "providers"}, NEW set \in KeyRows,
           pc = "update" /\ f = "st" => set.st \in {"active", "revoked"},
           GetAPIKey(c, k, pc, f, set)
    PROVE  KeyCore'
<1>1. PICK r : r = [NoCall EXCEPT !.pc = pc, !.key = k, !.field = f, !.set = set]
  OBVIOUS
<1>2. r \in CallRows /\ r.pc = pc /\ r.key = k /\ r.field = f /\ r.set = set
  BY <1>1 DEF NoCall, CallRows
<1>3. /\ Calls(c, r) /\ UNCHANGED <<apiKeyRow, vkRow, vauth>>
      /\ apiKeyRow[k].st # "absent" /\ (c \in Users => apiKeyRow[k].owner = c)
  BY <1>1 DEF GetAPIKey, Owns, isTenantUser
<1>4. keyOp'[c] = r
  BY <1>3 DEF Calls, KeyCore, KeyCoreTypes
<1>5. CallGood(c)'
  BY <1>2, <1>3, <1>4 DEF CallGood, Live
<1> QED BY <1>2, <1>3, <1>5, CallBegins

LEMMA CallForVKey ==
    ASSUME KeyCore, NEW c \in KeyCallers, NEW k \in Keys,
           NEW u \in Users, NEW set \in KeyRows, BeginCreateVirtualKey(c, k, u, set)
    PROVE  KeyCore'
<1>0. PICK own : own = [set EXCEPT !.owner = u]
  OBVIOUS
<1>1. PICK r : r = [NoCall EXCEPT !.pc = "vcreate", !.key = k, !.set = own]
  OBVIOUS
<1>2. /\ own \in KeyRows /\ own.owner = u /\ own.providers = set.providers
      /\ r \in CallRows /\ r.pc = "vcreate" /\ r.key = k /\ r.set = own
  BY <1>0, <1>1, KeyAssumption DEF NoCall, CallRows, KeyRows
<1>3. /\ Calls(c, r) /\ UNCHANGED <<apiKeyRow, vkRow, vauth>>
      /\ apiKeyRow[k].st # "absent"
      /\ c \in Users => u = c /\ Within(set.providers, k)
  BY <1>0, <1>1 DEF BeginCreateVirtualKey, isTenantUser, FindsParent, WithinAPIKeyLimits, Within
<1>4. keyOp'[c] = r
  BY <1>3 DEF Calls, KeyCore, KeyCoreTypes
<1>5. CallGood(c)'
  BY <1>2, <1>3, <1>4 DEF CallGood, Live, Within
<1> QED BY <1>2, <1>3, <1>5, CallBegins

LEMMA CallOnVKey ==
    ASSUME KeyCore, NEW c \in KeyCallers, NEW v \in VKeys,
           NEW f \in {"st", "providers"}, NEW set \in KeyRows, f = "st" => set.st \in {"active", "revoked"},
           BeginUpdateVirtualKey(c, v, f, set)
    PROVE  KeyCore'
<1>1. PICK r : r = [NoCall EXCEPT !.pc = "vupdate", !.vkey = v, !.key = vkRow[v].parent, !.field = f, !.set = set]
  OBVIOUS
<1>2. VKeyExists(v) /\ VKeyGood(v) /\ vkRow[v].parent \in Keys
  BY DEF BeginUpdateVirtualKey, KeyCore, VKeyGood, Live
<1>3. /\ r \in CallRows /\ r.pc = "vupdate" /\ r.key = vkRow[v].parent /\ r.vkey = v /\ r.field = f /\ r.set = set
  BY <1>1, <1>2 DEF NoCall, CallRows
<1>4. /\ Calls(c, r) /\ UNCHANGED <<apiKeyRow, vkRow, vauth>>
      /\ c \in Users => vkRow[v].owner = c /\ Within(set.providers, vkRow[v].parent)
  BY <1>1 DEF BeginUpdateVirtualKey, isTenantUser, Owns, UpdateWithin, Within
<1>5. keyOp'[c] = r
  BY <1>4 DEF Calls, KeyCore, KeyCoreTypes
<1>6. CallGood(c)'
  BY <1>2, <1>3, <1>4, <1>5 DEF CallGood, VKeyGood, VKeyExists, Live, Within
<1> QED BY <1>3, <1>4, <1>6, CallBegins

\* One virtual key is written, and the call that writes it ends; that the key keeps its parent
\* and owner, if it is there already, is what the other calls and the authentication need.
LEMMA VKeyWritten ==
    ASSUME KeyCore, NEW c \in KeyCallers, NEW v \in VKeys, NEW line \in VKeyRows,
           vkRow' = [vkRow EXCEPT ![v] = line], Calls(c, NoCall), UNCHANGED <<apiKeyRow, vauth>>,
           line.st \in {"active", "revoked"}, VKeyGood(v)',
           \/ vkRow[v].st = "absent"
           \/ /\ VKeyExists(v) /\ line.parent = vkRow[v].parent /\ line.owner = vkRow[v].owner
              /\ ~line.parentMoved => ~vkRow[v].parentMoved
    PROVE  KeyCore'
<1>1. /\ KeyCoreTypes' /\ keyOp'[c] = NoCall
      /\ \A d \in KeyCallers : d # c => keyOp'[d] = keyOp[d]
      /\ vkRow'[v] = line /\ \A w \in VKeys : w # v => vkRow'[w] = vkRow[w]
  BY NoRowTypes DEF KeyCore, KeyCoreTypes, Calls
<1>2. ASSUME NEW w \in VKeys PROVE VKeyGood(w)'
  BY <1>1 DEF KeyCore, VKeyGood, VKeyExists, Live, Within
<1>3. ASSUME NEW d \in KeyCallers PROVE CallGood(d)'
  <2>1. CASE d = c
    BY <2>1, <1>1 DEF CallGood, NoCall
  <2>2. CASE d # c
    <3>1. CallGood(d) /\ keyOp'[d] = keyOp[d]
      BY <2>2, <1>1 DEF KeyCore
    <3>2. keyOp[d].pc = "vupdate" =>
             /\ keyOp[d].vkey \in VKeys /\ vkRow'[keyOp[d].vkey].st # "absent"
             /\ VKeyExists(keyOp[d].vkey)' =>
                   /\ vkRow'[keyOp[d].vkey].parent = keyOp[d].key
                   /\ d \in Users => vkRow'[keyOp[d].vkey].owner = d
      BY <3>1, <1>1 DEF CallGood, VKeyExists
    <3> QED BY <3>1, <3>2 DEF CallGood, Live, Within
  <2> QED BY <2>1, <2>2
<1>4. AuthGood'
  <2> SUFFICES ASSUME vauth.pc # "idle" PROVE AuthGood'
    BY DEF AuthGood
  <2>1. AuthGood
    BY DEF KeyCore
  <2>2. CASE vauth.vkey # v
    BY <2>1, <2>2, <1>1 DEF AuthGood, VKeyExists, Live
  <2>3. CASE vauth.vkey = v
    BY <2>1, <2>3, <1>1 DEF AuthGood, VKeyExists, Live
  <2> QED BY <2>2, <2>3
<1> QED BY <1>1, <1>2, <1>3, <1>4 DEF KeyCore

LEMMA VKeyCreated ==
    ASSUME KeyCore, NEW c \in KeyCallers, NEW v \in VKeys, CreateVirtualKey(c, v)
    PROVE  KeyCore'
<1>1. PICK line : line = [st |-> "active", owner |-> keyOp[c].set.owner, parent |-> keyOp[c].key,
                        inProject |-> keyOp[c].set.inProject,
                        providers |-> keyOp[c].set.providers, byUser |-> isTenantUser(c),
                        parentMoved |-> keyOp[c].moved]
  OBVIOUS
<1>2. /\ keyOp[c].pc = "vcreate" /\ vkRow[v].st = "absent"
      /\ vkRow' = [vkRow EXCEPT ![v] = line] /\ Calls(c, NoCall) /\ UNCHANGED <<apiKeyRow, vauth>>
  BY <1>1 DEF CreateVirtualKey
<1>3. CallGood(c) /\ keyOp[c] \in CallRows
  BY DEF KeyCore, KeyCoreTypes
<1>4. isTenantUser(c) \in BOOLEAN /\ (isTenantUser(c) <=> c \in Users)
  BY DEF isTenantUser
<1>5. /\ line.st = "active" /\ line.parent = keyOp[c].key /\ line.providers = keyOp[c].set.providers
      /\ line.byUser = isTenantUser(c) /\ line.parentMoved = keyOp[c].moved
  BY <1>1
<1>6. line \in VKeyRows
  <2>1. keyOp[c].set \in KeyRows /\ keyOp[c].moved \in BOOLEAN /\ keyOp[c].key \in Keys \cup {NoKey}
    BY <1>3 DEF CallRows
  <2>2. keyOp[c].set.owner \in Users /\ keyOp[c].set.inProject \in BOOLEAN /\ keyOp[c].set.providers \in Lists
    BY <2>1 DEF KeyRows
  <2> QED BY <1>1, <1>4, <2>1, <2>2 DEF VKeyRows, Stat
<1>7. vkRow'[v] = line
  BY <1>2 DEF KeyCore, KeyCoreTypes
<1>8. Live(keyOp[c].key) /\ (c \in Users /\ ~keyOp[c].moved => Within(keyOp[c].set.providers, keyOp[c].key))
  BY <1>2, <1>3 DEF CallGood
<1>9. VKeyGood(v)'
  BY <1>2, <1>4, <1>5, <1>7, <1>8 DEF VKeyGood, Live, Within
<1> QED BY <1>2, <1>5, <1>6, <1>9, VKeyWritten

LEMMA WithVFields ==
    ASSUME NEW line \in VKeyRows, NEW set \in KeyRows, NEW f \in {"st", "providers"}
    PROVE  /\ With(line, f, set) \in VKeyRows
           /\ With(line, f, set).owner = line.owner /\ With(line, f, set).parent = line.parent
           /\ With(line, f, set).st = IF f = "st" THEN set.st ELSE line.st
           /\ With(line, f, set).providers = IF f = "providers" THEN set.providers ELSE line.providers
           /\ With(line, f, set).byUser = line.byUser /\ With(line, f, set).parentMoved = line.parentMoved
<1>1. CASE f = "st"
  BY <1>1 DEF With, VKeyRows, KeyRows
<1>2. CASE f = "providers"
  BY <1>2 DEF With, VKeyRows, KeyRows
<1> QED BY <1>1, <1>2

LEMMA VKeyUpdated ==
    ASSUME KeyCore, NEW c \in KeyCallers, UpdateVirtualKey(c)
    PROVE  KeyCore'
<1>1. PICK v : v = keyOp[c].vkey
  OBVIOUS
<1>2. CallGood(c) /\ keyOp[c] \in CallRows /\ keyOp[c].pc = "vupdate" /\ Calls(c, NoCall) /\ UNCHANGED <<apiKeyRow, vauth>>
  BY DEF KeyCore, KeyCoreTypes, UpdateVirtualKey
<1>3. v \in VKeys /\ VKeyGood(v) /\ vkRow[v] \in VKeyRows
  BY <1>1, <1>2 DEF CallGood, KeyCore, KeyCoreTypes
<1>4. CASE ~VKeyExists(v)
  <2>1. vkRow' = vkRow
    BY <1>1, <1>4 DEF UpdateVirtualKey
  <2>2. CallGood(c)'
    <3>1. keyOp'[c] = NoCall
      BY <1>2 DEF Calls, KeyCore, KeyCoreTypes
    <3> QED BY <3>1 DEF CallGood, NoCall
  <2> QED BY <2>1, <2>2, <1>2, NoRowTypes, CallBegins
<1>5. CASE VKeyExists(v)
  <2>1. PICK w : w = With(vkRow[v], keyOp[c].field, keyOp[c].set)
    OBVIOUS
  <2>2. PICK line : line = [w EXCEPT !.byUser = @ /\ isTenantUser(c), !.parentMoved = @ \/ keyOp[c].moved]
    OBVIOUS
  <2>3. vkRow' = [vkRow EXCEPT ![v] = line]
    <3>1. vkRow' = [vkRow EXCEPT ![keyOp[c].vkey] =
                      [With(vkRow[keyOp[c].vkey], keyOp[c].field, keyOp[c].set) EXCEPT
                         !.byUser = @ /\ isTenantUser(c), !.parentMoved = @ \/ keyOp[c].moved]]
      BY <1>1, <1>5, Zenon DEF UpdateVirtualKey
    <3> QED BY <1>1, <2>1, <2>2, <3>1
  <2>4. keyOp[c].field \in {"st", "providers"} /\ keyOp[c].set \in KeyRows /\ keyOp[c].moved \in BOOLEAN
    BY <1>2 DEF CallRows
  <2>5. /\ w \in VKeyRows /\ w.owner = vkRow[v].owner /\ w.parent = vkRow[v].parent
        /\ w.st = IF keyOp[c].field = "st" THEN keyOp[c].set.st ELSE vkRow[v].st
        /\ w.providers = IF keyOp[c].field = "providers" THEN keyOp[c].set.providers ELSE vkRow[v].providers
        /\ w.byUser = vkRow[v].byUser /\ w.parentMoved = vkRow[v].parentMoved
    BY <1>3, <2>1, <2>4, WithVFields
  <2>6. (w.byUser /\ isTenantUser(c)) \in BOOLEAN /\ (w.parentMoved \/ keyOp[c].moved) \in BOOLEAN
    OBVIOUS
  <2>7. line \in VKeyRows /\ line.owner = w.owner /\ line.parent = w.parent /\ line.st = w.st /\ line.providers = w.providers
    BY <2>2, <2>5, <2>6 DEF VKeyRows
  <2>8. line.byUser = (w.byUser /\ isTenantUser(c)) /\ line.parentMoved = (w.parentMoved \/ keyOp[c].moved)
    BY <2>2, <2>5 DEF VKeyRows
  <2>9. /\ line.byUser => vkRow[v].byUser /\ c \in Users
        /\ ~line.parentMoved => ~vkRow[v].parentMoved /\ ~keyOp[c].moved
    BY <2>5, <2>8 DEF isTenantUser
  <2>10. /\ vkRow[v].parent = keyOp[c].key /\ Live(keyOp[c].key)
         /\ keyOp[c].field = "st" => keyOp[c].set.st \in {"active", "revoked"}
         /\ c \in Users /\ ~keyOp[c].moved => Within(keyOp[c].set.providers, keyOp[c].key)
    BY <1>1, <1>2, <1>5 DEF CallGood
  <2>11. line.st \in {"active", "revoked"}
    BY <1>5, <2>4, <2>5, <2>7, <2>10 DEF VKeyExists
  <2>12. line.byUser /\ ~line.parentMoved => Within(line.providers, line.parent)
    BY <1>3, <1>5, <2>4, <2>5, <2>7, <2>9, <2>10 DEF VKeyGood
  <2>13. vkRow'[v] = line
    BY <1>3, <2>3 DEF KeyCore, KeyCoreTypes
  <2>14. VKeyGood(v)'
    BY <1>2, <2>5, <2>7, <2>10, <2>12, <2>13 DEF VKeyGood, Live, Within
  <2> QED BY <1>2, <1>3, <1>5, <2>3, <2>5, <2>7, <2>9, <2>11, <2>14, VKeyWritten
<1> QED BY <1>4, <1>5

\* Calls that write API keys.
LEMMA KeysWritten ==
    ASSUME KeyCore, NEW c \in KeyCallers, UpdateAPIKey(c) \/ RotateAPIKey(c) \/ RevokeAPIKey(c)
    PROVE  KeyCore'
<1>1. CallGood(c) /\ keyOp[c] \in CallRows /\ apiKeyRow \in [Keys -> KeyRows]
  BY DEF KeyCore, KeyCoreTypes
<1>2. keyOp[c].key \in Keys /\ UNCHANGED vauth
  BY <1>1 DEF UpdateAPIKey, RotateAPIKey, RevokeAPIKey, CallGood, Live
<1>3. CASE UpdateAPIKey(c)
  <2>1. PICK w : w = With(apiKeyRow[keyOp[c].key], keyOp[c].field, keyOp[c].set)
    OBVIOUS
  <2>2. PutKeys(c, [apiKeyRow EXCEPT ![keyOp[c].key] = w])
    BY <1>3, <2>1 DEF UpdateAPIKey
  <2>3. keyOp[c].field \in {"st", "providers"} /\ keyOp[c].set \in KeyRows /\ apiKeyRow[keyOp[c].key] \in KeyRows
    BY <1>1, <1>2 DEF CallRows
  <2>4. /\ w \in KeyRows /\ w.owner = apiKeyRow[keyOp[c].key].owner
        /\ w.st = IF keyOp[c].field = "st" THEN keyOp[c].set.st ELSE apiKeyRow[keyOp[c].key].st
    BY <2>1, <2>3, WithFields
  <2>5. w.st # "absent"
    BY <1>1, <1>3, <2>3, <2>4 DEF CallGood, Live, UpdateAPIKey
  <2>6. KeysKept([apiKeyRow EXCEPT ![keyOp[c].key] = w])
    BY <1>1, <1>2, <2>4, <2>5 DEF KeysKept
  <2> QED BY <1>2, <2>2, <2>6, PutKept
<1>4. CASE RotateAPIKey(c)
  <2>1. KeysKept([apiKeyRow EXCEPT ![keyOp[c].key].st = "active"])
    BY <1>1, <1>2 DEF KeysKept, KeyRows, Stat
  <2> QED BY <1>2, <1>4, <2>1, PutKept DEF RotateAPIKey
<1>5. CASE RevokeAPIKey(c)
  <2>1. KeysKept(Revoked({keyOp[c].key}))
    BY <1>1, <1>2 DEF KeysKept, Revoked, KeyRows, Stat
  <2> QED BY <1>2, <1>5, <2>1, PutKept DEF RevokeAPIKey
<1> QED BY <1>3, <1>4, <1>5

\* The administrator's deletions, and a restart.
LEMMA KeysRevoked ==
    ASSUME KeyCore, NEW ks \in SUBSET Keys
    PROVE  KeysKept(Revoked(ks)) /\ \A k \in Keys : Revoked(ks)[k].providers = apiKeyRow[k].providers
<1>1. apiKeyRow \in [Keys -> KeyRows]
  BY DEF KeyCore, KeyCoreTypes
<1> QED BY <1>1 DEF KeysKept, Revoked, KeyRows, Stat

LEMMA OwnersDeleted ==
    ASSUME KeyCore, NEW ks \in SUBSET Keys, NEW vs, \A v \in VKeys : v \in vs => VKeyExists(v), Revoke(ks, vs)
    PROVE  KeyCore'
<1>1. /\ apiKeyRow' = Revoked(ks) /\ vkRow' = [v \in VKeys |-> IF v \in vs THEN GoneVRow ELSE vkRow[v]]
      /\ UNCHANGED <<keyOp, vauth>>
  BY DEF Revoke
<1>2. KeyCoreTypes'
  BY <1>1, KeysRevoked, NoRowTypes DEF KeysKept, KeyCore, KeyCoreTypes
<1> QED BY <1>1, <1>2, KeysRevoked, RowsKept DEF KeysKept

LEMMA Restarted ==
    ASSUME KeyCore, EnsureBootstrapKey
    PROVE  KeyCore'
<1>1. BootKey \in Keys /\ apiKeyRow \in [Keys -> KeyRows]
  BY KeyAssumption DEF KeyAssumption, KeyCore, KeyCoreTypes
<1>2. PICK line : line = [apiKeyRow[BootKey] EXCEPT !.st = "active", !.inProject = FALSE]
  OBVIOUS
<1>3. line \in KeyRows /\ line.st = "active" /\ line.owner = apiKeyRow[BootKey].owner /\ line.providers = apiKeyRow[BootKey].providers
  BY <1>1, <1>2 DEF KeyRows, Stat
<1>4. apiKeyRow' = [apiKeyRow EXCEPT ![BootKey] = line]
  BY <1>1, <1>2 DEF EnsureBootstrapKey, KeyRows
<1>5. keyOp' = [c \in KeyCallers |-> NoCall] /\ vauth' = NoAuth /\ vkRow' = vkRow
  BY DEF EnsureBootstrapKey
<1>6. KeyCoreTypes'
  <2>1. vauth' \in [pc : {"idle", "parent", "accepted"}, vkey : VKeys \cup {NoKey}, vk : VKeyRows, parent : KeyRows]
    BY <1>5, NoRowTypes DEF NoAuth
  <2> QED BY <1>1, <1>3, <1>4, <1>5, <2>1, NoRowTypes DEF KeyCore, KeyCoreTypes
<1>7. \A c \in KeyCallers : CallGood(c)'
  BY <1>5 DEF CallGood, NoCall
<1>8. AuthGood'
  BY <1>5 DEF AuthGood, NoAuth
<1> QED BY <1>1, <1>3, <1>4, <1>5, <1>6, <1>7, <1>8, RowsKept

LEMMA AuthStep ==
    ASSUME KeyCore, (\E v \in VKeys : AuthenticateVirtualKey(v)) \/ LoadParent \/ ServedKey
    PROVE  KeyCore'
<1>0. UNCHANGED <<apiKeyRow, vkRow, keyOp>> /\ KeyCoreTypes
  BY DEF AuthenticateVirtualKey, LoadParent, ServedKey, KeyCore
<1> DEFINE Auths == [pc : {"idle", "parent", "accepted"}, vkey : VKeys \cup {NoKey}, vk : VKeyRows, parent : KeyRows]
<1>n. NoAuth \in Auths /\ NoAuth.pc = "idle"
  BY NoRowTypes DEF NoAuth
<1>1. ASSUME NEW v \in VKeys, AuthenticateVirtualKey(v) PROVE vauth' \in Auths /\ AuthGood'
  <2>1. PICK r : r = [NoAuth EXCEPT !.pc = "parent", !.vkey = v, !.vk = vkRow[v]]
    OBVIOUS
  <2>2. vauth' = r /\ vkRow[v].st = "active" /\ vkRow[v] \in VKeyRows
    BY <1>0, <1>1, <2>1 DEF AuthenticateVirtualKey, KeyCoreTypes
  <2>3. r \in Auths /\ r.pc = "parent" /\ r.vkey = v /\ r.vk = vkRow[v]
    BY <2>1, <2>2, NoRowTypes DEF NoAuth
  <2>4. VKeyExists(v) /\ Live(vkRow[v].parent)
    BY <2>2 DEF VKeyExists, KeyCore, VKeyGood
  <2> QED BY <1>0, <2>2, <2>3, <2>4 DEF AuthGood, VKeyExists, Live
<1>2. ASSUME LoadParent PROVE vauth' \in Auths /\ AuthGood'
  <2>1. CASE vauth' = NoAuth
    BY <2>1, <1>n DEF AuthGood
  <2>2. CASE vauth' # NoAuth
    <3>1. AuthGood /\ vauth.pc = "parent" /\ vauth \in Auths
      BY <1>2 DEF KeyCore, LoadParent, KeyCoreTypes
    <3>2. vauth.vk.parent \in Keys /\ apiKeyRow[vauth.vk.parent] \in KeyRows
      BY <1>0, <3>1 DEF AuthGood, Live, KeyCoreTypes
    <3>3. PICK r : r = [vauth EXCEPT !.pc = "accepted", !.parent = apiKeyRow[vauth.vk.parent]]
      OBVIOUS
    <3>4. vauth' = r
      BY <1>2, <2>2, <3>3 DEF LoadParent
    <3>5. r \in Auths /\ r.pc = "accepted" /\ r.vkey = vauth.vkey /\ r.vk = vauth.vk /\ r.parent = apiKeyRow[vauth.vk.parent]
      BY <3>1, <3>2, <3>3
    <3> QED BY <1>0, <3>1, <3>4, <3>5 DEF AuthGood, VKeyExists, Live
  <2> QED BY <2>1, <2>2
<1>3. ASSUME ServedKey PROVE vauth' \in Auths /\ AuthGood'
  BY <1>3, <1>n DEF ServedKey, AuthGood
<1>4. vauth' \in Auths /\ AuthGood'
  BY <1>1, <1>2, <1>3
<1>5. KeyCoreTypes'
  BY <1>0, <1>4 DEF KeyCoreTypes
<1> QED BY <1>0, <1>4, <1>5, RowsKept

\* What stays of the rows and calls: every step of KeyNext.
LEMMA KeyStep == KeyInv /\ [KeyNext]_keyVars => KeyInv'
<1> SUFFICES ASSUME KeyInv, [KeyNext]_keyVars PROVE KeyCore'
  BY OwnersTyped DEF KeyInv
<1>0. KeyCore /\ KeyCoreTypes
  BY DEF KeyInv, KeyCore
<1>1. ASSUME NEW c \in KeyCallers, KeyCall(c) PROVE KeyCore'
  <2>1. CASE UpdateAPIKey(c) \/ RotateAPIKey(c) \/ RevokeAPIKey(c) \/ UpdateVirtualKey(c)
    BY <2>1, <1>0, KeysWritten, VKeyUpdated
  <2>2. ASSUME NEW v \in VKeys, CreateVirtualKey(c, v) PROVE KeyCore'
    BY <2>2, <1>0, VKeyCreated
  <2>3. ASSUME NEW v \in VKeys, DeleteVirtualKey(c, v) PROVE KeyCore'
    <3>1. vkRow' = [vkRow EXCEPT ![v] = GoneVRow] /\ VKeyExists(v) /\ UNCHANGED <<apiKeyRow, keyOp, vauth>>
      BY <2>3 DEF DeleteVirtualKey
    <3>2. KeyCoreTypes' /\ \A w \in VKeys : vkRow'[w] = vkRow[w] \/ (VKeyExists(w) /\ vkRow'[w] = GoneVRow)
      BY <1>0, <3>1, NoRowTypes DEF KeyCoreTypes
    <3> QED BY <1>0, <3>1, <3>2, RowsKept
  <2>4. ASSUME NEW v \in VKeys, NEW f \in Columns,
               BeginUpdateVirtualKey(c, v, f[1], [NoKeyRow EXCEPT ![f[1]] = f[2]])
        PROVE  KeyCore'
    BY <2>4, <1>0, CallOnVKey, ColumnTypes, NoRowTypes
  <2>5. ASSUME NEW k \in Keys, NEW u \in Users, NEW p \in BOOLEAN, NEW l \in Lists, CreateAPIKey(c, k, u, p, l)
        PROVE  KeyCore'
    BY <2>5, <1>0, KeyCreated
  <2>6. ASSUME NEW k \in Keys, NEW f \in Columns,
               BeginUpdateAPIKey(c, k, f[1], [apiKeyRow[k] EXCEPT ![f[1]] = f[2]])
        PROVE  KeyCore'
    <3>1. apiKeyRow[k] \in KeyRows
      BY <1>0 DEF KeyCoreTypes
    <3> QED BY <2>6, <3>1, <1>0, CallOfKey, ColumnTypes DEF BeginUpdateAPIKey
  <2>7. ASSUME NEW k \in Keys, BeginRotateAPIKey(c, k) \/ BeginRevokeAPIKey(c, k) PROVE KeyCore'
    BY <2>7, <1>0, CallOfKey, NoRowTypes DEF BeginRotateAPIKey, BeginRevokeAPIKey
  <2>8. ASSUME NEW k \in Keys, NEW u \in Users, NEW p \in BOOLEAN, NEW l \in Lists,
               BeginCreateVirtualKey(c, k, u, [NoKeyRow EXCEPT !.inProject = p, !.providers = l])
        PROVE  KeyCore'
    <3>1. [NoKeyRow EXCEPT !.inProject = p, !.providers = l] \in KeyRows
      BY KeyAssumption DEF KeyAssumption, NoKeyRow, KeyRows, Stat
    <3> QED BY <2>8, <3>1, <1>0, CallForVKey
  <2> QED BY <1>1, <2>1, <2>2, <2>3, <2>4, <2>5, <2>6, <2>7, <2>8 DEF KeyCall
<1>2. ASSUME NEW u \in Users, DeleteUser(u) PROVE KeyCore'
  <2>1. OwnKeys(u) \in SUBSET Keys
    BY DEF OwnKeys
  <2>2. PutKeys(Admin, Revoked(OwnKeys(u))) /\ UNCHANGED vauth
    BY <1>2 DEF DeleteUser
  <2> QED BY <2>1, <2>2, <1>0, KeysRevoked, PutKept
<1>3. ASSUME DeleteProject PROVE KeyCore'
  <2>1. Revoke({k \in LiveKeys : apiKeyRow[k].inProject}, {v \in VKeys : VKeyExists(v) /\ vkRow[v].inProject})
    BY <1>3 DEF DeleteProject
  <2>2. {k \in LiveKeys : apiKeyRow[k].inProject} \in SUBSET Keys
    BY DEF LiveKeys
  <2> QED BY <2>1, <2>2, <1>0, OwnersDeleted
<1>4. ASSUME DeleteTenant PROVE KeyCore'
  <2>1. Revoke(LiveKeys, {v \in VKeys : VKeyExists(v)})
    BY <1>4 DEF DeleteTenant
  <2>2. LiveKeys \in SUBSET Keys
    BY DEF LiveKeys
  <2> QED BY <2>1, <2>2, <1>0, OwnersDeleted
<1>5. ASSUME \/ \E u \in Users, up \in BOOLEAN : UpdateUser(u, up)
             \/ \E up \in BOOLEAN : UpdateProject(up) \/ UpdateTenant(up)
             \/ UNCHANGED keyVars
      PROVE  KeyCore'
  <2>1. UNCHANGED <<apiKeyRow, vkRow, keyOp, vauth>>
    BY <1>5 DEF UpdateUser, UpdateProject, UpdateTenant, keyVars
  <2>2. KeyCoreTypes'
    BY <1>0, <2>1 DEF KeyCoreTypes
  <2> QED BY <1>0, <2>1, <2>2, RowsKept
<1> QED BY <1>0, <1>1, <1>2, <1>3, <1>4, <1>5, Restarted, AuthStep DEF KeyNext

LEMMA KeyImplied == KeyInv => KeySound
<1> SUFFICES ASSUME KeyInv PROVE KeySound
  OBVIOUS
<1>1. KeyTypeOK
  <2>1. \A v \in VKeys : VKeyExists(v) => vkRow[v].parent \in LiveKeys
    BY DEF KeyInv, KeyCore, VKeyGood, Live, LiveKeys
  <2>2. ASSUME NEW c \in KeyCallers
        PROVE  /\ keyOp[c].pc \in {"idle", "update", "rotate", "revoke", "vcreate", "vupdate"}
               /\ keyOp[c].set \in KeyRows /\ keyOp[c].moved \in BOOLEAN
               /\ keyOp[c].key \in Keys \cup {NoKey} /\ keyOp[c].vkey \in VKeys \cup {NoKey}
    BY DEF KeyInv, KeyCore, KeyCoreTypes, CallRows
  <2>3. vauth.pc \in {"idle", "parent", "accepted"}
    BY DEF KeyInv, KeyCore, KeyCoreTypes
  <2> QED BY <2>1, <2>2, <2>3 DEF KeyInv, OwnersOK, KeyCore, KeyCoreTypes, KeyTypeOK
<1>2. LetThroughWithinParent
  <2> SUFFICES ASSUME vauth.pc = "accepted", vkRow[vauth.vkey] = vauth.vk, vauth.vk.byUser, ~vauth.vk.parentMoved,
                      NEW name \in Providers, CheckProvider(name)
               PROVE  Allows(vauth.parent.providers, name)
    BY DEF LetThroughWithinParent
  <2>1. AuthGood /\ \A v \in VKeys : VKeyGood(v)
    BY DEF KeyInv, KeyCore
  <2>2. vauth.vkey \in VKeys /\ VKeyExists(vauth.vkey) /\ vauth.parent.providers = apiKeyRow[vauth.vk.parent].providers
    BY <2>1 DEF AuthGood, VKeyExists
  <2>3. stringSubset(vauth.vk.providers, vauth.parent.providers)
    BY <2>1, <2>2 DEF VKeyGood, Within
  <2> QED BY <2>3 DEF stringSubset, CheckProvider, Overlay, Allows
<1> QED BY <1>1, <1>2 DEF KeySound

\* For any callers, keys, virtual keys and lists, whatever is written between the look-up and
\* the write of a call: what is let through with a virtual key that only tenant users have
\* written is within its parent's list, as long as that has not changed since it was compared.
THEOREM KeysCorrect == KeySpec => []KeySound
<1>1. KeyInv /\ [KeyNext]_keyVars => KeyInv'
  BY KeyStep
<1> QED BY <1>1, KeyInitially, KeyImplied, PTL DEF KeySpec

\* A call that was under way ends with a write only by the last step of its caller.
LEMMA OnlyOwnEnd ==
    ASSUME KeyInv, KeyNext, NEW c \in KeyCallers, keyOp[c].pc # "idle", keyOp'[c].pc = "idle", ~EnsureBootstrapKey
    PROVE  \/ UpdateAPIKey(c) \/ RotateAPIKey(c) \/ RevokeAPIKey(c) \/ UpdateVirtualKey(c)
           \/ \E v \in VKeys : CreateVirtualKey(c, v)
           \/ c = Admin
<1> SUFFICES ASSUME c # Admin
             PROVE  \/ UpdateAPIKey(c) \/ RotateAPIKey(c) \/ RevokeAPIKey(c) \/ UpdateVirtualKey(c)
                    \/ \E v \in VKeys : CreateVirtualKey(c, v)
  OBVIOUS
<1>0. KeyCoreTypes
  BY DEF KeyInv, KeyCore
<1>p. ASSUME NEW d, d # c, NEW rows, PutKeys(d, rows) PROVE FALSE
  <2>1. PICK m : keyOp'[c] = [keyOp[c] EXCEPT !.moved = m]
    BY <1>p DEF PutKeys
  <2>2. keyOp'[c].pc = keyOp[c].pc
    BY <1>0, <2>1 DEF KeyCoreTypes, CallRows
  <2> QED BY <2>2
<1>q. ASSUME NEW d \in KeyCallers, d # c, NEW r, Calls(d, r) PROVE FALSE
  BY <1>0, <1>q DEF Calls, KeyCoreTypes
<1>u. ASSUME UNCHANGED keyOp PROVE FALSE
  BY <1>u
<1>1. ASSUME NEW d \in KeyCallers, KeyCall(d), d # c PROVE FALSE
  <2>1. CASE UpdateAPIKey(d) \/ RotateAPIKey(d) \/ RevokeAPIKey(d)
    BY <2>1, <1>1, <1>p DEF UpdateAPIKey, RotateAPIKey, RevokeAPIKey
  <2>2. CASE UpdateVirtualKey(d)
    BY <2>2, <1>1, <1>q DEF UpdateVirtualKey
  <2>3. ASSUME NEW v \in VKeys, CreateVirtualKey(d, v) \/ DeleteVirtualKey(d, v) PROVE FALSE
    BY <2>3, <1>1, <1>q, <1>u DEF CreateVirtualKey, DeleteVirtualKey
  <2>4. ASSUME NEW v \in VKeys, NEW f \in Columns,
               BeginUpdateVirtualKey(d, v, f[1], [NoKeyRow EXCEPT ![f[1]] = f[2]])
        PROVE  FALSE
    BY <2>4, <1>1, <1>q DEF BeginUpdateVirtualKey
  <2>5. ASSUME NEW k \in Keys, NEW u \in Users, NEW p \in BOOLEAN, NEW l \in Lists, CreateAPIKey(d, k, u, p, l)
        PROVE  FALSE
    BY <2>5, <1>u DEF CreateAPIKey
  <2>6. ASSUME NEW k \in Keys, NEW f \in Columns,
               BeginUpdateAPIKey(d, k, f[1], [apiKeyRow[k] EXCEPT ![f[1]] = f[2]])
        PROVE  FALSE
    BY <2>6, <1>1, <1>q DEF BeginUpdateAPIKey, GetAPIKey
  <2>7. ASSUME NEW k \in Keys, BeginRotateAPIKey(d, k) \/ BeginRevokeAPIKey(d, k) PROVE FALSE
    BY <2>7, <1>1, <1>q DEF BeginRotateAPIKey, BeginRevokeAPIKey, GetAPIKey
  <2>8. ASSUME NEW k \in Keys, NEW u \in Users, NEW p \in BOOLEAN, NEW l \in Lists,
               BeginCreateVirtualKey(d, k, u, [NoKeyRow EXCEPT !.inProject = p, !.providers = l])
        PROVE  FALSE
    BY <2>8, <1>1, <1>q DEF BeginCreateVirtualKey
  <2> QED BY <1>1, <2>1, <2>2, <2>3, <2>4, <2>5, <2>6, <2>7, <2>8 DEF KeyCall
<1>2. ASSUME KeyCall(c)
      PROVE  \/ UpdateAPIKey(c) \/ RotateAPIKey(c) \/ RevokeAPIKey(c) \/ UpdateVirtualKey(c)
             \/ \E v \in VKeys : CreateVirtualKey(c, v)
  <2>1. ASSUME NEW v \in VKeys, DeleteVirtualKey(c, v) PROVE FALSE
    BY <2>1 DEF DeleteVirtualKey, CallIdle
  <2>2. ASSUME NEW v \in VKeys, NEW f \in Columns,
               BeginUpdateVirtualKey(c, v, f[1], [NoKeyRow EXCEPT ![f[1]] = f[2]])
        PROVE  FALSE
    BY <2>2 DEF BeginUpdateVirtualKey, CanCall, CallIdle
  <2>3. ASSUME NEW k \in Keys, NEW u \in Users, NEW p \in BOOLEAN, NEW l \in Lists,
               \/ CreateAPIKey(c, k, u, p, l)
               \/ BeginCreateVirtualKey(c, k, u, [NoKeyRow EXCEPT !.inProject = p, !.providers = l])
        PROVE  FALSE
    BY <2>3 DEF CreateAPIKey, BeginCreateVirtualKey, CanCall, CallIdle
  <2>4. ASSUME NEW k \in Keys, NEW f \in Columns,
               BeginUpdateAPIKey(c, k, f[1], [apiKeyRow[k] EXCEPT ![f[1]] = f[2]])
        PROVE  FALSE
    BY <2>4 DEF BeginUpdateAPIKey, GetAPIKey, CanCall, CallIdle
  <2>5. ASSUME NEW k \in Keys, BeginRotateAPIKey(c, k) \/ BeginRevokeAPIKey(c, k) PROVE FALSE
    BY <2>5 DEF BeginRotateAPIKey, BeginRevokeAPIKey, GetAPIKey, CanCall, CallIdle
  <2> QED BY <1>2, <2>1, <2>2, <2>3, <2>4, <2>5 DEF KeyCall
<1>3. ASSUME NEW u \in Users, DeleteUser(u) PROVE FALSE
  BY <1>3, <1>p DEF DeleteUser
<1>4. ASSUME \/ DeleteProject \/ DeleteTenant
             \/ \E u \in Users, up \in BOOLEAN : UpdateUser(u, up)
             \/ \E up \in BOOLEAN : UpdateProject(up) \/ UpdateTenant(up)
             \/ (\E v \in VKeys : AuthenticateVirtualKey(v)) \/ LoadParent \/ ServedKey
      PROVE  FALSE
  <2>1. UNCHANGED keyOp
    BY <1>4 DEF DeleteProject, DeleteTenant, Revoke, UpdateUser, UpdateProject, UpdateTenant, AuthenticateVirtualKey,
                LoadParent, ServedKey
  <2> QED BY <2>1, <1>u
<1> QED BY <1>1, <1>2, <1>3, <1>4 DEF KeyNext

LEMMA ScopedStep == KeyInv /\ [KeyNext]_keyVars => UserScoped \/ UNCHANGED keyVars
<1> SUFFICES ASSUME KeyInv, KeyNext, NEW c \in KeyCallers \cap Users, keyOp[c].pc # "idle", keyOp'[c].pc = "idle",
                    ~EnsureBootstrapKey
             PROVE  /\ \A k \in Keys : apiKeyRow'[k] # apiKeyRow[k] => apiKeyRow[k].owner = c
                    /\ \A v \in VKeys : vkRow'[v] # [vkRow[v] EXCEPT !.parentMoved = vkRow'[v].parentMoved]
                                           => vkRow'[v].owner = c
  BY DEF UserScoped
<1>1. CallGood(c) /\ keyOp[c] \in CallRows /\ KeyCoreTypes /\ KeyCore
  BY DEF KeyInv, KeyCore, KeyCoreTypes
<1>2. c # Admin /\ KeyCoreTypes'
  BY KeyStep, KeyAssumption DEF KeyAssumption, KeyInv, KeyCore
<1>i. ASSUME NEW v \in VKeys, vkRow'[v] = vkRow[v]
      PROVE  vkRow'[v] = [vkRow[v] EXCEPT !.parentMoved = vkRow'[v].parentMoved]
  BY <1>1, <1>i DEF KeyCoreTypes, VKeyRows
<1>3. CASE UpdateAPIKey(c) \/ RotateAPIKey(c) \/ RevokeAPIKey(c)
  <2>1. PICK rows : PutKeys(c, rows) /\ \A k \in Keys : rows[k] # apiKeyRow[k] => k = keyOp[c].key
    <3>1. CASE UpdateAPIKey(c)
      <4>1. PICK rows, w : rows = [apiKeyRow EXCEPT ![keyOp[c].key] = w] /\ PutKeys(c, rows)
        BY <3>1 DEF UpdateAPIKey
      <4>2. \A k \in Keys : rows[k] # apiKeyRow[k] => k = keyOp[c].key
        BY <4>1, <1>1 DEF KeyCoreTypes
      <4> QED BY <4>1, <4>2
    <3>2. CASE RotateAPIKey(c)
      <4>1. PICK rows : rows = [apiKeyRow EXCEPT ![keyOp[c].key].st = "active"] /\ PutKeys(c, rows)
        BY <3>2 DEF RotateAPIKey
      <4>2. \A k \in Keys : rows[k] # apiKeyRow[k] => k = keyOp[c].key
        BY <4>1, <1>1 DEF KeyCoreTypes
      <4> QED BY <4>1, <4>2
    <3>3. CASE RevokeAPIKey(c)
      BY <3>3, <1>1 DEF KeyCoreTypes, RevokeAPIKey, Revoked
    <3> QED BY <1>3, <3>1, <3>2, <3>3
  <2>2. apiKeyRow[keyOp[c].key].owner = c
    BY <1>1, <1>3 DEF CallGood, UpdateAPIKey, RotateAPIKey, RevokeAPIKey
  <2>3. \A v \in VKeys : vkRow'[v] = [vkRow[v] EXCEPT !.parentMoved = vkRow'[v].parentMoved]
    <3> TAKE v \in VKeys
    <3>1. PICK m : vkRow'[v] = [vkRow[v] EXCEPT !.parentMoved = m]
      BY <2>1 DEF PutKeys
    <3>2. [vkRow[v] EXCEPT !.parentMoved = m].parentMoved = m
      BY <1>1 DEF KeyCoreTypes, VKeyRows
    <3> QED BY <3>1, <3>2
  <2>4. apiKeyRow' = rows
    BY <2>1 DEF PutKeys
  <2> QED BY <2>1, <2>2, <2>3, <2>4
<1>4. CASE UpdateVirtualKey(c)
  <2>1. apiKeyRow' = apiKeyRow /\ keyOp[c].pc = "vupdate"
    BY <1>4 DEF UpdateVirtualKey
  <2>2. CASE vkRow' = vkRow
    BY <2>1, <2>2, <1>i
  <2>3. CASE vkRow' # vkRow
    <3>1. VKeyExists(keyOp[c].vkey) /\ \E r : vkRow' = [vkRow EXCEPT ![keyOp[c].vkey] = r]
      BY <1>4, <2>3 DEF UpdateVirtualKey
    <3>2. keyOp[c].vkey \in VKeys /\ vkRow[keyOp[c].vkey].owner = c
      BY <1>1, <2>1, <3>1 DEF CallGood
    <3>3. vkRow'[keyOp[c].vkey].owner = c
      <4>1. PICK v : v = keyOp[c].vkey
        OBVIOUS
      <4>2. PICK w : w = With(vkRow[v], keyOp[c].field, keyOp[c].set)
        OBVIOUS
      <4>3. PICK line : line = [w EXCEPT !.byUser = @ /\ isTenantUser(c), !.parentMoved = @ \/ keyOp[c].moved]
        OBVIOUS
      <4>4. vkRow' = [vkRow EXCEPT ![v] = line]
        <5>1. vkRow' = [vkRow EXCEPT ![keyOp[c].vkey] =
                      [With(vkRow[keyOp[c].vkey], keyOp[c].field, keyOp[c].set) EXCEPT
                         !.byUser = @ /\ isTenantUser(c), !.parentMoved = @ \/ keyOp[c].moved]]
          BY <1>4, <3>1, Zenon DEF UpdateVirtualKey
        <5> QED BY <4>1, <4>2, <4>3, <5>1
      <4>5. vkRow[v] \in VKeyRows /\ keyOp[c].field \in {"st", "providers"} /\ keyOp[c].set \in KeyRows
        BY <1>1, <3>2, <4>1 DEF KeyCoreTypes, CallRows
      <4>6. w \in VKeyRows /\ w.owner = vkRow[v].owner
        BY <4>2, <4>5, WithVFields
      <4>7. line.owner = w.owner
        BY <4>3, <4>6 DEF VKeyRows
      <4> QED BY <1>1, <3>2, <4>1, <4>4, <4>6, <4>7 DEF KeyCoreTypes
    <3>4. \A v \in VKeys : v # keyOp[c].vkey => vkRow'[v] = vkRow[v]
      BY <1>1, <3>1 DEF KeyCoreTypes
    <3> QED BY <2>1, <3>3, <3>4, <1>i
  <2> QED BY <2>2, <2>3
<1>5. ASSUME NEW v \in VKeys, CreateVirtualKey(c, v)
      PROVE  /\ \A k \in Keys : apiKeyRow'[k] # apiKeyRow[k] => apiKeyRow[k].owner = c
             /\ \A w \in VKeys : vkRow'[w] # [vkRow[w] EXCEPT !.parentMoved = vkRow'[w].parentMoved]
                                           => vkRow'[w].owner = c
  <2>1. apiKeyRow' = apiKeyRow /\ keyOp[c].pc = "vcreate"
    BY <1>5 DEF CreateVirtualKey
  <2>2. keyOp[c].set.owner = c
    BY <2>1, <1>1 DEF CallGood
  <2>3. vkRow'[v].owner = keyOp[c].set.owner /\ \A w \in VKeys : w # v => vkRow'[w] = vkRow[w]
    BY <1>1, <1>5 DEF CreateVirtualKey, KeyCoreTypes
  <2> QED BY <2>1, <2>2, <2>3, <1>i
<1> QED BY <1>2, <1>3, <1>4, <1>5, OnlyOwnEnd

LEMMA RevocationStep == KeyInv /\ [KeyNext]_keyVars => RevocationHolds \/ UNCHANGED keyVars
<1> SUFFICES ASSUME KeyInv, KeyNext, NEW k \in Keys, apiKeyRow[k].st = "revoked", apiKeyRow'[k].st = "active"
             PROVE  \/ \E c \in KeyCallers :
                          /\ keyOp[c].key = k /\ keyOp'[c].pc = "idle"
                          /\ keyOp[c].pc = "rotate" \/ (keyOp[c].pc = "update" /\ keyOp[c].field = "st")
                    \/ k = BootKey /\ keyOp' = [c \in KeyCallers |-> NoCall]
  BY DEF RevocationHolds
<1>1. KeyCore /\ KeyCoreTypes /\ apiKeyRow \in [Keys -> KeyRows]
  BY DEF KeyInv, KeyCore, KeyCoreTypes
<1>r. \A ks \in SUBSET Keys : Revoked(ks)[k].st = "revoked"
  BY <1>1 DEF Revoked, KeyRows
<1>2. ASSUME NEW c \in KeyCallers, KeyCall(c)
      PROVE  /\ keyOp[c].key = k /\ keyOp'[c].pc = "idle"
             /\ keyOp[c].pc = "rotate" \/ (keyOp[c].pc = "update" /\ keyOp[c].field = "st")
  <2>0. CallGood(c) /\ keyOp[c] \in CallRows
    BY <1>1 DEF KeyCore, KeyCoreTypes
  <2>1. CASE UpdateAPIKey(c)
    <3>1. PICK w : w = With(apiKeyRow[keyOp[c].key], keyOp[c].field, keyOp[c].set)
      OBVIOUS
    <3>2. PutKeys(c, [apiKeyRow EXCEPT ![keyOp[c].key] = w]) /\ keyOp[c].pc = "update"
      BY <2>1, <3>1 DEF UpdateAPIKey
    <3>3. apiKeyRow' = [apiKeyRow EXCEPT ![keyOp[c].key] = w] /\ keyOp'[c] = NoCall
      BY <3>2 DEF PutKeys
    <3>4. keyOp[c].key = k
      BY <1>1, <3>3
    <3>5. w.st = IF keyOp[c].field = "st" THEN keyOp[c].set.st ELSE apiKeyRow[k].st
      BY <1>1, <2>0, <3>1, <3>4, WithFields DEF CallRows
    <3>6. keyOp[c].field = "st"
      BY <1>1, <3>3, <3>4, <3>5
    <3> QED BY <3>2, <3>3, <3>4, <3>6 DEF NoCall
  <2>2. CASE RotateAPIKey(c)
    <3>1. PutKeys(c, [apiKeyRow EXCEPT ![keyOp[c].key].st = "active"]) /\ keyOp[c].pc = "rotate"
      BY <2>2 DEF RotateAPIKey
    <3>2. apiKeyRow' = [apiKeyRow EXCEPT ![keyOp[c].key].st = "active"] /\ keyOp'[c] = NoCall
      BY <3>1 DEF PutKeys
    <3>3. keyOp[c].key = k
      BY <1>1, <3>2
    <3> QED BY <3>1, <3>2, <3>3 DEF NoCall
  <2>3. CASE RevokeAPIKey(c)
    <3>1. apiKeyRow' = Revoked({keyOp[c].key}) /\ keyOp[c].key \in Keys
      BY <2>3, <2>0 DEF RevokeAPIKey, PutKeys, CallGood, Live
    <3> QED BY <3>1, <1>r
  <2>4. ASSUME NEW j \in Keys, NEW u \in Users, NEW p \in BOOLEAN, NEW l \in Lists, CreateAPIKey(c, j, u, p, l) PROVE FALSE
    BY <1>1, <2>4 DEF CreateAPIKey
  <2>5. CASE apiKeyRow' = apiKeyRow
    BY <2>5
  <2>6. CASE UpdateVirtualKey(c)
    BY <2>5, <2>6 DEF UpdateVirtualKey
  <2>7. ASSUME NEW v \in VKeys,
               \/ CreateVirtualKey(c, v) \/ DeleteVirtualKey(c, v)
               \/ \E f \in Columns : BeginUpdateVirtualKey(c, v, f[1], [NoKeyRow EXCEPT ![f[1]] = f[2]])
        PROVE  FALSE
    BY <2>7 DEF CreateVirtualKey, DeleteVirtualKey, BeginUpdateVirtualKey
  <2>8. ASSUME NEW j \in Keys,
               \/ \E f \in Columns : BeginUpdateAPIKey(c, j, f[1], [apiKeyRow[j] EXCEPT ![f[1]] = f[2]])
               \/ BeginRotateAPIKey(c, j) \/ BeginRevokeAPIKey(c, j)
               \/ \E u \in Users, p \in BOOLEAN, l \in Lists :
                     BeginCreateVirtualKey(c, j, u, [NoKeyRow EXCEPT !.inProject = p, !.providers = l])
        PROVE  FALSE
    BY <2>8 DEF BeginUpdateAPIKey, BeginRotateAPIKey, BeginRevokeAPIKey, GetAPIKey, BeginCreateVirtualKey
  <2> QED BY <1>2, <2>1, <2>2, <2>3, <2>4, <2>6, <2>7, <2>8 DEF KeyCall
<1>3. ASSUME NEW u \in Users, DeleteUser(u) PROVE FALSE
  <2>1. apiKeyRow' = Revoked(OwnKeys(u)) /\ OwnKeys(u) \in SUBSET Keys
    BY <1>3 DEF DeleteUser, PutKeys, OwnKeys
  <2> QED BY <2>1, <1>r
<1>4. ASSUME DeleteProject PROVE FALSE
  <2>1. apiKeyRow' = Revoked({j \in LiveKeys : apiKeyRow[j].inProject})
    BY <1>4 DEF DeleteProject, Revoke
  <2>2. {j \in LiveKeys : apiKeyRow[j].inProject} \in SUBSET Keys
    BY DEF LiveKeys
  <2> QED BY <2>1, <2>2, <1>r
<1>5. ASSUME DeleteTenant PROVE FALSE
  <2>1. apiKeyRow' = Revoked(LiveKeys) /\ LiveKeys \in SUBSET Keys
    BY <1>5 DEF DeleteTenant, Revoke, LiveKeys
  <2> QED BY <2>1, <1>r
<1>6. ASSUME EnsureBootstrapKey PROVE k = BootKey /\ keyOp' = [c \in KeyCallers |-> NoCall]
  <2>1. k # BootKey => apiKeyRow'[k] = apiKeyRow[k]
    BY <1>1, <1>6 DEF EnsureBootstrapKey
  <2> QED BY <2>1, <1>6 DEF EnsureBootstrapKey
<1>7. ASSUME \/ \E u \in Users, up \in BOOLEAN : UpdateUser(u, up)
             \/ \E up \in BOOLEAN : UpdateProject(up) \/ UpdateTenant(up)
             \/ (\E v \in VKeys : AuthenticateVirtualKey(v)) \/ LoadParent \/ ServedKey
      PROVE  FALSE
  <2>1. apiKeyRow' = apiKeyRow
    BY <1>7 DEF UpdateUser, UpdateProject, UpdateTenant, AuthenticateVirtualKey, LoadParent, ServedKey
  <2> QED BY <2>1
<1> QED BY <1>2, <1>3, <1>4, <1>5, <1>6, <1>7 DEF KeyNext

\* No step lets a tenant user's call change another user's key or virtual key, and none makes
\* a revoked key active but a rotation, a request to activate it or a restart.
THEOREM KeyStepsCorrect == KeySpec => [][UserScoped /\ RevocationHolds]_keyVars
<1>1. KeyInv /\ [KeyNext]_keyVars => KeyInv'
  BY KeyStep
<1>2. KeyInv /\ [KeyNext]_keyVars => [UserScoped /\ RevocationHolds]_keyVars
  BY ScopedStep, RevocationStep
<1> QED BY <1>1, <1>2, KeyInitially, PTL DEF KeySpec

-----------------------------------------------------------------------------
(* ServiceCatalog.                                                         *)

VerStates == {"draft", "staged", "published", "archived"}
SvcRows == {NoService} \cup [prefix : Prefixes, enabled : BOOLEAN, surfaces : SurfaceSets, published : Nat, staged : Nat]
Snaps == [prefix : Prefixes, surfaces : SurfaceSets]
VerRecs == [status : VerStates, snap : Snaps]
OpenSubs == [status : {"pending", "approved", "rejected"}, svc : Services, surfaces : {{}, {"responses"}}, known : BOOLEAN,
             key : Nat]
AskedSubs == [status : {"asked"}, svc : Services, surfaces : {{}, {"responses"}}, known : BOOLEAN, key : {0}]
SubRecs == {NoSub, [status |-> "gone"]} \cup AskedSubs \cup OpenSubs
Transitions == [pc : {"transition"}, svc : Services, v : Nat, mode : {"published", "staged"}, published : Nat]
Draftings == [pc : {"version"}, svc : Services, snap : Snaps]
Reviews == [pc : {"load", "user", "key"}, sub : Subs, svc : Services, known : BOOLEAN, asked : Prefixes, prefix : Prefixes]
Approvals == [pc : {"approve"}, sub : Subs, key : Nat]
CatCalls == {NoWork} \cup Transitions \cup Draftings \cup Reviews \cup Approvals
KeyRecs == [prefix : Prefixes, sub : Subs, svc : Services, asked : Prefixes]

CatTypes ==
    /\ svc \in [Services -> SvcRows] /\ versions \in [Services -> Seq(VerRecs)] /\ sub \in [Subs -> SubRecs]
    /\ keys \in Seq(KeyRecs) /\ users \subseteq Subs
    /\ work \in [Admins -> CatCalls] /\ orphans \subseteq Subs
    /\ catFaults \in Nat
    /\ shown \in [Services -> SUBSET Nat] /\ holders \in [Prefixes -> SUBSET Services]
    /\ \A p \in Prefixes : IsFiniteSet(holders[p])

\* What holds of a service with this row, these versions, published ones and holders of prefixes.
SvcGood(s, line, vers, sh, hold) ==
    /\ line # NoService => s \in hold[line.prefix]
    /\ line.published \in 0 .. Len(vers) /\ line.staged \in 0 .. Len(vers)
    /\ line.published # 0 => line.published \in sh
    /\ \A v \in 1 .. Len(vers) : /\ vers[v].status = "staged" <=> line.staged = v
                                 /\ vers[v].status = "published" => line.published = v
                                 /\ s \in hold[vers[v].snap.prefix]

RowsGood == \A s \in Services : SvcGood(s, svc[s], versions[s], shown[s], holders)

PrefixesDiffer == \A r, s \in Services : r # s /\ svc[s] # NoService => svc[r].prefix # svc[s].prefix

\* A transition has read a published version and a version that are there as long as the
\* service is, which is not made again.
TransitionGood(t, line, vers, sh) ==
    /\ line = NoService => sh # {}
    /\ line # NoService => t.v \in 1 .. Len(vers) /\ t.published \in 0 .. Len(vers)
    /\ t.published # 0 => t.published \in sh

\* A row of a subscription there is, or was.
HasRow(line) == line.status \notin {"none", "asked"}

\* The subscriptions whose approval makes a user of its own.
Alone(line) == line.status \in {"pending", "approved", "rejected"} /\ ~line.known
Single(u) == Alone(sub[u])
Past(a, u) == work[a].pc \in {"key", "approve"} /\ work[a].sub = u

\* A review, or its key, names a service that had the prefix it read, and another one had that prefix
\* too if the published snapshot was not the service's own.
Traced(x, hold) == x.svc \in hold[x.asked] /\ \E r \in hold[x.asked] : r \in hold[x.prefix]

\* A service that was deleted, and is not made again.
Ended(s) == svc[s] = NoService /\ shown[s] # {}

CatCallGood(w, rows, vers, sh, hold, ks, subs, orph) ==
    /\ w.pc = "transition" => TransitionGood(w, rows[w.svc], vers[w.svc], sh[w.svc])
    /\ w.pc = "version" => w.svc \in hold[w.snap.prefix]
    /\ w.pc = "load" => w.prefix = w.asked /\ (Alone(subs[w.sub]) => ~w.known)
    /\ w.pc \in {"load", "user", "key"} => Traced(w, hold)
    /\ w.pc = "approve" => w.key \in 1 .. Len(ks) /\ ks[w.key].sub = w.sub
    /\ w.pc \in {"load", "user", "key", "approve"} => HasRow(subs[w.sub]) /\ w.sub \notin orph

WorkGood == \A a \in Admins : CatCallGood(work[a], svc, versions, shown, holders, keys, sub, orphans)

KeysGood == \A k \in 1 .. Len(keys) : Traced(keys[k], holders) /\ HasRow(sub[keys[k].sub])

SubsGood ==
    \A u \in Subs :
        /\ u \in orphans => HasRow(sub[u])
        /\ sub[u].status = "asked" => svc[sub[u].svc] # NoService \/ Ended(sub[u].svc)
        /\ Open(u) => sub[u].key \in 0 .. Len(keys)
        /\ Open(u) /\ u \notin orphans => svc[sub[u].svc] # NoService
        /\ Open(u) /\ u \in orphans => sub[u].key = 0 /\ Ended(sub[u].svc)

\* Of such a subscription one approval gets past the user, and makes one key.
OneApproval ==
    \A u \in Subs : Single(u) =>
        /\ \A a \in Admins : Past(a, u) => u \in users
        /\ \A k \in 1 .. Len(keys) : keys[k].sub = u => u \in users
        /\ \A a, b \in Admins : Past(a, u) /\ Past(b, u) => a = b
        /\ \A a \in Admins : work[a].pc = "key" /\ work[a].sub = u => \A k \in 1 .. Len(keys) : keys[k].sub # u
        /\ \A j, k \in 1 .. Len(keys) : keys[j].sub = u /\ keys[k].sub = u => j = k

CatInv == CatTypes /\ RowsGood /\ PrefixesDiffer /\ WorkGood /\ KeysGood /\ SubsGood /\ OneApproval /\ NoKeyLeftBehind

LEMMA CatInitially == CatInit => CatInv
<1> SUFFICES ASSUME CatInit PROVE CatInv
  OBVIOUS
<1>1. CatTypes
  BY FS_EmptySet DEF CatInit, CatTypes, SvcRows, SubRecs, CatCalls
<1>2. RowsGood /\ PrefixesDiffer
  <2>1. \A s \in Services : svc[s] = NoService /\ versions[s] = <<>>
    BY DEF CatInit
  <2>2. NoService.published = 0 /\ NoService.staged = 0
    BY DEF NoService
  <2>3. Len(<<>>) = 0 /\ 0 \in 0 .. 0 /\ 1 .. 0 = {}
    OBVIOUS
  <2>4. \A s \in Services : SvcGood(s, svc[s], versions[s], shown[s], holders)
    BY <2>1, <2>2, <2>3 DEF SvcGood
  <2> QED BY <2>1, <2>4 DEF RowsGood, PrefixesDiffer
<1>3. WorkGood
  BY DEF CatInit, WorkGood, CatCallGood, NoWork
<1>4. KeysGood /\ NoKeyLeftBehind
  BY DEF CatInit, KeysGood, NoKeyLeftBehind
<1>5. SubsGood /\ OneApproval
  BY DEF CatInit, SubsGood, OneApproval, Single, Alone, Open, NoSub
<1> QED BY <1>1, <1>2, <1>3, <1>4, <1>5 DEF CatInv

\* The shape of a row, of a subscription and of a call, by what it is.
LEMMA CatShapes ==
    ASSUME CatTypes
    PROVE  /\ \A s \in Services : /\ svc[s] # NoService => svc[s].prefix \in Prefixes /\ svc[s].prefix # ""
                                  /\ svc[s].published \in Nat /\ svc[s].staged \in Nat /\ svc[s].surfaces \in SurfaceSets \cup {{}}
           /\ \A u \in Subs : /\ Open(u) => sub[u] \in OpenSubs /\ sub[u].svc \in Services /\ sub[u].key \in Nat
                              /\ Open(u) => HasRow(sub[u])
                              /\ sub[u].status = "asked" => sub[u] \in AskedSubs /\ sub[u].svc \in Services
           /\ \A a \in Admins : /\ work[a].pc = "transition" => work[a] \in Transitions
                                /\ work[a].pc = "version" => work[a] \in Draftings
                                /\ work[a].pc \in {"load", "user", "key"} => work[a] \in Reviews
                                /\ work[a].pc = "approve" => work[a] \in Approvals
<1>1. \A s \in Services : /\ svc[s] # NoService => svc[s].prefix \in Prefixes /\ svc[s].prefix # ""
                          /\ svc[s].published \in Nat /\ svc[s].staged \in Nat /\ svc[s].surfaces \in SurfaceSets \cup {{}}
  <2> SUFFICES ASSUME NEW s \in Services
               PROVE  /\ svc[s] # NoService => svc[s].prefix \in Prefixes /\ svc[s].prefix # ""
                      /\ svc[s].published \in Nat /\ svc[s].staged \in Nat /\ svc[s].surfaces \in SurfaceSets \cup {{}}
    OBVIOUS
  <2>1. svc[s] \in SvcRows
    BY DEF CatTypes
  <2>2. CASE svc[s] = NoService
    <3>1. NoService.published = 0 /\ NoService.staged = 0 /\ NoService.surfaces = {}
      BY DEF NoService
    <3>2. 0 \in Nat /\ {} \in SurfaceSets \cup {{}}
      OBVIOUS
    <3> QED BY <2>2, <3>1, <3>2, Zenon
  <2>3. CASE svc[s] # NoService
    <3>1. svc[s] \in [prefix : Prefixes, enabled : BOOLEAN, surfaces : SurfaceSets, published : Nat, staged : Nat]
      BY <2>1, <2>3 DEF SvcRows
    <3>2. svc[s].prefix \in Prefixes /\ svc[s].published \in Nat /\ svc[s].staged \in Nat /\ svc[s].surfaces \in SurfaceSets
      BY <3>1
    <3>3. svc[s].prefix # ""
      BY <3>2, CatAssumption, Zenon DEF CatAssumption
    <3> QED BY <3>2, <3>3, Zenon
  <2> QED BY <2>2, <2>3
<1>2. \A u \in Subs : /\ Open(u) => sub[u] \in OpenSubs /\ sub[u].svc \in Services /\ sub[u].key \in Nat
                      /\ Open(u) => HasRow(sub[u])
                      /\ sub[u].status = "asked" => sub[u] \in AskedSubs /\ sub[u].svc \in Services
  <2> SUFFICES ASSUME NEW u \in Subs
               PROVE  /\ Open(u) => sub[u] \in OpenSubs /\ sub[u].svc \in Services /\ sub[u].key \in Nat
                      /\ Open(u) => HasRow(sub[u])
                      /\ sub[u].status = "asked" => sub[u] \in AskedSubs /\ sub[u].svc \in Services
    OBVIOUS
  <2>1. sub[u] \in OpenSubs \/ sub[u] \in AskedSubs \/ sub[u] \in {NoSub, [status |-> "gone"]}
    BY DEF CatTypes, SubRecs
  <2>2. CASE sub[u] \in OpenSubs
    <3>1. sub[u].svc \in Services /\ sub[u].key \in Nat /\ sub[u].status \in {"pending", "approved", "rejected"}
      BY <2>2 DEF OpenSubs
    <3> QED BY <2>2, <3>1 DEF Open, HasRow
  <2>3. CASE sub[u] \in {NoSub, [status |-> "gone"]}
    <3>1. sub[u].status \in {"none", "gone"}
      BY <2>3 DEF NoSub
    <3> QED BY <2>3, <3>1 DEF Open
  <2>4. CASE sub[u] \in AskedSubs
    <3>1. sub[u].status = "asked" /\ sub[u].svc \in Services
      BY <2>4 DEF AskedSubs
    <3> QED BY <2>4, <3>1 DEF Open
  <2> QED BY <2>1, <2>2, <2>3, <2>4
<1>3. \A a \in Admins : /\ work[a].pc = "transition" => work[a] \in Transitions
                        /\ work[a].pc = "version" => work[a] \in Draftings
                        /\ work[a].pc \in {"load", "user", "key"} => work[a] \in Reviews
                        /\ work[a].pc = "approve" => work[a] \in Approvals
  BY DEF CatTypes, CatCalls, Transitions, Draftings, Reviews, Approvals, NoWork
<1> QED BY <1>1, <1>2, <1>3

\* What a service has held it keeps.
LEMMA SvcGrows ==
    ASSUME NEW s, NEW line \in SvcRows, NEW vers \in Seq(VerRecs), NEW sh, NEW hold, NEW more,
           SvcGood(s, line, vers, sh, hold), \A p \in Prefixes : hold[p] \subseteq more[p]
    PROVE  SvcGood(s, line, vers, sh, more)
<1>1. line # NoService => line.prefix \in Prefixes
  BY DEF SvcRows
<1>2. \A v \in 1 .. Len(vers) : vers[v].snap.prefix \in Prefixes
  <2>1. \A v \in 1 .. Len(vers) : vers[v] \in VerRecs
    OBVIOUS
  <2> QED BY <2>1 DEF VerRecs, Snaps
<1> QED BY <1>1, <1>2 DEF SvcGood

\* What a step keeps of the calls under way.
CatSubsKept == \A u \in Subs : HasRow(sub[u]) => /\ HasRow(sub'[u]) /\ (Alone(sub'[u]) => Alone(sub[u]))
                                                 /\ u \in orphans' => u \in orphans
CatKeysKept == \A k \in 1 .. Len(keys) : k \in 1 .. Len(keys') /\ keys'[k] = keys[k]
CatHoldersKept == \A p \in Prefixes : holders[p] \subseteq holders'[p]
CatRunsKept == \A b \in Admins : work[b].pc = "transition" =>
                TransitionGood(work[b], svc'[work[b].svc], versions'[work[b].svc], shown'[work[b].svc])

\* What was traced stays so.
LEMMA TracedKept ==
    ASSUME NEW x, NEW hold, NEW more, x.asked \in Prefixes, x.prefix \in Prefixes,
           Traced(x, hold), \A p \in Prefixes : hold[p] \subseteq more[p]
    PROVE  Traced(x, more)
BY DEF Traced

\* A step that leaves the other calls as they are keeps them good.
LEMMA CatWorkKept ==
    ASSUME CatInv, CatSubsKept, CatKeysKept, CatHoldersKept, CatRunsKept,
           \A b \in Admins : \/ work'[b] = work[b] \/ work'[b].pc = "idle"
                             \/ CatCallGood(work'[b], svc', versions', shown', holders', keys', sub', orphans')
    PROVE  WorkGood'
<1> SUFFICES ASSUME NEW b \in Admins, work'[b] = work[b]
             PROVE  CatCallGood(work[b], svc', versions', shown', holders', keys', sub', orphans')
  <2>1. ASSUME NEW b \in Admins, work'[b].pc = "idle"
        PROVE  CatCallGood(work'[b], svc', versions', shown', holders', keys', sub', orphans')
    BY <2>1 DEF CatCallGood
  <2> QED BY <2>1 DEF WorkGood
<1>1. CatCallGood(work[b], svc, versions, shown, holders, keys, sub, orphans)
  BY DEF CatInv, WorkGood
<1>2. /\ work[b].pc \in {"load", "user", "key"} => work[b] \in Reviews
      /\ work[b].pc = "version" => work[b] \in Draftings
      /\ work[b].pc = "approve" => work[b] \in Approvals
  BY CatShapes DEF CatInv
<1>3. work[b].pc = "version" => work[b].svc \in holders'[work[b].snap.prefix]
  <2>1. work[b].pc = "version" => work[b].snap.prefix \in Prefixes
    BY <1>2 DEF Draftings, Snaps
  <2> QED BY <1>1, <2>1 DEF CatCallGood, CatHoldersKept
<1>4. work[b].pc \in {"load", "user", "key"} => Traced(work[b], holders')
  <2>1. work[b].pc \in {"load", "user", "key"} => work[b].asked \in Prefixes /\ work[b].prefix \in Prefixes
    BY <1>2 DEF Reviews
  <2> QED BY <1>1, <2>1, TracedKept DEF CatCallGood, CatHoldersKept
<1>5. work[b].pc \in {"load", "user", "key", "approve"} => work[b].sub \in Subs
  BY <1>2 DEF Reviews, Approvals
<1>6. /\ work[b].pc = "load" => (Alone(sub'[work[b].sub]) => ~work[b].known)
      /\ work[b].pc \in {"load", "user", "key", "approve"} => HasRow(sub'[work[b].sub]) /\ work[b].sub \notin orphans'
  BY <1>1, <1>5 DEF CatCallGood, CatSubsKept
<1>7. work[b].pc = "approve" => work[b].key \in 1 .. Len(keys') /\ keys'[work[b].key].sub = work[b].sub
  BY <1>1 DEF CatCallGood, CatKeysKept
<1>8. work[b].pc = "load" => work[b].prefix = work[b].asked
  BY <1>1 DEF CatCallGood
<1> QED BY <1>3, <1>4, <1>6, <1>7, <1>8 DEF CatCallGood, CatRunsKept

\* The same where no service changes.
LEMMA RunsUnchanged ==
    ASSUME CatInv, UNCHANGED <<svc, versions, shown>>
    PROVE  CatRunsKept
BY DEF CatInv, WorkGood, CatCallGood, CatRunsKept

\* A step that adds no call past its user and no key keeps the approvals single.
LEMMA KeepOne ==
    ASSUME CatInv, keys' = keys, users' = users,
           \A u \in Subs : Single(u)' => Single(u) \/ ~HasRow(sub[u]),
           \A u \in Subs, a \in Admins : Single(u)' /\ Past(a, u)' => Past(a, u) /\ work'[a] = work[a]
    PROVE  OneApproval'
<1> SUFFICES ASSUME NEW u \in Subs, Single(u)'
             PROVE  /\ \A a \in Admins : Past(a, u)' => u \in users
                    /\ \A k \in 1 .. Len(keys) : keys[k].sub = u => u \in users
                    /\ \A a, b \in Admins : Past(a, u)' /\ Past(b, u)' => a = b
                    /\ \A a \in Admins : work'[a].pc = "key" /\ work'[a].sub = u => \A k \in 1 .. Len(keys) : keys[k].sub # u
                    /\ \A j, k \in 1 .. Len(keys) : keys[j].sub = u /\ keys[k].sub = u => j = k
  BY DEF OneApproval
<1>1. \A a \in Admins : work'[a].pc = "key" /\ work'[a].sub = u => work[a].pc = "key" /\ work[a].sub = u
  BY DEF Past
<1>2. CASE Single(u)
  BY <1>1, <1>2 DEF CatInv, OneApproval
<1>3. CASE ~HasRow(sub[u])
  <2>1. \A a \in Admins : ~Past(a, u)
    BY <1>3 DEF CatInv, WorkGood, CatCallGood, Past
  <2>2. \A k \in 1 .. Len(keys) : keys[k].sub # u
    BY <1>3 DEF CatInv, KeysGood
  <2> QED BY <1>1, <2>1, <2>2
<1> QED BY <1>2, <1>3

\* A step that ends no approval and adds no key leaves none behind.
LEMMA KeepNames ==
    ASSUME CatInv, keys' = keys, catFaults' \in Nat, catFaults' >= catFaults,
           \A a \in Admins : work[a].pc = "approve" => work'[a] = work[a],
           \A u \in Subs : HasRow(sub[u]) => \/ ~Open(u)'
                                             \/ Open(u) /\ sub'[u].key = sub[u].key /\ sub'[u].known = sub[u].known
    PROVE  NoKeyLeftBehind'
<1> SUFFICES ASSUME NEW k \in DOMAIN keys
             PROVE  \/ Open(keys[k].sub)' /\ sub'[keys[k].sub].key = k
                    \/ \E a \in Admins : work'[a].pc = "approve" /\ work'[a].key = k
                    \/ catFaults' > 0 \/ ~Open(keys[k].sub)' \/ sub'[keys[k].sub].known
  BY DEF NoKeyLeftBehind, Open
<1>1. keys[k].sub \in Subs /\ HasRow(sub[keys[k].sub])
  <2>1. keys \in Seq(KeyRecs) /\ k \in 1 .. Len(keys)
    BY DEF CatInv, CatTypes
  <2>2. keys[k] \in KeyRecs
    BY <2>1
  <2> QED BY <2>1, <2>2 DEF CatInv, KeyRecs, KeysGood
<1>2. catFaults > 0 => catFaults' > 0
  BY DEF CatInv, CatTypes
<1>3. \/ Open(keys[k].sub) /\ sub[keys[k].sub].key = k
      \/ \E a \in Admins : work[a].pc = "approve" /\ work[a].key = k
      \/ catFaults > 0 \/ ~Open(keys[k].sub) \/ sub[keys[k].sub].known
  BY DEF CatInv, NoKeyLeftBehind
<1> QED BY <1>1, <1>2, <1>3, Zenon

\* A call that begins, or a review that has found what is published.
LEMMA TakesWork ==
    ASSUME CatInv, NEW a \in Admins, NEW w \in Transitions \cup Draftings \cup Reviews,
           work[a].pc \in {"idle", "load"}, work' = [work EXCEPT ![a] = w],
           UNCHANGED <<svc, versions, sub, keys, users, catFaults, shown, holders, orphans>>,
           CatCallGood(w, svc, versions, shown, holders, keys, sub, orphans),
           w.pc = "key" => ~Alone(sub[w.sub])
    PROVE  CatInv'
<1>0. w.pc # "approve"
  BY DEF Transitions, Draftings, Reviews
<1>1. CatTypes'
  BY DEF CatInv, CatTypes, CatCalls
<1>2. RowsGood' /\ PrefixesDiffer'
  BY DEF CatInv, RowsGood, PrefixesDiffer
<1>3. work'[a] = w /\ \A b \in Admins : b # a => work'[b] = work[b]
  BY DEF CatInv, CatTypes
<1>4. WorkGood'
  <2>1. CatSubsKept /\ CatKeysKept /\ CatHoldersKept /\ CatRunsKept
    BY RunsUnchanged DEF CatSubsKept, CatKeysKept, CatHoldersKept
  <2>2. CatCallGood(work'[a], svc', versions', shown', holders', keys', sub', orphans')
    BY <1>3
  <2> QED BY <1>3, <2>1, <2>2, CatWorkKept
<1>5. KeysGood' /\ SubsGood'
  BY DEF CatInv, KeysGood, SubsGood, Open, Ended
<1>6. OneApproval'
  <2>1. \A u \in Subs : Single(u)' => Single(u)
    BY DEF Single, Alone
  <2>2. \A u \in Subs, b \in Admins : Single(u)' /\ Past(b, u)' => Past(b, u) /\ work'[b] = work[b]
    BY <1>0, <1>3 DEF Single, Alone, Past
  <2> QED BY <2>1, <2>2, KeepOne
<1>7. NoKeyLeftBehind'
  <2>1. \A b \in Admins : work[b].pc = "approve" => work'[b] = work[b]
    BY <1>3
  <2>2. \A u \in Subs : HasRow(sub[u]) => \/ ~Open(u)'
                                          \/ Open(u) /\ sub'[u].key = sub[u].key /\ sub'[u].known = sub[u].known
    BY DEF Open
  <2>3. catFaults' \in Nat /\ catFaults' >= catFaults
    BY DEF CatInv, CatTypes
  <2> QED BY <2>1, <2>2, <2>3, KeepNames
<1> QED BY <1>1, <1>2, <1>4, <1>5, <1>6, <1>7 DEF CatInv

LEMMA CatLoadTransition ==
    ASSUME CatInv, NEW a \in Admins, NEW s \in Services, NEW v, NEW mode \in {"published", "staged"},
           LoadTransition(a, s, v, mode)
    PROVE  CatInv'
<1> DEFINE w == [pc |-> "transition", svc |-> s, v |-> v, mode |-> mode, published |-> svc[s].published]
<1>1. versions[s] \in Seq(VerRecs) /\ svc[s].published \in Nat /\ v \in DOMAIN versions[s]
  BY CatShapes DEF CatInv, CatTypes, LoadTransition
<1>2. v \in 1 .. Len(versions[s]) /\ v \in Nat
  BY <1>1
<1>3. w \in Transitions
  BY <1>1, <1>2 DEF Transitions
<1>4. TransitionGood(w, svc[s], versions[s], shown[s])
  BY <1>2 DEF TransitionGood, CatInv, RowsGood, SvcGood, LoadTransition, Exists
<1>5. CatCallGood(w, svc, versions, shown, holders, keys, sub, orphans) /\ w.pc # "key"
  BY <1>4 DEF CatCallGood
<1>6. /\ work[a].pc = "idle" /\ work' = [work EXCEPT ![a] = w]
      /\ UNCHANGED <<svc, versions, sub, keys, users, catFaults, shown, holders, orphans>>
  BY DEF LoadTransition, catGhosts, NoWork
<1> HIDE DEF w
<1> QED BY <1>3, <1>5, <1>6, TakesWork

LEMMA CatPromote ==
    ASSUME CatInv, NEW a \in Admins, NEW s \in Services, PromoteStagedServiceVersion(a, s)
    PROVE  CatInv'
BY CatLoadTransition DEF PromoteStagedServiceVersion

LEMMA CatReadSnapshot ==
    ASSUME CatInv, NEW a \in Admins, NEW s \in Services, ReadSnapshot(a, s)
    PROVE  CatInv'
<1> DEFINE w == [pc |-> "version", svc |-> s, snap |-> Snapshot(svc[s])]
<1>1. svc[s] # NoService
  BY DEF ReadSnapshot, Exists
<1>2. svc[s] \in [prefix : Prefixes, enabled : BOOLEAN, surfaces : SurfaceSets, published : Nat, staged : Nat]
  BY <1>1 DEF CatInv, CatTypes, SvcRows
<1>3. Snapshot(svc[s]) \in Snaps /\ Snapshot(svc[s]).prefix = svc[s].prefix
  BY <1>2 DEF Snapshot, Snaps
<1>4. w \in Draftings
  BY <1>3 DEF Draftings
<1>5. s \in holders[svc[s].prefix]
  BY <1>1 DEF CatInv, RowsGood, SvcGood
<1>6. CatCallGood(w, svc, versions, shown, holders, keys, sub, orphans) /\ w.pc # "key"
  BY <1>3, <1>5 DEF CatCallGood
<1>7. /\ work[a].pc = "idle" /\ work' = [work EXCEPT ![a] = w]
      /\ UNCHANGED <<svc, versions, sub, keys, users, catFaults, shown, holders, orphans>>
  BY DEF ReadSnapshot, catCounts, catGhosts, NoWork
<1> HIDE DEF w
<1> QED BY <1>4, <1>6, <1>7, TakesWork

LEMMA CatStartApproval ==
    ASSUME CatInv, NEW a \in Admins, NEW u \in Subs, StartApproval(a, u)
    PROVE  CatInv'
<1> DEFINE s == sub[u].svc
           w == [pc |-> "load", sub |-> u, svc |-> s, known |-> sub[u].known, asked |-> svc[s].prefix,
                 prefix |-> svc[s].prefix]
<1>1. s \in Services /\ HasRow(sub[u]) /\ sub[u].known \in BOOLEAN /\ svc[s] # NoService /\ Open(u)
  BY CatShapes DEF CatInv, StartApproval, OpenSubs, Exists
<1>2. svc[s].prefix \in Prefixes
  BY <1>1, CatShapes DEF CatInv
<1>3. s \in holders[svc[s].prefix]
  BY <1>1 DEF CatInv, RowsGood, SvcGood
<1>4. u \notin orphans
  BY <1>1 DEF CatInv, SubsGood, Ended
<1>5. w \in Reviews
  BY <1>1, <1>2 DEF Reviews
<1>6. w.pc = "load" /\ w.sub = u /\ w.svc = s /\ w.asked = svc[s].prefix /\ w.prefix = svc[s].prefix
  OBVIOUS
<1>7. Alone(sub[u]) => ~w.known
  BY Zenon DEF Alone
<1>8. /\ work[a].pc = "idle" /\ work' = [work EXCEPT ![a] = w]
      /\ UNCHANGED <<svc, versions, sub, keys, users, catFaults, shown, holders, orphans>>
  BY DEF StartApproval, catGhosts, NoWork
<1> HIDE DEF w, s
<1>9. Traced(w, holders)
  BY <1>3, <1>6 DEF Traced
<1>10. CatCallGood(w, svc, versions, shown, holders, keys, sub, orphans)
  BY <1>1, <1>4, <1>6, <1>7, <1>9 DEF CatCallGood
<1> QED BY <1>5, <1>6, <1>8, <1>10, TakesWork

\* A call that ends without a key made or named.
LEMMA EndsWork ==
    ASSUME CatInv, NEW a \in Admins, work' = [work EXCEPT ![a] = NoWork],
           UNCHANGED <<svc, versions, sub, keys, users, shown, holders, orphans>>,
           catFaults' \in Nat, catFaults' >= catFaults, work[a].pc = "approve" => catFaults' > 0 \/ ~Open(work[a].sub)
    PROVE  CatInv'
<1>1. CatTypes'
  BY DEF CatInv, CatTypes, CatCalls
<1>2. RowsGood' /\ PrefixesDiffer'
  BY DEF CatInv, RowsGood, PrefixesDiffer
<1>3. work'[a] = NoWork /\ \A b \in Admins : b # a => work'[b] = work[b]
  BY DEF CatInv, CatTypes
<1>4. NoWork.pc = "idle"
  BY DEF NoWork
<1>5. WorkGood'
  <2>1. CatSubsKept /\ CatKeysKept /\ CatHoldersKept /\ CatRunsKept
    BY RunsUnchanged DEF CatSubsKept, CatKeysKept, CatHoldersKept
  <2> QED BY <1>3, <1>4, <2>1, CatWorkKept
<1>6. KeysGood' /\ SubsGood'
  BY DEF CatInv, KeysGood, SubsGood, Open, Ended
<1>7. OneApproval'
  <2>1. \A u \in Subs : Single(u)' => Single(u)
    BY DEF Single, Alone
  <2>2. \A u \in Subs, b \in Admins : Single(u)' /\ Past(b, u)' => Past(b, u) /\ work'[b] = work[b]
    BY <1>3, <1>4 DEF Past
  <2> QED BY <2>1, <2>2, KeepOne
<1>8. NoKeyLeftBehind'
  <2> SUFFICES ASSUME NEW k \in DOMAIN keys
               PROVE  \/ Open(keys[k].sub) /\ sub[keys[k].sub].key = k
                      \/ \E b \in Admins : work'[b].pc = "approve" /\ work'[b].key = k
                      \/ catFaults' > 0 \/ ~Open(keys[k].sub) \/ sub[keys[k].sub].known
    BY DEF NoKeyLeftBehind, Open
  <2>1. catFaults > 0 => catFaults' > 0
    BY DEF CatInv, CatTypes
  <2>2. \/ Open(keys[k].sub) /\ sub[keys[k].sub].key = k
        \/ \E b \in Admins : work[b].pc = "approve" /\ work[b].key = k
        \/ catFaults > 0 \/ ~Open(keys[k].sub) \/ sub[keys[k].sub].known
    BY DEF CatInv, NoKeyLeftBehind
  <2>3. work[a].pc = "approve" /\ work[a].key = k => keys[k].sub = work[a].sub
    BY DEF CatInv, WorkGood, CatCallGood
  <2> QED BY <1>3, <2>1, <2>2, <2>3, Zenon
<1> QED BY <1>1, <1>2, <1>5, <1>6, <1>7, <1>8 DEF CatInv

LEMMA CatLoadPublished ==
    ASSUME CatInv, NEW a \in Admins, LoadPublished(a)
    PROVE  CatInv'
<1>0. /\ work[a].pc = "load" /\ catFaults \in Nat
      /\ UNCHANGED <<svc, versions, sub, keys, users, catFaults, shown, holders, orphans>>
  BY DEF LoadPublished, catCounts, catGhosts, CatInv, CatTypes
<1>1. CASE work' = [work EXCEPT ![a] = NoWork]
  <2>1. catFaults' \in Nat /\ catFaults' >= catFaults /\ work[a].pc # "approve"
    BY <1>0
  <2> QED BY <1>0, <1>1, <2>1, EndsWork
<1>2. ASSUME NEW s \in Services, svc[s] # NoService, svc[s].prefix = work[a].prefix, ServedVersion(s),
             work' = [work EXCEPT ![a].pc = IF work[a].known THEN "key" ELSE "user",
                                  ![a].prefix = ServedSnapshot(s).prefix]
      PROVE  CatInv'
  <2>0. work[a] \in Reviews /\ work[a].sub \in Subs
    BY <1>0, CatShapes DEF CatInv, Reviews
  <2>1. svc[s].published \in 1 .. Len(versions[s]) /\ versions[s] \in Seq(VerRecs)
    BY <1>2 DEF ServedVersion, CatInv, CatTypes
  <2>2. versions[s][svc[s].published] \in VerRecs
    BY <2>1
  <2>3. ServedSnapshot(s).prefix \in Prefixes
    BY <2>2 DEF ServedSnapshot, VerRecs, Snaps
  <2>4. s \in holders[ServedSnapshot(s).prefix]
    BY <2>1 DEF CatInv, RowsGood, SvcGood, ServedSnapshot
  <2>5. s \in holders[work[a].prefix]
    BY <1>2 DEF CatInv, RowsGood, SvcGood
  <2>6. PICK w : w = [work[a] EXCEPT !.pc = IF work[a].known THEN "key" ELSE "user", !.prefix = ServedSnapshot(s).prefix]
    OBVIOUS
  <2>7. /\ w \in Reviews /\ w.pc \in {"user", "key"} /\ w.sub = work[a].sub /\ w.svc = work[a].svc
        /\ w.asked = work[a].asked /\ w.prefix = ServedSnapshot(s).prefix
    BY <2>0, <2>3, <2>6 DEF Reviews
  <2>8. w.pc = "key" => work[a].known
    BY <2>0, <2>6 DEF Reviews
  <2>9. work' = [work EXCEPT ![a] = w]
    BY <1>2, <2>6
  <2>10. CatCallGood(work[a], svc, versions, shown, holders, keys, sub, orphans)
    BY DEF CatInv, WorkGood
  <2>11. Traced(w, holders)
    BY <1>0, <2>4, <2>5, <2>7, <2>10 DEF CatCallGood, Traced
  <2>12. CatCallGood(w, svc, versions, shown, holders, keys, sub, orphans)
    BY <1>0, <2>7, <2>10, <2>11 DEF CatCallGood
  <2>13. w.pc = "key" => ~Alone(sub[w.sub])
    <3>1. Alone(sub[work[a].sub]) => ~work[a].known
      BY <1>0, <2>10 DEF CatCallGood
    <3> QED BY <2>7, <2>8, <3>1
  <2> QED BY <1>0, <2>7, <2>9, <2>12, <2>13, TakesWork
<1> QED BY <1>1, <1>2 DEF LoadPublished, loadServiceByPrefix, Exists

LEMMA CatCreateApprovedUser ==
    ASSUME CatInv, NEW a \in Admins, CreateApprovedUser(a)
    PROVE  CatInv'
<1> DEFINE u0 == work[a].sub
<1>0. work[a].pc = "user" /\ UNCHANGED <<svc, versions, sub, keys, catFaults, shown, holders, orphans>> /\ catFaults \in Nat
  BY DEF CreateApprovedUser, catCounts, catGhosts, CatInv, CatTypes
<1>1. CASE users' = users /\ work' = [work EXCEPT ![a] = NoWork]
  <2>1. catFaults' \in Nat /\ catFaults' >= catFaults
    BY <1>0
  <2>2. work[a].pc # "approve"
    BY <1>0
  <2> QED BY <1>0, <1>1, <2>1, <2>2, EndsWork
<1>2. CASE u0 \notin users /\ users' = users \cup {u0} /\ work' = [work EXCEPT ![a].pc = "key"]
  <2>0. work[a] \in Reviews /\ u0 \in Subs
    BY <1>0, CatShapes DEF CatInv, Reviews
  <2>1. PICK w : w = [work[a] EXCEPT !.pc = "key"]
    OBVIOUS
  <2>2. w \in Reviews /\ w.pc = "key" /\ w.sub = u0 /\ w.svc = work[a].svc /\ w.prefix = work[a].prefix
        /\ w.asked = work[a].asked
    BY <2>0, <2>1 DEF Reviews
  <2>3. work' = [work EXCEPT ![a] = w]
    BY <1>2, <2>1
  <2>4. work'[a] = w /\ \A b \in Admins : b # a => work'[b] = work[b]
    BY <2>3 DEF CatInv, CatTypes
  <2>5. CatTypes'
    BY <1>0, <1>2, <2>0, <2>2, <2>3 DEF CatInv, CatTypes, CatCalls
  <2>6. RowsGood' /\ PrefixesDiffer'
    BY <1>0 DEF CatInv, RowsGood, PrefixesDiffer
  <2>7. WorkGood'
    <3>1. CatSubsKept /\ CatKeysKept /\ CatHoldersKept /\ CatRunsKept
      BY <1>0, RunsUnchanged DEF CatSubsKept, CatKeysKept, CatHoldersKept
    <3>2. CatCallGood(work[a], svc, versions, shown, holders, keys, sub, orphans)
      BY DEF CatInv, WorkGood
    <3>3. CatCallGood(w, svc, versions, shown, holders, keys, sub, orphans)
      BY <1>0, <2>2, <3>2 DEF CatCallGood, Traced
    <3>4. CatCallGood(work'[a], svc', versions', shown', holders', keys', sub', orphans')
      BY <1>0, <2>4, <3>3
    <3> QED BY <2>4, <3>1, <3>4, CatWorkKept
  <2>8. KeysGood' /\ SubsGood'
    BY <1>0 DEF CatInv, KeysGood, SubsGood, Open, Ended
  <2>9. OneApproval'
    <3> SUFFICES ASSUME NEW u \in Subs, Single(u)'
                 PROVE  /\ \A b \in Admins : Past(b, u)' => u \in users'
                        /\ \A k \in 1 .. Len(keys) : keys[k].sub = u => u \in users'
                        /\ \A b, c \in Admins : Past(b, u)' /\ Past(c, u)' => b = c
                        /\ \A b \in Admins : work'[b].pc = "key" /\ work'[b].sub = u => \A k \in 1 .. Len(keys) : keys[k].sub # u
                        /\ \A j, k \in 1 .. Len(keys) : keys[j].sub = u /\ keys[k].sub = u => j = k
      BY <1>0 DEF OneApproval
    <3>1. Single(u)
      BY <1>0 DEF Single, Alone
    <3>2. CASE u = u0
      <4>1. \A b \in Admins : ~Past(b, u)
        BY <1>2, <3>1, <3>2 DEF CatInv, OneApproval
      <4>2. \A k \in 1 .. Len(keys) : keys[k].sub # u
        BY <1>2, <3>1, <3>2 DEF CatInv, OneApproval
      <4>3. \A b \in Admins : Past(b, u)' => b = a
        BY <2>4, <4>1 DEF Past
      <4> QED BY <1>2, <3>2, <4>2, <4>3
    <3>3. CASE u # u0
      <4>1. \A b \in Admins : Past(b, u)' => Past(b, u) /\ work'[b] = work[b]
        BY <2>2, <2>4, <3>3 DEF Past
      <4>2. \A b \in Admins : work'[b].pc = "key" /\ work'[b].sub = u => work[b].pc = "key" /\ work[b].sub = u
        BY <4>1 DEF Past
      <4> QED BY <1>2, <3>1, <4>1, <4>2 DEF CatInv, OneApproval
    <3> QED BY <3>2, <3>3
  <2>10. NoKeyLeftBehind'
    <3>1. \A b \in Admins : work[b].pc = "approve" => work'[b] = work[b]
      BY <1>0, <2>4
    <3>2. \A u \in Subs : HasRow(sub[u]) => \/ ~Open(u)'
                                            \/ Open(u) /\ sub'[u].key = sub[u].key /\ sub'[u].known = sub[u].known
      BY <1>0 DEF Open
    <3>3. catFaults' \in Nat /\ catFaults' >= catFaults
      BY <1>0
    <3> QED BY <1>0, <3>1, <3>2, <3>3, KeepNames
  <2> QED BY <2>5, <2>6, <2>7, <2>8, <2>9, <2>10 DEF CatInv
<1> QED BY <1>1, <1>2 DEF CreateApprovedUser, Taken

LEMMA CatCreateApprovedKey ==
    ASSUME CatInv, NEW a \in Admins, NEW ok \in BOOLEAN, CreateApprovedKey(a, ok)
    PROVE  CatInv'
<1> DEFINE u0 == work[a].sub
<1>0. work[a].pc = "key" /\ UNCHANGED <<svc, versions, sub, users, shown, holders, orphans>> /\ catFaults \in Nat
  BY DEF CreateApprovedKey, catGhosts, CatInv, CatTypes
<1>1. CASE ~ok
  <2>1. keys' = keys /\ work' = [work EXCEPT ![a] = NoWork] /\ catFaults' = catFaults + 1
    BY <1>1 DEF CreateApprovedKey
  <2>2. catFaults' \in Nat /\ catFaults' >= catFaults
    BY <1>0, <2>1
  <2>3. work[a].pc # "approve"
    BY <1>0
  <2> QED BY <1>0, <2>1, <2>2, <2>3, EndsWork
<1>2. CASE ok
  <2>0. work[a] \in Reviews /\ u0 \in Subs /\ work[a].svc \in Services /\ work[a].prefix \in Prefixes
        /\ work[a].asked \in Prefixes
    BY <1>0, CatShapes DEF CatInv, Reviews
  <2>1. PICK n : n = [prefix |-> work[a].prefix, sub |-> u0, svc |-> work[a].svc, asked |-> work[a].asked]
    OBVIOUS
  <2>2. PICK w : w = [pc |-> "approve", sub |-> u0, key |-> Len(keys) + 1]
    OBVIOUS
  <2>3. keys' = Append(keys, n) /\ work' = [work EXCEPT ![a] = w] /\ catFaults' = catFaults
    BY <1>2, <2>1, <2>2 DEF CreateApprovedKey
  <2>4. n \in KeyRecs /\ n.prefix = work[a].prefix /\ n.sub = u0 /\ n.svc = work[a].svc /\ n.asked = work[a].asked
    BY <2>0, <2>1 DEF KeyRecs
  <2>5. keys \in Seq(KeyRecs) /\ Len(keys) \in Nat
    BY DEF CatInv, CatTypes
  <2>6. w \in Approvals /\ w.pc = "approve" /\ w.sub = u0 /\ w.key = Len(keys) + 1
    BY <2>0, <2>2, <2>5 DEF Approvals
  <2>7. work'[a] = w /\ \A b \in Admins : b # a => work'[b] = work[b]
    BY <2>3 DEF CatInv, CatTypes
  <2>8. /\ keys' \in Seq(KeyRecs) /\ Len(keys') = Len(keys) + 1 /\ keys'[Len(keys) + 1] = n
        /\ \A k \in 1 .. Len(keys) : keys'[k] = keys[k]
    BY <2>3, <2>4, <2>5
  <2>9. \A k \in 1 .. Len(keys') : k \in 1 .. Len(keys) \/ k = Len(keys) + 1
    BY <2>5, <2>8
  <2>10. CatTypes'
    BY <1>0, <2>3, <2>6, <2>8 DEF CatInv, CatTypes, CatCalls
  <2>11. RowsGood' /\ PrefixesDiffer'
    BY <1>0 DEF CatInv, RowsGood, PrefixesDiffer
  <2>12. HasRow(sub[u0]) /\ u0 \notin orphans /\ Traced(work[a], holders)
    BY <1>0 DEF CatInv, WorkGood, CatCallGood
  <2>13. WorkGood'
    <3>1. CatKeysKept
      BY <2>5, <2>8 DEF CatKeysKept
    <3>2. CatSubsKept /\ CatHoldersKept /\ CatRunsKept
      BY <1>0, RunsUnchanged DEF CatSubsKept, CatHoldersKept
    <3>3. Len(keys) + 1 \in 1 .. Len(keys')
      BY <2>5, <2>8
    <3>4. CatCallGood(w, svc, versions, shown, holders, keys', sub, orphans)
      BY <2>4, <2>6, <2>8, <2>12, <3>3 DEF CatCallGood
    <3>5. CatCallGood(work'[a], svc', versions', shown', holders', keys', sub', orphans')
      BY <1>0, <2>7, <3>4
    <3> QED BY <2>7, <3>1, <3>2, <3>5, CatWorkKept
  <2>14. KeysGood'
    <3>1. Traced(n, holders)
      BY <2>4, <2>12 DEF Traced
    <3> QED BY <1>0, <2>4, <2>8, <2>9, <2>12, <3>1 DEF CatInv, KeysGood
  <2>15. SubsGood'
    <3>1. 0 .. Len(keys) \subseteq 0 .. Len(keys')
      BY <2>5, <2>8
    <3> QED BY <1>0, <3>1 DEF CatInv, SubsGood, Open, Ended
  <2>16. OneApproval'
    <3> SUFFICES ASSUME NEW u \in Subs, Single(u)'
                 PROVE  /\ \A b \in Admins : Past(b, u)' => u \in users
                        /\ \A k \in 1 .. Len(keys') : keys'[k].sub = u => u \in users
                        /\ \A b, c \in Admins : Past(b, u)' /\ Past(c, u)' => b = c
                        /\ \A b \in Admins : work'[b].pc = "key" /\ work'[b].sub = u => \A k \in 1 .. Len(keys') : keys'[k].sub # u
                        /\ \A j, k \in 1 .. Len(keys') : keys'[j].sub = u /\ keys'[k].sub = u => j = k
      BY <1>0 DEF OneApproval
    <3>1. Single(u)
      BY <1>0 DEF Single, Alone
    <3>2. \A b \in Admins : Past(b, u)' => Past(b, u)
      BY <1>0, <2>6, <2>7 DEF Past
    <3>3. Past(a, u0)
      BY <1>0 DEF Past
    <3>4. u = u0 => \A k \in 1 .. Len(keys) : keys[k].sub # u
      BY <1>0, <3>1 DEF CatInv, OneApproval
    <3>5. u = u0 => u \in users
      BY <3>1, <3>3 DEF CatInv, OneApproval
    <3>6. ASSUME NEW b \in Admins, work'[b].pc = "key", work'[b].sub = u
          PROVE  u # u0 /\ \A k \in 1 .. Len(keys) : keys[k].sub # u
      <4>1. b # a /\ work[b].pc = "key" /\ work[b].sub = u
        BY <2>6, <2>7, <3>6
      <4>2. Past(b, u)
        BY <4>1 DEF Past
      <4>3. u # u0
        BY <3>1, <3>3, <4>1, <4>2 DEF CatInv, OneApproval
      <4> QED BY <3>1, <4>1, <4>3 DEF CatInv, OneApproval
    <3>7. /\ \A b \in Admins : Past(b, u) => u \in users
          /\ \A k \in 1 .. Len(keys) : keys[k].sub = u => u \in users
          /\ \A b, c \in Admins : Past(b, u) /\ Past(c, u) => b = c
          /\ \A j, k \in 1 .. Len(keys) : keys[j].sub = u /\ keys[k].sub = u => j = k
      BY <3>1 DEF CatInv, OneApproval
    <3>8. \A k \in 1 .. Len(keys') : keys'[k].sub = u => \/ k \in 1 .. Len(keys) /\ keys[k].sub = u
                                                         \/ k = Len(keys) + 1 /\ u = u0
      BY <2>4, <2>8, <2>9
    <3>9. \A k \in 1 .. Len(keys') : keys'[k].sub = u => u \in users
      BY <3>5, <3>7, <3>8
    <3>10. \A j, k \in 1 .. Len(keys') : keys'[j].sub = u /\ keys'[k].sub = u => j = k
      BY <3>4, <3>7, <3>8
    <3>11. \A b \in Admins : work'[b].pc = "key" /\ work'[b].sub = u => \A k \in 1 .. Len(keys') : keys'[k].sub # u
      BY <3>6, <3>8
    <3> QED BY <3>2, <3>7, <3>9, <3>10, <3>11
  <2>17. NoKeyLeftBehind'
    <3> SUFFICES ASSUME NEW k \in DOMAIN keys'
                 PROVE  \/ Open(keys'[k].sub) /\ sub[keys'[k].sub].key = k
                        \/ \E b \in Admins : work'[b].pc = "approve" /\ work'[b].key = k
                        \/ catFaults > 0 \/ ~Open(keys'[k].sub) \/ sub[keys'[k].sub].known
      BY <1>0, <2>3 DEF NoKeyLeftBehind, Open
    <3>1. CASE k = Len(keys) + 1
      BY <2>6, <2>7, <3>1
    <3>2. CASE k \in 1 .. Len(keys)
      <4>1. k \in DOMAIN keys /\ keys'[k] = keys[k]
        BY <2>5, <2>8, <3>2
      <4>2. \/ Open(keys[k].sub) /\ sub[keys[k].sub].key = k
            \/ \E b \in Admins : work[b].pc = "approve" /\ work[b].key = k
            \/ catFaults > 0 \/ ~Open(keys[k].sub) \/ sub[keys[k].sub].known
        BY <4>1 DEF CatInv, NoKeyLeftBehind
      <4>3. \A b \in Admins : work[b].pc = "approve" => work'[b] = work[b]
        BY <1>0, <2>7
      <4> QED BY <4>1, <4>2, <4>3
    <3>3. k \in 1 .. Len(keys')
      BY <2>8
    <3> QED BY <2>9, <3>1, <3>2, <3>3
  <2> QED BY <2>10, <2>11, <2>13, <2>14, <2>15, <2>16, <2>17 DEF CatInv
<1> QED BY <1>1, <1>2

LEMMA CatApprove ==
    ASSUME CatInv, NEW a \in Admins, NEW ok \in BOOLEAN, Approve(a, ok)
    PROVE  CatInv'
<1> DEFINE u0 == work[a].sub
           k0 == work[a].key
<1>0. /\ work[a].pc = "approve" /\ work' = [work EXCEPT ![a] = NoWork]
      /\ UNCHANGED <<svc, versions, keys, users, shown, holders, orphans>> /\ catFaults \in Nat
  BY DEF Approve, catGhosts, CatInv, CatTypes
<1>1. CASE ~ok
  <2>1. sub' = sub /\ catFaults' = catFaults + 1
    BY <1>1 DEF Approve
  <2>2. catFaults' \in Nat /\ catFaults' >= catFaults /\ catFaults' > 0
    BY <1>0, <2>1
  <2> QED BY <1>0, <2>1, <2>2, EndsWork
<1>2. CASE ok /\ ~Open(u0)
  <2>1. sub' = sub /\ catFaults' = catFaults
    BY <1>2 DEF Approve
  <2>2. catFaults' \in Nat /\ catFaults' >= catFaults
    BY <1>0, <2>1
  <2> QED BY <1>0, <1>2, <2>1, <2>2, EndsWork
<1>3. CASE ok /\ Open(u0)
  <2>0. u0 \in Subs /\ k0 \in Nat /\ k0 \in 1 .. Len(keys) /\ keys[k0].sub = u0 /\ u0 \notin orphans
    BY <1>0, CatShapes DEF CatInv, Approvals, WorkGood, CatCallGood
  <2>1. sub[u0] \in OpenSubs /\ HasRow(sub[u0])
    BY <1>3, <2>0, CatShapes DEF CatInv
  <2>2. PICK n : n = [sub[u0] EXCEPT !.status = "approved", !.key = k0]
    OBVIOUS
  <2>3. n \in OpenSubs /\ n.status = "approved" /\ n.key = k0 /\ n.svc = sub[u0].svc
    BY <2>0, <2>1, <2>2 DEF OpenSubs
  <2>3a. n.known = sub[u0].known
    BY <2>1, <2>2, Zenon DEF OpenSubs
  <2>4. sub' = [sub EXCEPT ![u0] = n] /\ catFaults' = catFaults
    BY <1>3, <2>2 DEF Approve
  <2>5. sub'[u0] = n /\ \A u \in Subs : u # u0 => sub'[u] = sub[u]
    BY <2>0, <2>4 DEF CatInv, CatTypes
  <2>6. HasRow(n)
    BY <2>3 DEF HasRow
  <2>7. \A u \in Subs : (Open(u)' <=> Open(u)) /\ (HasRow(sub[u]) => HasRow(sub'[u]))
    BY <1>3, <2>3, <2>5, <2>6 DEF Open
  <2>8. work'[a] = NoWork /\ \A b \in Admins : b # a => work'[b] = work[b]
    BY <1>0 DEF CatInv, CatTypes
  <2>9. NoWork.pc = "idle"
    BY DEF NoWork
  <2>10. CatTypes'
    BY <1>0, <2>0, <2>3, <2>4 DEF CatInv, CatTypes, SubRecs, CatCalls
  <2>11. RowsGood' /\ PrefixesDiffer'
    BY <1>0 DEF CatInv, RowsGood, PrefixesDiffer
  <2>12. WorkGood'
    <3>1. \A u \in Subs : Alone(sub'[u]) => Alone(sub[u])
      <4>1. Alone(n) => Alone(sub[u0])
        BY <1>3, <2>3a, Zenon DEF Alone, Open
      <4> QED BY <2>5, <4>1
    <3>2. CatSubsKept
      BY <1>0, <2>7, <3>1 DEF CatSubsKept
    <3>3. CatKeysKept /\ CatHoldersKept /\ CatRunsKept
      BY <1>0, RunsUnchanged DEF CatKeysKept, CatHoldersKept
    <3> QED BY <2>8, <2>9, <3>2, <3>3, CatWorkKept
  <2>13. \A k \in 1 .. Len(keys) : keys[k].sub \in Subs /\ HasRow(sub[keys[k].sub]) /\ Traced(keys[k], holders)
    <3>1. \A k \in 1 .. Len(keys) : keys[k] \in KeyRecs
      BY DEF CatInv, CatTypes
    <3> QED BY <3>1 DEF CatInv, KeysGood, KeyRecs
  <2>14. KeysGood'
    BY <1>0, <2>7, <2>13 DEF KeysGood
  <2>15. SubsGood'
    <3>1. svc[n.svc] # NoService /\ n.key \in 0 .. Len(keys) /\ n.status # "asked"
      BY <1>3, <2>0, <2>3 DEF CatInv, SubsGood
    <3>2. \A u \in Subs : u # u0 => (Open(u)' <=> Open(u))
      BY <2>7
    <3>4. \A u \in Subs : u # u0 => /\ u \in orphans => HasRow(sub[u])
                                    /\ sub[u].status = "asked" => svc[sub[u].svc] # NoService \/ Ended(sub[u].svc)
                                    /\ Open(u) => sub[u].key \in 0 .. Len(keys)
                                    /\ Open(u) /\ u \notin orphans => svc[sub[u].svc] # NoService
                                    /\ Open(u) /\ u \in orphans => sub[u].key = 0 /\ Ended(sub[u].svc)
      BY DEF CatInv, SubsGood
    <3> QED BY <1>0, <2>0, <2>5, <2>7, <3>1, <3>2, <3>4 DEF SubsGood, Ended
  <2>16. OneApproval'
    <3>1. \A u \in Subs : Single(u)' => Single(u)
      <4>1. Alone(n) => Alone(sub[u0])
        BY <1>3, <2>3a, Zenon DEF Alone, Open
      <4> QED BY <2>5, <4>1 DEF Single
    <3>2. \A u \in Subs, b \in Admins : Single(u)' /\ Past(b, u)' => Past(b, u) /\ work'[b] = work[b]
      BY <2>8, <2>9 DEF Past
    <3> QED BY <1>0, <3>1, <3>2, KeepOne
  <2>17. NoKeyLeftBehind'
    <3> SUFFICES ASSUME NEW k \in 1 .. Len(keys)
                 PROVE  \/ Open(keys[k].sub) /\ sub'[keys[k].sub].key = k
                        \/ \E b \in Admins : work'[b].pc = "approve" /\ work'[b].key = k
                        \/ catFaults > 0 \/ ~Open(keys[k].sub) \/ sub'[keys[k].sub].known
      <4>1. DOMAIN keys = 1 .. Len(keys)
        BY DEF CatInv, CatTypes
      <4> QED BY <1>0, <2>4, <2>7, <2>13, <4>1 DEF NoKeyLeftBehind, Open
    <3>1. k \in DOMAIN keys
      BY DEF CatInv, CatTypes
    <3>2. \/ Open(keys[k].sub) /\ sub[keys[k].sub].key = k
          \/ \E b \in Admins : work[b].pc = "approve" /\ work[b].key = k
          \/ catFaults > 0 \/ ~Open(keys[k].sub) \/ sub[keys[k].sub].known
      BY <3>1 DEF CatInv, NoKeyLeftBehind
    <3>3. CASE keys[k].sub = u0
      <4>1. ~sub[u0].known => k = k0
        BY <1>3, <2>0, <3>3 DEF CatInv, OneApproval, Single, Alone, Open
      <4> QED BY <1>3, <2>3, <2>3a, <2>5, <3>3, <4>1, Zenon
    <3>4. CASE keys[k].sub # u0
      <4>1. sub'[keys[k].sub] = sub[keys[k].sub]
        BY <2>5, <2>13, <3>4
      <4>2. \A b \in Admins : work[b].pc = "approve" /\ work[b].key = k => b # a
        BY <2>0, <3>4
      <4> QED BY <2>8, <3>2, <4>1, <4>2, Zenon
    <3> QED BY <3>3, <3>4
  <2> QED BY <2>10, <2>11, <2>12, <2>14, <2>15, <2>16, <2>17 DEF CatInv
<1> QED BY <1>1, <1>2, <1>3

\* A step of one subscription that names no key.
LEMMA ChangesSub ==
    ASSUME CatInv, NEW u0 \in Subs, NEW n \in SubRecs, sub' = [sub EXCEPT ![u0] = n],
           UNCHANGED <<svc, versions, keys, users, work, catFaults, shown, holders>>, orphans' \subseteq Subs,
           HasRow(sub[u0]) => HasRow(n) /\ (Alone(n) => Alone(sub[u0])) /\ (u0 \in orphans' => u0 \in orphans),
           Open(u0) => n.key = sub[u0].key /\ n.known = sub[u0].known,
           HasRow(sub[u0]) => Open(u0),
           \A u \in Subs : u # u0 => (u \in orphans' <=> u \in orphans),
           u0 \in orphans' => HasRow(n),
           n.status = "asked" => svc[n.svc] # NoService \/ Ended(n.svc),
           n.status \in {"pending", "approved", "rejected"} =>
               /\ n.key \in 0 .. Len(keys)
               /\ u0 \notin orphans' => svc[n.svc] # NoService
               /\ u0 \in orphans' => n.key = 0 /\ Ended(n.svc)
    PROVE  CatInv'
<1>1. CatTypes'
  BY DEF CatInv, CatTypes
<1>2. sub'[u0] = n /\ \A u \in Subs : u # u0 => sub'[u] = sub[u]
  BY DEF CatInv, CatTypes
<1>3. CatSubsKept
  BY <1>2 DEF CatSubsKept
<1>4. RowsGood' /\ PrefixesDiffer'
  BY DEF CatInv, RowsGood, PrefixesDiffer
<1>5. WorkGood'
  <2>1. CatKeysKept /\ CatHoldersKept /\ CatRunsKept
    BY RunsUnchanged DEF CatKeysKept, CatHoldersKept
  <2> QED BY <1>3, <2>1, CatWorkKept
<1>6. KeysGood'
  <2>1. \A k \in 1 .. Len(keys) : keys[k] \in KeyRecs
    BY DEF CatInv, CatTypes
  <2>2. \A k \in 1 .. Len(keys) : keys[k].sub \in Subs
    BY <2>1 DEF KeyRecs
  <2> QED BY <1>3, <2>2 DEF CatInv, KeysGood, CatSubsKept
<1>7. SubsGood'
  <2> SUFFICES ASSUME NEW u \in Subs
               PROVE  /\ u \in orphans' => HasRow(sub'[u])
                      /\ sub'[u].status = "asked" => svc[sub'[u].svc] # NoService \/ Ended(sub'[u].svc)
                      /\ Open(u)' => sub'[u].key \in 0 .. Len(keys)
                      /\ Open(u)' /\ u \notin orphans' => svc[sub'[u].svc] # NoService
                      /\ Open(u)' /\ u \in orphans' => sub'[u].key = 0 /\ Ended(sub'[u].svc)
    BY DEF SubsGood, Ended
  <2>1. CASE u = u0
    BY <1>2, <2>1 DEF Open
  <2>2. CASE u # u0
    <3>1. sub'[u] = sub[u] /\ (Open(u)' <=> Open(u)) /\ (u \in orphans' <=> u \in orphans)
      BY <1>2, <2>2 DEF Open
    <3> QED BY <3>1 DEF CatInv, SubsGood
  <2> QED BY <2>1, <2>2
<1>8. OneApproval'
  <2>1. \A u \in Subs : Single(u)' => Single(u) \/ ~HasRow(sub[u])
    BY <1>2, <1>3 DEF Single, CatSubsKept
  <2>2. \A u \in Subs, b \in Admins : Single(u)' /\ Past(b, u)' => Past(b, u) /\ work'[b] = work[b]
    BY DEF Past
  <2> QED BY <2>1, <2>2, KeepOne
<1>9. NoKeyLeftBehind'
  <2>1. \A b \in Admins : work[b].pc = "approve" => work'[b] = work[b]
    OBVIOUS
  <2>2. \A u \in Subs : HasRow(sub[u]) => \/ ~Open(u)'
                                          \/ Open(u) /\ sub'[u].key = sub[u].key /\ sub'[u].known = sub[u].known
    BY <1>2 DEF Open
  <2>3. catFaults' \in Nat /\ catFaults' >= catFaults
    BY DEF CatInv, CatTypes
  <2> QED BY <2>1, <2>2, <2>3, KeepNames
<1> QED BY <1>1, <1>4, <1>5, <1>6, <1>7, <1>8, <1>9 DEF CatInv

LEMMA CatAskSubscription ==
    ASSUME CatInv, NEW u \in Subs, NEW s \in Services, NEW surf \in {{}, {"responses"}}, NEW seen \in BOOLEAN,
           AskSubscription(u, s, surf, seen)
    PROVE  CatInv'
<1>1. PICK n : n = [status |-> "asked", svc |-> s, surfaces |-> surf, known |-> seen, key |-> 0]
  OBVIOUS
<1>2. n \in SubRecs /\ n.svc = s /\ n.status = "asked"
  BY <1>1 DEF SubRecs, AskedSubs
<1>3. sub' = [sub EXCEPT ![u] = n] /\ sub[u] = NoSub /\ svc[s] # NoService
  BY <1>1 DEF AskSubscription, Exists
<1>4. UNCHANGED <<svc, versions, keys, users, work, catFaults, shown, holders, orphans>> /\ orphans \subseteq Subs
  BY DEF AskSubscription, catCounts, catGhosts, CatInv, CatTypes
<1>5. ~HasRow(sub[u]) /\ ~Open(u) /\ u \notin orphans
  BY <1>3 DEF HasRow, Open, NoSub, CatInv, SubsGood
<1> QED BY <1>2, <1>3, <1>4, <1>5, ChangesSub

LEMMA CatCreateSubscription ==
    ASSUME CatInv, NEW u \in Subs, CreateServiceSubscription(u)
    PROVE  CatInv'
<1>0. sub[u].status = "asked" /\ sub[u] \in AskedSubs
  BY CatShapes DEF CatInv, CreateServiceSubscription
<1>1. PICK n : n = [sub[u] EXCEPT !.status = "pending"]
  OBVIOUS
<1>2. n \in OpenSubs /\ n.svc = sub[u].svc /\ n.key = 0 /\ n.status = "pending"
  BY <1>0, <1>1 DEF AskedSubs, OpenSubs
<1>3. sub' = [sub EXCEPT ![u] = n] /\ n \in SubRecs
  BY <1>1, <1>2 DEF CreateServiceSubscription, SubRecs
<1>4. UNCHANGED <<svc, versions, keys, users, work, catFaults, shown, holders>> /\ orphans \subseteq Subs
  BY DEF CreateServiceSubscription, catCounts, CatInv, CatTypes
<1>5. ~HasRow(sub[u]) /\ ~Open(u)
  BY <1>0 DEF HasRow, Open
<1>6. svc[sub[u].svc] # NoService \/ Ended(sub[u].svc)
  BY <1>0 DEF CatInv, SubsGood
<1>7. 0 \in 0 .. Len(keys)
  BY DEF CatInv, CatTypes
<1>10. HasRow(n)
  BY <1>2 DEF HasRow
<1>8. CASE svc[sub[u].svc] # NoService
  <2>1. orphans' = orphans
    BY <1>8 DEF CreateServiceSubscription, Exists
  <2>2. u \notin orphans
    BY <1>5 DEF CatInv, SubsGood
  <2> QED BY <1>2, <1>3, <1>4, <1>5, <1>7, <1>8, <1>10, <2>1, <2>2, ChangesSub
<1>9. CASE svc[sub[u].svc] = NoService
  <2>1. orphans' = orphans \cup {u}
    BY <1>9 DEF CreateServiceSubscription, Exists
  <2> QED BY <1>2, <1>3, <1>4, <1>5, <1>6, <1>7, <1>9, <1>10, <2>1, ChangesSub
<1> QED BY <1>8, <1>9

LEMMA CatReject ==
    ASSUME CatInv, NEW u \in Subs, Reject(u)
    PROVE  CatInv'
<1>0. Open(u) /\ sub[u] \in OpenSubs /\ HasRow(sub[u])
  BY CatShapes DEF CatInv, Reject
<1>1. PICK n : n = [sub[u] EXCEPT !.status = "rejected"]
  OBVIOUS
<1>2. n \in OpenSubs /\ n.svc = sub[u].svc /\ n.key = sub[u].key /\ n.status = "rejected"
  BY <1>0, <1>1 DEF OpenSubs
<1>3. n.known = sub[u].known
  BY <1>0, <1>1, Zenon DEF OpenSubs
<1>4. sub' = [sub EXCEPT ![u] = n] /\ n \in SubRecs
  BY <1>1, <1>2 DEF Reject, SubRecs
<1>5. UNCHANGED <<svc, versions, keys, users, work, catFaults, shown, holders, orphans>> /\ orphans \subseteq Subs
  BY DEF Reject, catGhosts, CatInv, CatTypes
<1>6. HasRow(n)
  BY <1>2 DEF HasRow
<1>7. Alone(n) => Alone(sub[u])
  BY <1>0, <1>3, Zenon DEF Alone, Open
<1>8. /\ n.key \in 0 .. Len(keys)
      /\ u \notin orphans => svc[n.svc] # NoService
      /\ u \in orphans => n.key = 0 /\ Ended(n.svc)
  BY <1>0, <1>2 DEF CatInv, SubsGood
<1> QED BY <1>0, <1>2, <1>3, <1>4, <1>5, <1>6, <1>7, <1>8, ChangesSub

\* A step of a service, with its subscriptions or a call, once its rows are known to be good.
LEMMA ServiceStep ==
    ASSUME CatInv, CatTypes', RowsGood', PrefixesDiffer', keys' = keys, users' = users, catFaults' >= catFaults,
           orphans' = orphans, CatHoldersKept, CatRunsKept,
           \A u \in Subs : sub'[u] = sub[u] \/ (Open(u) /\ sub'[u] = [status |-> "gone"]),
           \A a \in Admins : work'[a] = work[a] \/ (work'[a] = NoWork /\ work[a].pc \in {"transition", "version"}),
           \A r \in Services : Ended(r) => Ended(r)',
           \A r \in Services : svc[r] # NoService => svc'[r] # NoService \/ Ended(r)',
           \A u \in Subs : Open(u)' /\ svc[sub[u].svc] # NoService => svc'[sub[u].svc] # NoService
    PROVE  CatInv'
<1>0. NoWork.pc = "idle" /\ [status |-> "gone"].status = "gone" /\ HasRow([status |-> "gone"])
  BY DEF NoWork, HasRow
<1>1. \A u \in Subs : /\ Open(u)' => Open(u) /\ sub'[u] = sub[u]
                      /\ HasRow(sub[u]) => HasRow(sub'[u])
                      /\ Alone(sub'[u]) => Alone(sub[u])
                      /\ sub'[u].status = "asked" => sub'[u] = sub[u]
  BY <1>0 DEF Open, Alone
<1>2. \A k \in 1 .. Len(keys) : keys[k].sub \in Subs /\ keys[k].prefix \in Prefixes /\ keys[k].asked \in Prefixes
  <2>1. \A k \in 1 .. Len(keys) : keys[k] \in KeyRecs
    BY DEF CatInv, CatTypes
  <2> QED BY <2>1 DEF KeyRecs
<1>3. WorkGood'
  <2>1. CatSubsKept /\ CatKeysKept
    BY <1>1 DEF CatSubsKept, CatKeysKept
  <2> QED BY <1>0, <2>1, CatWorkKept
<1>4. KeysGood'
  <2>1. ASSUME NEW k \in 1 .. Len(keys) PROVE Traced(keys[k], holders') /\ HasRow(sub'[keys[k].sub])
    <3>1. Traced(keys[k], holders) /\ HasRow(sub[keys[k].sub])
      BY DEF CatInv, KeysGood
    <3>2. Traced(keys[k], holders')
      BY <1>2, <3>1, TracedKept DEF CatHoldersKept
    <3> QED BY <1>1, <1>2, <3>1, <3>2
  <2> QED BY <2>1 DEF KeysGood
<1>5. SubsGood'
  <2> SUFFICES ASSUME NEW u \in Subs
               PROVE  /\ u \in orphans => HasRow(sub'[u])
                      /\ sub'[u].status = "asked" => svc'[sub'[u].svc] # NoService \/ Ended(sub[u].svc)'
                      /\ Open(u)' => sub'[u].key \in 0 .. Len(keys)
                      /\ Open(u)' /\ u \notin orphans => svc'[sub'[u].svc] # NoService
                      /\ Open(u)' /\ u \in orphans => sub'[u].key = 0 /\ Ended(sub[u].svc)'
    BY DEF SubsGood, Ended
  <2>1. /\ u \in orphans => HasRow(sub[u])
        /\ sub[u].status = "asked" => svc[sub[u].svc] # NoService \/ Ended(sub[u].svc)
        /\ Open(u) => sub[u].key \in 0 .. Len(keys)
        /\ Open(u) /\ u \notin orphans => svc[sub[u].svc] # NoService
        /\ Open(u) /\ u \in orphans => sub[u].key = 0 /\ Ended(sub[u].svc)
    BY DEF CatInv, SubsGood
  <2>2. Open(u) \/ sub[u].status = "asked" => sub[u].svc \in Services
    BY CatShapes DEF CatInv
  <2> QED BY <1>1, <2>1, <2>2 DEF Ended
<1>6. OneApproval'
  <2>1. \A u \in Subs : Single(u)' => Single(u)
    BY <1>1 DEF Single
  <2>2. \A u \in Subs, b \in Admins : Single(u)' /\ Past(b, u)' => Past(b, u) /\ work'[b] = work[b]
    BY <1>0 DEF Past
  <2> QED BY <2>1, <2>2, KeepOne
<1>7. NoKeyLeftBehind'
  <2>1. \A b \in Admins : work[b].pc = "approve" => work'[b] = work[b]
    OBVIOUS
  <2>2. \A u \in Subs : HasRow(sub[u]) => \/ ~Open(u)'
                                          \/ Open(u) /\ sub'[u].key = sub[u].key /\ sub'[u].known = sub[u].known
    BY <1>1
  <2>3. catFaults' \in Nat
    BY DEF CatTypes
  <2> QED BY <2>1, <2>2, <2>3, KeepNames
<1> QED BY <1>3, <1>4, <1>5, <1>6, <1>7 DEF CatInv

\* Holders grow by one service.
LEMMA HoldersGrow ==
    ASSUME CatInv, NEW s \in Services, NEW p \in Prefixes, holders' = [holders EXCEPT ![p] = @ \cup {s}]
    PROVE  /\ holders' \in [Prefixes -> SUBSET Services] /\ \A q \in Prefixes : IsFiniteSet(holders'[q])
           /\ \A q \in Prefixes : holders[q] \subseteq holders'[q]
           /\ s \in holders'[p]
<1>1. holders \in [Prefixes -> SUBSET Services] /\ \A q \in Prefixes : IsFiniteSet(holders[q])
  BY DEF CatInv, CatTypes
<1>2. holders'[p] = holders[p] \cup {s} /\ \A q \in Prefixes : q # p => holders'[q] = holders[q]
  BY <1>1
<1>3. IsFiniteSet(holders[p] \cup {s})
  BY <1>1, FS_AddElement
<1> QED BY <1>1, <1>2, <1>3

LEMMA CatCreateService ==
    ASSUME CatInv, NEW s \in Services, NEW p \in Prefixes, NEW on \in BOOLEAN, NEW surf \in SurfaceSets, NEW ok \in BOOLEAN,
           CreateService(s, p, on, surf, ok)
    PROVE  CatInv'
<1>0. /\ svc[s] = NoService /\ shown[s] = {} /\ \A r \in Services : svc[r].prefix # p
      /\ UNCHANGED <<sub, keys, users, work, shown, orphans>> /\ holders' = [holders EXCEPT ![p] = @ \cup {s}]
  BY DEF CreateService, Exists, Free
<1>1. PICK n : n = NewRow(p, on, surf)
  OBVIOUS
<1>2. n = [prefix |-> p, enabled |-> on, surfaces |-> surf, published |-> 0, staged |-> 0]
  BY <1>1 DEF NewRow, NoService
<1>3. n \in SvcRows /\ n.prefix = p /\ n.published = 0 /\ n.staged = 0 /\ n.surfaces = surf
  BY <1>2 DEF SvcRows
<1>4. n # NoService
  <2>1. NoService.prefix = ""
    BY DEF NoService
  <2> QED BY <1>3, <2>1, CatAssumption, Zenon DEF CatAssumption
<1>5. PICK d : d = Draft(Snapshot(n))
  OBVIOUS
<1>6. d \in VerRecs /\ d.status = "draft" /\ d.snap.prefix = p
  BY <1>3, <1>5 DEF Draft, Snapshot, VerRecs, VerStates, Snaps
<1>7. PICK vs : vs = IF ok THEN <<d>> ELSE <<>>
  OBVIOUS
<1>8. vs \in Seq(VerRecs) /\ Len(vs) \in {0, 1} /\ \A v \in 1 .. Len(vs) : v = 1 /\ vs[v] = d
  <2>1. CASE ok
    <3>1. vs = <<d>>
      BY <1>7, <2>1
    <3> QED BY <1>6, <3>1
  <2>2. CASE ~ok
    <3>1. vs = <<>>
      BY <1>7, <2>2
    <3> QED BY <3>1
  <2> QED BY <2>1, <2>2
<1>9. /\ svc' = [svc EXCEPT ![s] = n] /\ versions' = [versions EXCEPT ![s] = vs]
      /\ catFaults' \in Nat /\ catFaults' >= catFaults
  <2>1. svc' = [svc EXCEPT ![s] = n] /\ versions' = [versions EXCEPT ![s] = vs]
    BY <1>1, <1>5, <1>7 DEF CreateService
  <2>2. catFaults \in Nat /\ (catFaults' = catFaults \/ catFaults' = catFaults + 1)
    BY DEF CreateService, CatInv, CatTypes
  <2> QED BY <2>1, <2>2
<1>10. /\ svc'[s] = n /\ versions'[s] = vs
       /\ \A r \in Services : r # s => svc'[r] = svc[r] /\ versions'[r] = versions[r]
  BY <1>9 DEF CatInv, CatTypes
<1>11. CatTypes'
  BY <1>0, <1>3, <1>8, <1>9, HoldersGrow DEF CatInv, CatTypes
<1>12. RowsGood'
  <2>1. ASSUME NEW r \in Services PROVE SvcGood(r, svc'[r], versions'[r], shown[r], holders')
    <3>1. CASE r = s
      <4>1. s \in holders'[p]
        BY <1>0, HoldersGrow
      <4> QED BY <1>3, <1>4, <1>6, <1>8, <1>10, <3>1, <4>1 DEF SvcGood
    <3>2. CASE r # s
      <4>1. SvcGood(r, svc[r], versions[r], shown[r], holders) /\ svc[r] \in SvcRows /\ versions[r] \in Seq(VerRecs)
        BY DEF CatInv, RowsGood, CatTypes
      <4>2. \A q \in Prefixes : holders[q] \subseteq holders'[q]
        BY <1>0, HoldersGrow
      <4>3. SvcGood(r, svc[r], versions[r], shown[r], holders')
        BY <4>1, <4>2, SvcGrows
      <4> QED BY <1>10, <3>2, <4>3
    <3> QED BY <3>1, <3>2
  <2> QED BY <1>0, <2>1 DEF RowsGood
<1>13. PrefixesDiffer'
  BY <1>0, <1>3, <1>10 DEF CatInv, PrefixesDiffer
<1>14. CatRunsKept
  <2> SUFFICES ASSUME NEW a \in Admins, work[a].pc = "transition"
               PROVE  TransitionGood(work[a], svc'[work[a].svc], versions'[work[a].svc], shown'[work[a].svc])
    BY DEF CatRunsKept
  <2>1. work[a].svc \in Services /\ TransitionGood(work[a], svc[work[a].svc], versions[work[a].svc], shown[work[a].svc])
    BY CatShapes DEF CatInv, WorkGood, CatCallGood, Transitions
  <2>2. work[a].svc # s
    BY <1>0, <2>1 DEF TransitionGood
  <2> QED BY <1>0, <1>10, <2>1, <2>2
<1>15. /\ \A r \in Services : Ended(r) => Ended(r)'
       /\ \A r \in Services : svc[r] # NoService => svc'[r] # NoService
  BY <1>0, <1>4, <1>10 DEF Ended
<1>16. CatHoldersKept
  BY <1>0, HoldersGrow DEF CatHoldersKept
<1>17. \A u \in Subs : Open(u)' => sub[u].svc \in Services
  BY <1>0, CatShapes DEF CatInv, Open
<1> QED BY <1>0, <1>9, <1>11, <1>12, <1>13, <1>14, <1>15, <1>16, <1>17, ServiceStep

LEMMA CatUpdateService ==
    ASSUME CatInv, NEW s \in Services, NEW p \in Prefixes, NEW on \in BOOLEAN, NEW surf \in SurfaceSets,
           UpdateService(s, p, on, surf)
    PROVE  CatInv'
<1>0. /\ svc[s] # NoService /\ (p = svc[s].prefix \/ \A r \in Services : svc[r].prefix # p)
      /\ UNCHANGED <<versions, sub, keys, users, work, catFaults, shown, orphans>> /\ holders' = [holders EXCEPT ![p] = @ \cup {s}]
  BY DEF UpdateService, Exists, Free
<1>1. svc[s] \in [prefix : Prefixes, enabled : BOOLEAN, surfaces : SurfaceSets, published : Nat, staged : Nat]
  BY <1>0 DEF CatInv, CatTypes, SvcRows
<1>2. PICK n : n = [svc[s] EXCEPT !.prefix = p, !.enabled = on, !.surfaces = surf]
  OBVIOUS
<1>3. n \in SvcRows /\ n.prefix = p /\ n.published = svc[s].published /\ n.staged = svc[s].staged
  BY <1>1, <1>2 DEF SvcRows
<1>4. n # NoService
  <2>1. NoService.prefix = ""
    BY DEF NoService
  <2> QED BY <1>3, <2>1, CatAssumption, Zenon DEF CatAssumption
<1>5. svc' = [svc EXCEPT ![s] = n]
  BY <1>2 DEF UpdateService
<1>6. svc'[s] = n /\ \A r \in Services : r # s => svc'[r] = svc[r]
  BY <1>5 DEF CatInv, CatTypes
<1>7. CatTypes'
  BY <1>0, <1>3, <1>5, HoldersGrow DEF CatInv, CatTypes
<1>8. \A q \in Prefixes : holders[q] \subseteq holders'[q]
  BY <1>0, HoldersGrow
<1>9. RowsGood'
  <2>1. ASSUME NEW r \in Services PROVE SvcGood(r, svc'[r], versions[r], shown[r], holders')
    <3>1. SvcGood(r, svc[r], versions[r], shown[r], holders) /\ svc[r] \in SvcRows /\ versions[r] \in Seq(VerRecs)
      BY DEF CatInv, RowsGood, CatTypes
    <3>2. SvcGood(r, svc[r], versions[r], shown[r], holders')
      BY <1>8, <3>1, SvcGrows
    <3>3. CASE r = s
      <4>1. s \in holders'[p]
        BY <1>0, HoldersGrow
      <4> QED BY <1>3, <1>4, <1>6, <3>2, <3>3, <4>1 DEF SvcGood
    <3>4. CASE r # s
      BY <1>6, <3>2, <3>4
    <3> QED BY <3>3, <3>4
  <2> QED BY <1>0, <2>1 DEF RowsGood
<1>10. PrefixesDiffer'
  BY <1>0, <1>3, <1>6 DEF CatInv, PrefixesDiffer
<1>11. \A r \in Services : svc[r] # NoService <=> svc'[r] # NoService
  BY <1>0, <1>4, <1>6
<1>12. CatRunsKept
  <2>1. \A a \in Admins : work[a].pc = "transition" =>
           /\ work[a].svc \in Services
           /\ TransitionGood(work[a], svc[work[a].svc], versions[work[a].svc], shown[work[a].svc])
    BY CatShapes DEF CatInv, WorkGood, CatCallGood, Transitions
  <2> QED BY <1>0, <1>11, <2>1 DEF TransitionGood, CatRunsKept
<1>13. /\ \A r \in Services : Ended(r) => Ended(r)'
       /\ \A r \in Services : svc[r] # NoService => svc'[r] # NoService
       /\ \A u \in Subs : Open(u)' => sub[u].svc \in Services
  BY <1>0, <1>11, CatShapes DEF Ended, CatInv, Open
<1>14. catFaults' >= catFaults /\ CatHoldersKept
  BY <1>0, <1>8 DEF CatInv, CatTypes, CatHoldersKept
<1> QED BY <1>0, <1>7, <1>8, <1>9, <1>10, <1>12, <1>13, <1>14, ServiceStep

LEMMA CatDeleteService ==
    ASSUME CatInv, NEW s \in Services, DeleteService(s)
    PROVE  CatInv'
<1>0. /\ svc[s] # NoService /\ UNCHANGED <<keys, users, work, catFaults, holders, orphans>>
      /\ svc' = [svc EXCEPT ![s] = NoService] /\ versions' = [versions EXCEPT ![s] = <<>>]
      /\ shown' = [shown EXCEPT ![s] = @ \cup {0}]
      /\ sub' = [u \in Subs |-> IF Open(u) /\ sub[u].svc = s THEN [status |-> "gone"] ELSE sub[u]]
  BY DEF DeleteService, Exists
<1>1. /\ svc'[s] = NoService /\ versions'[s] = <<>> /\ shown'[s] # {}
      /\ \A r \in Services : r # s => svc'[r] = svc[r] /\ versions'[r] = versions[r]
      /\ \A r \in Services : shown[r] \subseteq shown'[r]
  BY <1>0 DEF CatInv, CatTypes
<1>2. \A u \in Subs : /\ Open(u) /\ sub[u].svc = s => sub'[u] = [status |-> "gone"]
                      /\ ~(Open(u) /\ sub[u].svc = s) => sub'[u] = sub[u]
  BY <1>0
<1>3. CatTypes'
  <2>1. sub' \in [Subs -> SubRecs]
    BY <1>0 DEF CatInv, CatTypes, SubRecs
  <2>2. svc' \in [Services -> SvcRows] /\ versions' \in [Services -> Seq(VerRecs)] /\ shown' \in [Services -> SUBSET Nat]
    BY <1>0 DEF CatInv, CatTypes, SvcRows
  <2> QED BY <1>0, <2>1, <2>2 DEF CatInv, CatTypes
<1>4. RowsGood'
  <2>1. ASSUME NEW r \in Services PROVE SvcGood(r, svc'[r], versions'[r], shown'[r], holders)
    <3>1. CASE r = s
      <4>1. NoService.published = 0 /\ NoService.staged = 0
        BY DEF NoService
      <4>2. Len(<<>>) = 0 /\ 0 \in 0 .. 0 /\ 1 .. 0 = {}
        OBVIOUS
      <4> QED BY <1>1, <3>1, <4>1, <4>2 DEF SvcGood
    <3>2. CASE r # s
      <4>1. SvcGood(r, svc[r], versions[r], shown[r], holders)
        BY DEF CatInv, RowsGood
      <4> QED BY <1>1, <3>2, <4>1 DEF SvcGood
    <3> QED BY <3>1, <3>2
  <2> QED BY <1>0, <2>1 DEF RowsGood
<1>5. PrefixesDiffer'
  <2>1. NoService.prefix = ""
    BY DEF NoService
  <2>2. \A r \in Services : svc[r] # NoService => svc[r].prefix # ""
    BY CatShapes DEF CatInv
  <2>3. ASSUME NEW q \in Services, NEW r \in Services, q # r, svc'[r] # NoService
        PROVE  svc'[q].prefix # svc'[r].prefix
    <3>1. r # s /\ svc'[r] = svc[r]
      BY <1>1, <2>3
    <3>2. CASE q = s
      BY <1>1, <2>1, <2>2, <2>3, <3>1, <3>2
    <3>3. CASE q # s
      BY <1>1, <2>3, <3>1, <3>3 DEF CatInv, PrefixesDiffer
    <3> QED BY <3>2, <3>3
  <2> QED BY <2>3 DEF PrefixesDiffer
<1>6. CatRunsKept
  <2> SUFFICES ASSUME NEW a \in Admins, work[a].pc = "transition"
               PROVE  TransitionGood(work[a], svc'[work[a].svc], versions'[work[a].svc], shown'[work[a].svc])
    BY DEF CatRunsKept
  <2>1. work[a].svc \in Services /\ TransitionGood(work[a], svc[work[a].svc], versions[work[a].svc], shown[work[a].svc])
    BY CatShapes DEF CatInv, WorkGood, CatCallGood, Transitions
  <2>2. CASE work[a].svc = s
    BY <1>1, <2>1, <2>2 DEF TransitionGood
  <2>3. CASE work[a].svc # s
    BY <1>1, <2>1, <2>3 DEF TransitionGood
  <2> QED BY <2>2, <2>3
<1>7. \A u \in Subs : sub'[u] = sub[u] \/ (Open(u) /\ sub'[u] = [status |-> "gone"])
  BY <1>2
<1>8. \A u \in Subs : Open(u)' /\ svc[sub[u].svc] # NoService => svc'[sub[u].svc] # NoService
  <2>1. \A u \in Subs : Open(u)' => Open(u) /\ sub[u].svc # s
    BY <1>2 DEF Open
  <2>2. \A u \in Subs : Open(u) => sub[u].svc \in Services
    BY CatShapes DEF CatInv
  <2> QED BY <1>1, <2>1, <2>2
<1>9. /\ \A r \in Services : Ended(r) => Ended(r)'
      /\ \A r \in Services : svc[r] # NoService => svc'[r] # NoService \/ Ended(r)'
  BY <1>1 DEF Ended
<1>10. catFaults' >= catFaults /\ CatHoldersKept
  BY <1>0 DEF CatInv, CatTypes, CatHoldersKept
<1> QED BY <1>0, <1>3, <1>4, <1>5, <1>6, <1>7, <1>8, <1>9, <1>10, ServiceStep

LEMMA CatCreateVersion ==
    ASSUME CatInv, NEW a0 \in Admins, CreateServiceVersion(a0)
    PROVE  CatInv'
<1> DEFINE s == work[a0].svc
<1>0. /\ work[a0].pc = "version" /\ work' = [work EXCEPT ![a0] = NoWork]
      /\ UNCHANGED <<svc, sub, keys, users, catFaults, shown, holders, orphans>>
  BY DEF CreateServiceVersion, catCounts, catGhosts
<1>1. work[a0] \in Draftings /\ s \in Services /\ work[a0].snap \in Snaps
  BY <1>0, CatShapes DEF CatInv, Draftings
<1>1a. s \in holders[work[a0].snap.prefix]
  BY <1>0 DEF CatInv, WorkGood, CatCallGood
<1>1b. work'[a0] = NoWork /\ work' \in [Admins -> CatCalls] /\ \A b \in Admins : b # a0 => work'[b] = work[b]
  BY <1>0 DEF CatInv, CatTypes, CatCalls
<1>2. PICK d : d = Draft(work[a0].snap)
  OBVIOUS
<1>3. d \in VerRecs /\ d.status = "draft" /\ d.snap.prefix = work[a0].snap.prefix
  BY <1>1, <1>2 DEF Draft, VerRecs, VerStates
<1>4. versions[s] \in Seq(VerRecs) /\ Len(versions[s]) \in Nat
  BY <1>1 DEF CatInv, CatTypes
<1>5. versions' = [versions EXCEPT ![s] = Append(versions[s], d)]
  BY <1>2 DEF CreateServiceVersion
<1> HIDE DEF s
<1>6. \A r \in Services : r # s => versions'[r] = versions[r]
  BY <1>1, <1>5 DEF CatInv, CatTypes
<1>7. /\ versions'[s] \in Seq(VerRecs) /\ Len(versions'[s]) = Len(versions[s]) + 1
      /\ versions'[s][Len(versions[s]) + 1] = d
      /\ \A v \in 1 .. Len(versions[s]) : versions'[s][v] = versions[s][v]
  <2>1. versions'[s] = Append(versions[s], d)
    BY <1>1, <1>5 DEF CatInv, CatTypes
  <2> QED BY <1>3, <1>4, <2>1
<1>8. CatTypes'
  <2>1. versions' \in [Services -> Seq(VerRecs)]
    BY <1>1, <1>3, <1>4, <1>5 DEF CatInv, CatTypes
  <2> QED BY <1>0, <1>1b, <2>1 DEF CatInv, CatTypes
<1>9. \A v \in 1 .. Len(versions'[s]) : v \in 1 .. Len(versions[s]) \/ v = Len(versions[s]) + 1
  BY <1>4, <1>7
<1>10. RowsGood'
  <2>1. ASSUME NEW r \in Services PROVE SvcGood(r, svc[r], versions'[r], shown[r], holders)
    <3>1. SvcGood(r, svc[r], versions[r], shown[r], holders)
      BY DEF CatInv, RowsGood
    <3>2. CASE r = s
      <4>1. svc[s].published \in 0 .. Len(versions[s]) /\ svc[s].staged \in 0 .. Len(versions[s])
        BY <3>1, <3>2 DEF SvcGood
      <4>2. /\ svc[s].published \in 0 .. Len(versions'[s]) /\ svc[s].staged \in 0 .. Len(versions'[s])
            /\ svc[s].staged # Len(versions[s]) + 1
        BY <1>4, <1>7, <4>1
      <4>3. \A v \in 1 .. Len(versions'[s]) : /\ versions'[s][v].status = "staged" <=> svc[s].staged = v
                                              /\ versions'[s][v].status = "published" => svc[s].published = v
                                              /\ s \in holders[versions'[s][v].snap.prefix]
        <5>1. \A v \in 1 .. Len(versions[s]) : /\ versions[s][v].status = "staged" <=> svc[s].staged = v
                                               /\ versions[s][v].status = "published" => svc[s].published = v
                                               /\ s \in holders[versions[s][v].snap.prefix]
          BY <3>1, <3>2 DEF SvcGood
        <5> QED BY <1>1a, <1>3, <1>7, <1>9, <4>1, <4>2, <5>1
      <4> QED BY <3>1, <3>2, <4>2, <4>3 DEF SvcGood
    <3>3. CASE r # s
      BY <1>6, <3>1, <3>3
    <3> QED BY <3>2, <3>3
  <2> QED BY <1>0, <2>1 DEF RowsGood
<1>11. PrefixesDiffer'
  BY <1>0 DEF CatInv, PrefixesDiffer
<1>12. CatRunsKept
  <2> SUFFICES ASSUME NEW a \in Admins, work[a].pc = "transition"
               PROVE  TransitionGood(work[a], svc[work[a].svc], versions'[work[a].svc], shown[work[a].svc])
    BY <1>0 DEF CatRunsKept
  <2>1. work[a].svc \in Services /\ TransitionGood(work[a], svc[work[a].svc], versions[work[a].svc], shown[work[a].svc])
    BY CatShapes DEF CatInv, WorkGood, CatCallGood, Transitions
  <2>2. CASE work[a].svc = s
    <3>1. 1 .. Len(versions[s]) \subseteq 1 .. Len(versions'[s]) /\ 0 .. Len(versions[s]) \subseteq 0 .. Len(versions'[s])
      BY <1>4, <1>7
    <3> QED BY <2>1, <2>2, <3>1 DEF TransitionGood
  <2>3. CASE work[a].svc # s
    BY <1>6, <2>1, <2>3
  <2> QED BY <2>2, <2>3
<1>13. /\ \A r \in Services : Ended(r) => Ended(r)'
       /\ \A r \in Services : svc[r] # NoService => svc'[r] # NoService
       /\ \A u \in Subs : svc[sub[u].svc] # NoService => svc'[sub[u].svc] # NoService
  BY <1>0 DEF Ended
<1>14. catFaults' >= catFaults /\ CatHoldersKept
  BY <1>0 DEF CatInv, CatTypes, CatHoldersKept
<1>15. \A b \in Admins : work'[b] = work[b] \/ (work'[b] = NoWork /\ work[b].pc \in {"transition", "version"})
  BY <1>0, <1>1b
<1> QED BY <1>0, <1>8, <1>10, <1>11, <1>12, <1>13, <1>14, <1>15, ServiceStep

\* What a committed transition leaves of a service.
LEMMA TransitionKeeps ==
    ASSUME NEW s, NEW t \in Transitions, NEW line \in SvcRows, NEW after \in SvcRows, NEW vers \in Seq(VerRecs),
           NEW new \in Seq(VerRecs), NEW sh, NEW sh2, NEW hold,
           SvcGood(s, line, vers, sh, hold), TransitionGood(t, line, vers, sh), line # NoService, after # NoService,
           after.prefix = line.prefix, after.published = PublishedAfter(t), after.staged = StagedAfter(t),
           Len(new) = Len(vers),
           \A w \in 1 .. Len(vers) : new[w].status = StatusAfter(vers[w], t.v, w, t.mode) /\ new[w].snap = vers[w].snap,
           sh \subseteq sh2, t.mode = "published" => t.v \in sh2
    PROVE  SvcGood(s, after, new, sh2, hold)
<1>0. /\ t.mode \in {"published", "staged"} /\ t.v \in Nat /\ t.published \in Nat /\ Len(vers) \in Nat
      /\ t.v \in 1 .. Len(vers) /\ t.published \in 0 .. Len(vers) /\ (t.published # 0 => t.published \in sh)
  BY DEF Transitions, TransitionGood
<1>1. s \in hold[line.prefix] /\ \A v \in 1 .. Len(vers) : s \in hold[vers[v].snap.prefix]
  BY DEF SvcGood
<1>2. \A v \in 1 .. Len(vers) : vers[v].status \in VerStates
  <2>1. \A v \in 1 .. Len(vers) : vers[v] \in VerRecs
    OBVIOUS
  <2> QED BY <2>1 DEF VerRecs
<1>3. \A w \in 1 .. Len(vers) : /\ w = t.v => new[w].status = t.mode
                                /\ w # t.v => new[w].status \in {"draft", "archived"}
  BY <1>2 DEF StatusAfter, VerStates
<1>4. CASE t.mode = "published"
  <2>1. after.published = t.v /\ after.staged = 0
    BY <1>4 DEF PublishedAfter, StagedAfter
  <2>2. after.published \in 0 .. Len(new) /\ after.staged \in 0 .. Len(new) /\ after.published \in sh2
    BY <1>0, <1>4, <2>1
  <2>3. \A w \in 1 .. Len(new) : w # 0
    BY <1>0
  <2>4. \A w \in 1 .. Len(new) : /\ new[w].status = "staged" <=> after.staged = w
                                 /\ new[w].status = "published" => after.published = w
                                 /\ s \in hold[new[w].snap.prefix]
    BY <1>1, <1>3, <1>4, <2>1, <2>3
  <2> QED BY <1>1, <2>2, <2>4 DEF SvcGood
<1>5. CASE t.mode = "staged"
  <2>1. after.published = t.published /\ after.staged = t.v
    BY <1>5 DEF PublishedAfter, StagedAfter
  <2>2. after.published \in 0 .. Len(new) /\ after.staged \in 0 .. Len(new)
        /\ (after.published # 0 => after.published \in sh2)
    BY <1>0, <1>5, <2>1
  <2>3. \A w \in 1 .. Len(new) : /\ new[w].status = "staged" <=> after.staged = w
                                 /\ new[w].status = "published" => after.published = w
                                 /\ s \in hold[new[w].snap.prefix]
    BY <1>1, <1>3, <1>5, <2>1
  <2> QED BY <1>1, <2>2, <2>3 DEF SvcGood
<1> QED BY <1>0, <1>4, <1>5

LEMMA CatCommitTransition ==
    ASSUME CatInv, NEW a \in Admins, CommitTransition(a)
    PROVE  CatInv'
<1> DEFINE t == work[a]
           s == t.svc
<1>0. /\ t.pc = "transition" /\ work' = [work EXCEPT ![a] = NoWork]
      /\ UNCHANGED <<sub, keys, users, catFaults, holders, orphans>> /\ catFaults \in Nat
  BY DEF CommitTransition, catCounts, CatInv, CatTypes
<1>1. t \in Transitions /\ s \in Services /\ t.v \in Nat /\ t.published \in Nat /\ t.mode \in {"published", "staged"}
  BY <1>0, CatShapes DEF CatInv, Transitions
<1>2. TransitionGood(t, svc[s], versions[s], shown[s])
  BY <1>0 DEF CatInv, WorkGood, CatCallGood
<1>3. catFaults' \in Nat /\ catFaults' >= catFaults /\ t.pc # "approve"
  BY <1>0
<1>4. CASE UNCHANGED <<svc, versions, shown>>
  BY <1>0, <1>3, <1>4, EndsWork
<1>5. CASE /\ svc[s] # NoService
           /\ versions' = [versions EXCEPT ![s] = [w \in DOMAIN @ |->
                              [versions[s][w] EXCEPT !.status = StatusAfter(versions[s][w], t.v, w, t.mode)]]]
           /\ svc' = [svc EXCEPT ![s].published = PublishedAfter(t), ![s].staged = StagedAfter(t)]
           /\ shown' = IF t.mode = "published" THEN [shown EXCEPT ![s] = @ \cup {t.v}] ELSE shown
  <2>1. svc[s] \in [prefix : Prefixes, enabled : BOOLEAN, surfaces : SurfaceSets, published : Nat, staged : Nat]
    BY <1>1, <1>5 DEF CatInv, CatTypes, SvcRows
  <2>2. PICK n : n = [svc[s] EXCEPT !.published = PublishedAfter(t), !.staged = StagedAfter(t)]
    OBVIOUS
  <2>3. PublishedAfter(t) \in Nat /\ StagedAfter(t) \in Nat
    BY <1>1 DEF PublishedAfter, StagedAfter
  <2>4. n \in SvcRows /\ n.prefix = svc[s].prefix /\ n.published = PublishedAfter(t) /\ n.staged = StagedAfter(t)
    BY <2>1, <2>2, <2>3 DEF SvcRows
  <2>5. n # NoService
    <3>1. NoService.prefix = ""
      BY DEF NoService
    <3>2. svc[s].prefix \in Prefixes
      BY <2>1
    <3> QED BY <2>4, <3>1, <3>2, CatAssumption, Zenon DEF CatAssumption
  <2>6. svc' = [svc EXCEPT ![s] = n]
    BY <1>5, <2>2
  <2>7. PICK vs : vs = [w \in DOMAIN versions[s] |->
                           [versions[s][w] EXCEPT !.status = StatusAfter(versions[s][w], t.v, w, t.mode)]]
    OBVIOUS
  <2>8. versions[s] \in Seq(VerRecs) /\ Len(versions[s]) \in Nat /\ DOMAIN versions[s] = 1 .. Len(versions[s])
    BY <1>1 DEF CatInv, CatTypes
  <2>9. ASSUME NEW w \in 1 .. Len(versions[s])
        PROVE  /\ vs[w] \in VerRecs /\ vs[w].status = StatusAfter(versions[s][w], t.v, w, t.mode)
               /\ vs[w].snap = versions[s][w].snap
    <3>1. versions[s][w] \in VerRecs
      BY <2>8
    <3>2. vs[w] = [versions[s][w] EXCEPT !.status = StatusAfter(versions[s][w], t.v, w, t.mode)]
      BY <2>7, <2>8
    <3>3. StatusAfter(versions[s][w], t.v, w, t.mode) \in VerStates
      BY <1>1, <3>1 DEF StatusAfter, VerStates, VerRecs
    <3> QED BY <3>1, <3>2, <3>3 DEF VerRecs
  <2>10. vs \in Seq(VerRecs) /\ Len(vs) = Len(versions[s])
    <3>1. vs \in [1 .. Len(versions[s]) -> VerRecs]
      BY <2>7, <2>8, <2>9
    <3> QED BY <2>8, <3>1
  <2>11. versions' = [versions EXCEPT ![s] = vs]
    BY <1>5, <2>7, Zenon
  <2>12. /\ svc'[s] = n /\ versions'[s] = vs
         /\ \A r \in Services : r # s => svc'[r] = svc[r] /\ versions'[r] = versions[r]
    BY <1>1, <2>6, <2>11 DEF CatInv, CatTypes
  <2>13. shown \in [Services -> SUBSET Nat]
    BY DEF CatInv, CatTypes
  <2>14. /\ shown' \in [Services -> SUBSET Nat] /\ \A r \in Services : shown[r] \subseteq shown'[r]
         /\ t.mode = "published" => t.v \in shown'[s]
    BY <1>1, <1>5, <2>13
  <2>15. work'[a] = NoWork /\ work' \in [Admins -> CatCalls]
         /\ \A b \in Admins : b # a => work'[b] = work[b]
    BY <1>0 DEF CatInv, CatTypes, CatCalls
  <2>16. CatTypes'
    <3>1. svc' \in [Services -> SvcRows] /\ versions' \in [Services -> Seq(VerRecs)]
      BY <2>4, <2>6, <2>10, <2>11 DEF CatInv, CatTypes
    <3> QED BY <1>0, <2>14, <2>15, <3>1 DEF CatInv, CatTypes
  <2>17. RowsGood'
    <3>1. ASSUME NEW r \in Services PROVE SvcGood(r, svc'[r], versions'[r], shown'[r], holders)
      <4>1. SvcGood(r, svc[r], versions[r], shown[r], holders) /\ svc[r] \in SvcRows
        BY DEF CatInv, RowsGood, CatTypes
      <4>2. CASE r = s
        <5>1. /\ \A w \in 1 .. Len(versions[s]) : /\ vs[w].status = StatusAfter(versions[s][w], t.v, w, t.mode)
                                                  /\ vs[w].snap = versions[s][w].snap
              /\ shown[s] \subseteq shown'[s] /\ SvcGood(s, svc[s], versions[s], shown[s], holders) /\ svc[s] \in SvcRows
          BY <1>1, <2>9, <2>14, <4>1, <4>2
        <5> HIDE DEF t, s
        <5>2. SvcGood(s, n, vs, shown'[s], holders)
          BY <1>1, <1>2, <1>5, <2>4, <2>5, <2>8, <2>10, <2>14, <5>1, TransitionKeeps
        <5> QED BY <2>12, <4>2, <5>2
      <4>3. CASE r # s
        BY <2>12, <2>14, <4>1, <4>3 DEF SvcGood
      <4> QED BY <4>2, <4>3
    <3> QED BY <1>0, <3>1 DEF RowsGood
  <2>18. \A r \in Services : svc[r] # NoService <=> svc'[r] # NoService
    BY <1>5, <2>5, <2>12
  <2>19. PrefixesDiffer'
    <3>1. \A r \in Services : svc'[r].prefix = svc[r].prefix
      BY <2>4, <2>12
    <3> QED BY <2>18, <3>1 DEF CatInv, PrefixesDiffer
  <2>20. CatRunsKept
    <3>1. \A r \in Services : Len(versions'[r]) = Len(versions[r])
      BY <2>10, <2>12
    <3>2. \A b \in Admins : work[b].pc = "transition" =>
             /\ work[b].svc \in Services
             /\ TransitionGood(work[b], svc[work[b].svc], versions[work[b].svc], shown[work[b].svc])
      BY CatShapes DEF CatInv, WorkGood, CatCallGood, Transitions
    <3> QED BY <2>14, <2>18, <3>1, <3>2 DEF TransitionGood, CatRunsKept
  <2>21. /\ \A r \in Services : Ended(r) => Ended(r)'
         /\ \A r \in Services : svc[r] # NoService => svc'[r] # NoService
         /\ \A u \in Subs : Open(u)' => sub[u].svc \in Services
    <3>1. \A r \in Services : shown[r] # {} => shown'[r] # {}
      BY <2>14
    <3>2. \A u \in Subs : Open(u)' => sub[u].svc \in Services
      BY <1>0, CatShapes DEF CatInv, Open
    <3> QED BY <2>18, <3>1, <3>2 DEF Ended
  <2>22. \A b \in Admins : work'[b] = work[b] \/ (work'[b] = NoWork /\ work[b].pc \in {"transition", "version"})
    BY <1>0, <2>15
  <2>23. CatHoldersKept
    BY <1>0 DEF CatHoldersKept
  <2> QED BY <1>0, <1>3, <2>16, <2>17, <2>19, <2>20, <2>21, <2>22, <2>23, ServiceStep
<1> QED BY <1>4, <1>5 DEF CommitTransition, Exists

LEMMA CatStep == CatInv /\ [CatNext]_catVars => CatInv'
<1> SUFFICES ASSUME CatInv, [CatNext]_catVars PROVE CatInv'
  OBVIOUS
<1>1. ASSUME NEW s \in Services, NEW p \in Prefixes, NEW on \in BOOLEAN, NEW surf \in SurfaceSets,
             UpdateService(s, p, on, surf) \/ \E ok \in BOOLEAN : CreateService(s, p, on, surf, ok)
      PROVE  CatInv'
  BY <1>1, CatUpdateService, CatCreateService
<1>2. ASSUME NEW s \in Services, DeleteService(s)
      PROVE  CatInv'
  BY <1>2, CatDeleteService
<1>3. ASSUME NEW a \in Admins, NEW s \in Services,
             \/ ReadSnapshot(a, s) \/ PromoteStagedServiceVersion(a, s)
             \/ \E v \in 1 .. MaxVersions, mode \in {"published", "staged"} : LoadTransition(a, s, v, mode)
      PROVE  CatInv'
  BY <1>3, CatReadSnapshot, CatPromote, CatLoadTransition
<1>4. ASSUME NEW a \in Admins,
             \/ CreateServiceVersion(a) \/ CommitTransition(a) \/ \E u \in Subs : StartApproval(a, u)
             \/ LoadPublished(a) \/ CreateApprovedUser(a)
             \/ \E ok \in BOOLEAN : CreateApprovedKey(a, ok) \/ Approve(a, ok)
      PROVE  CatInv'
  BY <1>4, CatCreateVersion, CatCommitTransition, CatStartApproval, CatLoadPublished, CatCreateApprovedUser, CatCreateApprovedKey, CatApprove
<1>5. ASSUME NEW u \in Subs,
             \/ \E s \in Services, surf \in {{}, {"responses"}}, seen \in BOOLEAN : AskSubscription(u, s, surf, seen)
             \/ CreateServiceSubscription(u) \/ Reject(u)
      PROVE  CatInv'
  BY <1>5, CatAskSubscription, CatCreateSubscription, CatReject
<1>6. CASE UNCHANGED catVars
  <2>1. UNCHANGED <<svc, versions, sub, keys, users, work, catFaults, shown, holders, orphans>>
    BY <1>6 DEF catVars, catCounts, catGhosts
  <2>2. CatTypes' /\ RowsGood' /\ PrefixesDiffer'
    BY <2>1 DEF CatInv, CatTypes, RowsGood, PrefixesDiffer
  <2>3. WorkGood' /\ KeysGood' /\ SubsGood'
    BY <2>1 DEF CatInv, WorkGood, KeysGood, SubsGood, Open, Ended
  <2>4. OneApproval' /\ NoKeyLeftBehind'
    BY <2>1 DEF CatInv, OneApproval, Single, Alone, Past, NoKeyLeftBehind, Open
  <2> QED BY <2>2, <2>3, <2>4 DEF CatInv
<1> QED BY <1>1, <1>2, <1>3, <1>4, <1>5, <1>6 DEF CatNext

\* Two services that had one prefix share it.
LEMMA TwoHolders ==
    ASSUME CatInv, NEW p \in Prefixes, NEW r \in holders[p], NEW s \in holders[p], r # s
    PROVE  Shared(p)
<1>1. IsFiniteSet(holders[p])
  BY DEF CatInv, CatTypes
<1>2. {s} \subseteq holders[p] /\ {s} # holders[p] /\ Cardinality({s}) = 1
  BY FS_Singleton
<1>3. Cardinality({s}) <= Cardinality(holders[p]) /\ Cardinality({s}) # Cardinality(holders[p])
  BY <1>1, <1>2, FS_Subset
<1>4. Cardinality(holders[p]) \in Nat
  BY <1>1, FS_CardinalityType
<1> QED BY <1>2, <1>3, <1>4 DEF Shared

LEMMA CatImplied == CatInv => CatalogSound
<1> SUFFICES ASSUME CatInv PROVE CatalogSound
  OBVIOUS
<1>0. \A s \in Services : /\ versions[s] \in Seq(VerRecs) /\ DOMAIN versions[s] = 1 .. Len(versions[s])
                          /\ \A v \in 1 .. Len(versions[s]) : versions[s][v] \in VerRecs
  BY DEF CatInv, CatTypes
<1>1. CatTypeOK
  <2>1. \A s \in Services : \A v \in DOMAIN versions[s] : versions[s][v].status \in {"draft", "staged", "published", "archived"}
    BY <1>0 DEF VerRecs, VerStates
  <2>2. \A s \in Services : svc[s].published \in 0 .. Len(versions[s]) /\ svc[s].staged \in 0 .. Len(versions[s])
    BY DEF CatInv, RowsGood, SvcGood
  <2>3. \A u \in Subs : Open(u) =>
            /\ sub[u].key \in 0 .. Len(keys)
            /\ Exists(sub[u].svc) \/ (u \in orphans /\ sub[u].key = 0)
    BY DEF CatInv, SubsGood, Exists
  <2> QED BY <2>1, <2>2, <2>3 DEF CatInv, CatTypeOK, PrefixesDiffer, Exists
<1>2. StatusAgrees
  BY <1>0 DEF CatInv, RowsGood, SvcGood, StatusAgrees
<1>3. ServedWasPublished
  <2>1. \A s \in Services : svc[s].published \in DOMAIN versions[s] => svc[s].published # 0
    BY <1>0
  <2> QED BY <2>1 DEF CatInv, RowsGood, SvcGood, ServedWasPublished, ServedVersion
<1>4. KeyOpensItsService
  <2> SUFFICES ASSUME NEW k \in DOMAIN keys, NEW s \in Services, NEW surface \in Surfaces,
                      LetsThrough(k, s, surface), keys[k].svc # s
               PROVE  Shared(keys[k].prefix) \/ Shared(keys[k].asked)
    BY DEF KeyOpensItsService
  <2>1. keys \in Seq(KeyRecs) /\ k \in 1 .. Len(keys)
    BY DEF CatInv, CatTypes
  <2>2. keys[k] \in KeyRecs
    BY <2>1
  <2>3. keys[k].prefix \in Prefixes /\ keys[k].asked \in Prefixes /\ Traced(keys[k], holders)
    BY <2>1, <2>2 DEF KeyRecs, CatInv, KeysGood
  <2>4. svc[s].published \in 1 .. Len(versions[s]) /\ keys[k].prefix = versions[s][svc[s].published].snap.prefix
    BY <1>0 DEF LetsThrough, ServedVersion, CheckService, ServedSnapshot
  <2>5. s \in holders[keys[k].prefix]
    BY <2>4 DEF CatInv, RowsGood, SvcGood
  <2>6. PICK r \in holders[keys[k].asked] : r \in holders[keys[k].prefix] /\ keys[k].svc \in holders[keys[k].asked]
    BY <2>3 DEF Traced
  <2>7. CASE r # s
    BY <2>3, <2>5, <2>6, <2>7, TwoHolders
  <2>8. CASE r = s
    BY <2>3, <2>6, <2>8, TwoHolders
  <2> QED BY <2>7, <2>8
<1> QED BY <1>1, <1>2, <1>3, <1>4 DEF CatInv, CatalogSound

\* CatalogSound (the service catalog's handlers and store), for any services, subscriptions,
\* administrators, prefixes and bounds: however transitions, reviews, edits and deletions overlap and
\* whatever write fails, statuses and rows agree, only what was published is served, and a key opens
\* its own service and is left behind only by a failure or a second review.
THEOREM CatalogCorrect == CatSpec => []CatalogSound
<1>1. CatInit => CatInv
  BY CatInitially
<1>2. CatInv /\ [CatNext]_catVars => CatInv'
  BY CatStep
<1>3. CatInv => CatalogSound
  BY CatImplied
<1> QED BY <1>1, <1>2, <1>3, PTL DEF CatSpec

\* StagingKeepsServed (transitionServiceVersion), for any services, administrators and bounds: what is
\* served changes by a publication, with the service, or by a staging that overlapped a publication.
THEOREM CatalogStepsCorrect == CatSpec => [][StagingKeepsServed]_catVars
<1>1. CatInv /\ [CatNext]_catVars => [StagingKeepsServed]_catVars
  <2> SUFFICES ASSUME CatInv, CatNext PROVE StagingKeepsServed
    OBVIOUS
  <2>0. svc \in [Services -> SvcRows]
    BY DEF CatInv, CatTypes
  <2>1. ASSUME NEW s \in Services, NEW p \in Prefixes, NEW on \in BOOLEAN, NEW surf \in SurfaceSets,
               UpdateService(s, p, on, surf)
        PROVE  StagingKeepsServed
    <3>0. svc[s] \in [prefix : Prefixes, enabled : BOOLEAN, surfaces : SurfaceSets, published : Nat, staged : Nat]
      BY <2>0, <2>1 DEF UpdateService, Exists, SvcRows
    <3>1. PICK n : n = [svc[s] EXCEPT !.prefix = p, !.enabled = on, !.surfaces = surf]
      OBVIOUS
    <3>2. n.published = svc[s].published
      BY <3>0, <3>1
    <3>3. svc' = [svc EXCEPT ![s] = n]
      BY <2>1, <3>1 DEF UpdateService
    <3>4. \A r \in Services : svc'[r].published = svc[r].published
      BY <2>0, <3>2, <3>3
    <3> QED BY <3>4 DEF StagingKeepsServed
  <2>2. ASSUME NEW s \in Services, NEW p \in Prefixes, NEW on \in BOOLEAN, NEW surf \in SurfaceSets, NEW ok \in BOOLEAN,
               CreateService(s, p, on, surf, ok)
        PROVE  StagingKeepsServed
    <3>1. PICK n : n = NewRow(p, on, surf)
      OBVIOUS
    <3>2. n.published = 0 /\ NoService.published = 0
      BY <3>1 DEF NewRow, NoService
    <3>3. svc' = [svc EXCEPT ![s] = n] /\ svc[s] = NoService
      BY <2>2, <3>1 DEF CreateService, Exists
    <3>4. \A r \in Services : svc'[r].published = svc[r].published
      BY <2>0, <3>2, <3>3
    <3> QED BY <3>4 DEF StagingKeepsServed
  <2>3. ASSUME NEW s \in Services, DeleteService(s)
        PROVE  StagingKeepsServed
    <3>1. \A r \in Services : svc'[r] = svc[r] \/ svc'[r] = NoService
      BY <2>0, <2>3 DEF DeleteService
    <3> QED BY <3>1 DEF StagingKeepsServed
  <2>4. ASSUME NEW a \in Admins, CommitTransition(a)
        PROVE  StagingKeepsServed
    <3> DEFINE t == work[a]
               s == t.svc
    <3>0. t \in Transitions /\ s \in Services /\ t.mode \in {"published", "staged"}
      BY <2>4, CatShapes DEF CatInv, CommitTransition, Transitions
    <3>1. CASE svc' = svc
      BY <3>1 DEF StagingKeepsServed
    <3>2. CASE /\ svc[s] # NoService
               /\ svc' = [svc EXCEPT ![s].published = PublishedAfter(t), ![s].staged = StagedAfter(t)]
               /\ outdated' = IF t.mode = "staged" /\ t.published # svc[s].published THEN outdated \cup {s} ELSE outdated
      <4>1. svc[s] \in [prefix : Prefixes, enabled : BOOLEAN, surfaces : SurfaceSets, published : Nat, staged : Nat]
        BY <2>0, <3>0, <3>2 DEF SvcRows
      <4>2. PICK n : n = [svc[s] EXCEPT !.published = PublishedAfter(t), !.staged = StagedAfter(t)]
        OBVIOUS
      <4>3. n.published = PublishedAfter(t) /\ n.staged = StagedAfter(t)
        BY <4>1, <4>2
      <4>4. svc' = [svc EXCEPT ![s] = n]
        BY <3>2, <4>2
      <4>5. svc'[s] = n /\ \A r \in Services : r # s => svc'[r] = svc[r]
        BY <2>0, <3>0, <4>4
      <4>6. n.staged = 0 \/ n.published = svc[s].published \/ s \in outdated'
        BY <3>0, <3>2, <4>3 DEF PublishedAfter, StagedAfter
      <4> QED BY <4>5, <4>6 DEF StagingKeepsServed
    <3> QED BY <2>4, <3>1, <3>2 DEF CommitTransition, Exists
  <2>5. CASE svc' = svc
    BY <2>5 DEF StagingKeepsServed
  <2>6. ASSUME NEW a \in Admins, CreateServiceVersion(a)
        PROVE  svc' = svc
    BY <2>6 DEF CreateServiceVersion
  <2>7. ASSUME NEW a \in Admins, NEW s \in Services,
               \/ ReadSnapshot(a, s) \/ PromoteStagedServiceVersion(a, s)
               \/ \E v \in 1 .. MaxVersions, mode \in {"published", "staged"} : LoadTransition(a, s, v, mode)
        PROVE  svc' = svc
    BY <2>7 DEF ReadSnapshot, PromoteStagedServiceVersion, LoadTransition
  <2>8. ASSUME NEW a \in Admins,
               \/ LoadPublished(a) \/ CreateApprovedUser(a) \/ \E u \in Subs : StartApproval(a, u)
               \/ \E ok \in BOOLEAN : CreateApprovedKey(a, ok) \/ Approve(a, ok)
        PROVE  svc' = svc
    BY <2>8 DEF LoadPublished, CreateApprovedUser, StartApproval, CreateApprovedKey, Approve
  <2>9. ASSUME NEW u \in Subs,
               \/ \E s \in Services, surf \in {{}, {"responses"}}, seen \in BOOLEAN : AskSubscription(u, s, surf, seen)
               \/ CreateServiceSubscription(u) \/ Reject(u)
        PROVE  svc' = svc
    BY <2>9 DEF AskSubscription, CreateServiceSubscription, Reject
  <2> QED BY <2>1, <2>2, <2>3, <2>4, <2>5, <2>6, <2>7, <2>8, <2>9 DEF CatNext
<1>2. CatInit => CatInv
  BY CatInitially
<1>3. CatInv /\ [CatNext]_catVars => CatInv'
  BY CatStep
<1> QED BY <1>1, <1>2, <1>3, PTL DEF CatSpec

-----------------------------------------------------------------------------
(* AlertDelivery.                                                          *)

\* The channels of any configuration.
AllChannels == UNION {Members(buildChannels(c)) : c \in AlertConfs}
Ages == [Memories -> [AlertKeys -> 0 .. Never]]
Places == {"idle", "ask", "check", "send", "loop", "mark"}

AlertTypes ==
    /\ alertConf \in AlertConfs
    /\ aggRedis \in BOOLEAN /\ redisAlive \in BOOLEAN
    /\ told \in Ages
    /\ reloadAt \in [step : 0 .. 3, conf : AlertConfs]
    /\ notifierAt \in [Notifiers -> Places] /\ event \in [Notifiers -> AlertEvents]

\* What is still to be visited are channels of some configuration, in a loop at least one.
ChannelsBuilt ==
    /\ channels \in Seq(AllChannels) /\ remaining \in [Notifiers -> Seq(AllChannels)]
    /\ \A n \in Notifiers : notifierAt[n] = "loop" => remaining[n] # <<>>

\* A send holds a slot of its own and goes where its labels say.
SlotsHeld ==
    /\ \A f \in inFlight : /\ f.slot \in 1 .. SendSlots /\ f.channel \in AllChannels
                           /\ Match(f.channel, f.labels)
    /\ \A f, g \in inFlight : f.slot = g.slot => f = g

\* The memories know exactly what was let through.
MemoryExact == told = raised /\ asked.admitted = asked.due

AlertInv == AlertTypes /\ ChannelsBuilt /\ SlotsHeld /\ MemoryExact

LEMMA NeverIs == Never \in Nat /\ 0 \in 0 .. Never
BY AlertAssumption DEF Never

\* What buildChannels makes of a configuration is a sequence of its channels.
LEMMA BuiltIs ==
  ASSUME NEW c \in AlertConfs
  PROVE  buildChannels(c) \in Seq(AllChannels) /\ EnabledChannels(c) \in Seq(AllChannels)
<1> DEFINE S == {ch \in Members(c.listed) : ch.type \in {"feishu", "webhook"}}
           b == buildChannels(c)
<1>1. c.listed \in Seq(Members(c.listed)) /\ c.legacy \in Seq(Members(c.legacy))
  BY AlertAssumption
<1>2. MembersIn(c.listed, S) \in Seq(Members(c.listed) \cap S)
  BY <1>1, MembersInIs
<1>3. \E X : b \in Seq(X)
  BY <1>1, <1>2 DEF buildChannels
<1>4. PICK X : b \in Seq(X)
  BY <1>3
<1> HIDE DEF b
<1>5. b \in Seq(Members(b))
  BY <1>4 DEF Members
<1>6. Members(b) \subseteq AllChannels
  BY DEF AllChannels, b
<1>7. b \in Seq(AllChannels)
  BY <1>5, <1>6
<1>8. EnabledChannels(c) \in {b, <<>>}
  BY DEF EnabledChannels, b
<1>9. <<>> \in Seq(AllChannels)
  OBVIOUS
<1> QED BY <1>7, <1>8, <1>9 DEF b

LEMMA AlertsStart == AlertInit => AlertInv
<1> SUFFICES ASSUME AlertInit PROVE AlertInv
  OBVIOUS
<1>1. NoEvent \in AlertEvents
  BY AlertAssumption DEF NoEvent
<1>2. AlertTypes
  <2>1. told \in Ages
    BY NeverIs DEF AlertInit, Ages
  <2>2. reloadAt \in [step : 0 .. 3, conf : AlertConfs]
    BY DEF AlertInit, NoReload
  <2> QED BY <2>1, <2>2, <1>1 DEF AlertInit, AlertTypes, Places
<1>3. ChannelsBuilt
  BY BuiltIs DEF AlertInit, ChannelsBuilt
<1>4. SlotsHeld
  BY DEF AlertInit, SlotsHeld
<1>5. MemoryExact
  BY DEF AlertInit, MemoryExact, NoQuestion
<1> QED BY <1>2, <1>3, <1>4, <1>5 DEF AlertInv

\* Where a notifier is after NotifierMoves, and its event.
LEMMA Moved ==
  ASSUME AlertTypes, NEW n \in Notifiers, NEW p \in Places, NotifierMoves(n, p)
  PROVE  /\ notifierAt' \in [Notifiers -> Places] /\ event' \in [Notifiers -> AlertEvents]
         /\ notifierAt'[n] = p /\ \A k \in Notifiers : k # n => notifierAt'[k] = notifierAt[k]
<1>1. NoEvent \in AlertEvents
  BY AlertAssumption DEF NoEvent
<1> QED BY <1>1 DEF NotifierMoves, AlertTypes

LEMMA AlertStep == AlertInv /\ [AlertNext]_alertVars => AlertInv'
<1> SUFFICES ASSUME AlertInv, [AlertNext]_alertVars PROVE AlertInv'
  OBVIOUS
<1>a. AlertTypes /\ ChannelsBuilt /\ SlotsHeld /\ MemoryExact
  BY DEF AlertInv
<1>b. \A n \in Notifiers : event[n] \in AlertEvents /\ event[n].key \in AlertKeys
  BY <1>a DEF AlertTypes, AlertKeys
<1>c. ASSUME NEW m \in Memories, NEW k \in AlertKeys PROVE [told EXCEPT ![m][k] = 0] \in Ages
  BY <1>a, NeverIs DEF AlertTypes, Ages
<1>1. ASSUME NEW n \in Notifiers, NEW e \in AlertEvents, Notify(n, e) PROVE AlertInv'
  <2>1. PICK p \in {"send", "ask", "check"} :
           notifierAt' = [notifierAt EXCEPT ![n] = p] /\ event' = [event EXCEPT ![n] = e]
    BY <1>1, AlertAssumption DEF Notify
  <2>2. UNCHANGED <<alertConf, channels, aggRedis, redisAlive, told, reloadAt, remaining, inFlight, asked, raised>>
    BY <1>1 DEF Notify
  <2>3. notifierAt' \in [Notifiers -> Places] /\ event' \in [Notifiers -> AlertEvents]
    BY <2>1, <1>a DEF AlertTypes, Places
  <2>4. \A k \in Notifiers : notifierAt'[k] = "loop" => notifierAt[k] = "loop"
    BY <2>1, <1>a DEF AlertTypes
  <2>5. AlertTypes'
    BY <2>2, <2>3, <1>a DEF AlertTypes
  <2>6. ChannelsBuilt'
    BY <2>2, <2>4, <1>a DEF ChannelsBuilt
  <2>7. SlotsHeld' /\ MemoryExact'
    BY <2>2, <1>a DEF SlotsHeld, MemoryExact
  <2> QED BY <2>5, <2>6, <2>7 DEF AlertInv
<1>2. ASSUME NEW n \in Notifiers, ShouldSend(n) PROVE AlertInv'
  <2>0. PICK m \in Memories, k \in AlertKeys : m = MemoryAsked /\ k = event[n].key
    BY <1>b DEF MemoryAsked, Memories
  <2>1. /\ told' = Recorded(m, k) /\ Answered(m, k) /\ LetThrough(m, k)
        /\ NotifierMoves(n, IF Recent(told, m, k) THEN "idle" ELSE "send")
        /\ UNCHANGED <<alertConf, channels, aggRedis, redisAlive, reloadAt, remaining, inFlight>>
    BY <1>2, <2>0 DEF ShouldSend
  <2>2. PICK p \in {"idle", "send"} : NotifierMoves(n, p)
    BY <2>1
  <2>3. /\ notifierAt' \in [Notifiers -> Places] /\ event' \in [Notifiers -> AlertEvents]
        /\ notifierAt'[n] = p /\ \A j \in Notifiers : j # n => notifierAt'[j] = notifierAt[j]
    BY <2>2, <1>a, Moved DEF Places
  <2>4. told' \in Ages
    BY <2>1, <1>c, <1>a DEF Recorded, AlertTypes
  <2>5. AlertTypes'
    BY <2>1, <2>3, <2>4, <1>a DEF AlertTypes
  <2>6. ChannelsBuilt'
    BY <2>1, <2>3, <1>a DEF ChannelsBuilt
  <2>7. SlotsHeld'
    BY <2>1, <1>a DEF SlotsHeld
  <2>8. told' = raised'
    BY <2>1, <1>a DEF MemoryExact, Recorded, LetThrough
  <2>9. asked'.admitted = asked'.due
    BY <2>1, <1>a DEF MemoryExact, Answered
  <2> QED BY <2>5, <2>6, <2>7, <2>8, <2>9 DEF AlertInv, MemoryExact
<1>2a. ASSUME NEW n \in Notifiers, AlertReplyLost(n) PROVE AlertInv'
  <2> DEFINE Noted(ages, m) == IF Recent(told, m, event[n].key) THEN ages ELSE [ages EXCEPT ![m][event[n].key] = 0]
  <2>1. /\ told' = Noted(Noted(told, "redis"), "local") /\ raised' = Noted(Noted(raised, "redis"), "local")
        /\ Answered("local", event[n].key)
        /\ UNCHANGED <<alertConf, channels, aggRedis, redisAlive, reloadAt, remaining, inFlight>>
    BY <1>2a DEF AlertReplyLost
  <2>2. PICK p \in {"idle", "send"} : NotifierMoves(n, p)
    BY <1>2a DEF AlertReplyLost
  <2>3. /\ notifierAt' \in [Notifiers -> Places] /\ event' \in [Notifiers -> AlertEvents]
        /\ notifierAt'[n] = p /\ \A j \in Notifiers : j # n => notifierAt'[j] = notifierAt[j]
    BY <2>2, <1>a, Moved DEF Places
  <2>4. ASSUME NEW ages \in Ages, NEW m \in Memories PROVE Noted(ages, m) \in Ages
    BY <1>b, NeverIs DEF Ages
  <2>5. told' \in Ages
    <3>1. told \in Ages /\ "redis" \in Memories /\ "local" \in Memories
      BY <1>a DEF AlertTypes, Memories
    <3> HIDE DEF Noted
    <3> QED BY <3>1, <2>1, <2>4
  <2>6. told' = raised'
    BY <2>1, <1>a DEF MemoryExact
  <2> HIDE DEF Noted
  <2>7. AlertTypes'
    BY <2>1, <2>3, <2>5, <1>a DEF AlertTypes
  <2>8. ChannelsBuilt'
    BY <2>1, <2>3, <1>a DEF ChannelsBuilt
  <2>9. SlotsHeld'
    BY <2>1, <1>a DEF SlotsHeld
  <2>10. asked'.admitted = asked'.due
    BY <2>1, <1>a DEF MemoryExact, Answered
  <2> QED BY <2>6, <2>7, <2>8, <2>9, <2>10 DEF AlertInv, MemoryExact
<1>3. ASSUME NEW n \in Notifiers, CheckQuotaUsage(n) PROVE AlertInv'
  <2>1. /\ Answered("quota", event[n].key)
        /\ UNCHANGED <<alertConf, channels, aggRedis, redisAlive, told, reloadAt, remaining, inFlight, raised>>
    BY <1>3 DEF CheckQuotaUsage
  <2>2. PICK p \in {"idle", "send"} : NotifierMoves(n, p)
    BY <1>3 DEF CheckQuotaUsage
  <2>3. /\ notifierAt' \in [Notifiers -> Places] /\ event' \in [Notifiers -> AlertEvents]
        /\ notifierAt'[n] = p /\ \A j \in Notifiers : j # n => notifierAt'[j] = notifierAt[j]
    BY <2>2, <1>a, Moved DEF Places
  <2>4. AlertTypes'
    BY <2>1, <2>3, <1>a DEF AlertTypes
  <2>5. ChannelsBuilt'
    BY <2>1, <2>3, <1>a DEF ChannelsBuilt
  <2>6. SlotsHeld'
    BY <2>1, <1>a DEF SlotsHeld
  <2>7. MemoryExact'
    BY <2>1, <1>a DEF MemoryExact, Answered
  <2> QED BY <2>4, <2>5, <2>6, <2>7 DEF AlertInv
<1>4. ASSUME NEW n \in Notifiers, NotifiedUser(n) PROVE AlertInv'
  <2>0. PICK k \in AlertKeys : k = event[n].key
    BY <1>b
  <2>1. /\ told' = [told EXCEPT !["quota"][k] = 0] /\ raised' = [raised EXCEPT !["quota"][k] = 0]
        /\ NotifierMoves(n, "idle")
        /\ UNCHANGED <<alertConf, channels, aggRedis, redisAlive, reloadAt, remaining, inFlight, asked>>
    BY <1>4, <2>0 DEF NotifiedUser, MarkNotified
  <2>2. told' \in Ages
    BY <2>1, <1>c DEF Memories
  <2>3. /\ notifierAt' \in [Notifiers -> Places] /\ event' \in [Notifiers -> AlertEvents]
        /\ notifierAt'[n] = "idle" /\ \A j \in Notifiers : j # n => notifierAt'[j] = notifierAt[j]
    BY <2>1, <1>a, Moved DEF Places
  <2>4. AlertTypes'
    BY <2>1, <2>2, <2>3, <1>a DEF AlertTypes
  <2>5. ChannelsBuilt'
    BY <2>1, <2>3, <1>a DEF ChannelsBuilt
  <2>6. SlotsHeld' /\ MemoryExact'
    BY <2>1, <1>a DEF SlotsHeld, MemoryExact
  <2> QED BY <2>4, <2>5, <2>6 DEF AlertInv
<1>5. ASSUME NEW n \in Notifiers, Send(n) PROVE AlertInv'
  <2>1. UNCHANGED <<alertConf, channels, aggRedis, redisAlive, told, reloadAt, inFlight, asked, raised>>
    BY <1>5 DEF Send
  <2>2. PICK p \in {"loop", "mark", "idle"} :
            /\ NotifierMoves(n, p)
            /\ p = "loop" => channels # <<>> /\ remaining' = [remaining EXCEPT ![n] = channels]
            /\ p # "loop" => UNCHANGED remaining
    BY <1>5 DEF Send, AfterSending
  <2>3. /\ notifierAt' \in [Notifiers -> Places] /\ event' \in [Notifiers -> AlertEvents]
        /\ notifierAt'[n] = p /\ \A j \in Notifiers : j # n => notifierAt'[j] = notifierAt[j]
    BY <2>2, <1>a, Moved DEF Places
  <2>4. AlertTypes'
    BY <2>1, <2>3, <1>a DEF AlertTypes
  <2>5. ChannelsBuilt'
    BY <2>1, <2>2, <2>3, <1>a DEF ChannelsBuilt
  <2>6. SlotsHeld' /\ MemoryExact'
    BY <2>1, <1>a DEF SlotsHeld, MemoryExact
  <2> QED BY <2>4, <2>5, <2>6 DEF AlertInv
<1>6. ASSUME NEW n \in Notifiers, SendLoop(n) PROVE AlertInv'
  <2>1. /\ UNCHANGED <<alertConf, channels, aggRedis, redisAlive, told, reloadAt, asked, raised>>
        /\ inFlight' = Started(n) /\ remaining' = [remaining EXCEPT ![n] = Tail(remaining[n])]
        /\ notifierAt[n] = "loop"
    BY <1>6 DEF SendLoop
  <2>2. PICK p \in {"loop", "mark", "idle"} : NotifierMoves(n, p) /\ (p = "loop" => Len(remaining[n]) # 1)
    BY <1>6 DEF SendLoop, AfterSending
  <2>3. /\ notifierAt' \in [Notifiers -> Places] /\ event' \in [Notifiers -> AlertEvents]
        /\ notifierAt'[n] = p /\ \A j \in Notifiers : j # n => notifierAt'[j] = notifierAt[j]
    BY <2>2, <1>a, Moved DEF Places
  <2>4. PICK r \in Seq(AllChannels) : r = remaining[n] /\ r # <<>>
    BY <2>1, <1>a DEF ChannelsBuilt
  <2>5. Tail(r) \in Seq(AllChannels) /\ Head(r) \in AllChannels /\ (Len(r) # 1 => Tail(r) # <<>>)
    <3>1. Len(r) \in Nat /\ Len(r) # 0
      BY <2>4
    <3>2. Tail(r) \in Seq(AllChannels) /\ Head(r) \in AllChannels /\ Len(Tail(r)) = Len(r) - 1
      BY <2>4, <3>1
    <3>3. Len(r) # 1 => Len(Tail(r)) # 0
      BY <3>1, <3>2
    <3>4. Len(<<>>) = 0
      OBVIOUS
    <3> QED BY <3>2, <3>3, <3>4
  <2>6. AlertTypes'
    BY <2>1, <2>3, <1>a DEF AlertTypes
  <2>7. ChannelsBuilt'
    <3>1. remaining' = [remaining EXCEPT ![n] = Tail(r)]
      BY <2>1, <2>4
    <3>2. remaining' \in [Notifiers -> Seq(AllChannels)]
      BY <3>1, <2>5, <1>a DEF ChannelsBuilt
    <3>3. remaining'[n] = Tail(r) /\ \A j \in Notifiers : j # n => remaining'[j] = remaining[j]
      BY <3>1, <1>a DEF ChannelsBuilt
    <3> QED BY <3>2, <3>3, <2>1, <2>2, <2>3, <2>4, <2>5, <1>a DEF ChannelsBuilt
  <2>8. SlotsHeld'
    <3>1. CASE inFlight' = inFlight
      BY <3>1, <1>a DEF SlotsHeld
    <3>2. CASE inFlight' # inFlight
      <4> DEFINE free == FreeSlots
      <4>0. /\ Match(Head(r), event[n].labels) /\ free # {}
            /\ inFlight' = inFlight \cup {[slot |-> CHOOSE s \in free : \A t \in free : s <= t,
                                           channel |-> Head(r), labels |-> event[n].labels]}
        BY <3>2, <2>1, <2>4 DEF Started
      <4> DEFINE least == CHOOSE s \in free : \A t \in free : s <= t
                 new == [slot |-> least, channel |-> Head(r), labels |-> event[n].labels]
      <4>1. /\ inFlight' = inFlight \cup {new} /\ new.channel = Head(r) /\ new.labels = event[n].labels
            /\ new.slot = least
        BY <4>0
      <4>2. free \subseteq Nat /\ free \subseteq 1 .. SendSlots
        BY AlertAssumption DEF FreeSlots
      <4>3. \E s \in free : \A t \in free : s <= t
        <5> HIDE DEF free
        <5> QED BY <4>0, <4>2, LeastNumber
      <4>4. new.slot \in free
        <5> HIDE DEF free
        <5>1. least \in free
          BY <4>3
        <5> HIDE DEF least
        <5> QED BY <5>1
      <4> HIDE DEF new
      <4>5. new.slot \in 1 .. SendSlots /\ \A f \in inFlight : f.slot # new.slot
        BY <4>4 DEF FreeSlots
      <4>6. Match(new.channel, new.labels) /\ new.channel \in AllChannels
        BY <4>0, <4>1, <2>5
      <4> QED BY <4>1, <4>5, <4>6, <1>a DEF SlotsHeld
    <3> QED BY <3>1, <3>2
  <2>9. MemoryExact'
    BY <2>1, <1>a DEF MemoryExact
  <2> QED BY <2>6, <2>7, <2>8, <2>9 DEF AlertInv
<1>7. ASSUME NEW f \in inFlight, SendEnds(f) PROVE AlertInv'
  BY <1>7, <1>a DEF SendEnds, AlertInv, AlertTypes, ChannelsBuilt, SlotsHeld, MemoryExact
<1>8. CASE Reload
  <2>1. UNCHANGED <<redisAlive, notifierAt, event, remaining, inFlight, asked>>
    BY <1>8 DEF Reload
  <2>2. SlotsHeld'
    BY <2>1, <1>a DEF SlotsHeld
  <2>3. reloadAt.step \in {0, 1, 2, 3} /\ reloadAt.conf \in AlertConfs
    BY <1>a DEF AlertTypes
  <2>4. CASE reloadAt.step = 0
    <3>1. PICK c \in AlertConfs : alertConf' = c /\ reloadAt' = [step |-> 1, conf |-> c]
      BY <1>8, <2>4 DEF Reload
    <3>2. UNCHANGED <<channels, aggRedis, told, raised>>
      BY <1>8, <2>4 DEF Reload
    <3>3. reloadAt' \in [step : 0 .. 3, conf : AlertConfs]
      BY <3>1
    <3>4. AlertTypes'
      BY <2>1, <3>1, <3>2, <3>3, <1>a DEF AlertTypes
    <3>5. ChannelsBuilt' /\ MemoryExact'
      BY <2>1, <3>2, <1>a DEF ChannelsBuilt, MemoryExact
    <3> QED BY <2>2, <3>4, <3>5 DEF AlertInv
  <2>5. CASE reloadAt.step \in {1, 2}
    <3>1. ASSUME reloadAt.step = 1
          PROVE  /\ reloadAt' = [reloadAt EXCEPT !.step = 2] /\ channels' = buildChannels(reloadAt.conf)
                 /\ UNCHANGED <<alertConf, aggRedis, told, raised>>
      BY <1>8, <3>1 DEF Reload
    <3>2. ASSUME reloadAt.step = 2
          PROVE  /\ reloadAt' = [reloadAt EXCEPT !.step = 3] /\ channels' = EnabledChannels(reloadAt.conf)
                 /\ UNCHANGED <<alertConf, aggRedis, told, raised>>
      BY <1>8, <3>2 DEF Reload
    <3>3. UNCHANGED <<alertConf, aggRedis, told, raised>>
      BY <3>1, <3>2, <2>5
    <3>4. reloadAt' \in [step : 0 .. 3, conf : AlertConfs]
      BY <3>1, <3>2, <2>5, <1>a DEF AlertTypes
    <3>5. channels' \in Seq(AllChannels)
      BY <3>1, <3>2, <2>3, <2>5, BuiltIs
    <3>6. AlertTypes'
      BY <2>1, <3>3, <3>4, <1>a DEF AlertTypes
    <3>7. ChannelsBuilt' /\ MemoryExact'
      BY <2>1, <3>3, <3>5, <1>a DEF ChannelsBuilt, MemoryExact
    <3> QED BY <2>2, <3>6, <3>7 DEF AlertInv
  <2>6. CASE reloadAt.step = 3
    <3>1. /\ aggRedis' = FALSE /\ reloadAt' = NoReload /\ UNCHANGED <<alertConf, channels>>
          /\ told' = [told EXCEPT !["local"] = [k \in AlertKeys |-> Never]]
          /\ raised' = [raised EXCEPT !["local"] = [k \in AlertKeys |-> Never]]
      BY <1>8, <2>6 DEF Reload
    <3>2. reloadAt' \in [step : 0 .. 3, conf : AlertConfs]
      BY <3>1, <1>a DEF NoReload, AlertTypes
    <3>3. told' \in Ages
      <4>1. [k \in AlertKeys |-> Never] \in [AlertKeys -> 0 .. Never]
        BY NeverIs
      <4> QED BY <3>1, <4>1, <1>a DEF AlertTypes, Ages
    <3>4. AlertTypes'
      BY <2>1, <3>1, <3>2, <3>3, <1>a DEF AlertTypes
    <3>5. ChannelsBuilt' /\ MemoryExact'
      BY <2>1, <3>1, <1>a DEF ChannelsBuilt, MemoryExact
    <3> QED BY <2>2, <3>4, <3>5 DEF AlertInv
  <2> QED BY <2>3, <2>4, <2>5, <2>6
<1>9. CASE RedisTurns
  BY <1>9, <1>a DEF RedisTurns, AlertInv, AlertTypes, ChannelsBuilt, SlotsHeld, MemoryExact
<1>10. CASE AlertTick
  <2>1. /\ told' = Older(told) /\ raised' = Older(raised)
        /\ UNCHANGED <<alertConf, channels, aggRedis, redisAlive, reloadAt, notifierAt, event, remaining, inFlight, asked>>
    BY <1>10 DEF AlertTick
  <2>2. Older(told) \in Ages
    <3>1. ASSUME NEW m \in Memories, NEW k \in AlertKeys
          PROVE  (IF told[m][k] < Never THEN told[m][k] + 1 ELSE Never) \in 0 .. Never
      <4>1. told[m][k] \in 0 .. Never
        BY <1>a DEF AlertTypes, Ages
      <4> QED BY <4>1, NeverIs
    <3> QED BY <3>1 DEF Older, Ages
  <2>3. AlertTypes'
    BY <2>1, <2>2, <1>a DEF AlertTypes
  <2>4. ChannelsBuilt' /\ SlotsHeld'
    BY <2>1, <1>a DEF ChannelsBuilt, SlotsHeld
  <2>5. MemoryExact'
    BY <2>1, <1>a DEF MemoryExact
  <2> QED BY <2>3, <2>4, <2>5 DEF AlertInv
<1>11. CASE UNCHANGED alertVars
  BY <1>11, <1>a DEF alertVars, AlertInv, AlertTypes, ChannelsBuilt, SlotsHeld, MemoryExact
<1> QED BY <1>1, <1>2, <1>2a, <1>3, <1>4, <1>5, <1>6, <1>7, <1>8, <1>9, <1>10, <1>11 DEF AlertNext

LEMMA AlertConsequence == AlertInv => AlertSound
<1> SUFFICES ASSUME AlertInv PROVE AlertSound
  OBVIOUS
<1>1. AlertTypes /\ ChannelsBuilt /\ SlotsHeld /\ MemoryExact
  BY DEF AlertInv
<1>2. Cardinality(inFlight) <= SendSlots
  <2> DEFINE slotOf == [f \in inFlight |-> f.slot]
  <2>1. slotOf \in Injection(inFlight, 1 .. SendSlots)
    BY <1>1 DEF SlotsHeld, Injection, IsInjective
  <2>2. IsFiniteSet(1 .. SendSlots) /\ Cardinality(1 .. SendSlots) = SendSlots
    <3>1. SendSlots \in Nat /\ 1 \in Int
      BY AlertAssumption
    <3> QED BY <3>1, FS_Interval
  <2> HIDE DEF slotOf
  <2> QED BY <2>1, <2>2, FS_Injection
<1>3. AlertTypeOK
  <2>1. \A m \in Memories, k \in AlertKeys : told[m][k] \in 0 .. Never /\ raised[m][k] \in 0 .. Never
    BY <1>1 DEF AlertTypes, Ages, MemoryExact
  <2>2. \A n \in Notifiers : notifierAt[n] \in Places /\ (notifierAt[n] = "loop" => remaining[n] # <<>>)
    BY <1>1 DEF AlertTypes, ChannelsBuilt
  <2> QED BY <1>1, <1>2, <2>1, <2>2 DEF AlertTypeOK, AlertTypes, SlotsHeld, Places
<1>4. DedupExact
  BY <1>1 DEF DedupExact, MemoryExact
<1>5. RoutedByLabels
  <2> SUFFICES ASSUME NEW f \in inFlight
               PROVE  /\ \A l \in DOMAIN f.channel.labels : f.labels[l] = f.channel.labels[l]
                      /\ \E c \in AlertConfs : \E i \in DOMAIN buildChannels(c) : buildChannels(c)[i] = f.channel
    BY DEF RoutedByLabels
  <2>1. Match(f.channel, f.labels) /\ f.channel \in AllChannels
    BY <1>1 DEF SlotsHeld
  <2>2. \E c \in AlertConfs : f.channel \in Members(buildChannels(c))
    BY <2>1 DEF AllChannels
  <2> QED BY <2>1, <2>2 DEF Match, Members
<1> QED BY <1>3, <1>4, <1>5 DEF AlertSound

\* For any configurations, events and number of notifiers, and whether Redis answers or not: an alert is let
\* through exactly when its window is over, at most MaxConcurrent sends are in flight, and what is sent goes to a
\* channel of a configuration whose labels the event has (alert.go ShouldSend, send, Match).
THEOREM AlertsCorrect == AlertSpec => []AlertSound
<1>1. AlertInit => AlertInv
  BY AlertsStart
<1>2. AlertInv /\ [AlertNext]_alertVars => AlertInv'
  BY AlertStep
<1>3. AlertInv => AlertSound
  BY AlertConsequence
<1> QED BY <1>1, <1>2, <1>3, PTL DEF AlertSpec

\* Only a check of the quota takes a notifier from its check to the sending, and it has seen
\* that the mark is not recent.
LEMMA MarkStep == AlertInv /\ [AlertNext]_alertVars => QuotaMarkHolds
<1> SUFFICES ASSUME AlertInv, [AlertNext]_alertVars,
                    NEW x \in Notifiers, notifierAt[x] = "check", notifierAt'[x] = "send"
             PROVE  ~Recent(raised, "quota", event[x].key)
  BY DEF QuotaMarkHolds
<1>a. notifierAt \in [Notifiers -> Places] /\ event \in [Notifiers -> AlertEvents] /\ told = raised
  BY DEF AlertInv, AlertTypes, MemoryExact
<1>1. ASSUME NEW n \in Notifiers, notifierAt[n] # "check", NEW p, notifierAt' = [notifierAt EXCEPT ![n] = p]
      PROVE  FALSE
  BY <1>1, <1>a
<1>2. ASSUME NEW n \in Notifiers, NEW e \in AlertEvents, Notify(n, e) PROVE FALSE
  BY <1>1, <1>2 DEF Notify
<1>3. ASSUME NEW n \in Notifiers, ShouldSend(n) \/ AlertReplyLost(n) \/ NotifiedUser(n) \/ Send(n) \/ SendLoop(n) PROVE FALSE
  BY <1>1, <1>3 DEF ShouldSend, AlertReplyLost, NotifiedUser, Send, SendLoop, NotifierMoves
<1>4. ASSUME NEW n \in Notifiers, CheckQuotaUsage(n) PROVE ~Recent(raised, "quota", event[x].key)
  <2>1. n = x
    BY <1>4, <1>a DEF CheckQuotaUsage, NotifierMoves
  <2> QED BY <1>4, <2>1, <1>a DEF CheckQuotaUsage, NotifierMoves
<1>5. ASSUME UNCHANGED notifierAt PROVE FALSE
  BY <1>5
<1>6. ASSUME NEW f \in inFlight, SendEnds(f) PROVE FALSE
  BY <1>5, <1>6 DEF SendEnds
<1>7. ASSUME Reload \/ RedisTurns \/ AlertTick \/ UNCHANGED alertVars PROVE FALSE
  BY <1>5, <1>7 DEF Reload, RedisTurns, AlertTick, alertVars
<1> QED BY <1>2, <1>3, <1>4, <1>6, <1>7 DEF AlertNext

-----------------------------------------------------------------------------
(* PricingFeed.                                                            *)

Priced(f) == {k \in DOMAIN f.entries : f.entries[k] = "priced"}

\* The feeds that exist: the one published, the one a refresh has read, the one in force
\* and the one of the file.
FeedsHeld == {feedNow, body, newest, cacheFile.data}

\* A feed has a number up to now; the one before the first is empty.
IsFeed(f, now) ==
    /\ f.number \in 0 .. now /\ DOMAIN f.entries \subseteq FeedKeys
    /\ f.number = 0 => Priced(f) = {}

\* A number names one feed, and a request that was charged nothing was free by the feed
\* whose number it has, wherever that feed is now.
FeedsAgree(H, now, ch) ==
    /\ \A f \in H : IsFeed(f, now)
    /\ \A f, g \in H : f.number = g.number => Priced(f) = Priced(g)
    /\ ch.number \in 0 .. now
    /\ ch.by = "zero" => \A f \in H : f.number = ch.number =>
                            \A n \in ch.names : {n, LowerOf[n]} \cap Priced(f) = {}

PriceTypes ==
    /\ feedNow.number \in 1 .. MaxFeeds
    /\ loopAt \in {"refresh", "replace", "temp", "rename", "select", "done"}
    /\ feedProcess \in {"up", "down"} /\ cancelled \in BOOLEAN
    /\ feedProcess = "down" => loopAt = "done"
    /\ priceFaults \in 0 .. MaxPriceFaults

\* The feed in force: none when the file could not be read.
InForce == IF unread THEN NoFeed ELSE newest

\* The table is that of the newest feed, the file is whole and not ahead of it, and a
\* refresh brings one that is not older.
TableOfNewest ==
    /\ table = [number |-> InForce.number, prices |-> Priced(InForce)] /\ unread \in BOOLEAN
    /\ cacheFile.there \in BOOLEAN /\ cacheFile.whole \in BOOLEAN
    /\ cacheFile.there => cacheFile.whole
    /\ ~cacheFile.there => cacheFile.data.number = 0
    /\ feedProcess = "up" => cacheFile.data.number <= newest.number
    /\ loopAt = "replace" => newest.number <= body.number
    /\ loopAt \in {"temp", "rename"} => body = newest

PriceInv == PriceTypes /\ TableOfNewest /\ FeedsAgree(FeedsHeld, feedNow.number, charges)

LEMMA NoFeedIs ==
  ASSUME NEW now \in Nat
  PROVE  IsFeed(NoFeed, now) /\ Priced(NoFeed) = {} /\ NoFeed.number = 0
<1>1. DOMAIN NoFeed.entries = {} /\ NoFeed.number = 0
  BY DEF NoFeed
<1>2. Priced(NoFeed) = {}
  BY <1>1 DEF Priced
<1> QED BY <1>1, <1>2 DEF IsFeed

\* Feeds go away and nothing comes but the empty one: the others still agree.
LEMMA FeedsFewer ==
  ASSUME NEW now \in Nat, NEW ch, NEW H, FeedsAgree(H, now, ch),
         NEW G, \A f \in G : f \in H \/ f = NoFeed
  PROVE  FeedsAgree(G, now, ch)
<1>1. IsFeed(NoFeed, now) /\ Priced(NoFeed) = {} /\ NoFeed.number = 0
  BY NoFeedIs
<1>2. \A f \in H : f.number = 0 => Priced(f) = {}
  BY DEF FeedsAgree, IsFeed
<1>3. \A f \in G : IsFeed(f, now)
  BY <1>1 DEF FeedsAgree
<1>4. ASSUME NEW f \in G, NEW g \in G, f.number = g.number
      PROVE  Priced(f) = Priced(g)
  BY <1>1, <1>2, <1>4 DEF FeedsAgree
<1>5. ASSUME ch.by = "zero", NEW f \in G, f.number = ch.number, NEW n \in ch.names
      PROVE  {n, LowerOf[n]} \cap Priced(f) = {}
  BY <1>1, <1>5 DEF FeedsAgree
<1> QED BY <1>3, <1>4, <1>5 DEF FeedsAgree

\* What a feed prices, as parseFeed leaves it.
LEMMA ParsedIs == ASSUME NEW f PROVE parseFeed(f) = [number |-> f.number, prices |-> Priced(f)]
BY DEF parseFeed, Priced

LEMMA PriceStart == PriceInit => PriceInv
<1> SUFFICES ASSUME PriceInit PROVE PriceInv
  OBVIOUS
<1>1. PICK f \in Published : feedNow = [number |-> 1, entries |-> f]
  BY DEF PriceInit
<1>2. IsFeed(feedNow, 1) /\ feedNow.number = 1
  BY <1>1, PriceAssumption DEF IsFeed
<1>3. IsFeed(NoFeed, 1) /\ Priced(NoFeed) = {} /\ NoFeed.number = 0
  BY NoFeedIs
<1>4. /\ body = NoFeed /\ newest = NoFeed /\ cacheFile = NoFile /\ cacheFile.data = NoFeed
      /\ charges.number = 0 /\ charges.by = "none"
  BY DEF PriceInit, NoFile, NoCharge
<1>5. FeedsAgree(FeedsHeld, feedNow.number, charges)
  BY <1>2, <1>3, <1>4 DEF FeedsAgree, FeedsHeld
<1>6. PriceTypes
  <2>1. feedNow.number \in 1 .. MaxFeeds
    BY <1>2, PriceAssumption
  <2>2. priceFaults \in 0 .. MaxPriceFaults
    BY PriceAssumption DEF PriceInit
  <2> QED BY <2>1, <2>2 DEF PriceInit, PriceTypes
<1>7. TableOfNewest
  <2>1. unread = FALSE /\ InForce = NoFeed
    BY <1>4 DEF PriceInit, InForce
  <2>2. table = [number |-> InForce.number, prices |-> Priced(InForce)]
    BY <1>3, <2>1 DEF PriceInit, NoTable
  <2>3. cacheFile.there = FALSE /\ cacheFile.whole = FALSE /\ loopAt = "refresh"
    BY DEF PriceInit, NoFile
  <2>4. cacheFile.data.number = 0 /\ newest.number = 0 /\ 0 <= 0
    BY <1>3, <1>4
  <2>5. feedProcess = "up" => cacheFile.data.number <= newest.number
    BY <2>4
  <2>6. loopAt \notin {"replace", "temp", "rename"}
    BY <2>3
  <2> QED BY <2>1, <2>2, <2>3, <2>4, <2>5, <2>6, Zenon DEF TableOfNewest
<1> QED BY <1>5, <1>6, <1>7 DEF PriceInv

LEMMA PriceStep == PriceInv /\ [PriceNext]_priceVars => PriceInv'
<1> SUFFICES ASSUME PriceInv, [PriceNext]_priceVars PROVE PriceInv'
  OBVIOUS
<1> USE PriceAssumption
<1>a. PriceTypes /\ TableOfNewest /\ FeedsAgree(FeedsHeld, feedNow.number, charges)
  BY DEF PriceInv
<1>b. feedNow.number \in Nat /\ feedNow.number >= 1
  BY <1>a DEF PriceTypes
<1>c. \A f \in FeedsHeld : f.number \in Nat /\ f.number <= feedNow.number
  BY <1>a, <1>b DEF FeedsAgree, IsFeed
<1>d. /\ body.number \in Nat /\ newest.number \in Nat /\ cacheFile.data.number \in Nat
      /\ newest.number <= feedNow.number
  BY <1>c DEF FeedsHeld
<1>e. NoFeed.number = 0
  BY DEF NoFeed
<1>f. ASSUME UNCHANGED <<feedNow, charges>>, \A f \in FeedsHeld' : f \in FeedsHeld \/ f = NoFeed
      PROVE  FeedsAgree(FeedsHeld, feedNow.number, charges)'
  <2>1. FeedsAgree(FeedsHeld', feedNow.number, charges)
    BY <1>a, <1>b, <1>f, FeedsFewer
  <2> QED BY <2>1, <1>f
<1>1. CASE Publish
  <2>1. PICK p \in Published : feedNow' = [number |-> feedNow.number + 1, entries |-> p]
    BY <1>1 DEF Publish
  <2>2. /\ feedNow.number < MaxFeeds /\ feedNow'.number = feedNow.number + 1
        /\ DOMAIN feedNow'.entries \subseteq FeedKeys
    BY <1>1, <2>1 DEF Publish
  <2>3. UNCHANGED <<table, cacheFile, loopAt, body, cancelled, feedProcess, charges, newest, unread, priceFaults>>
    BY <1>1 DEF Publish
  <2>4. \A f \in FeedsHeld' : f \in FeedsHeld \/ f = feedNow'
    BY <2>3 DEF FeedsHeld
  <2>5. IsFeed(feedNow', feedNow'.number) /\ \A f \in FeedsHeld : IsFeed(f, feedNow'.number)
    BY <1>a, <1>b, <2>2 DEF FeedsAgree, IsFeed
  <2>6. \A f \in FeedsHeld : f.number # feedNow'.number
    BY <1>c, <1>b, <2>2
  <2>7. charges.number \in 0 .. feedNow'.number /\ charges.number # feedNow'.number
    BY <1>a, <1>b, <2>2 DEF FeedsAgree
  <2>8. FeedsAgree(FeedsHeld', feedNow'.number, charges)
    BY <1>a, <2>4, <2>5, <2>6, <2>7 DEF FeedsAgree
  <2>9. FeedsAgree(FeedsHeld, feedNow.number, charges)'
    BY <2>8, <2>3
  <2>10. PriceTypes' /\ TableOfNewest'
    BY <1>a, <1>b, <2>2, <2>3 DEF PriceTypes, TableOfNewest, InForce, Priced
  <2> QED BY <2>9, <2>10 DEF PriceInv
<1>2. CASE Fetch
  <2>1. /\ UNCHANGED <<feedNow, table, cacheFile, cancelled, feedProcess, charges, newest>>
        /\ body' \in {feedNow, body} /\ loopAt = "refresh"
    BY <1>2 DEF Fetch
  <2>2. FeedsAgree(FeedsHeld, feedNow.number, charges)'
    BY <2>1, <1>f DEF FeedsHeld
  <2>3. PriceTypes'
    BY <1>2, <1>a DEF Fetch, PriceTypes
  <2>4. TableOfNewest'
    BY <1>2, <1>a, <1>d DEF Fetch, TableOfNewest, InForce, Priced
  <2> QED BY <2>2, <2>3, <2>4 DEF PriceInv
<1>3. CASE Replace
  <2>1. /\ UNCHANGED <<feedNow, cacheFile, body, cancelled, feedProcess, charges, priceFaults>>
        /\ newest' = body /\ loopAt = "replace" /\ loopAt' = "temp" /\ unread' = FALSE
    BY <1>3 DEF Replace
  <2>2. FeedsAgree(FeedsHeld, feedNow.number, charges)'
    BY <2>1, <1>f DEF FeedsHeld
  <2>3. table' = [number |-> body.number, prices |-> Priced(body)]
    BY <1>3, ParsedIs DEF Replace, Replaced
  <2>4. table' = [number |-> InForce.number, prices |-> Priced(InForce)]'
    BY <2>3, <2>1 DEF Priced, InForce
  <2>5. PriceTypes'
    BY <2>1, <1>a DEF PriceTypes
  <2>6. feedProcess' = "up" => cacheFile'.data.number <= newest'.number
    BY <2>1, <1>a, <1>d DEF TableOfNewest
  <2>7. TableOfNewest'
    BY <2>1, <2>4, <2>6, <1>a DEF TableOfNewest
  <2> QED BY <2>2, <2>5, <2>7 DEF PriceInv
<1>4. CASE Temp
  <2>1. /\ UNCHANGED <<feedNow, table, cacheFile, cancelled, feedProcess, charges, newest, unread>>
        /\ body' \in {NoFeed, body} /\ loopAt = "temp"
    BY <1>4 DEF Temp, WriteTemp
  <2>2. FeedsAgree(FeedsHeld, feedNow.number, charges)'
    BY <2>1, <1>f DEF FeedsHeld
  <2>3. PriceTypes'
    BY <1>4, <1>a, <2>1 DEF Temp, PriceTypes
  <2>4. TableOfNewest'
    BY <1>4, <1>a, <2>1 DEF Temp, TableOfNewest, Priced, InForce
  <2> QED BY <2>2, <2>3, <2>4 DEF PriceInv
<1>5. CASE Rename
  <2>1. /\ UNCHANGED <<feedNow, table, cancelled, feedProcess, charges, newest, unread>>
        /\ body' = NoFeed /\ loopAt = "rename" /\ loopAt' = "select"
        /\ \/ cacheFile' = cacheFile
           \/ cacheFile'.data = body /\ cacheFile'.there = TRUE /\ cacheFile'.whole = TRUE
        /\ priceFaults' = priceFaults \/ (priceFaults < MaxPriceFaults /\ priceFaults' = priceFaults + 1)
    BY <1>5 DEF Rename
  <2>2. FeedsAgree(FeedsHeld, feedNow.number, charges)'
    BY <2>1, <1>f DEF FeedsHeld
  <2>3. PriceTypes'
    BY <1>a, <2>1 DEF PriceTypes
  <2>4. feedProcess' = "up" => cacheFile'.data.number <= newest'.number
    BY <1>a, <1>d, <2>1 DEF TableOfNewest
  <2>5. table' = [number |-> InForce.number, prices |-> Priced(InForce)]' /\ unread' \in BOOLEAN
    BY <1>a, <2>1 DEF TableOfNewest, Priced, InForce
  <2>6. TableOfNewest'
    BY <1>a, <2>1, <2>4, <2>5 DEF TableOfNewest
  <2> QED BY <2>2, <2>3, <2>6 DEF PriceInv
<1>6. CASE RunLoop
  <2>1. /\ UNCHANGED <<feedNow, table, cacheFile, body, cancelled, feedProcess, charges, newest, unread, priceFaults>>
        /\ loopAt = "select" /\ loopAt' \in {"refresh", "done"}
    BY <1>6 DEF RunLoop
  <2>2. FeedsAgree(FeedsHeld, feedNow.number, charges)'
    BY <2>1, <1>f DEF FeedsHeld
  <2>3. PriceTypes' /\ TableOfNewest'
    BY <1>a, <2>1 DEF PriceTypes, TableOfNewest, Priced, InForce
  <2> QED BY <2>2, <2>3 DEF PriceInv
<1>7. CASE Stop \/ Exit
  <2>1. /\ UNCHANGED <<feedNow, table, cacheFile, body, charges, newest, unread, priceFaults, loopAt>>
        /\ cancelled' \in BOOLEAN /\ feedProcess' \in {feedProcess, "down"}
        /\ feedProcess' = "down" => loopAt = "done"
    BY <1>7, <1>a DEF Stop, Exit, StopWaits, PriceTypes
  <2>2. FeedsAgree(FeedsHeld, feedNow.number, charges)'
    BY <2>1, <1>f DEF FeedsHeld
  <2>3. PriceTypes' /\ TableOfNewest'
    BY <1>a, <2>1 DEF PriceTypes, TableOfNewest, Priced, InForce
  <2> QED BY <2>2, <2>3 DEF PriceInv
<1>8. CASE Crash
  <2>1. /\ UNCHANGED <<feedNow, table, cacheFile, cancelled, charges, newest, unread>>
        /\ body' = NoFeed /\ loopAt' = "done" /\ feedProcess' = "down"
        /\ priceFaults < MaxPriceFaults /\ priceFaults' = priceFaults + 1
    BY <1>8 DEF Crash
  <2>2. FeedsAgree(FeedsHeld, feedNow.number, charges)'
    BY <2>1, <1>f DEF FeedsHeld
  <2>3. PriceTypes' /\ TableOfNewest'
    BY <1>a, <2>1 DEF PriceTypes, TableOfNewest, Priced, InForce
  <2> QED BY <2>2, <2>3 DEF PriceInv
<1>9. ASSUME NEW readFails \in BOOLEAN, Start(readFails) PROVE PriceInv'
  <2>1. /\ UNCHANGED <<feedNow, cacheFile>> /\ newest' = cacheFile.data
        /\ body' = NoFeed /\ charges' = NoCharge /\ loopAt' = "refresh"
        /\ cancelled' = FALSE /\ feedProcess' = "up"
    BY <1>9 DEF Start
  <2>a. /\ table' = Bootstrap(readFails) /\ unread' = readFails
    BY <1>9 DEF Start
  <2>b. priceFaults' = priceFaults \/ (priceFaults < MaxPriceFaults /\ priceFaults' = priceFaults + 1)
    BY <1>9 DEF Start
  <2>2. \A f \in FeedsHeld' : f \in FeedsHeld \/ f = NoFeed
    BY <2>1 DEF FeedsHeld
  <2>3. FeedsAgree(FeedsHeld', feedNow.number, charges)
    BY <1>a, <1>b, <2>2, FeedsFewer
  <2>4. NoCharge.by = "none" /\ NoCharge.number = 0
    BY DEF NoCharge
  <2>5. FeedsAgree(FeedsHeld', feedNow.number, NoCharge)
    BY <2>3, <2>4, <1>b DEF FeedsAgree
  <2>6. FeedsAgree(FeedsHeld, feedNow.number, charges)'
    BY <2>5, <2>1
  <2>7. cacheFile.data \in FeedsHeld /\ (cacheFile.data.number = 0 => Priced(cacheFile.data) = {})
    BY <1>a DEF FeedsHeld, FeedsAgree, IsFeed
  <2>8. ASSUME ~readFails PROVE table' = [number |-> InForce.number, prices |-> Priced(InForce)]'
    <3>1. Bootstrap(readFails) = [number |-> cacheFile.data.number, prices |-> Priced(cacheFile.data)]
      BY <1>a, <2>7, <2>8, ParsedIs DEF Bootstrap, TableOfNewest, NoTable
    <3>2. InForce' = cacheFile.data
      BY <2>1, <2>a, <2>8 DEF InForce
    <3> QED BY <2>a, <3>1, <3>2 DEF Priced
  <2>9. ASSUME readFails PROVE table' = [number |-> InForce.number, prices |-> Priced(InForce)]'
    <3>1. Bootstrap(readFails) = [number |-> 0, prices |-> {}]
      BY <2>9 DEF Bootstrap, NoTable
    <3>2. InForce' = NoFeed
      BY <2>a, <2>9 DEF InForce
    <3>3. Priced(NoFeed) = {} /\ NoFeed.number = 0
      BY <1>b, NoFeedIs
    <3> QED BY <2>a, <3>1, <3>2, <3>3 DEF Priced
  <2>10. TableOfNewest'
    <3>1. table' = [number |-> InForce.number, prices |-> Priced(InForce)]' /\ unread' \in BOOLEAN
      BY <2>a, <2>8, <2>9
    <3>2. cacheFile'.data.number <= newest'.number
      BY <1>d, <2>1
    <3> QED BY <1>a, <2>1, <3>1, <3>2 DEF TableOfNewest
  <2>11. PriceTypes'
    <3>1. priceFaults' \in 0 .. MaxPriceFaults
      BY <1>a, <2>b DEF PriceTypes
    <3> QED BY <1>a, <2>1, <3>1 DEF PriceTypes
  <2> QED BY <2>6, <2>10, <2>11 DEF PriceInv
<1>10. CASE Charge
  <2>1. PICK yaml \in BOOLEAN, requested \in FeedKeys, model \in FeedKeys :
            charges' = computeCost(yaml, requested, model)
    BY <1>10 DEF Charge
  <2>2. UNCHANGED <<feedNow, table, cacheFile, loopAt, body, cancelled, feedProcess, newest, unread, priceFaults>>
    BY <1>10 DEF Charge
  <2>3. /\ charges'.names = {requested, model} /\ charges'.number = table.number
        /\ charges'.by = "zero" => Get(requested) \cup Get(model) = {}
    BY <2>1 DEF computeCost
  <2>4. table.number = InForce.number /\ table.prices = Priced(InForce) /\ InForce \in FeedsHeld \cup {NoFeed}
    BY <1>a DEF TableOfNewest, FeedsHeld, InForce
  <2>5. charges'.by = "zero" => \A n \in charges'.names : {n, LowerOf[n]} \cap Priced(InForce) = {}
    BY <2>3, <2>4 DEF Get
  <2>6. FeedsAgree(FeedsHeld, feedNow.number, charges')
    <3>1. InForce.number \in 0 .. feedNow.number
      BY <1>b, <1>c, <1>e, <2>4
    <3>2. \A f \in FeedsHeld : f.number = InForce.number => Priced(f) = Priced(InForce)
      <4>1. CASE InForce \in FeedsHeld
        BY <1>a, <4>1 DEF FeedsAgree
      <4>2. CASE InForce = NoFeed
        BY <1>a, <1>b, <4>2, NoFeedIs DEF FeedsAgree, IsFeed
      <4> QED BY <2>4, <4>1, <4>2
    <3> QED BY <1>a, <2>3, <2>4, <2>5, <3>1, <3>2 DEF FeedsAgree
  <2>7. FeedsAgree(FeedsHeld, feedNow.number, charges)'
    BY <2>6, <2>2 DEF FeedsHeld
  <2>8. PriceTypes' /\ TableOfNewest'
    BY <1>a, <2>2 DEF PriceTypes, TableOfNewest, Priced, InForce
  <2> QED BY <2>7, <2>8 DEF PriceInv
<1>11. CASE UNCHANGED priceVars
  <2>1. UNCHANGED <<feedNow, table, cacheFile, loopAt, body, cancelled, feedProcess, charges, newest, unread, priceFaults>>
    BY <1>11 DEF priceVars
  <2>2. FeedsAgree(FeedsHeld, feedNow.number, charges)'
    BY <2>1, <1>f DEF FeedsHeld
  <2>3. PriceTypes' /\ TableOfNewest'
    BY <1>a, <2>1 DEF PriceTypes, TableOfNewest, Priced, InForce
  <2> QED BY <2>2, <2>3 DEF PriceInv
<1> QED BY <1>1, <1>2, <1>3, <1>4, <1>5, <1>6, <1>7, <1>8, <1>9, <1>10, <1>11 DEF PriceNext

LEMMA PriceConsequence == PriceInv => PriceSound
<1> SUFFICES ASSUME PriceInv PROVE PriceSound
  OBVIOUS
<1>1. PriceTypes /\ TableOfNewest /\ FeedsAgree(FeedsHeld, feedNow.number, charges) /\ newest \in FeedsHeld
  BY DEF PriceInv, FeedsHeld
<1>0. /\ IsFeed(NoFeed, feedNow.number) /\ Priced(NoFeed) = {} /\ NoFeed.number = 0 /\ feedNow.number \in Nat
  BY <1>1, NoFeedIs DEF PriceTypes
<1>2. /\ InForce.number \in 0 .. feedNow.number /\ DOMAIN InForce.entries \subseteq FeedKeys
      /\ table = [number |-> InForce.number, prices |-> Priced(InForce)]
      /\ table.number = InForce.number /\ table.prices = Priced(InForce)
  BY <1>0, <1>1 DEF FeedsAgree, IsFeed, TableOfNewest, InForce
<1>a. /\ unread => table = NoTable
      /\ ~unread => InForce = newest
  BY <1>0, <1>2 DEF InForce, NoTable
<1>3. PriceTypeOK
  <2>1. table.number \in 0 .. MaxFeeds
    BY <1>1, <1>2, PriceAssumption DEF PriceTypes
  <2>2. table.prices \subseteq FeedKeys
    BY <1>2 DEF Priced
  <2> QED BY <1>1, <2>1, <2>2 DEF PriceTypeOK, PriceTypes, TableOfNewest
<1>4. FileWhole
  BY <1>1, <1>2, <1>a DEF FileWhole, TableOfNewest
<1>5. NewestInForce
  BY <1>2, <1>a DEF NewestInForce, Priced
<1>6. FreeOnlyUnpriced
  <2>1. CASE unread
    BY <2>1, <1>a DEF FreeOnlyUnpriced, NoTable
  <2>2. CASE ~unread
    BY <2>2, <1>a, <1>1, <1>2 DEF FreeOnlyUnpriced, FeedsAgree
  <2> QED BY <2>1, <2>2
<1> QED BY <1>3, <1>4, <1>5, <1>6 DEF PriceSound

\* For any feeds, spellings, crashes and restarts, however refreshes fail: the cache file is absent or one feed whole
\* and never ahead of the table, the newest feed that was had in full is in force, none until the first refresh that
\* succeeds when the file could not be read at the start, and a request is free only when the
\* table prices neither of its names (feed.go Refresh, Bootstrap, writeAtomic, computeCost).
THEOREM PricesCorrect == PriceSpec => []PriceSound
<1>1. PriceInit => PriceInv
  BY PriceStart
<1>2. PriceInv /\ [PriceNext]_priceVars => PriceInv'
  BY PriceStep
<1>3. PriceInv => PriceSound
  BY PriceConsequence
<1> QED BY <1>1, <1>2, <1>3, PTL DEF PriceSpec

-----------------------------------------------------------------------------
(* PluginMarket.                                                           *)

Row == [there : BOOLEAN, tenant : {"default", "other"}, type : {"grpc", "wasm"}, name : PluginNames \cup {""},
        phase : {"pre", "PRE"}, file : BOOLEAN, enabled : BOOLEAN]
Ops == [op : {"none", "insert", "remove", "delete"}, id : 0 .. MaxPlugins]
DefaultRows == {r \in Members(Configured) \cup Row : r.tenant = "default"}

MarketTypes ==
    /\ pluginRows \in [PluginIds -> Row] /\ pluginFiles \in [PluginIds -> {"none", "partial", "whole"}]
    /\ adminOp \in [PluginAdmins -> Ops]
    /\ damaged \subseteq PluginIds /\ gone \subseteq PluginIds /\ kept \subseteq PluginIds
    /\ health \in [PluginNames -> {"unknown", "healthy", "unhealthy"}]
    /\ serving \in [PluginNames -> BOOLEAN]
    /\ modules \in Seq(DefaultRows)
    /\ pluginEdits \in 0 .. MaxPluginEdits /\ pluginFaults \in 0 .. MaxPluginFaults

\* The ids given away so far: the first ones, without a gap.
Given == {i \in PluginIds : pluginRows[i] # NoRow \/ pluginFiles[i] # "none"
                            \/ \E a \in PluginAdmins : adminOp[a].id = i} \cup damaged \cup gone
Dense == \E n \in 0 .. MaxPlugins : Given = 1 .. n

\* The file of a plugin is gone, or the file system refused to remove it.
Cleared(id) == pluginFiles[id] = "none" \/ id \in kept

\* An administrator at work: an upload has its file whole and its id alone until its row is
\* in, one that cleans up knows that it failed, and a deletion has tried to remove the file.
OpsSound ==
    \A a \in PluginAdmins :
        /\ adminOp[a].op = "none" <=> adminOp[a].id = 0
        /\ adminOp[a].op = "insert" =>
              /\ pluginFiles[adminOp[a].id] = "whole" /\ pluginRows[adminOp[a].id] = NoRow
              /\ adminOp[a].id \notin gone
              /\ \A b \in PluginAdmins : adminOp[b].id = adminOp[a].id => b = a
        /\ adminOp[a].op = "remove" => adminOp[a].id \in damaged
        /\ adminOp[a].op = "delete" => Cleared(adminOp[a].id)

\* A plugin that was made without a file has none.
NoStrayFile == \A i \in PluginIds : pluginRows[i].there /\ ~pluginRows[i].file => pluginFiles[i] = "none"

Quiet == {"nothing", "error"}

\* The chain while it asks: nothing but errors and silence so far, and one plugin left.
ChainSound ==
    /\ chain.at \in {"idle", "ask", "done"}
    /\ chain.at = "ask" =>
          \E p, w : /\ p \in Seq(Members(p)) /\ w \in Seq(Quiet)
                    /\ chain = [at |-> "ask", plan |-> p, answers |-> w, result |-> "none"]
                    /\ IF p = <<>> THEN w = <<>> ELSE Len(w) < Len(p)

MarketInv ==
    MarketTypes /\ Dense /\ OpsSound /\ NoStrayFile /\ RowHasFile /\ NoFileLeft /\ ChainSound /\ FirstCommandWins

LEMMA NoRowIs == NoRow \in Row /\ NoRow.there = FALSE /\ NoRow.file = FALSE
BY DEF NoRow, Row

\* The next id is the first that was not given away.
LEMMA FreshIs ==
  ASSUME MarketTypes, Dense, Fresh \in PluginIds
  PROVE  \E n \in 0 .. MaxPlugins : Given = 1 .. n /\ Fresh = n + 1 /\ n + 1 \in 0 .. MaxPlugins
<1>1. PICK n \in 0 .. MaxPlugins : Given = 1 .. n
  BY DEF Dense
<1>2. Fresh = Cardinality(Given) + 1
  BY DEF Fresh, Given
<1>3. Cardinality(1 .. n) = n
  BY FS_Interval, PluginAssumption
<1>4. Fresh = n + 1
  BY <1>1, <1>2, <1>3
<1>5. n + 1 \in 0 .. MaxPlugins
  BY <1>4, PluginAssumption DEF PluginIds
<1> QED BY <1>1, <1>4, <1>5

LEMMA FreshUnused ==
  ASSUME MarketTypes, Dense, Fresh \in PluginIds
  PROVE  /\ Fresh \notin Given /\ Fresh \notin damaged /\ Fresh \notin gone
         /\ pluginRows[Fresh] = NoRow /\ pluginFiles[Fresh] = "none"
         /\ \A a \in PluginAdmins : adminOp[a].id # Fresh
<1>1. PICK n \in 0 .. MaxPlugins : Given = 1 .. n /\ Fresh = n + 1
  BY FreshIs
<1>2. Fresh \notin Given
  BY <1>1, PluginAssumption
<1> HIDE DEF Fresh
<1> QED BY <1>2 DEF Given

\* Ids are never taken back, and at most the next one is given away.
LEMMA DenseStep ==
  ASSUME MarketTypes, Dense, Given \subseteq Given',
         \/ Given' \subseteq Given
         \/ Fresh \in PluginIds /\ Given' \subseteq Given \cup {Fresh}
  PROVE  Dense'
<1>1. CASE Given' \subseteq Given
  <2>1. Given' = Given
    BY <1>1
  <2> QED BY <2>1 DEF Dense
<1>2. CASE Fresh \in PluginIds /\ Given' \subseteq Given \cup {Fresh} /\ ~(Given' \subseteq Given)
  <2>1. PICK n \in 0 .. MaxPlugins : Given = 1 .. n /\ Fresh = n + 1 /\ n + 1 \in 0 .. MaxPlugins
    BY <1>2, FreshIs
  <2>2. Given' = (1 .. n) \cup {n + 1}
    BY <1>2, <2>1
  <2>3. (1 .. n) \cup {n + 1} = 1 .. (n + 1)
    BY PluginAssumption
  <2> QED BY <2>1, <2>2, <2>3 DEF Dense
<1> QED BY <1>1, <1>2

LEMMA MarketStart == MarketInit => MarketInv
<1> SUFFICES ASSUME MarketInit PROVE MarketInv
  OBVIOUS
<1> USE PluginAssumption
<1>1. NoOp \in Ops /\ NoOp.id = 0 /\ NoOp.op = "none"
  BY DEF NoOp, Ops
<1>2. MarketTypes
  BY <1>1, NoRowIs DEF MarketInit, MarketTypes
<1>3. Given = {}
  BY <1>1 DEF MarketInit, Given, PluginIds
<1>4. Dense
  <2>1. 0 \in 0 .. MaxPlugins /\ 1 .. 0 = {}
    OBVIOUS
  <2> QED BY <1>3, <2>1 DEF Dense
<1>5. OpsSound /\ NoStrayFile /\ RowHasFile /\ NoFileLeft
  BY <1>1, NoRowIs DEF MarketInit, OpsSound, Cleared, NoStrayFile, RowHasFile, NoFileLeft
<1>6. chain.at = "idle"
  BY DEF MarketInit, NoChain
<1>7. ChainSound /\ FirstCommandWins
  BY <1>6 DEF ChainSound, FirstCommandWins
<1> QED BY <1>2, <1>4, <1>5, <1>7 DEF MarketInv

-----------------------------------------------------------------------------
\* What RuntimeSame leaves alone.
LEMMA RuntimeKept ==
  ASSUME MarketInv, RuntimeSame
  PROVE  /\ ChainSound' /\ FirstCommandWins'
         /\ health' \in [PluginNames -> {"unknown", "healthy", "unhealthy"}]
         /\ serving' \in [PluginNames -> BOOLEAN] /\ modules' \in Seq(DefaultRows)
BY DEF MarketInv, MarketTypes, RuntimeSame, ChainSound, FirstCommandWins

\* A fault or an edit is counted within its bound.
LEMMA Counted ==
  ASSUME MarketTypes
  PROVE  /\ Fails => pluginFaults' \in 0 .. MaxPluginFaults
         /\ pluginEdits < MaxPluginEdits => pluginEdits + 1 \in 0 .. MaxPluginEdits
BY PluginAssumption DEF MarketTypes, Fails

LEMMA CreateStep == ASSUME MarketInv, NEW a \in PluginAdmins, CreatePlugin(a) PROVE MarketInv'
<1>a. MarketTypes /\ Dense /\ OpsSound /\ NoStrayFile /\ RowHasFile /\ NoFileLeft
  BY DEF MarketInv
<1>0. PICK id \in PluginIds : id = Fresh
  BY DEF CreatePlugin
<1>1. PICK r \in Row : pluginRows' = [pluginRows EXCEPT ![id] = r] /\ r.there = TRUE /\ r.file = FALSE
  <2>1. PICK tenant \in {"default", "other"}, type \in {"grpc", "wasm"}, name \in PluginNames,
             phase \in Spellings, on \in BOOLEAN :
          pluginRows' = [pluginRows EXCEPT ![Fresh] =
              [there |-> TRUE, tenant |-> tenant, type |-> type, name |-> name, phase |-> phase,
               file |-> FALSE, enabled |-> on]]
    BY DEF CreatePlugin
  <2> DEFINE r == [there |-> TRUE, tenant |-> tenant, type |-> type, name |-> name, phase |-> phase,
                   file |-> FALSE, enabled |-> on]
  <2>2. r \in Row /\ r.there = TRUE /\ r.file = FALSE
    BY DEF Row, Spellings
  <2> HIDE DEF r
  <2>3. pluginRows' = [pluginRows EXCEPT ![id] = r]
    BY <2>1, <1>0 DEF r
  <2> QED BY <2>2, <2>3
<1>2. UNCHANGED <<pluginFiles, adminOp, damaged, gone, kept, pluginEdits, pluginFaults>> /\ RuntimeSame
  BY DEF CreatePlugin
<1>3. /\ id \notin damaged /\ id \notin gone /\ pluginRows[id] = NoRow /\ pluginFiles[id] = "none"
      /\ \A b \in PluginAdmins : adminOp[b].id # id
  BY <1>a, <1>0, FreshUnused
<1>4. pluginRows'[id] = r /\ \A i \in PluginIds : i # id => pluginRows'[i] = pluginRows[i]
  BY <1>1, <1>a DEF MarketTypes
<1>5. r # NoRow
  BY <1>1, NoRowIs
<1>6. Given \subseteq Given' /\ Given' \subseteq Given \cup {id}
  BY <1>2, <1>3, <1>4, <1>5 DEF Given
<1>7. Dense'
  BY <1>6, <1>0, <1>a, DenseStep
<1>8. ChainSound' /\ FirstCommandWins'
  BY <1>2, RuntimeKept
<1>9. MarketTypes'
  <2>1. pluginRows' \in [PluginIds -> Row]
    BY <1>1, <1>a DEF MarketTypes
  <2> QED BY <2>1, <1>2, <1>a, RuntimeKept DEF MarketTypes
<1>10. OpsSound'
  <2>1. ASSUME NEW b \in PluginAdmins, adminOp[b].op # "none"
        PROVE  adminOp[b].id \in PluginIds /\ adminOp[b].id # id /\ pluginRows'[adminOp[b].id] = pluginRows[adminOp[b].id]
    <3>1. adminOp[b].id \in PluginIds
      BY <2>1, <1>a DEF OpsSound, Cleared, MarketTypes, Ops, PluginIds
    <3> QED BY <3>1, <1>3, <1>4
  <2> QED BY <2>1, <1>2, <1>a DEF OpsSound, Cleared
<1>11. NoStrayFile' /\ RowHasFile' /\ NoFileLeft'
  BY <1>1, <1>2, <1>3, <1>4, <1>a DEF NoStrayFile, RowHasFile, NoFileLeft
<1> QED BY <1>7, <1>8, <1>9, <1>10, <1>11 DEF MarketInv

LEMMA UploadStep == ASSUME MarketInv, NEW a \in PluginAdmins, UploadFile(a) PROVE MarketInv'
<1>a. MarketTypes /\ Dense /\ OpsSound /\ NoStrayFile /\ RowHasFile /\ NoFileLeft
  BY DEF MarketInv
<1>0. PICK id \in PluginIds : id = Fresh
  BY DEF UploadFile
<1>1. PICK copied \in BOOLEAN :
        /\ IF copied THEN UNCHANGED pluginFaults ELSE Fails
        /\ pluginFiles' = [pluginFiles EXCEPT ![id] = IF copied THEN "whole" ELSE "partial"]
        /\ adminOp' = IF copied THEN [adminOp EXCEPT ![a] = [op |-> "insert", id |-> id]] ELSE adminOp
  BY <1>0 DEF UploadFile, AfterCopy
<1>2. UNCHANGED <<pluginRows, damaged, gone, kept, pluginEdits>> /\ RuntimeSame /\ adminOp[a] = NoOp
  BY DEF UploadFile, AdminFree
<1>3. /\ id \notin damaged /\ id \notin gone /\ pluginRows[id] = NoRow /\ pluginFiles[id] = "none"
      /\ \A b \in PluginAdmins : adminOp[b].id # id
  BY <1>a, <1>0, FreshUnused
<1>4. /\ pluginFiles'[id] = IF copied THEN "whole" ELSE "partial"
      /\ \A i \in PluginIds : i # id => pluginFiles'[i] = pluginFiles[i]
  BY <1>1, <1>a DEF MarketTypes
<1> DEFINE new == [op |-> "insert", id |-> id]
<1>5. new.op = "insert" /\ new.id = id /\ new \in Ops
  <2>1. id \in 0 .. MaxPlugins
    BY PluginAssumption DEF PluginIds
  <2> QED BY <2>1 DEF Ops
<1> HIDE DEF new
<1>6. /\ copied => adminOp'[a] = new
      /\ ~copied => adminOp' = adminOp
      /\ \A b \in PluginAdmins : b # a => adminOp'[b] = adminOp[b]
      /\ adminOp' \in [PluginAdmins -> Ops]
  BY <1>1, <1>5, <1>a DEF MarketTypes, new
<1>b. NoOp.id = 0 /\ NoOp.op = "none" /\ 0 \notin PluginIds
  BY DEF NoOp, PluginIds
<1>7. Given \subseteq Given'
  <2> SUFFICES ASSUME NEW i \in Given PROVE i \in Given'
    OBVIOUS
  <2>1. CASE i \in damaged \/ i \in gone
    BY <2>1, <1>2 DEF Given
  <2>2. CASE i \in PluginIds /\ (pluginRows[i] # NoRow \/ pluginFiles[i] # "none")
    BY <2>2, <1>2, <1>3, <1>4 DEF Given
  <2>3. CASE i \in PluginIds /\ \E b \in PluginAdmins : adminOp[b].id = i
    <3>1. PICK b \in PluginAdmins : adminOp[b].id = i
      BY <2>3
    <3>2. b # a
      BY <3>1, <2>3, <1>2, <1>b
    <3> QED BY <3>1, <3>2, <2>3, <1>6 DEF Given
  <2> QED BY <2>1, <2>2, <2>3 DEF Given
<1>8. Given' \subseteq Given \cup {id}
  <2> SUFFICES ASSUME NEW i \in Given', i # id PROVE i \in Given
    OBVIOUS
  <2>1. CASE i \in damaged \/ i \in gone
    BY <2>1 DEF Given
  <2>2. CASE i \in PluginIds /\ (pluginRows'[i] # NoRow \/ pluginFiles'[i] # "none")
    BY <2>2, <1>2, <1>4 DEF Given
  <2>3. CASE i \in PluginIds /\ \E b \in PluginAdmins : adminOp'[b].id = i
    <3>1. PICK b \in PluginAdmins : adminOp'[b].id = i
      BY <2>3
    <3>2. adminOp'[b] = adminOp[b]
      BY <3>1, <1>5, <1>6
    <3> QED BY <3>1, <3>2, <2>3 DEF Given
  <2> QED BY <2>1, <2>2, <2>3, <1>2 DEF Given
<1>9. Dense'
  BY <1>7, <1>8, <1>0, <1>a, DenseStep
<1>10. ChainSound' /\ FirstCommandWins'
  BY <1>2, RuntimeKept
<1>11. MarketTypes'
  <2>1. pluginFiles' \in [PluginIds -> {"none", "partial", "whole"}]
    BY <1>1, <1>a DEF MarketTypes
  <2>2. pluginFaults' \in 0 .. MaxPluginFaults
    BY <1>1, <1>a, Counted DEF MarketTypes
  <2> QED BY <2>1, <2>2, <1>2, <1>6, <1>a, RuntimeKept DEF MarketTypes
<1>12. OpsSound'
  <2> SUFFICES ASSUME NEW b \in PluginAdmins
               PROVE  /\ adminOp'[b].op = "none" <=> adminOp'[b].id = 0
                      /\ adminOp'[b].op = "insert" =>
                            /\ pluginFiles'[adminOp'[b].id] = "whole" /\ pluginRows'[adminOp'[b].id] = NoRow
                            /\ adminOp'[b].id \notin gone'
                            /\ \A c \in PluginAdmins : adminOp'[c].id = adminOp'[b].id => c = b
                      /\ adminOp'[b].op = "remove" => adminOp'[b].id \in damaged'
                      /\ adminOp'[b].op = "delete" => (pluginFiles'[adminOp'[b].id] = "none" \/ adminOp'[b].id \in kept')
    BY DEF OpsSound, Cleared
  <2>1. CASE adminOp'[b] = adminOp[b]
    <3>1. adminOp[b].op # "none" => adminOp[b].id \in PluginIds
      BY <1>a DEF OpsSound, Cleared, MarketTypes, Ops, PluginIds
    <3>2. \A c \in PluginAdmins : adminOp'[c].id = adminOp[b].id /\ adminOp[b].op # "none" => adminOp'[c] = adminOp[c]
      BY <1>3, <1>5, <1>6
    <3>3. adminOp[b].op # "none" => adminOp[b].id # id
      BY <1>3
    <3> QED BY <2>1, <3>1, <3>2, <3>3, <1>2, <1>4, <1>a DEF OpsSound, Cleared
  <2>2. CASE b = a /\ copied
    <3>1. adminOp'[b] = new /\ id # 0
      BY <2>2, <1>6, <1>b
    <3>2. \A c \in PluginAdmins : adminOp'[c].id = id => c = b
      BY <2>2, <1>3, <1>6
    <3> QED BY <2>2, <3>1, <3>2, <1>2, <1>3, <1>4, <1>5
  <2> QED BY <2>1, <2>2, <1>6
<1>13. NoStrayFile'
  <2> SUFFICES ASSUME NEW i \in PluginIds, pluginRows'[i].there, ~pluginRows'[i].file
               PROVE  pluginFiles'[i] = "none"
    BY DEF NoStrayFile
  <2>1. i # id /\ pluginRows'[i] = pluginRows[i]
    BY <1>2, <1>3, NoRowIs
  <2> QED BY <2>1, <1>4, <1>a DEF NoStrayFile
<1>15. NoFileLeft'
  <2> SUFFICES ASSUME NEW i \in gone' PROVE ~pluginRows'[i].there /\ (pluginFiles'[i] = "none" \/ i \in kept')
    BY DEF NoFileLeft
  <2>1. i \in PluginIds /\ i \in gone /\ i # id
    BY <1>2, <1>3, <1>a DEF MarketTypes
  <2> QED BY <2>1, <1>2, <1>4, <1>a DEF NoFileLeft
<1>14. RowHasFile'
  <2> SUFFICES ASSUME NEW i \in PluginIds, pluginRows'[i].there, pluginRows'[i].file
               PROVE  \/ pluginFiles'[i] = "whole" \/ i \in damaged'
                      \/ \E b \in PluginAdmins : adminOp'[b] = [op |-> "delete", id |-> i]
    BY DEF RowHasFile
  <2>1. i # id /\ pluginRows'[i] = pluginRows[i]
    BY <1>2, <1>3, NoRowIs
  <2>2. ASSUME NEW b \in PluginAdmins, adminOp[b] = [op |-> "delete", id |-> i]
        PROVE  adminOp'[b] = [op |-> "delete", id |-> i]
    <3>1. b # a
      BY <2>2, <1>2 DEF NoOp
    <3> QED BY <3>1, <2>2, <1>6
  <2> QED BY <2>1, <2>2, <1>2, <1>4, <1>a DEF RowHasFile
<1> QED BY <1>9, <1>10, <1>11, <1>12, <1>13, <1>14, <1>15 DEF MarketInv

LEMMA OpIds ==
  ASSUME MarketInv, NEW b \in PluginAdmins
  PROVE  (adminOp[b].op # "none" => adminOp[b].id \in PluginIds) /\ NoOp \in Ops /\ NoOp.op = "none" /\ NoOp.id = 0
         /\ 0 \notin PluginIds
<1>1. adminOp[b] \in Ops /\ (adminOp[b].op = "none" <=> adminOp[b].id = 0)
  BY DEF MarketInv, MarketTypes, OpsSound
<1> QED BY <1>1, PluginAssumption DEF Ops, PluginIds, NoOp

LEMMA UploadedRowIs ==
  ASSUME NEW tenant \in {"default", "other"}, NEW on \in BOOLEAN
  PROVE  UploadedRow(tenant, on) \in Row /\ UploadedRow(tenant, on).there = TRUE /\ UploadedRow(tenant, on).file = TRUE
<1>1. (CHOOSE n \in PluginNames : TRUE) \in PluginNames
  BY PluginAssumption
<1> QED BY <1>1 DEF UploadedRow, Row

\* What administrators have at work, when only a's operation changes.
LEMMA OneOp ==
  ASSUME MarketTypes, NEW a \in PluginAdmins, NEW o \in Ops, adminOp' = [adminOp EXCEPT ![a] = o]
  PROVE  /\ adminOp' \in [PluginAdmins -> Ops] /\ adminOp'[a] = o
         /\ \A b \in PluginAdmins : b # a => adminOp'[b] = adminOp[b]
BY DEF MarketTypes

LEMMA InsertStep == ASSUME MarketInv, NEW a \in PluginAdmins, UploadInsert(a) PROVE MarketInv'
<1>a. MarketTypes /\ Dense /\ OpsSound /\ NoStrayFile /\ RowHasFile /\ NoFileLeft
  BY DEF MarketInv
<1>0. PICK id \in PluginIds : id = adminOp[a].id /\ adminOp[a].op = "insert"
  BY OpIds DEF UploadInsert
<1>b. /\ pluginFiles[id] = "whole" /\ pluginRows[id] = NoRow /\ id \notin gone
      /\ \A b \in PluginAdmins : adminOp[b].id = id => b = a
  BY <1>0, <1>a DEF OpsSound, Cleared
<1>1. UNCHANGED <<pluginFiles, gone, kept, pluginEdits>> /\ RuntimeSame
  BY DEF UploadInsert
<1> DEFINE removing == [op |-> "remove", id |-> id]
<1>c. removing \in Ops /\ removing.op = "remove" /\ removing.id = id
  <2>1. id \in 0 .. MaxPlugins
    BY PluginAssumption DEF PluginIds
  <2> QED BY <2>1 DEF Ops
<1> HIDE DEF removing
<1>d. NoOp \in Ops /\ NoOp.op = "none" /\ NoOp.id = 0 /\ 0 \notin PluginIds
  BY OpIds
<1>2. PICK o \in Ops :
        /\ adminOp' = [adminOp EXCEPT ![a] = o]
        /\ \/ o = NoOp /\ UNCHANGED <<damaged, pluginFaults>>
           \/ o = removing /\ damaged' = damaged \cup {id} /\ Fails
        /\ \E r \in Row : (r = NoRow \/ (r.there = TRUE /\ r.file = TRUE)) /\ pluginRows' = [pluginRows EXCEPT ![id] = r]
  <2>1. CASE /\ \E tenant \in {"default", "other"}, on \in BOOLEAN :
                   pluginRows' = [pluginRows EXCEPT ![id] = UploadedRow(tenant, on)]
             /\ Ends(a) /\ UNCHANGED <<damaged, gone, pluginFaults>>
    BY <2>1, <1>d, UploadedRowIs DEF Ends
  <2>2. CASE /\ Fails /\ Goes(a, "remove", id) /\ damaged' = damaged \cup {id}
             /\ pluginRows' \in {pluginRows, [pluginRows EXCEPT ![id] = UploadedRow("default", TRUE)]}
    <3>1. pluginRows = [pluginRows EXCEPT ![id] = NoRow]
      BY <1>b, <1>a DEF MarketTypes
    <3>2. \E r \in Row : (r = NoRow \/ (r.there = TRUE /\ r.file = TRUE)) /\ pluginRows' = [pluginRows EXCEPT ![id] = r]
      BY <2>2, <3>1, UploadedRowIs, NoRowIs
    <3>3. adminOp' = [adminOp EXCEPT ![a] = removing]
      BY <2>2 DEF Goes, removing
    <3> QED BY <2>2, <3>2, <3>3, <1>c
  <2> QED BY <2>1, <2>2, <1>0 DEF UploadInsert
<1>3. PICK r \in Row : (r = NoRow \/ (r.there = TRUE /\ r.file = TRUE)) /\ pluginRows' = [pluginRows EXCEPT ![id] = r]
  BY <1>2
<1>4. /\ adminOp' \in [PluginAdmins -> Ops] /\ adminOp'[a] = o
      /\ \A b \in PluginAdmins : b # a => adminOp'[b] = adminOp[b]
  BY <1>2, <1>a, OneOp
<1>5. pluginRows'[id] = r /\ \A i \in PluginIds : i # id => pluginRows'[i] = pluginRows[i]
  BY <1>3, <1>a DEF MarketTypes
<1>6. damaged \subseteq damaged' /\ damaged' \subseteq damaged \cup {id} /\ id \in Given /\ id \in Given'
  BY <1>1, <1>2, <1>b DEF Given
<1>7. Given \subseteq Given'
  <2> SUFFICES ASSUME NEW i \in Given, i # id PROVE i \in Given'
    BY <1>6
  <2>1. ASSUME NEW b \in PluginAdmins, adminOp[b].id = i PROVE adminOp'[b].id = i
    BY <2>1, <1>0, <1>4
  <2> QED BY <2>1, <1>1, <1>5, <1>6 DEF Given
<1>8. Given' \subseteq Given
  <2> SUFFICES ASSUME NEW i \in Given', i # id PROVE i \in Given
    BY <1>6
  <2>1. ASSUME NEW b \in PluginAdmins, adminOp'[b].id = i, i \in PluginIds PROVE adminOp[b].id = i
    BY <2>1, <1>0, <1>2, <1>4, <1>c, <1>d
  <2> QED BY <2>1, <1>1, <1>5, <1>6 DEF Given
<1>9. Dense'
  BY <1>7, <1>8, <1>a, DenseStep
<1>10. ChainSound' /\ FirstCommandWins'
  BY <1>1, RuntimeKept
<1>11. MarketTypes'
  <2>1. pluginRows' \in [PluginIds -> Row]
    BY <1>3, <1>a DEF MarketTypes
  <2>2. pluginFaults' \in 0 .. MaxPluginFaults /\ damaged' \subseteq PluginIds
    BY <1>2, <1>6, <1>a, Counted DEF MarketTypes
  <2> QED BY <2>1, <2>2, <1>1, <1>4, <1>a, RuntimeKept DEF MarketTypes
<1>12. OpsSound'
  <2> SUFFICES ASSUME NEW b \in PluginAdmins
               PROVE  /\ adminOp'[b].op = "none" <=> adminOp'[b].id = 0
                      /\ adminOp'[b].op = "insert" =>
                            /\ pluginFiles'[adminOp'[b].id] = "whole" /\ pluginRows'[adminOp'[b].id] = NoRow
                            /\ adminOp'[b].id \notin gone'
                            /\ \A c \in PluginAdmins : adminOp'[c].id = adminOp'[b].id => c = b
                      /\ adminOp'[b].op = "remove" => adminOp'[b].id \in damaged'
                      /\ adminOp'[b].op = "delete" => (pluginFiles'[adminOp'[b].id] = "none" \/ adminOp'[b].id \in kept')
    BY DEF OpsSound, Cleared
  <2>1. CASE b = a
    BY <2>1, <1>2, <1>4, <1>c, <1>d
  <2>2. CASE b # a
    <3>1. adminOp'[b] = adminOp[b] /\ adminOp[b].id # id
      BY <2>2, <1>4, <1>b
    <3>2. adminOp[b].op # "none" => adminOp[b].id \in PluginIds /\ pluginRows'[adminOp[b].id] = pluginRows[adminOp[b].id]
      BY <3>1, <1>5, OpIds
    <3>3. adminOp'[a].id \in {0, id} /\ (adminOp[b].op # "none" => adminOp[b].id # 0)
      BY <1>2, <1>4, <1>c, <1>d, OpIds
    <3> QED BY <2>2, <3>1, <3>2, <3>3, <1>1, <1>4, <1>6, <1>a DEF OpsSound, Cleared
  <2> QED BY <2>1, <2>2
<1>13. NoStrayFile'
  BY <1>1, <1>3, <1>5, <1>a, NoRowIs DEF NoStrayFile
<1>14. NoFileLeft'
  <2> SUFFICES ASSUME NEW i \in gone' PROVE ~pluginRows'[i].there /\ (pluginFiles'[i] = "none" \/ i \in kept')
    BY DEF NoFileLeft
  <2>1. i \in PluginIds /\ i \in gone /\ i # id
    BY <1>1, <1>b, <1>a DEF MarketTypes
  <2> QED BY <2>1, <1>1, <1>5, <1>a DEF NoFileLeft
<1>15. RowHasFile'
  <2> SUFFICES ASSUME NEW i \in PluginIds, pluginRows'[i].there, pluginRows'[i].file
               PROVE  \/ pluginFiles'[i] = "whole" \/ i \in damaged'
                      \/ \E b \in PluginAdmins : adminOp'[b] = [op |-> "delete", id |-> i]
    BY DEF RowHasFile
  <2>1. ASSUME NEW b \in PluginAdmins, adminOp[b] = [op |-> "delete", id |-> i]
        PROVE  adminOp'[b] = [op |-> "delete", id |-> i]
    <3>1. adminOp[b].op = "delete"
      BY <2>1
    <3>2. b # a
      BY <3>1, <1>0
    <3> QED BY <3>2, <2>1, <1>4
  <2> QED BY <2>1, <1>1, <1>b, <1>5, <1>6, <1>a DEF RowHasFile
<1> QED BY <1>9, <1>10, <1>11, <1>12, <1>13, <1>14, <1>15 DEF MarketInv

\* A file is removed, or it stays and that is known; no other file is touched.
LEMMA RemovesIs ==
  ASSUME MarketTypes, NEW id \in PluginIds, Removes(id, [pluginFiles EXCEPT ![id] = "none"])
  PROVE  /\ pluginFiles' \in [PluginIds -> {"none", "partial", "whole"}] /\ kept' \subseteq PluginIds
         /\ pluginFaults' \in 0 .. MaxPluginFaults
         /\ pluginFiles'[id] \in {"none", pluginFiles[id]}
         /\ pluginFiles'[id] = "none" \/ id \in kept'
         /\ \A i \in PluginIds : i # id => pluginFiles'[i] = pluginFiles[i] /\ (i \in kept <=> i \in kept')
<1>1. pluginFaults' \in 0 .. MaxPluginFaults
  BY Counted DEF Removes, MarketTypes
<1> QED BY <1>1 DEF Removes, MarketTypes

LEMMA RemoveStep == ASSUME MarketInv, NEW a \in PluginAdmins, UploadRemove(a) PROVE MarketInv'
<1>a. MarketTypes /\ Dense /\ OpsSound /\ NoStrayFile /\ RowHasFile /\ NoFileLeft
  BY DEF MarketInv
<1>0. PICK id \in PluginIds : id = adminOp[a].id /\ adminOp[a].op = "remove"
  BY OpIds DEF UploadRemove
<1>b. id \in damaged
  BY <1>0, <1>a DEF OpsSound, Cleared
<1>d. NoOp \in Ops /\ NoOp.op = "none" /\ NoOp.id = 0 /\ 0 \notin PluginIds
  BY OpIds
<1>1. /\ UNCHANGED <<pluginRows, damaged, gone, pluginEdits>> /\ RuntimeSame
      /\ adminOp' = [adminOp EXCEPT ![a] = NoOp]
      /\ Removes(id, [pluginFiles EXCEPT ![id] = "none"])
  BY <1>0 DEF UploadRemove, Ends
<1>4. /\ adminOp' \in [PluginAdmins -> Ops] /\ adminOp'[a] = NoOp
      /\ \A b \in PluginAdmins : b # a => adminOp'[b] = adminOp[b]
  BY <1>1, <1>a, <1>d, OneOp
<1>e. /\ pluginFiles' \in [PluginIds -> {"none", "partial", "whole"}] /\ kept' \subseteq PluginIds
      /\ pluginFaults' \in 0 .. MaxPluginFaults
  BY <1>1, <1>a, RemovesIs
<1>5. /\ pluginFiles'[id] \in {"none", pluginFiles[id]} /\ (pluginFiles'[id] = "none" \/ id \in kept')
      /\ \A i \in PluginIds : i # id => pluginFiles'[i] = pluginFiles[i] /\ (i \in kept <=> i \in kept')
  BY <1>1, <1>a, RemovesIs
<1>6. id \in Given /\ id \in Given'
  BY <1>1, <1>b DEF Given
<1>7. Given \subseteq Given'
  <2> SUFFICES ASSUME NEW i \in Given, i # id PROVE i \in Given'
    BY <1>6
  <2>1. ASSUME NEW b \in PluginAdmins, adminOp[b].id = i PROVE adminOp'[b].id = i
    BY <2>1, <1>0, <1>4
  <2> QED BY <2>1, <1>1, <1>5 DEF Given
<1>8. Given' \subseteq Given
  <2> SUFFICES ASSUME NEW i \in Given', i # id PROVE i \in Given
    BY <1>6
  <2>1. ASSUME NEW b \in PluginAdmins, adminOp'[b].id = i, i \in PluginIds PROVE adminOp[b].id = i
    BY <2>1, <1>4, <1>d
  <2> QED BY <2>1, <1>1, <1>5 DEF Given
<1>9. Dense'
  BY <1>7, <1>8, <1>a, DenseStep
<1>10. ChainSound' /\ FirstCommandWins'
  BY <1>1, RuntimeKept
<1>11. MarketTypes'
  BY <1>e, <1>1, <1>4, <1>a, RuntimeKept DEF MarketTypes
<1>12. OpsSound'
  <2> SUFFICES ASSUME NEW b \in PluginAdmins
               PROVE  /\ adminOp'[b].op = "none" <=> adminOp'[b].id = 0
                      /\ adminOp'[b].op = "insert" =>
                            /\ pluginFiles'[adminOp'[b].id] = "whole" /\ pluginRows'[adminOp'[b].id] = NoRow
                            /\ adminOp'[b].id \notin gone'
                            /\ \A c \in PluginAdmins : adminOp'[c].id = adminOp'[b].id => c = b
                      /\ adminOp'[b].op = "remove" => adminOp'[b].id \in damaged'
                      /\ adminOp'[b].op = "delete" => (pluginFiles'[adminOp'[b].id] = "none" \/ adminOp'[b].id \in kept')
    BY DEF OpsSound, Cleared
  <2>1. CASE b = a
    BY <2>1, <1>4, <1>d
  <2>2. CASE b # a
    <3>1. adminOp'[b] = adminOp[b]
      BY <2>2, <1>4
    <3>2. adminOp[b].op # "none" => adminOp[b].id \in PluginIds /\ adminOp[b].id # 0
      BY OpIds
    <3>3. adminOp[b].op = "insert" => adminOp[b].id # id
      BY <2>2, <1>0, <1>a DEF OpsSound, Cleared
    <3>4. adminOp[b].op = "insert" => pluginFiles'[adminOp[b].id] = pluginFiles[adminOp[b].id]
      BY <3>2, <3>3, <1>5
    <3>5. adminOp[b].op = "delete" => (pluginFiles'[adminOp[b].id] = "none" \/ adminOp[b].id \in kept')
      BY <3>2, <1>5, <1>a DEF OpsSound, Cleared
    <3> QED BY <2>2, <3>1, <3>2, <3>4, <3>5, <1>1, <1>4, <1>d, <1>a DEF OpsSound, Cleared
  <2> QED BY <2>1, <2>2
<1>13. NoStrayFile' /\ NoFileLeft'
  <2>1. \A i \in PluginIds : /\ pluginFiles[i] = "none" => pluginFiles'[i] = "none"
                             /\ (pluginFiles[i] = "none" \/ i \in kept) => (pluginFiles'[i] = "none" \/ i \in kept')
    BY <1>5
  <2> QED BY <2>1, <1>1, <1>a DEF NoStrayFile, NoFileLeft, MarketTypes
<1>15. RowHasFile'
  <2> SUFFICES ASSUME NEW i \in PluginIds, pluginRows'[i].there, pluginRows'[i].file
               PROVE  \/ pluginFiles'[i] = "whole" \/ i \in damaged'
                      \/ \E b \in PluginAdmins : adminOp'[b] = [op |-> "delete", id |-> i]
    BY DEF RowHasFile
  <2>1. ASSUME NEW b \in PluginAdmins, adminOp[b] = [op |-> "delete", id |-> i]
        PROVE  adminOp'[b] = [op |-> "delete", id |-> i]
    <3>1. adminOp[b].op = "delete"
      BY <2>1
    <3>2. b # a
      BY <3>1, <1>0
    <3> QED BY <3>2, <2>1, <1>4
  <2> QED BY <2>1, <1>1, <1>b, <1>5, <1>a DEF RowHasFile
<1> QED BY <1>9, <1>10, <1>11, <1>12, <1>13, <1>15 DEF MarketInv

LEMMA UpdateStep == ASSUME MarketInv, NEW a \in PluginAdmins, UpdatePlugin(a) PROVE MarketInv'
<1>a. MarketTypes /\ Dense /\ OpsSound /\ NoStrayFile /\ RowHasFile /\ NoFileLeft
  BY DEF MarketInv
<1>1. /\ UNCHANGED <<pluginFiles, adminOp, damaged, gone, kept, pluginFaults>> /\ RuntimeSame
      /\ pluginEdits < MaxPluginEdits /\ pluginEdits' = pluginEdits + 1
  BY DEF UpdatePlugin
<1>2. PICK id \in PluginIds :
        /\ pluginRows[id].there
        /\ \/ \E on \in BOOLEAN : pluginRows' = [pluginRows EXCEPT ![id].enabled = on]
           \/ \E phase \in Spellings : pluginRows' = [pluginRows EXCEPT ![id].phase = toLower(phase)]
  BY DEF UpdatePlugin
<1>3. PICK r \in Row : pluginRows' = [pluginRows EXCEPT ![id] = r] /\ r.there = pluginRows[id].there /\ r.file = pluginRows[id].file
  <2>0. pluginRows[id] \in Row
    BY <1>a DEF MarketTypes
  <2>1. ASSUME NEW on \in BOOLEAN, pluginRows' = [pluginRows EXCEPT ![id].enabled = on]
        PROVE  \E r \in Row : pluginRows' = [pluginRows EXCEPT ![id] = r] /\ r.there = pluginRows[id].there /\ r.file = pluginRows[id].file
    <3> DEFINE r == [pluginRows[id] EXCEPT !.enabled = on]
    <3>1. r \in Row /\ r.there = pluginRows[id].there /\ r.file = pluginRows[id].file
      BY <2>0 DEF Row
    <3> QED BY <2>1, <3>1
  <2>2. ASSUME NEW phase \in Spellings, pluginRows' = [pluginRows EXCEPT ![id].phase = toLower(phase)]
        PROVE  \E r \in Row : pluginRows' = [pluginRows EXCEPT ![id] = r] /\ r.there = pluginRows[id].there /\ r.file = pluginRows[id].file
    <3> DEFINE r == [pluginRows[id] EXCEPT !.phase = toLower(phase)]
    <3>1. toLower(phase) \in {"pre", "PRE"}
      BY DEF toLower, Spellings
    <3>2. r \in Row /\ r.there = pluginRows[id].there /\ r.file = pluginRows[id].file
      BY <2>0, <3>1 DEF Row
    <3> QED BY <2>2, <3>2
  <2> QED BY <1>2, <2>1, <2>2
<1>4. pluginRows'[id] = r /\ \A i \in PluginIds : i # id => pluginRows'[i] = pluginRows[i]
  BY <1>3, <1>a DEF MarketTypes
<1>5. r # NoRow /\ pluginRows[id] # NoRow
  BY <1>2, <1>3, NoRowIs
<1>6. \A i \in PluginIds : pluginRows'[i].there = pluginRows[i].there /\ pluginRows'[i].file = pluginRows[i].file
                           /\ (pluginRows'[i] = NoRow <=> pluginRows[i] = NoRow)
  BY <1>3, <1>4, <1>5
<1>7. Given' = Given
  BY <1>1, <1>6 DEF Given
<1>8. Dense'
  BY <1>7, <1>a, DenseStep
<1>9. ChainSound' /\ FirstCommandWins'
  BY <1>1, RuntimeKept
<1>10. MarketTypes'
  <2>1. pluginRows' \in [PluginIds -> Row]
    BY <1>3, <1>a DEF MarketTypes
  <2>2. pluginEdits' \in 0 .. MaxPluginEdits
    BY <1>1, <1>a, Counted
  <2> QED BY <2>1, <2>2, <1>1, <1>a, RuntimeKept DEF MarketTypes
<1>11. OpsSound'
  <2>1. \A b \in PluginAdmins : adminOp[b].op # "none" => adminOp[b].id \in PluginIds
    BY OpIds
  <2> QED BY <2>1, <1>1, <1>6, <1>a DEF OpsSound, Cleared
<1>12. NoStrayFile' /\ RowHasFile' /\ NoFileLeft'
  BY <1>1, <1>6, <1>a DEF NoStrayFile, RowHasFile, NoFileLeft, MarketTypes
<1> QED BY <1>8, <1>9, <1>10, <1>11, <1>12 DEF MarketInv

LEMMA DeleteStep == ASSUME MarketInv, NEW a \in PluginAdmins, DeletePlugin(a) PROVE MarketInv'
<1>a. MarketTypes /\ Dense /\ OpsSound /\ NoStrayFile /\ RowHasFile /\ NoFileLeft
  BY DEF MarketInv
<1>1. /\ UNCHANGED <<pluginRows, damaged, gone>> /\ RuntimeSame /\ adminOp[a] = NoOp
      /\ pluginEdits < MaxPluginEdits /\ pluginEdits' = pluginEdits + 1
  BY DEF DeletePlugin, AdminFree
<1>2. PICK id \in PluginIds :
        /\ pluginRows[id].there
        /\ IF pluginRows[id].file THEN Removes(id, RemoveFirst(id))
           ELSE UNCHANGED <<pluginFiles, kept, pluginFaults>>
        /\ Goes(a, "delete", id)
  BY DEF DeletePlugin
<1> DEFINE deleting == [op |-> "delete", id |-> id]
<1>c. deleting \in Ops /\ deleting.op = "delete" /\ deleting.id = id
  <2>1. id \in 0 .. MaxPlugins
    BY PluginAssumption DEF PluginIds
  <2> QED BY <2>1 DEF Ops
<1>3. adminOp' = [adminOp EXCEPT ![a] = deleting]
  BY <1>2 DEF Goes
<1>e. deleting = [op |-> "delete", id |-> id]
  OBVIOUS
<1> HIDE DEF deleting
<1>d. NoOp \in Ops /\ NoOp.op = "none" /\ NoOp.id = 0 /\ 0 \notin PluginIds
  BY OpIds
<1>4. /\ adminOp' \in [PluginAdmins -> Ops] /\ adminOp'[a] = deleting
      /\ \A b \in PluginAdmins : b # a => adminOp'[b] = adminOp[b]
  BY <1>3, <1>a, <1>c, OneOp
<1>b. pluginRows[id] # NoRow
  BY <1>2, NoRowIs
<1>f. /\ pluginFiles' \in [PluginIds -> {"none", "partial", "whole"}] /\ kept' \subseteq PluginIds
      /\ pluginFaults' \in 0 .. MaxPluginFaults
      /\ pluginFiles'[id] \in {"none", pluginFiles[id]} /\ (pluginFiles'[id] = "none" \/ id \in kept')
      /\ \A i \in PluginIds : i # id => pluginFiles'[i] = pluginFiles[i] /\ (i \in kept <=> i \in kept')
  <2>1. CASE pluginRows[id].file
    BY <2>1, <1>2, <1>a, RemovesIs DEF RemoveFirst
  <2>2. CASE ~pluginRows[id].file
    BY <2>2, <1>2, <1>a DEF NoStrayFile, MarketTypes
  <2> QED BY <2>1, <2>2
<1>5. /\ pluginFiles'[id] \in {"none", pluginFiles[id]} /\ (pluginFiles'[id] = "none" \/ id \in kept')
      /\ \A i \in PluginIds : i # id => pluginFiles'[i] = pluginFiles[i] /\ (i \in kept <=> i \in kept')
  BY <1>f
<1>6. id \in Given /\ id \in Given'
  BY <1>1, <1>b DEF Given
<1>7. Given \subseteq Given'
  <2> SUFFICES ASSUME NEW i \in Given, i # id PROVE i \in Given'
    BY <1>6
  <2>1. ASSUME NEW b \in PluginAdmins, adminOp[b].id = i, i \in PluginIds PROVE adminOp'[b].id = i
    BY <2>1, <1>1, <1>4, <1>d
  <2> QED BY <2>1, <1>1, <1>5 DEF Given
<1>8. Given' \subseteq Given
  <2> SUFFICES ASSUME NEW i \in Given', i # id PROVE i \in Given
    BY <1>6
  <2>1. ASSUME NEW b \in PluginAdmins, adminOp'[b].id = i, i \in PluginIds PROVE adminOp[b].id = i
    BY <2>1, <1>4, <1>c
  <2> QED BY <2>1, <1>1, <1>5 DEF Given
<1>9. Dense'
  BY <1>7, <1>8, <1>a, DenseStep
<1>10. ChainSound' /\ FirstCommandWins'
  BY <1>1, RuntimeKept
<1>11. MarketTypes'
  <2>1. /\ pluginFiles' \in [PluginIds -> {"none", "partial", "whole"}] /\ kept' \subseteq PluginIds
        /\ pluginFaults' \in 0 .. MaxPluginFaults
    BY <1>f
  <2>2. pluginEdits' \in 0 .. MaxPluginEdits
    BY <1>1, <1>a, Counted
  <2> QED BY <2>1, <2>2, <1>1, <1>4, <1>a, RuntimeKept DEF MarketTypes
<1>12. OpsSound'
  <2> SUFFICES ASSUME NEW b \in PluginAdmins
               PROVE  /\ adminOp'[b].op = "none" <=> adminOp'[b].id = 0
                      /\ adminOp'[b].op = "insert" =>
                            /\ pluginFiles'[adminOp'[b].id] = "whole" /\ pluginRows'[adminOp'[b].id] = NoRow
                            /\ adminOp'[b].id \notin gone'
                            /\ \A c \in PluginAdmins : adminOp'[c].id = adminOp'[b].id => c = b
                      /\ adminOp'[b].op = "remove" => adminOp'[b].id \in damaged'
                      /\ adminOp'[b].op = "delete" => (pluginFiles'[adminOp'[b].id] = "none" \/ adminOp'[b].id \in kept')
    BY DEF OpsSound, Cleared
  <2>1. CASE b = a
    BY <2>1, <1>4, <1>5, <1>c, <1>d
  <2>2. CASE b # a
    <3>1. adminOp'[b] = adminOp[b]
      BY <2>2, <1>4
    <3>2. adminOp[b].op # "none" => adminOp[b].id \in PluginIds /\ adminOp[b].id # 0
      BY OpIds
    <3>3. adminOp[b].op = "insert" => adminOp[b].id # id
      BY <1>b, <1>a DEF OpsSound, Cleared
    <3>4. adminOp[b].op = "insert" => pluginFiles'[adminOp[b].id] = pluginFiles[adminOp[b].id]
      BY <3>2, <3>3, <1>5
    <3>5. adminOp[b].op = "delete" => (pluginFiles'[adminOp[b].id] = "none" \/ adminOp[b].id \in kept')
      BY <3>2, <1>5, <1>a DEF OpsSound, Cleared
    <3> QED BY <2>2, <3>1, <3>2, <3>3, <3>4, <3>5, <1>1, <1>4, <1>c, <1>a DEF OpsSound, Cleared
  <2> QED BY <2>1, <2>2
<1>13. NoStrayFile' /\ NoFileLeft'
  <2>1. \A i \in PluginIds : /\ pluginFiles[i] = "none" => pluginFiles'[i] = "none"
                             /\ (pluginFiles[i] = "none" \/ i \in kept) => (pluginFiles'[i] = "none" \/ i \in kept')
    BY <1>5
  <2> QED BY <2>1, <1>1, <1>a DEF NoStrayFile, NoFileLeft, MarketTypes
<1>15. RowHasFile'
  <2> SUFFICES ASSUME NEW i \in PluginIds, pluginRows'[i].there, pluginRows'[i].file
               PROVE  \/ pluginFiles'[i] = "whole" \/ i \in damaged'
                      \/ \E b \in PluginAdmins : adminOp'[b] = [op |-> "delete", id |-> i]
    BY DEF RowHasFile
  <2>1. CASE i = id
    BY <2>1, <1>4, <1>e
  <2>2. CASE i # id
    <3>1. ASSUME NEW b \in PluginAdmins, adminOp[b] = [op |-> "delete", id |-> i]
          PROVE  adminOp'[b] = [op |-> "delete", id |-> i]
      <4>1. adminOp[b].op = "delete"
        BY <3>1
      <4>2. b # a
        BY <4>1, <1>1, <1>d
      <4> QED BY <4>2, <3>1, <1>4
    <3> QED BY <2>2, <3>1, <1>1, <1>5, <1>a DEF RowHasFile
  <2> QED BY <2>1, <2>2
<1> QED BY <1>9, <1>10, <1>11, <1>12, <1>13, <1>15 DEF MarketInv

LEMMA DeleteRowStep == ASSUME MarketInv, NEW a \in PluginAdmins, DeleteRow(a) PROVE MarketInv'
<1>a. MarketTypes /\ Dense /\ OpsSound /\ NoStrayFile /\ RowHasFile /\ NoFileLeft
  BY DEF MarketInv
<1>0. PICK id \in PluginIds : id = adminOp[a].id /\ adminOp[a].op = "delete"
  BY OpIds DEF DeleteRow
<1>b. pluginFiles[id] = "none" \/ id \in kept
  BY <1>0, <1>a DEF OpsSound, Cleared
<1>d. NoOp \in Ops /\ NoOp.op = "none" /\ NoOp.id = 0 /\ 0 \notin PluginIds
  BY OpIds
<1>1. /\ UNCHANGED <<pluginFiles, kept, pluginEdits>> /\ RuntimeSame /\ adminOp' = [adminOp EXCEPT ![a] = NoOp]
      /\ \/ /\ pluginRows' = [pluginRows EXCEPT ![id] = NoRow] /\ gone' = gone \cup {id}
            /\ UNCHANGED <<pluginFaults, damaged>>
         \/ /\ Fails /\ damaged' = damaged \cup {id} /\ UNCHANGED gone
            /\ pluginRows' \in {pluginRows, [pluginRows EXCEPT ![id] = NoRow]}
  BY <1>0 DEF DeleteRow, Ends
<1>4. /\ adminOp' \in [PluginAdmins -> Ops] /\ adminOp'[a] = NoOp
      /\ \A b \in PluginAdmins : b # a => adminOp'[b] = adminOp[b]
  BY <1>1, <1>a, <1>d, OneOp
<1>5. /\ \A i \in PluginIds : i # id => pluginRows'[i] = pluginRows[i]
      /\ \/ pluginRows'[id] = NoRow /\ id \in gone'
         \/ pluginRows'[id] \in {pluginRows[id], NoRow} /\ id \in damaged' /\ gone' = gone
  BY <1>1, <1>a DEF MarketTypes
<1>c. /\ gone \subseteq gone' /\ gone' \subseteq gone \cup {id} /\ damaged \subseteq damaged' /\ damaged' \subseteq damaged \cup {id}
  BY <1>1
<1>6. id \in Given /\ id \in Given'
  BY <1>0, <1>5 DEF Given
<1>7. Given \subseteq Given'
  <2> SUFFICES ASSUME NEW i \in Given, i # id PROVE i \in Given'
    BY <1>6
  <2>1. ASSUME NEW b \in PluginAdmins, adminOp[b].id = i PROVE adminOp'[b].id = i
    BY <2>1, <1>0, <1>4
  <2> QED BY <2>1, <1>1, <1>5, <1>c DEF Given
<1>8. Given' \subseteq Given
  <2> SUFFICES ASSUME NEW i \in Given', i # id PROVE i \in Given
    BY <1>6
  <2>1. ASSUME NEW b \in PluginAdmins, adminOp'[b].id = i, i \in PluginIds PROVE adminOp[b].id = i
    BY <2>1, <1>4, <1>d
  <2> QED BY <2>1, <1>1, <1>5, <1>c DEF Given
<1>9. Dense'
  BY <1>7, <1>8, <1>a, DenseStep
<1>10. ChainSound' /\ FirstCommandWins'
  BY <1>1, RuntimeKept
<1>11. MarketTypes'
  <2>1. pluginRows' \in [PluginIds -> Row]
    BY <1>1, <1>a, NoRowIs DEF MarketTypes
  <2>2. pluginFaults' \in 0 .. MaxPluginFaults
    BY <1>1, <1>a, Counted DEF MarketTypes
  <2>3. damaged' \subseteq PluginIds /\ gone' \subseteq PluginIds
    BY <1>c, <1>a DEF MarketTypes
  <2> QED BY <2>1, <2>2, <2>3, <1>1, <1>4, <1>a, RuntimeKept DEF MarketTypes
<1>12. OpsSound'
  <2> SUFFICES ASSUME NEW b \in PluginAdmins
               PROVE  /\ adminOp'[b].op = "none" <=> adminOp'[b].id = 0
                      /\ adminOp'[b].op = "insert" =>
                            /\ pluginFiles'[adminOp'[b].id] = "whole" /\ pluginRows'[adminOp'[b].id] = NoRow
                            /\ adminOp'[b].id \notin gone'
                            /\ \A c \in PluginAdmins : adminOp'[c].id = adminOp'[b].id => c = b
                      /\ adminOp'[b].op = "remove" => adminOp'[b].id \in damaged'
                      /\ adminOp'[b].op = "delete" => (pluginFiles'[adminOp'[b].id] = "none" \/ adminOp'[b].id \in kept')
    BY DEF OpsSound, Cleared
  <2>1. CASE b = a
    BY <2>1, <1>4, <1>d
  <2>2. CASE b # a
    <3>1. adminOp'[b] = adminOp[b]
      BY <2>2, <1>4
    <3>2. adminOp[b].op # "none" => adminOp[b].id \in PluginIds /\ adminOp[b].id # 0
      BY OpIds
    <3>3. adminOp[b].op = "insert" => adminOp[b].id # id
      BY <2>2, <1>0, <1>a DEF OpsSound
    <3>4. adminOp[b].op = "insert" => pluginRows'[adminOp[b].id] = pluginRows[adminOp[b].id] /\ adminOp[b].id \notin gone'
      BY <3>2, <3>3, <1>5, <1>c, <1>a DEF OpsSound, Cleared
    <3> QED BY <2>2, <3>1, <3>2, <3>4, <1>1, <1>4, <1>c, <1>d, <1>a DEF OpsSound, Cleared
  <2> QED BY <2>1, <2>2
<1>13. NoStrayFile'
  BY <1>1, <1>5, <1>a, NoRowIs DEF NoStrayFile
<1>14. NoFileLeft'
  <2> SUFFICES ASSUME NEW i \in gone' PROVE ~pluginRows'[i].there /\ (pluginFiles'[i] = "none" \/ i \in kept')
    BY DEF NoFileLeft
  <2>1. CASE i = id /\ pluginRows'[id] = NoRow
    BY <2>1, <1>1, <1>b, NoRowIs
  <2>2. CASE i = id /\ pluginRows'[id] # NoRow
    BY <2>2, <1>1, <1>5, <1>a DEF NoFileLeft
  <2>3. CASE i # id
    <3>1. i \in gone /\ i \in PluginIds
      BY <2>3, <1>c, <1>a DEF MarketTypes
    <3> QED BY <2>3, <3>1, <1>1, <1>5, <1>a DEF NoFileLeft
  <2> QED BY <2>1, <2>2, <2>3
<1>15. RowHasFile'
  <2> SUFFICES ASSUME NEW i \in PluginIds, pluginRows'[i].there, pluginRows'[i].file
               PROVE  \/ pluginFiles'[i] = "whole" \/ i \in damaged'
                      \/ \E b \in PluginAdmins : adminOp'[b] = [op |-> "delete", id |-> i]
    BY DEF RowHasFile
  <2>1. CASE i = id
    BY <2>1, <1>5, NoRowIs
  <2>2. CASE i # id
    <3>1. ASSUME NEW b \in PluginAdmins, adminOp[b] = [op |-> "delete", id |-> i]
          PROVE  adminOp'[b] = [op |-> "delete", id |-> i]
      <4>1. adminOp[b].id = i
        BY <3>1
      <4>2. b # a
        BY <4>1, <2>2, <1>0
      <4> QED BY <4>2, <3>1, <1>4
    <3> QED BY <2>2, <3>1, <1>1, <1>5, <1>c, <1>a DEF RowHasFile
  <2> QED BY <2>1, <2>2
<1> QED BY <1>9, <1>10, <1>11, <1>12, <1>13, <1>14, <1>15 DEF MarketInv

-----------------------------------------------------------------------------
\* The part of the invariant the table's operations are about, when a step leaves them alone.
LEMMA TableKept ==
  ASSUME MarketInv, UNCHANGED <<pluginRows, pluginFiles, adminOp, damaged, gone, kept, pluginEdits>>
  PROVE  Dense' /\ OpsSound' /\ NoStrayFile' /\ RowHasFile' /\ NoFileLeft'
<1>1. Given' = Given
  BY DEF Given
<1> QED BY <1>1 DEF MarketInv, Dense, OpsSound, Cleared, NoStrayFile, RowHasFile, NoFileLeft

LEMMA BootStep == ASSUME MarketInv, StartGateway PROVE MarketInv'
<1>a. MarketTypes
  BY DEF MarketInv
<1>1. UNCHANGED <<pluginRows, pluginFiles, adminOp, serving, chain, damaged, gone, kept, pluginEdits, pluginFaults>>
  BY DEF StartGateway
<1> DEFINE all == [i \in PluginIds |-> i]
           good == {i \in PluginIds : Hydrated(i) /\ Compiles(i)}
           ids == MembersIn(all, good)
           rows == [i \in DOMAIN ids |-> pluginRows[ids[i]]]
           items == Configured \o rows
<1>2. all \in Seq(PluginIds)
  BY PluginAssumption DEF PluginIds
<1>3. ids \in Seq(PluginIds \cap good)
  BY <1>2, MembersInIs
<1>4. \A i \in good : pluginRows[i] \in DefaultRows
  BY <1>a DEF Hydrated, DefaultRows, MarketTypes
<1> HIDE DEF ids, good, all
<1>5. rows \in Seq(DefaultRows)
  <2>1. DOMAIN ids = 1 .. Len(ids) /\ Len(ids) \in Nat /\ \A i \in DOMAIN ids : ids[i] \in good
    BY <1>3
  <2> QED BY <2>1, <1>4
<1>6. Configured \in Seq(DefaultRows)
  <2>1. \A i \in DOMAIN Configured : Configured[i] \in DefaultRows
    BY PluginAssumption DEF DefaultRows, Members
  <2>2. DOMAIN Configured = 1 .. Len(Configured) /\ Len(Configured) \in Nat /\ Configured = [i \in DOMAIN Configured |-> Configured[i]]
    BY PluginAssumption
  <2> QED BY <2>1, <2>2
<1>7. items \in Seq(DefaultRows)
  <2> HIDE DEF rows
  <2> QED BY <1>5, <1>6
<1>8. HydrateMarketplacePlugins = items
  BY DEF HydrateMarketplacePlugins, ids, good, all
<1> HIDE DEF items
<1>9. modules' = MembersIn(items, {r \in Members(items) : r.type = "wasm"})
  BY <1>8 DEF StartGateway
<1>10. modules' \in Seq(DefaultRows)
  <2>1. modules' \in Seq(DefaultRows \cap {r \in Members(items) : r.type = "wasm"})
    BY <1>7, <1>9, MembersInIs
  <2> QED BY <2>1
<1>11. health' \in [PluginNames -> {"unknown", "healthy", "unhealthy"}]
  BY DEF StartGateway
<1>12. MarketTypes'
  BY <1>1, <1>10, <1>11, <1>a DEF MarketTypes
<1>13. ChainSound' /\ FirstCommandWins'
  BY <1>1 DEF MarketInv, ChainSound, FirstCommandWins
<1> QED BY <1>1, <1>12, <1>13, TableKept DEF MarketInv

LEMMA EndStep == ASSUME MarketInv, EndGateway PROVE MarketInv'
<1>a. MarketTypes /\ Dense /\ OpsSound /\ NoStrayFile /\ RowHasFile /\ NoFileLeft
  BY DEF MarketInv
<1>1. /\ UNCHANGED <<pluginRows, pluginFiles, serving, gone, kept, pluginEdits>> /\ Fails
      /\ adminOp' = [a \in PluginAdmins |-> NoOp] /\ modules' = <<>> /\ chain' = NoChain
      /\ health' = [n \in PluginNames |-> "unknown"]
      /\ damaged' = damaged \cup {adminOp[a].id : a \in {b \in PluginAdmins : adminOp[b].op = "delete"}}
  BY DEF EndGateway
<1>b. NoOp \in Ops /\ NoOp.op = "none" /\ NoOp.id = 0 /\ 0 \notin PluginIds
  BY PluginAssumption DEF NoOp, Ops, PluginIds
<1>c. \A b \in PluginAdmins : adminOp[b].op # "none" => adminOp[b].id \in PluginIds
  BY OpIds
<1>2. damaged \subseteq damaged' /\ damaged' \subseteq Given
  BY <1>1, <1>c DEF Given
<1>d. \A b \in PluginAdmins : adminOp'[b].op = "none" /\ adminOp'[b].id = 0
  BY <1>1, <1>b
<1>3. Given \subseteq Given'
  <2> SUFFICES ASSUME NEW i \in Given PROVE i \in Given'
    OBVIOUS
  <2>1. CASE i \in damaged \/ i \in gone
    BY <2>1, <1>1, <1>2 DEF Given
  <2>2. CASE i \in PluginIds /\ (pluginRows[i] # NoRow \/ pluginFiles[i] # "none")
    BY <2>2, <1>1 DEF Given
  <2>3. CASE i \in PluginIds /\ \E b \in PluginAdmins : adminOp[b].id = i
    <3>1. PICK b \in PluginAdmins : adminOp[b].id = i
      BY <2>3
    <3>2. adminOp[b] \in Ops /\ adminOp[b].op # "none"
      BY <3>1, <2>3, <1>a, <1>b DEF MarketTypes, OpsSound
    <3>3. CASE adminOp[b].op = "insert"
      <4>1. pluginFiles[i] # "none"
        BY <3>1, <3>3, <1>a DEF OpsSound, Cleared
      <4> QED BY <4>1, <2>3, <1>1 DEF Given
    <3>4. CASE adminOp[b].op = "remove"
      <4>1. i \in damaged'
        BY <3>1, <3>4, <1>a, <1>2 DEF OpsSound, Cleared
      <4> QED BY <4>1 DEF Given
    <3>5. CASE adminOp[b].op = "delete"
      <4>1. i \in damaged'
        BY <3>1, <3>5, <1>1
      <4> QED BY <4>1 DEF Given
    <3> QED BY <3>2, <3>3, <3>4, <3>5 DEF Ops
  <2> QED BY <2>1, <2>2, <2>3 DEF Given
<1>4. Given' \subseteq Given
  <2>1. \A i \in PluginIds : ~(\E b \in PluginAdmins : adminOp'[b].id = i)
    BY <1>d, <1>b
  <2> QED BY <2>1, <1>1, <1>2 DEF Given
<1>5. Dense'
  BY <1>3, <1>4, <1>a, DenseStep
<1>6. MarketTypes'
  <2>1. pluginFaults' \in 0 .. MaxPluginFaults
    BY <1>1, <1>a, Counted
  <2>2. damaged' \subseteq PluginIds
    BY <1>1, <1>c, <1>a DEF MarketTypes
  <2>3. adminOp' \in [PluginAdmins -> Ops] /\ modules' \in Seq(DefaultRows)
    BY <1>1, <1>b
  <2> QED BY <2>1, <2>2, <2>3, <1>1, <1>a DEF MarketTypes
<1>7. OpsSound' /\ NoStrayFile' /\ NoFileLeft'
  BY <1>d, <1>1, <1>a DEF OpsSound, NoStrayFile, NoFileLeft
<1>8. RowHasFile'
  <2> SUFFICES ASSUME NEW i \in PluginIds, pluginRows'[i].there, pluginRows'[i].file
               PROVE  pluginFiles'[i] = "whole" \/ i \in damaged'
    BY DEF RowHasFile
  <2>1. ASSUME NEW b \in PluginAdmins, adminOp[b] = [op |-> "delete", id |-> i]
        PROVE  i \in damaged'
    <3>1. adminOp[b].op = "delete" /\ adminOp[b].id = i
      BY <2>1
    <3> QED BY <3>1, <1>1
  <2> QED BY <2>1, <1>1, <1>2, <1>a DEF RowHasFile
<1>9. chain'.at = "idle"
  BY <1>1 DEF NoChain
<1>10. ChainSound' /\ FirstCommandWins'
  BY <1>9 DEF ChainSound, FirstCommandWins
<1> QED BY <1>5, <1>6, <1>7, <1>8, <1>10 DEF MarketInv

LEMMA ServesStep == ASSUME MarketInv, NEW n \in PluginNames, Serves(n) \/ checkHealth(n) PROVE MarketInv'
<1>a. MarketTypes
  BY DEF MarketInv
<1>1. UNCHANGED <<pluginRows, pluginFiles, adminOp, modules, chain, damaged, gone, kept, pluginEdits>>
  BY DEF Serves, checkHealth
<1>2. /\ health' \in [PluginNames -> {"unknown", "healthy", "unhealthy"}]
      /\ serving' \in [PluginNames -> BOOLEAN]
  BY <1>a DEF Serves, checkHealth, MarketTypes
<1>3. pluginFaults' \in 0 .. MaxPluginFaults
  BY <1>a, Counted DEF Serves, checkHealth, MarketTypes
<1>4. MarketTypes'
  BY <1>1, <1>2, <1>3, <1>a DEF MarketTypes
<1>5. ChainSound' /\ FirstCommandWins'
  BY <1>1 DEF MarketInv, ChainSound, FirstCommandWins
<1> QED BY <1>1, <1>4, <1>5, TableKept DEF MarketInv

LEMMA OwnMembers == ASSUME NEW X, NEW s \in Seq(X) PROVE s \in Seq(Members(s))
<1>1. DOMAIN s = 1 .. Len(s) /\ Len(s) \in Nat /\ s = [i \in DOMAIN s |-> s[i]]
  OBVIOUS
<1>2. \A i \in DOMAIN s : s[i] \in Members(s)
  BY DEF Members
<1> QED BY <1>1, <1>2

LEMMA PlanStep == ASSUME MarketInv, GetByPhase PROVE MarketInv'
<1>a. MarketTypes
  BY DEF MarketInv
<1>1. UNCHANGED <<pluginRows, pluginFiles, adminOp, modules, health, serving, damaged, gone, kept, pluginEdits, pluginFaults>>
  BY DEF GetByPhase
<1> DEFINE wasm == MembersIn(modules, {m \in Members(modules) : m.phase = "pre"})
           plan(order) == [i \in DOMAIN order |-> [type |-> "grpc", name |-> order[i]]]
                          \o [i \in DOMAIN wasm |-> [type |-> "wasm", name |-> wasm[i].name]]
<1>2. PICK order \in AnyOrder(Subscribed) :
        chain' = [at |-> "ask", plan |-> plan(order), answers |-> <<>>, result |-> "none"]
  BY DEF GetByPhase
<1>3. IsFiniteSet(Subscribed)
  <2>1. Subscribed \subseteq PluginNames
    BY DEF Subscribed
  <2> QED BY <2>1, PluginAssumption, FS_Subset
<1>4. Cardinality(Subscribed) \in Nat
  BY <1>3, FS_CardinalityType
<1>5. order \in Seq(Subscribed)
  BY <1>4 DEF AnyOrder
<1>6. wasm \in Seq(DefaultRows \cap {m \in Members(modules) : m.phase = "pre"})
  BY <1>a, MembersInIs DEF MarketTypes
<1> DEFINE first == [i \in DOMAIN order |-> [type |-> "grpc", name |-> order[i]]]
           second == [i \in DOMAIN wasm |-> [type |-> "wasm", name |-> wasm[i].name]]
           any == Members(first) \cup Members(second)
<1> HIDE DEF wasm
<1>7. first \in Seq(any)
  <2>1. DOMAIN order = 1 .. Len(order) /\ Len(order) \in Nat
    BY <1>5
  <2>2. \A i \in DOMAIN order : first[i] \in any
    BY DEF Members
  <2> QED BY <2>1, <2>2
<1>8. second \in Seq(any)
  <2>1. DOMAIN wasm = 1 .. Len(wasm) /\ Len(wasm) \in Nat
    BY <1>6
  <2>2. \A i \in DOMAIN wasm : second[i] \in any
    BY DEF Members
  <2> QED BY <2>1, <2>2
<1>9. plan(order) = first \o second
  OBVIOUS
<1> HIDE DEF first, second, any, plan
<1>10. plan(order) \in Seq(any)
  BY <1>7, <1>8, <1>9
<1>11. PICK p : p = plan(order)
  OBVIOUS
<1>12. p \in Seq(Members(p)) /\ Len(p) \in Nat /\ (p = <<>> \/ Len(p) > 0)
  <2>1. p \in Seq(Members(p))
    BY <1>10, <1>11, OwnMembers
  <2> QED BY <2>1
<1>13. chain' = [at |-> "ask", plan |-> p, answers |-> <<>>, result |-> "none"]
  BY <1>2, <1>11
<1>14. ChainSound'
  <2>1. chain'.at = "ask"
    BY <1>13
  <2>2. <<>> \in Seq(Quiet) /\ Len(<<>>) = 0
    OBVIOUS
  <2>3. IF p = <<>> THEN <<>> = <<>> ELSE Len(<<>>) < Len(p)
    BY <1>12, <2>2
  <2>4. \E q, w : /\ q \in Seq(Members(q)) /\ w \in Seq(Quiet)
                  /\ chain' = [at |-> "ask", plan |-> q, answers |-> w, result |-> "none"]
                  /\ IF q = <<>> THEN w = <<>> ELSE Len(w) < Len(q)
    BY <1>12, <1>13, <2>2, <2>3, Zenon
  <2> QED BY <2>1, <2>4 DEF ChainSound
<1>15. FirstCommandWins'
  BY <1>13 DEF FirstCommandWins
<1>16. MarketTypes'
  BY <1>1, <1>a DEF MarketTypes
<1> QED BY <1>1, <1>14, <1>15, <1>16, TableKept DEF MarketInv

LEMMA InvokeStep == ASSUME MarketInv, invokePlugins PROVE MarketInv'
<1>a. MarketTypes /\ ChainSound
  BY DEF MarketInv
<1>1. UNCHANGED <<pluginRows, pluginFiles, adminOp, modules, serving, damaged, gone, kept, pluginEdits, pluginFaults>>
  BY DEF invokePlugins
<1>2. PICK p, w : /\ p \in Seq(Members(p)) /\ w \in Seq(Quiet)
                  /\ chain = [at |-> "ask", plan |-> p, answers |-> w, result |-> "none"]
                  /\ IF p = <<>> THEN w = <<>> ELSE Len(w) < Len(p)
  BY <1>a DEF ChainSound, invokePlugins
<1>b. chain.plan = p /\ chain.answers = w /\ Len(p) \in Nat /\ Len(w) \in Nat
  BY <1>2
<1>3. CASE p = <<>>
  <2>1. chain' = [at |-> "done", plan |-> <<>>, answers |-> <<>>, result |-> "none"] /\ UNCHANGED health
    BY <1>2, <1>3, <1>b DEF invokePlugins
  <2>2. ChainSound'
    BY <2>1 DEF ChainSound
  <2>3. FirstCommandWins'
    <3>1. {i \in DOMAIN chain'.answers : chain'.answers[i] \notin {"nothing", "error"}} = {}
      BY <2>1
    <3>2. chain'.result = "none" /\ Len(chain'.answers) = Len(chain'.plan)
      BY <2>1
    <3> QED BY <3>1, <3>2 DEF FirstCommandWins
  <2>4. MarketTypes'
    BY <2>1, <1>1, <1>a DEF MarketTypes
  <2> QED BY <2>2, <2>3, <2>4, <1>1, TableKept DEF MarketInv
<1>4. CASE p # <<>>
  <2>1. PICK answer \in {"nothing", "error", "BLOCK", "TRANSFORM", "SKIP"} :
          LET replies == Append(w, answer)
              then == AfterAnswer(answer, Len(replies) = Len(p))
          IN  /\ Process(p[Len(replies)], answer)
              /\ chain' = [chain EXCEPT !.answers = replies,
                                        !.at = IF then = "next" THEN "ask" ELSE "done",
                                        !.result = IF then = "next" THEN "none" ELSE then]
    BY <1>4, <1>b DEF invokePlugins
  <2> DEFINE replies == Append(w, answer)
             then == AfterAnswer(answer, Len(replies) = Len(p))
  <2>2. health' \in [PluginNames -> {"unknown", "healthy", "unhealthy"}]
    <3>1. PICK q : Process(q, answer)
      BY <2>1
    <3>2. health' = health \/ health' = [health EXCEPT ![q.name] = "unhealthy"]
      BY <3>1 DEF Process
    <3> QED BY <3>2, <1>a DEF MarketTypes
  <2>3. MarketTypes'
    BY <2>2, <1>1, <1>a DEF MarketTypes
  <2>4. chain' = [at |-> IF then = "next" THEN "ask" ELSE "done", plan |-> p, answers |-> replies,
                  result |-> IF then = "next" THEN "none" ELSE then]
    BY <2>1, <1>2
  <2>5. /\ Len(replies) = Len(w) + 1 /\ DOMAIN replies = 1 .. Len(w) + 1 /\ replies[Len(w) + 1] = answer
        /\ \A i \in 1 .. Len(w) : replies[i] \in Quiet
    BY <1>2 DEF Quiet
  <2>6. Len(replies) <= Len(p)
    BY <2>5, <1>2, <1>4, <1>b
  <2>7. PICK a : a = replies
    OBVIOUS
  <2> HIDE DEF replies
  <2>8. CASE then = "next"
    <3>1. answer \in Quiet /\ Len(replies) # Len(p)
      BY <2>8 DEF AfterAnswer, Quiet
    <3>2. replies \in Seq(Quiet)
      BY <3>1, <1>2 DEF replies
    <3>3. Len(replies) < Len(p)
      BY <3>1, <2>5, <2>6, <1>b
    <3>4. chain' = [at |-> "ask", plan |-> p, answers |-> a, result |-> "none"]
      BY <2>8, <2>4, <2>7
    <3>5. chain'.at = "ask"
      BY <3>4
    <3>6. \E q, v : /\ q \in Seq(Members(q)) /\ v \in Seq(Quiet)
                    /\ chain' = [at |-> "ask", plan |-> q, answers |-> v, result |-> "none"]
                    /\ IF q = <<>> THEN v = <<>> ELSE Len(v) < Len(q)
      <4>1. p \in Seq(Members(p)) /\ a \in Seq(Quiet) /\ (IF p = <<>> THEN a = <<>> ELSE Len(a) < Len(p))
        BY <3>2, <3>3, <1>2, <1>4, <2>7
      <4> QED BY <4>1, <3>4, Zenon
    <3>7. ChainSound' /\ FirstCommandWins'
      BY <3>5, <3>6 DEF ChainSound, FirstCommandWins
    <3> QED BY <3>7, <2>3, <1>1, TableKept DEF MarketInv
  <2>9. CASE then # "next"
    <3>1. chain'.at = "done" /\ chain'.plan = p /\ chain'.answers = a /\ chain'.result = then
      BY <2>9, <2>4, <2>7
    <3>2. ChainSound'
      BY <3>1 DEF ChainSound
    <3> DEFINE commands == {i \in DOMAIN chain'.answers : chain'.answers[i] \notin {"nothing", "error"}}
    <3>3. CASE answer \in Quiet
      <4>1. commands = {}
        BY <3>1, <3>3, <2>5, <2>7, <1>b DEF Quiet
      <4>2. then = "none" /\ Len(replies) = Len(p)
        BY <2>9, <3>3 DEF AfterAnswer, Quiet
      <4>3. FirstCommandWins'
        BY <4>1, <4>2, <3>1, <2>7 DEF FirstCommandWins
      <4> QED BY <4>3, <3>2, <2>3, <1>1, TableKept DEF MarketInv
    <3>4. CASE answer \notin Quiet
      <4>1. commands = {Len(w) + 1}
        BY <3>1, <3>4, <2>5, <2>7, <1>b DEF Quiet
      <4>2. then = IF answer = "SKIP" THEN "none" ELSE answer
        BY <3>4 DEF AfterAnswer, Quiet
      <4>3. (CHOOSE j \in commands : \A k \in commands : j <= k) = Len(w) + 1
        <5>1. Len(w) + 1 <= Len(w) + 1
          BY <1>b
        <5> HIDE DEF commands
        <5> QED BY <4>1, <5>1
      <4>4. a[Len(w) + 1] = answer /\ commands # {}
        BY <2>5, <2>7, <4>1
      <4>5. FirstCommandWins'
        BY <4>2, <4>3, <4>4, <3>1 DEF FirstCommandWins
      <4> QED BY <4>5, <3>2, <2>3, <1>1, TableKept DEF MarketInv
    <3> QED BY <3>3, <3>4
  <2> QED BY <2>8, <2>9
<1> QED BY <1>3, <1>4

LEMMA NextRequestStep == ASSUME MarketInv, NextRequest PROVE MarketInv'
<1>1. UNCHANGED <<pluginRows, pluginFiles, adminOp, modules, health, serving, damaged, gone, kept, pluginEdits, pluginFaults>>
  BY DEF NextRequest
<1>2. chain'.at = "idle"
  BY DEF NextRequest, NoChain
<1>3. ChainSound' /\ FirstCommandWins'
  BY <1>2 DEF ChainSound, FirstCommandWins
<1>4. MarketTypes'
  BY <1>1 DEF MarketInv, MarketTypes
<1> QED BY <1>1, <1>3, <1>4, TableKept DEF MarketInv

LEMMA MarketStep == MarketInv /\ [MarketNext]_marketVars => MarketInv'
<1> SUFFICES ASSUME MarketInv, [MarketNext]_marketVars PROVE MarketInv'
  OBVIOUS
<1>1. CASE UNCHANGED marketVars
  <2>1. UNCHANGED <<pluginRows, pluginFiles, adminOp, modules, health, serving, chain, damaged, gone, kept, pluginEdits, pluginFaults>>
    BY <1>1 DEF marketVars
  <2>2. ChainSound' /\ FirstCommandWins' /\ MarketTypes'
    BY <2>1 DEF MarketInv, MarketTypes, ChainSound, FirstCommandWins
  <2> QED BY <2>1, <2>2, TableKept DEF MarketInv
<1>2. CASE MarketNext
  BY <1>2, CreateStep, UploadStep, InsertStep, RemoveStep, UpdateStep, DeleteStep, DeleteRowStep, BootStep,
     EndStep, ServesStep, PlanStep, InvokeStep, NextRequestStep DEF MarketNext
<1> QED BY <1>1, <1>2

LEMMA MarketConsequence == MarketInv => MarketSound
<1> SUFFICES ASSUME MarketInv PROVE MarketSound
  OBVIOUS
<1>1. \A i \in DOMAIN modules : modules[i].tenant = "default"
  <2>1. modules \in Seq(DefaultRows)
    BY DEF MarketInv, MarketTypes
  <2>2. \A i \in DOMAIN modules : modules[i] \in DefaultRows
    BY <2>1
  <2> QED BY <2>2 DEF DefaultRows
<1>2. MarketTypeOK
  BY <1>1 DEF MarketTypeOK, MarketInv, MarketTypes, ChainSound
<1> QED BY <1>2 DEF MarketSound, MarketInv

\* The market: a row that names a file has it whole unless an operation on that very plugin failed half way,
\* a deletion that succeeded leaves no row, and no file but one the file system refused to remove, only the default tenant's plugins run, and the first
\* command of a chain is its answer (UploadPlugin, DeletePlugin, HydrateMarketplacePlugins, invokePlugins).
THEOREM MarketCorrect == MarketSpec => []MarketSound
<1>1. MarketInv /\ [MarketNext]_marketVars => MarketInv'
  BY MarketStep
<1> QED BY <1>1, MarketStart, MarketConsequence, PTL DEF MarketSpec

-----------------------------------------------------------------------------
(* GatewayStartup.                                                         *)

\* The steps of a start after its list is committed.
Listed == {"users", "usage_records", "lookup", "update", "create", "serving"}

StartTypes ==
    /\ boot \in [Gateways -> StartSteps]
    /\ listed \in [Gateways -> SUBSET ProviderNames] /\ fresh \in [Gateways -> SUBSET ProviderNames]
    /\ offered \subseteq ProviderNames
    /\ toSeed \in [Gateways -> SUBSET BootKeys]
    /\ keyRow \in [BootKeys -> {"none", "active", "revoked"}]
    /\ keyUsers \in [BootKeys -> Nat]

TenantFirst == \A g \in Gateways : boot[g] \notin {"down", "tenant", "insert"} => tenantRow # "absent"

\* The rows of no tenant go table by table, and none comes back.
Backfilled ==
    /\ legacy \subseteq Tables
    /\ \A g \in Gateways :
          /\ boot[g] = "usage_records" => "users" \notin legacy
          /\ boot[g] \in {"lookup", "update", "create", "serving"} => legacy = {}

\* A gateway's keys are active as far as its loop has come; the row it is about to rewrite
\* is there.
KeysSeeded ==
    \A g \in Gateways :
        /\ boot[g] # "down" /\ g \notin edited => \A k \in BootKeys \ toSeed[g] : keyRow[k] = "active"
        /\ boot[g] = "serving" => toSeed[g] = {}
        /\ boot[g] \in {"update", "create"} => toSeed[g] # {}
        /\ boot[g] = "update" => keyRow[NextKey(g)] # "none"

\* The list that a gateway has committed stays in what others have read, and in the
\* table, until one of them runs across it.
MigratedListKept ==
    \A g \in Gateways :
        boot[g] \in Listed /\ g \notin edited \cup crossed =>
            /\ EnabledProviders[g] \subseteq offered
            /\ \A h \in Gateways : boot[h] \in {"replace", "commit"} => EnabledProviders[g] \subseteq listed[h]

StartInv == StartTypes /\ TenantFirst /\ Backfilled /\ KeysSeeded /\ MigratedListKept /\ OneUserPerKey

\* NextKey is one of the keys left.
LEMMA NextKeyIs ==
  ASSUME StartTypes, NEW g \in Gateways, toSeed[g] # {}
  PROVE  NextKey(g) \in toSeed[g] /\ NextKey(g) \in BootKeys
BY DEF NextKey, StartTypes

LEMMA StartsSeeded == StartInit => StartInv
BY StartupAssumption DEF StartInit, StartInv, StartTypes, TenantFirst, Backfilled, KeysSeeded, MigratedListKept,
   OneUserPerKey, StartSteps, Listed, Tables, NextKey

LEMMA SeedStep ==
  ASSUME StartInv, NEW g \in Gateways,
         \/ StartProcess(g) \/ StartFails(g) \/ EnsureTenant(g)
         \/ ListTenantProviders(g) \/ ReplaceTenantProviders(g)
         \/ BackfillDefaultTenant(g) \/ LookupKey(g) \/ SeedKey(g)
  PROVE  StartInv'
<1> USE StartupAssumption
<1>a. StartTypes /\ TenantFirst /\ Backfilled /\ KeysSeeded /\ MigratedListKept /\ OneUserPerKey
  BY DEF StartInv
<1>b. boot \in [Gateways -> StartSteps]
  BY <1>a DEF StartTypes
<1>1. CASE StartProcess(g)
  <2>1. /\ boot[g] = "down" /\ boot' = [boot EXCEPT ![g] = "tenant"]
        /\ toSeed' = [toSeed EXCEPT ![g] = BootKeys] /\ crossed' = crossed \ {g} /\ edited' = edited \ {g}
        /\ UNCHANGED <<listed, fresh, tenantRow, offered, legacy, keyRow, keyUsers>>
    BY <1>1 DEF StartProcess, Goto
  <2>2. boot'[g] = "tenant" /\ \A h \in Gateways : h # g => boot'[h] = boot[h] /\ toSeed'[h] = toSeed[h]
    BY <2>1, <1>b, <1>a DEF StartTypes
  <2>3. StartTypes'
    BY <2>1, <1>a DEF StartTypes, StartSteps
  <2>4. TenantFirst' /\ Backfilled' /\ OneUserPerKey'
    BY <2>1, <2>2, <1>a DEF TenantFirst, Backfilled, OneUserPerKey
  <2>5. KeysSeeded'
    <3> SUFFICES ASSUME NEW h \in Gateways
                 PROVE  /\ boot'[h] # "down" /\ h \notin edited' => \A k \in BootKeys \ toSeed'[h] : keyRow'[k] = "active"
                        /\ boot'[h] = "serving" => toSeed'[h] = {}
                        /\ boot'[h] \in {"update", "create"} => toSeed'[h] # {}
                        /\ boot'[h] = "update" => keyRow'[NextKey(h)'] # "none"
      BY DEF KeysSeeded
    <3>1. CASE h = g
      <4>1. toSeed'[g] = BootKeys
        BY <2>1, <1>a DEF StartTypes
      <4> QED BY <3>1, <4>1, <2>2
    <3>2. CASE h # g
      <4>1. NextKey(h)' = NextKey(h)
        BY <3>2, <2>2 DEF NextKey
      <4> QED BY <3>2, <4>1, <2>1, <2>2, <1>a DEF KeysSeeded
    <3> QED BY <3>1, <3>2
  <2>6. MigratedListKept'
    BY <2>1, <2>2, <1>a DEF MigratedListKept, Listed
  <2> QED BY <2>3, <2>4, <2>5, <2>6 DEF StartInv
<1>k. ASSUME UNCHANGED <<toSeed, keyRow, edited>>,
             \A h \in Gateways : h # g => boot'[h] = boot[h],
             boot'[g] = "down" \/ (boot[g] # "down" /\ boot'[g] \notin {"update", "create", "serving"})
      PROVE  KeysSeeded'
  <2> SUFFICES ASSUME NEW h \in Gateways
               PROVE  /\ boot'[h] # "down" /\ h \notin edited' => \A k \in BootKeys \ toSeed'[h] : keyRow'[k] = "active"
                      /\ boot'[h] = "serving" => toSeed'[h] = {}
                      /\ boot'[h] \in {"update", "create"} => toSeed'[h] # {}
                      /\ boot'[h] = "update" => keyRow'[NextKey(h)'] # "none"
    BY DEF KeysSeeded
  <2>1. NextKey(h)' = NextKey(h)
    BY <1>k DEF NextKey
  <2> QED BY <2>1, <1>k, <1>a DEF KeysSeeded
<1>2. CASE StartFails(g)
  <2>1. /\ boot' = [boot EXCEPT ![g] = "down"]
        /\ UNCHANGED <<listed, fresh, tenantRow, offered, legacy, toSeed, keyRow, keyUsers, crossed, edited>>
    BY <1>2 DEF StartFails, Goto
  <2>2. boot'[g] = "down" /\ \A h \in Gateways : h # g => boot'[h] = boot[h]
    BY <2>1, <1>b
  <2>3. StartTypes'
    BY <2>1, <1>a DEF StartTypes, StartSteps
  <2>4. TenantFirst' /\ Backfilled' /\ OneUserPerKey'
    BY <2>1, <2>2, <1>a DEF TenantFirst, Backfilled, OneUserPerKey
  <2>5. KeysSeeded'
    BY <2>1, <2>2, <1>k
  <2>6. MigratedListKept'
    BY <2>1, <2>2, <1>a DEF MigratedListKept, Listed
  <2> QED BY <2>3, <2>4, <2>5, <2>6 DEF StartInv
<1>3. CASE EnsureTenant(g)
  <2>1. /\ boot[g] \in {"tenant", "insert"}
        /\ UNCHANGED <<listed, fresh, offered, legacy, toSeed, keyRow, keyUsers, crossed, edited, seedWork>>
    BY <1>3 DEF EnsureTenant
  <2>2. PICK s \in {"insert", "list", "down"} :
            /\ boot' = [boot EXCEPT ![g] = s]
            /\ tenantRow # "absent" => tenantRow' # "absent"
            /\ s = "list" => tenantRow' # "absent"
    BY <1>3 DEF EnsureTenant, Goto, AfterLoad
  <2>3. boot'[g] = s /\ \A h \in Gateways : h # g => boot'[h] = boot[h]
    BY <2>2, <1>b
  <2>4. StartTypes'
    BY <2>1, <2>2, <1>a DEF StartTypes, StartSteps
  <2>5. TenantFirst' /\ Backfilled' /\ OneUserPerKey'
    BY <2>1, <2>2, <2>3, <1>a DEF TenantFirst, Backfilled, OneUserPerKey
  <2>6. KeysSeeded'
    BY <2>1, <2>3, <1>k
  <2>7. MigratedListKept'
    BY <2>1, <2>3, <1>a DEF MigratedListKept, Listed
  <2> QED BY <2>4, <2>5, <2>6, <2>7 DEF StartInv
<1>4. CASE ListTenantProviders(g)
  <2>1. /\ boot[g] = "list" /\ boot' = [boot EXCEPT ![g] = "replace"]
        /\ listed' = [listed EXCEPT ![g] = offered]
        /\ UNCHANGED <<fresh, tenantRow, offered, legacy, toSeed, keyRow, keyUsers, crossed, edited>>
    BY <1>4 DEF ListTenantProviders, Goto
  <2>2. boot'[g] = "replace" /\ \A h \in Gateways : h # g => boot'[h] = boot[h] /\ listed'[h] = listed[h]
    BY <2>1, <1>b, <1>a DEF StartTypes
  <2>3. listed'[g] = offered
    BY <2>1, <1>a DEF StartTypes
  <2>4. StartTypes'
    BY <2>1, <1>a DEF StartTypes, StartSteps
  <2>5. TenantFirst' /\ Backfilled' /\ OneUserPerKey'
    BY <2>1, <2>2, <1>a DEF TenantFirst, Backfilled, OneUserPerKey
  <2>6. KeysSeeded'
    BY <2>1, <2>2, <1>k
  <2>7. MigratedListKept'
    BY <2>1, <2>2, <2>3, <1>a DEF MigratedListKept, Listed
  <2> QED BY <2>4, <2>5, <2>6, <2>7 DEF StartInv
<1>5. CASE ReplaceTenantProviders(g)
  <2>0. UNCHANGED <<listed, tenantRow, legacy, toSeed, keyRow, keyUsers, edited>>
    BY <1>5 DEF ReplaceTenantProviders
  <2>a. PICK s \in {"commit", "users", "down"} : boot' = [boot EXCEPT ![g] = s] /\ boot[g] \in {"replace", "commit"}
    BY <1>5 DEF ReplaceTenantProviders, Goto
  <2>b. boot'[g] = s /\ \A h \in Gateways : h # g => boot'[h] = boot[h]
    BY <2>a, <1>b
  <2>c. Merged(g) \subseteq ProviderNames /\ EnabledProviders[g] \subseteq Merged(g) /\ listed[g] \subseteq Merged(g)
    BY <1>a DEF Merged, StartTypes
  <2>d. TenantFirst' /\ Backfilled' /\ OneUserPerKey'
    BY <2>0, <2>a, <2>b, <1>a DEF TenantFirst, Backfilled, OneUserPerKey
  <2>e. KeysSeeded'
    BY <2>0, <2>a, <2>b, <1>k
  <2>1. CASE boot[g] = "replace"
    <3>1. boot'[g] = "commit" /\ fresh' = [fresh EXCEPT ![g] = {}] /\ UNCHANGED <<offered, crossed>>
      BY <1>5, <2>1, <1>b DEF ReplaceTenantProviders, Goto
    <3>2. StartTypes'
      BY <3>1, <2>0, <2>a, <1>a DEF StartTypes, StartSteps
    <3>3. MigratedListKept'
      BY <3>1, <2>0, <2>b, <2>1, <1>a DEF MigratedListKept, Listed
    <3> QED BY <3>2, <3>3, <2>d, <2>e DEF StartInv
  <2>2. CASE boot[g] = "commit" /\ fresh[g] \cap Merged(g) # {}
    <3>1. boot'[g] = "down" /\ UNCHANGED <<fresh, offered, crossed>>
      BY <1>5, <2>2, <1>b DEF ReplaceTenantProviders, Goto
    <3>2. StartTypes'
      BY <3>1, <2>0, <2>a, <1>a DEF StartTypes, StartSteps
    <3>3. MigratedListKept'
      BY <3>1, <2>0, <2>b, <2>2, <1>a DEF MigratedListKept, Listed
    <3> QED BY <3>2, <3>3, <2>d, <2>e DEF StartInv
  <2>3. CASE boot[g] = "commit" /\ fresh[g] \cap Merged(g) = {}
    <3>1. /\ boot'[g] = "users" /\ Committed(g, Merged(g), fresh[g])
          /\ crossed' = IF Crossing(g) = {} THEN crossed ELSE crossed \cup Crossing(g) \cup {g}
      BY <1>5, <2>3, <1>b DEF ReplaceTenantProviders, Goto
    <3>2. /\ offered' = fresh[g] \cup Merged(g)
          /\ fresh' = [h \in Gateways |-> IF h # g /\ boot[h] = "commit" THEN fresh[h] \cup Merged(g) ELSE fresh[h]]
      BY <3>1 DEF Committed
    <3>3. StartTypes'
      BY <3>2, <2>0, <2>a, <2>c, <1>a DEF StartTypes, StartSteps
    <3>4. MigratedListKept'
      <4> SUFFICES ASSUME NEW x \in Gateways, boot'[x] \in Listed, x \notin edited' \cup crossed'
                   PROVE  /\ EnabledProviders[x] \subseteq offered'
                          /\ \A h \in Gateways : boot'[h] \in {"replace", "commit"} => EnabledProviders[x] \subseteq listed'[h]
        BY DEF MigratedListKept
      <4>1. CASE x = g
        <5>1. Crossing(g) = {}
          BY <3>1, <4>1
        <5>2. \A h \in Gateways : boot'[h] \notin {"replace", "commit"}
          BY <5>1, <3>1, <2>b DEF Crossing
        <5> QED BY <4>1, <5>2, <3>2, <2>c
      <4>2. CASE x # g
        <5>1. boot[x] \in Listed /\ x \notin edited \cup crossed
          BY <4>2, <2>b, <2>0, <3>1
        <5>2. EnabledProviders[x] \subseteq listed[g]
          BY <5>1, <2>3, <1>a DEF MigratedListKept
        <5>3. \A h \in Gateways : boot[h] \in {"replace", "commit"} => EnabledProviders[x] \subseteq listed[h]
          BY <5>1, <1>a DEF MigratedListKept
        <5> QED BY <5>2, <5>3, <2>0, <2>b, <2>c, <3>1, <3>2
      <4> QED BY <4>1, <4>2
    <3> QED BY <3>3, <3>4, <2>d, <2>e DEF StartInv
  <2> QED BY <2>1, <2>2, <2>3, <2>a
<1>6. CASE BackfillDefaultTenant(g)
  <2>1. /\ boot[g] \in Tables /\ legacy' = legacy \ {boot[g]}
        /\ boot' = [boot EXCEPT ![g] = IF boot[g] = "users" THEN "usage_records" ELSE "lookup"]
        /\ UNCHANGED <<listed, fresh, tenantRow, offered, toSeed, keyRow, keyUsers, crossed, edited>>
    BY <1>6 DEF BackfillDefaultTenant, Goto
  <2>2. /\ \/ boot[g] = "users" /\ boot'[g] = "usage_records"
           \/ boot[g] = "usage_records" /\ boot'[g] = "lookup"
        /\ \A h \in Gateways : h # g => boot'[h] = boot[h]
    BY <2>1, <1>b DEF Tables
  <2>3. StartTypes'
    BY <2>1, <1>a DEF StartTypes, StartSteps
  <2>4. TenantFirst' /\ OneUserPerKey'
    BY <2>1, <2>2, <1>a DEF TenantFirst, OneUserPerKey
  <2>5. Backfilled'
    BY <2>1, <2>2, <1>a DEF Backfilled, Tables
  <2>6. KeysSeeded'
    BY <2>1, <2>2, <1>k
  <2>7. MigratedListKept'
    BY <2>1, <2>2, <1>a DEF MigratedListKept, Listed
  <2> QED BY <2>3, <2>4, <2>5, <2>6, <2>7 DEF StartInv
<1>7. CASE LookupKey(g)
  <2>1. /\ boot[g] = "lookup"
        /\ boot' = [boot EXCEPT ![g] = IF toSeed[g] = {} THEN "serving"
                                       ELSE IF keyRow[NextKey(g)] = "none" THEN "create" ELSE "update"]
        /\ UNCHANGED <<listed, fresh, tenantRow, offered, legacy, toSeed, keyRow, keyUsers, crossed, edited>>
    BY <1>7 DEF LookupKey, Goto
  <2>2. /\ \/ boot'[g] = "serving" /\ toSeed[g] = {}
           \/ boot'[g] = "create" /\ toSeed[g] # {}
           \/ boot'[g] = "update" /\ toSeed[g] # {} /\ keyRow[NextKey(g)] # "none"
        /\ \A h \in Gateways : h # g => boot'[h] = boot[h]
    BY <2>1, <1>b
  <2>3. StartTypes'
    BY <2>1, <1>a DEF StartTypes, StartSteps
  <2>4. TenantFirst' /\ Backfilled' /\ OneUserPerKey'
    BY <2>1, <2>2, <1>a DEF TenantFirst, Backfilled, OneUserPerKey
  <2>5. KeysSeeded'
    <3> SUFFICES ASSUME NEW h \in Gateways
                 PROVE  /\ boot'[h] # "down" /\ h \notin edited' => \A k \in BootKeys \ toSeed'[h] : keyRow'[k] = "active"
                        /\ boot'[h] = "serving" => toSeed'[h] = {}
                        /\ boot'[h] \in {"update", "create"} => toSeed'[h] # {}
                        /\ boot'[h] = "update" => keyRow'[NextKey(h)'] # "none"
      BY DEF KeysSeeded
    <3>1. NextKey(h)' = NextKey(h)
      BY <2>1 DEF NextKey
    <3> QED BY <3>1, <2>1, <2>2, <1>a DEF KeysSeeded
  <2>6. MigratedListKept'
    BY <2>1, <2>2, <1>a DEF MigratedListKept, Listed
  <2> QED BY <2>3, <2>4, <2>5, <2>6 DEF StartInv
<1>8. CASE SeedKey(g)
  <2>1. boot[g] \in {"update", "create"} /\ toSeed[g] # {}
    BY <1>8, <1>a DEF SeedKey, KeysSeeded
  <2>2. PICK k \in BootKeys : k = NextKey(g) /\ k \in toSeed[g]
    BY <2>1, <1>a, NextKeyIs
  <2>3. UNCHANGED <<listed, fresh, tenantRow, offered, legacy, crossed, edited>>
    BY <1>8 DEF SeedKey
  <2>4. CASE boot[g] = "create" /\ keyRow[k] # "none"
    <3>1. /\ boot' = [boot EXCEPT ![g] = "down"] /\ UNCHANGED <<keyRow, toSeed>>
          /\ keyUsers' = [keyUsers EXCEPT ![k] = keyUsers[k] + 0]
      BY <1>8, <2>2, <2>4 DEF SeedKey, Goto, LeftBehind
    <3>2. keyUsers[k] + 0 = keyUsers[k]
      BY <1>a DEF StartTypes
    <3>3. keyUsers' = keyUsers
      BY <3>1, <3>2, <1>a DEF StartTypes
    <3>4. boot'[g] = "down" /\ \A h \in Gateways : h # g => boot'[h] = boot[h]
      BY <3>1, <1>b
    <3>5. StartTypes'
      BY <3>1, <3>3, <2>3, <1>a DEF StartTypes, StartSteps
    <3>6. TenantFirst' /\ Backfilled' /\ OneUserPerKey'
      BY <3>1, <3>3, <3>4, <2>3, <1>a DEF TenantFirst, Backfilled, OneUserPerKey
    <3>7. KeysSeeded'
      BY <3>1, <3>4, <2>3, <1>k
    <3>8. MigratedListKept'
      BY <2>3, <3>4, <1>a DEF MigratedListKept, Listed
    <3> QED BY <3>5, <3>6, <3>7, <3>8 DEF StartInv
  <2>5. CASE boot[g] = "update" \/ keyRow[k] = "none"
    <3>1. /\ boot' = [boot EXCEPT ![g] = "lookup"]
          /\ keyRow' = [keyRow EXCEPT ![k] = "active"]
          /\ keyUsers' = [keyUsers EXCEPT ![k] = IF boot[g] = "create" THEN keyUsers[k] + 1 ELSE keyUsers[k]]
          /\ toSeed' = [toSeed EXCEPT ![g] = toSeed[g] \ {k}]
      BY <1>8, <2>1, <2>2, <2>5 DEF SeedKey, Goto
    <3>2. boot'[g] = "lookup" /\ \A h \in Gateways : h # g => boot'[h] = boot[h]
      BY <3>1, <1>b
    <3>3. /\ keyRow'[k] = "active" /\ \A j \in BootKeys : j # k => keyRow'[j] = keyRow[j]
          /\ toSeed'[g] = toSeed[g] \ {k} /\ \A h \in Gateways : h # g => toSeed'[h] = toSeed[h]
      BY <3>1, <1>a DEF StartTypes
    <3>4. keyUsers \in [BootKeys -> Nat] /\ keyUsers[k] = IF keyRow[k] = "none" THEN 0 ELSE 1
      BY <1>a DEF StartTypes, OneUserPerKey
    <3>5. boot[g] = "update" => keyRow[k] # "none"
      BY <2>2, <1>a DEF KeysSeeded
    <3>6. (IF boot[g] = "create" THEN keyUsers[k] + 1 ELSE keyUsers[k]) = 1
      BY <3>4, <3>5, <2>1, <2>5
    <3>7. keyUsers' = [keyUsers EXCEPT ![k] = 1]
      BY <3>1, <3>6
    <3>8. StartTypes'
      BY <3>1, <3>7, <2>3, <1>a DEF StartTypes, StartSteps
    <3>9. OneUserPerKey'
      BY <3>3, <3>4, <3>7, <1>a DEF OneUserPerKey
    <3>10. TenantFirst' /\ Backfilled'
      BY <2>1, <2>3, <3>2, <1>a DEF TenantFirst, Backfilled
    <3>11. KeysSeeded'
      <4> SUFFICES ASSUME NEW h \in Gateways
                   PROVE  /\ boot'[h] # "down" /\ h \notin edited' => \A j \in BootKeys \ toSeed'[h] : keyRow'[j] = "active"
                          /\ boot'[h] = "serving" => toSeed'[h] = {}
                          /\ boot'[h] \in {"update", "create"} => toSeed'[h] # {}
                          /\ boot'[h] = "update" => keyRow'[NextKey(h)'] # "none"
        BY DEF KeysSeeded
      <4>1. CASE h = g
        BY <4>1, <2>1, <2>3, <3>2, <3>3, <1>a DEF KeysSeeded
      <4>2. CASE h # g
        <5>1. NextKey(h)' = NextKey(h) /\ toSeed'[h] = toSeed[h] /\ boot'[h] = boot[h]
          BY <4>2, <3>2, <3>3 DEF NextKey
        <5>2. boot[h] = "update" => NextKey(h) \in BootKeys /\ keyRow[NextKey(h)] # "none"
          BY <1>a, NextKeyIs DEF KeysSeeded
        <5>3. boot'[h] = "update" => keyRow'[NextKey(h)'] # "none"
          BY <5>1, <5>2, <3>3
        <5> QED BY <5>1, <5>3, <2>3, <3>3, <1>a DEF KeysSeeded
      <4> QED BY <4>1, <4>2
    <3>12. MigratedListKept'
      BY <2>1, <2>3, <3>2, <1>a DEF MigratedListKept, Listed
    <3> QED BY <3>8, <3>9, <3>10, <3>11, <3>12 DEF StartInv
  <2> QED BY <2>1, <2>4, <2>5
<1> QED BY <1>1, <1>2, <1>3, <1>4, <1>5, <1>6, <1>7, <1>8

LEMMA SeedEditStep ==
  ASSUME StartInv, NEW g \in Gateways,
         \/ \E names \in SUBSET ProviderNames : ReplaceByAdmin(g, names)
         \/ CreateTenantAgain(g) \/ DeleteTenantByAdmin(g)
  PROVE  StartInv'
<1> USE StartupAssumption
<1>a. StartTypes /\ TenantFirst /\ Backfilled /\ KeysSeeded /\ MigratedListKept /\ OneUserPerKey
  BY DEF StartInv
<1>1. edited' = Gateways /\ UNCHANGED <<boot, listed, legacy, toSeed, keyUsers, crossed>> /\ boot[g] = "serving"
  BY DEF ReplaceByAdmin, CreateTenantAgain, DeleteTenantByAdmin, Edit
<1>2. MigratedListKept' /\ Backfilled'
  BY <1>1, <1>a DEF MigratedListKept, Backfilled
<1>3. CASE DeleteTenantByAdmin(g)
  <2>1. /\ tenantRow' = "inactive" /\ offered' = {} /\ UNCHANGED fresh
        /\ keyRow' = [k \in BootKeys |-> IF keyRow[k] = "none" THEN "none" ELSE "revoked"]
    BY <1>3 DEF DeleteTenantByAdmin
  <2>2. \A k \in BootKeys : keyRow'[k] = "none" <=> keyRow[k] = "none"
    BY <2>1
  <2>3. StartTypes'
    BY <2>1, <1>1, <1>a DEF StartTypes
  <2>4. TenantFirst'
    BY <2>1 DEF TenantFirst
  <2>5. OneUserPerKey'
    BY <2>2, <1>1, <1>a DEF OneUserPerKey
  <2>6. KeysSeeded'
    <3> SUFFICES ASSUME NEW h \in Gateways
                 PROVE  /\ boot'[h] = "serving" => toSeed'[h] = {}
                        /\ boot'[h] \in {"update", "create"} => toSeed'[h] # {}
                        /\ boot'[h] = "update" => keyRow'[NextKey(h)'] # "none"
      BY <1>1 DEF KeysSeeded
    <3>1. NextKey(h)' = NextKey(h)
      BY <1>1 DEF NextKey
    <3>2. boot[h] = "update" => NextKey(h) \in BootKeys /\ keyRow[NextKey(h)] # "none"
      BY <1>a, NextKeyIs DEF KeysSeeded
    <3> QED BY <3>1, <3>2, <2>2, <1>1, <1>a DEF KeysSeeded
  <2> QED BY <1>2, <2>3, <2>4, <2>5, <2>6 DEF StartInv
<1>4. CASE \E names \in SUBSET ProviderNames : ReplaceByAdmin(g, names)
  <2>1. PICK names \in SUBSET ProviderNames : ReplaceByAdmin(g, names)
    BY <1>4
  <2>2. /\ UNCHANGED <<tenantRow, keyRow>> /\ offered' = names
        /\ fresh' = [h \in Gateways |-> IF h # g /\ boot[h] = "commit" THEN fresh[h] \cup names ELSE fresh[h]]
    BY <2>1 DEF ReplaceByAdmin, Committed
  <2>3. StartTypes'
    BY <2>2, <1>1, <1>a DEF StartTypes
  <2>4. TenantFirst' /\ OneUserPerKey'
    BY <2>2, <1>1, <1>a DEF TenantFirst, OneUserPerKey
  <2>5. KeysSeeded'
    BY <2>2, <1>1, <1>a DEF KeysSeeded, NextKey
  <2> QED BY <1>2, <2>3, <2>4, <2>5 DEF StartInv
<1> QED BY <1>3, <1>4 DEF CreateTenantAgain

LEMMA StartStep == StartInv /\ [StartNext]_startVars => StartInv'
<1>1. ASSUME StartInv, StartNext PROVE StartInv'
  BY <1>1, SeedStep, SeedEditStep DEF StartNext
<1>2. ASSUME StartInv, UNCHANGED startVars PROVE StartInv'
  BY <1>2 DEF StartInv, startVars, StartTypes, TenantFirst, Backfilled, KeysSeeded, MigratedListKept, OneUserPerKey, NextKey
<1> QED BY <1>1, <1>2

LEMMA StartConsequence == StartInv => StartSound
<1> SUFFICES ASSUME StartInv PROVE StartSound
  OBVIOUS
<1>1. StartTypes /\ TenantFirst /\ Backfilled /\ KeysSeeded /\ MigratedListKept /\ OneUserPerKey
  BY DEF StartInv
<1>2. StartTypeOK
  BY <1>1 DEF StartTypeOK, StartTypes, TenantFirst
<1>3. ServingIsSeeded
  BY <1>1 DEF ServingIsSeeded, Backfilled, KeysSeeded, MigratedListKept, Listed
<1> QED BY <1>1, <1>2, <1>3 DEF StartSound

\* For any number of gateways that start together on one database, whichever of their writes fail and whoever restarts:
\* a serving gateway finds every row with a tenant, its keys active and its providers listed, unless they were changed
\* since or another gateway seeded at the same time, and a configured key has one user (seed.go SeedTenantProviders).
THEOREM SeedCorrect == StartSpec => []StartSound
<1>1. StartInit => StartInv
  BY StartsSeeded
<1>2. StartInv /\ [StartNext]_startVars => StartInv'
  BY StartStep
<1>3. StartInv => StartSound
  BY StartConsequence
<1> QED BY <1>1, <1>2, <1>3, PTL DEF StartSpec

-----------------------------------------------------------------------------
(* ConfigReload.                                                           *)

Valid == Versions \ Refused

ReloadTypes ==
    /\ inForce \in [1 .. 4 -> Valid]
    /\ fileVersion \in Versions /\ known \in Valid \cup {0} /\ mixed \in BOOLEAN
    /\ reloadOf \in [Reloads -> [at : 0 .. 4, new : Versions \cup {0}, old : Valid \cup {0}, back : 0 .. 3]]

\* A reload under way has a version that was accepted, and one that rolls back has an
\* earlier one to give, to services before the one that refused.
ReloadShape ==
    \A r \in Reloads :
        /\ Working(r) => reloadOf[r].new \in Valid
        /\ reloadOf[r].back # 0 => reloadOf[r].old \in Valid /\ reloadOf[r].back < reloadOf[r].at

\* As long as nothing was mixed, one reload is under way at most: what it has passed is new,
\* or given back, and the rest is as the reloader remembers it.
OneAtATime ==
    ~mixed => \A r, o \in Reloads : Working(r) /\ Working(o) => r = o

HalfWay(r) ==
    /\ reloadOf[r].old = known
    /\ reloadOf[r].back = 0 =>
          /\ \A i \in 1 .. 4 : i < reloadOf[r].at => inForce[i] = reloadOf[r].new
          /\ \A i, j \in 1 .. 4 : reloadOf[r].at <= i /\ reloadOf[r].at <= j => inForce[i] = inForce[j]
          /\ known # 0 => \A i \in 1 .. 4 : reloadOf[r].at <= i => inForce[i] = known
    /\ reloadOf[r].back # 0 =>
          \A i \in 1 .. 4 : i < reloadOf[r].back \/ reloadOf[r].at <= i => inForce[i] = known

Settled ==
    /\ \A i, j \in 1 .. 4 : inForce[i] = inForce[j]
    /\ known # 0 => \A i \in 1 .. 4 : inForce[i] = known

Agreed ==
    ~mixed => /\ \A r \in Reloads : Working(r) => HalfWay(r)
              /\ (\A r \in Reloads : ~Working(r)) => Settled

ReloadInv == ReloadTypes /\ ReloadShape /\ OneAtATime /\ Agreed

\* The reloader's list (app.go registers four services).
LEMMA ItemsAreFour == DOMAIN Items = 1 .. 4 /\ Len(Items) = 4
  BY DEF Items

LEMMA ReloadInitially == ReloadInit => ReloadInv
<1> SUFFICES ASSUME ReloadInit PROVE ReloadInv
  OBVIOUS
<1>1. \A r \in Reloads : reloadOf[r] = Idle
  BY DEF ReloadInit
<1>2. Idle.at = 0 /\ Idle.back = 0
      /\ Idle \in [at : 0 .. 4, new : Versions \cup {0}, old : Valid \cup {0}, back : 0 .. 3]
  BY DEF Idle
<1>3. ReloadTypes
  BY <1>2, ItemsAreFour, ReloadAssumption DEF ReloadInit, ReloadTypes, ReloadAssumption, Valid
<1>4. inForce = [i \in 1 .. 4 |-> 1] /\ known = 0
  BY ItemsAreFour DEF ReloadInit
<1> QED BY <1>1, <1>2, <1>3, <1>4
        DEF ReloadInv, ReloadShape, OneAtATime, Agreed, Settled, Working

LEMMA EditStep ==
    ASSUME ReloadInv, NEW v \in Versions, EditFile(v)
    PROVE  ReloadInv'
  BY DEF EditFile, ReloadInv, ReloadTypes, ReloadShape, OneAtATime, Agreed, HalfWay, Settled, Working

LEMMA LoadStep ==
    ASSUME ReloadInv, NEW r \in Reloads, LoadAndValidate(r)
    PROVE  ReloadInv'
<1> USE DEF ReloadInv, LoadAndValidate, Validates
<1>1. PICK w : w = [at |-> 1, new |-> fileVersion, old |-> known, back |-> 0]
  OBVIOUS
<1>2. /\ w.at = 1 /\ w.new = fileVersion /\ w.old = known /\ w.back = 0
      /\ fileVersion \in Valid
      /\ w \in [at : 0 .. 4, new : Versions \cup {0}, old : Valid \cup {0}, back : 0 .. 3]
  BY <1>1 DEF ReloadTypes, Valid
<1>3. reloadOf' = [reloadOf EXCEPT ![r] = w]
  BY <1>1
<1>4. ReloadTypes'
  BY <1>2, <1>3 DEF ReloadTypes
<1>5. ReloadShape'
  BY <1>2, <1>3 DEF ReloadTypes, ReloadShape, Working
<1>6. ~mixed' => ~mixed /\ \A o \in Reloads : ~Working(o)
  BY DEF ReloadTypes
<1>7. OneAtATime'
  BY <1>3, <1>6 DEF ReloadTypes, OneAtATime, Working
<1>8. ~mixed' => Settled
  BY <1>6 DEF Agreed
<1>9. ~mixed' => HalfWay(r)'
  BY <1>2, <1>3, <1>8 DEF ReloadTypes, HalfWay, Settled
<1>10. ~mixed' => \A o \in Reloads : Working(o)' => o = r
  BY <1>3, <1>6 DEF ReloadTypes, Working
<1>11. Working(r)'
  BY <1>2, <1>3 DEF ReloadTypes, Working
<1>12. Agreed'
  BY <1>9, <1>10, <1>11 DEF Agreed
<1> QED BY <1>4, <1>5, <1>7, <1>12

LEMMA ApplyStep ==
    ASSUME ReloadInv, NEW r \in Reloads, ApplyItem(r)
    PROVE  ReloadInv'
<1> USE DEF ReloadInv
<1>1. /\ reloadOf[r].at \in 1 .. 4 /\ reloadOf[r].new \in Valid /\ reloadOf[r].back = 0 /\ Working(r)
      /\ inForce' = [inForce EXCEPT ![reloadOf[r].at] = reloadOf[r].new]
      /\ mixed' = mixed /\ fileVersion' = fileVersion
  BY DEF ApplyItem, ReloadTypes, ReloadShape, Working
<1>2. inForce' \in [1 .. 4 -> Valid]
  BY <1>1 DEF ReloadTypes
<1>3. CASE reloadOf[r].at = 4
  <2>1. known' = reloadOf[r].new /\ reloadOf' = [reloadOf EXCEPT ![r] = Idle]
    BY <1>3, ItemsAreFour DEF ApplyItem
  <2>2. Idle.at = 0 /\ Idle.back = 0
        /\ Idle \in [at : 0 .. 4, new : Versions \cup {0}, old : Valid \cup {0}, back : 0 .. 3]
    BY DEF Idle
  <2>3. ReloadTypes'
    BY <1>1, <1>2, <2>1, <2>2 DEF ReloadTypes
  <2>4. ReloadShape' /\ OneAtATime'
    BY <1>1, <2>1, <2>2 DEF ReloadTypes, ReloadShape, OneAtATime, Working
  <2>5. ~mixed => \A o \in Reloads : ~Working(o)'
    BY <1>1, <2>1, <2>2 DEF ReloadTypes, OneAtATime, Working
  <2>6. ~mixed => \A i \in 1 .. 4 : inForce'[i] = reloadOf[r].new
    BY <1>1, <1>3 DEF Agreed, HalfWay, ReloadTypes
  <2>7. Agreed'
    BY <1>1, <2>1, <2>5, <2>6 DEF Agreed, Settled
  <2> QED BY <2>3, <2>4, <2>7
<1>4. CASE reloadOf[r].at # 4
  <2>1. known' = known /\ reloadOf' = [reloadOf EXCEPT ![r].at = @ + 1]
    BY <1>4, ItemsAreFour DEF ApplyItem
  <2>2. /\ reloadOf'[r].at = reloadOf[r].at + 1 /\ reloadOf'[r].new = reloadOf[r].new
        /\ reloadOf'[r].old = reloadOf[r].old /\ reloadOf'[r].back = 0
        /\ \A o \in Reloads \ {r} : reloadOf'[o] = reloadOf[o]
    BY <1>1, <2>1 DEF ReloadTypes
  <2>3. ReloadTypes'
    BY <1>1, <1>2, <1>4, <2>1 DEF ReloadTypes
  <2>4. ReloadShape'
    BY <1>1, <2>2 DEF ReloadTypes, ReloadShape, Working
  <2>5. \A o \in Reloads : Working(o)' <=> Working(o)
    BY <1>1, <2>2 DEF ReloadTypes, Working
  <2>6. ~mixed => HalfWay(r)'
    BY <1>1, <2>1, <2>2 DEF Agreed, HalfWay, ReloadTypes
  <2>7. Agreed' /\ OneAtATime'
    BY <1>1, <2>5, <2>6 DEF Agreed, OneAtATime
  <2> QED BY <2>3, <2>4, <2>7
<1> QED BY <1>3, <1>4

LEMMA RefuseStep ==
    ASSUME ReloadInv, NEW r \in Reloads, ItemRefuses(r)
    PROVE  ReloadInv'
<1> USE DEF ReloadInv
<1>1. /\ reloadOf[r].at \in 1 .. 4 /\ reloadOf[r].back = 0 /\ Working(r)
      /\ inForce' = inForce /\ known' = known /\ fileVersion' = fileVersion
      /\ mixed' = (mixed \/ (reloadOf[r].old = 0 /\ reloadOf[r].at > 1))
  BY DEF ItemRefuses, ReloadTypes, Working
<1>2. CASE reloadOf[r].old = 0 \/ reloadOf[r].at = 1
  <2>0. ToRollBack(r) = 0
    BY <1>1, <1>2 DEF ToRollBack
  <2>1. reloadOf' = [reloadOf EXCEPT ![r] = Idle]
    BY <2>0 DEF ItemRefuses
  <2>2. Idle.at = 0 /\ Idle.back = 0
        /\ Idle \in [at : 0 .. 4, new : Versions \cup {0}, old : Valid \cup {0}, back : 0 .. 3]
    BY DEF Idle
  <2>3. ReloadTypes'
    BY <1>1, <2>1, <2>2 DEF ReloadTypes
  <2>4. ReloadShape' /\ OneAtATime'
    BY <1>1, <2>1, <2>2 DEF ReloadTypes, ReloadShape, OneAtATime, Working
  <2>5. ~mixed' => ~mixed /\ reloadOf[r].at = 1
    <3>1. reloadOf[r].at = 1 \/ (reloadOf[r].old = 0 /\ reloadOf[r].at > 1)
      BY <1>1, <1>2
    <3> QED BY <1>1, <3>1
  <2>6. ~mixed' => \A o \in Reloads : ~Working(o)'
    BY <1>1, <2>1, <2>2, <2>5 DEF ReloadTypes, OneAtATime, Working
  <2>7. ~mixed' => Settled'
    BY <1>1, <2>5 DEF Agreed, HalfWay, Settled, ReloadTypes
  <2>8. Agreed'
    BY <2>6, <2>7 DEF Agreed
  <2> QED BY <2>3, <2>4, <2>8
<1>3. CASE reloadOf[r].old # 0 /\ reloadOf[r].at # 1
  <2>1. reloadOf' = [reloadOf EXCEPT ![r].back = 1]
    BY <1>1, <1>3 DEF ItemRefuses, ToRollBack, ReloadTypes
  <2>2. /\ reloadOf'[r].at = reloadOf[r].at /\ reloadOf'[r].new = reloadOf[r].new
        /\ reloadOf'[r].old = reloadOf[r].old /\ reloadOf'[r].back = 1
        /\ \A o \in Reloads \ {r} : reloadOf'[o] = reloadOf[o]
    BY <2>1 DEF ReloadTypes
  <2>3. ReloadTypes' /\ mixed' = mixed
    BY <1>1, <1>3, <2>1 DEF ReloadTypes
  <2>4. ReloadShape'
    BY <1>1, <1>3, <2>2 DEF ReloadTypes, ReloadShape, Working
  <2>5. \A o \in Reloads : Working(o)' <=> Working(o)
    BY <2>2 DEF Working
  <2>6. ~mixed => HalfWay(r)'
    BY <1>1, <1>3, <2>2 DEF Agreed, HalfWay, ReloadTypes
  <2>7. Agreed' /\ OneAtATime'
    BY <1>1, <2>2, <2>3, <2>5, <2>6 DEF Agreed, OneAtATime
  <2> QED BY <2>3, <2>4, <2>7
<1> QED BY <1>2, <1>3

LEMMA BackStep ==
    ASSUME ReloadInv, NEW r \in Reloads, RollBackItem(r)
    PROVE  ReloadInv'
<1> USE DEF ReloadInv
<1>1. /\ reloadOf[r].at \in 1 .. 4 /\ reloadOf[r].back \in 1 .. 3 /\ reloadOf[r].back < reloadOf[r].at
      /\ reloadOf[r].old \in Valid /\ Working(r)
      /\ known' = known /\ fileVersion' = fileVersion
  BY DEF RollBackItem, ReloadTypes, ReloadShape, Working
<1>2. /\ inForce' \in [1 .. 4 -> Valid] /\ mixed' \in BOOLEAN
      /\ ~mixed' => ~mixed /\ inForce' = [inForce EXCEPT ![reloadOf[r].back] = reloadOf[r].old]
  <2>1. CASE inForce' = [inForce EXCEPT ![reloadOf[r].back] = reloadOf[r].old] /\ mixed' = mixed
    BY <1>1, <2>1 DEF ReloadTypes
  <2>2. CASE mixed' = TRUE /\ inForce' = inForce
    BY <2>2 DEF ReloadTypes
  <2> QED BY <2>1, <2>2 DEF RollBackItem
<1>3. CASE reloadOf[r].back = reloadOf[r].at - 1
  <2>1. reloadOf' = [reloadOf EXCEPT ![r] = Idle]
    BY <1>3 DEF RollBackItem
  <2>2. Idle.at = 0 /\ Idle.back = 0
        /\ Idle \in [at : 0 .. 4, new : Versions \cup {0}, old : Valid \cup {0}, back : 0 .. 3]
    BY DEF Idle
  <2>3. ReloadTypes'
    BY <1>1, <1>2, <2>1, <2>2 DEF ReloadTypes
  <2>4. ReloadShape' /\ OneAtATime'
    BY <1>2, <2>1, <2>2 DEF ReloadTypes, ReloadShape, OneAtATime, Working
  <2>5. ~mixed' => \A o \in Reloads : ~Working(o)'
    BY <1>1, <1>2, <2>1, <2>2 DEF ReloadTypes, OneAtATime, Working
  <2>6. ~mixed' => \A i \in 1 .. 4 : inForce'[i] = known
    BY <1>1, <1>2, <1>3 DEF Agreed, HalfWay, ReloadTypes
  <2>7. Agreed'
    BY <1>1, <2>5, <2>6 DEF Agreed, Settled
  <2> QED BY <2>3, <2>4, <2>7
<1>4. CASE reloadOf[r].back # reloadOf[r].at - 1
  <2>1. reloadOf' = [reloadOf EXCEPT ![r].back = reloadOf[r].back + 1]
    BY <1>4 DEF RollBackItem, ReloadTypes
  <2>2. /\ reloadOf'[r].at = reloadOf[r].at /\ reloadOf'[r].new = reloadOf[r].new
        /\ reloadOf'[r].old = reloadOf[r].old /\ reloadOf'[r].back = reloadOf[r].back + 1
        /\ \A o \in Reloads \ {r} : reloadOf'[o] = reloadOf[o]
    BY <2>1 DEF ReloadTypes
  <2>3. ReloadTypes'
    BY <1>1, <1>2, <1>4, <2>1 DEF ReloadTypes
  <2>4. ReloadShape'
    BY <1>1, <1>4, <2>2 DEF ReloadTypes, ReloadShape, Working
  <2>5. \A o \in Reloads : Working(o)' <=> Working(o)
    BY <2>2 DEF Working
  <2>6. ~mixed' => HalfWay(r)'
    BY <1>1, <1>2, <2>2 DEF Agreed, HalfWay, ReloadTypes
  <2>7. ~mixed' => \A o \in Reloads : Working(o) => o = r
    BY <1>1, <1>2 DEF OneAtATime
  <2>8. Agreed' /\ OneAtATime'
    BY <1>1, <2>5, <2>6, <2>7 DEF Agreed, OneAtATime
  <2> QED BY <2>3, <2>4, <2>8
<1> QED BY <1>3, <1>4

LEMMA ReloadInductive == ReloadInv /\ [ReloadNext]_reloadVars => ReloadInv'
<1> SUFFICES ASSUME ReloadInv, [ReloadNext]_reloadVars PROVE ReloadInv'
  OBVIOUS
<1>1. CASE UNCHANGED reloadVars
  BY <1>1 DEF reloadVars, ReloadInv, ReloadTypes, ReloadShape, OneAtATime, Agreed, HalfWay, Settled, Working
<1>2. CASE ReloadNext
  BY <1>2, EditStep, LoadStep, ApplyStep, RefuseStep, BackStep DEF ReloadNext
<1> QED BY <1>1, <1>2

\* For any number of overlapping reloads, versions and refusals: services run with versions
\* that were valid, and between reloads they agree on the one that the reloader remembers,
\* unless a reload ran across another or could not be rolled back (reloader.go Reload).
THEOREM ReloadCorrect == ReloadSpec => []ReloadSound
<1>1. ReloadInit => ReloadInv
  BY ReloadInitially
<1>2. ReloadInv /\ [ReloadNext]_reloadVars => ReloadInv'
  BY ReloadInductive
<1>3. ReloadInv => ReloadSound
  <2> SUFFICES ASSUME ReloadInv PROVE ReloadSound
    OBVIOUS
  <2>1. ReloadTypeOK
    BY ItemsAreFour DEF ReloadInv, ReloadTypes, ReloadTypeOK, Valid
  <2>2. ServicesAgree
    BY ItemsAreFour DEF ReloadInv, Agreed, Settled, ServicesAgree
  <2> QED BY <2>1, <2>2 DEF ReloadSound
<1> QED BY <1>1, <1>2, <1>3, PTL DEF ReloadSpec

-----------------------------------------------------------------------------
(* The control plane.                                                      *)

\* A step of the control plane is a step of one component and leaves the others alone.
LEMMA ControlMoves ==
  ASSUME [ControlNext]_controlVars
  PROVE  /\ [RbacNext]_rbacVars /\ [KeyNext]_keyVars /\ [CatNext]_catVars /\ [AlertNext]_alertVars
         /\ [PriceNext]_priceVars /\ [MarketNext]_marketVars /\ [StartNext]_startVars /\ [ReloadNext]_reloadVars
<1>1. CASE UNCHANGED controlVars
  BY <1>1 DEF controlVars
<1>2. CASE ControlNext
  BY <1>2 DEF ControlNext
<1> QED BY <1>1, <1>2

\* Composed, each component is still itself: what is proved of its own specification holds of the control plane.
THEOREM ControlImplements ==
    ControlSpec => /\ RbacSpec /\ KeySpec /\ CatSpec /\ AlertSpec
                   /\ PriceSpec /\ MarketSpec /\ StartSpec /\ ReloadSpec
<1>1. ControlInit => /\ RbacInit /\ KeyInit /\ CatInit /\ AlertInit
                     /\ PriceInit /\ MarketInit /\ StartInit /\ ReloadInit
  BY DEF ControlInit
<1>2. [ControlNext]_controlVars =>
         /\ [RbacNext]_rbacVars /\ [KeyNext]_keyVars /\ [CatNext]_catVars /\ [AlertNext]_alertVars
         /\ [PriceNext]_priceVars /\ [MarketNext]_marketVars /\ [StartNext]_startVars /\ [ReloadNext]_reloadVars
  BY ControlMoves
<1> QED BY <1>1, <1>2, PTL
    DEF ControlSpec, RbacSpec, KeySpec, CatSpec, AlertSpec, PriceSpec, MarketSpec, StartSpec, ReloadSpec

\* In the composed control plane permissions and credentials stay sound, whatever the other parts do
\* (RequirePermission, the administration of keys).
THEOREM AccessCorrect == ControlSpec => []AccessSound
<1>1. RbacSound /\ KeySound => AccessSound
  BY DEF AccessSound
<1> QED BY <1>1, ControlImplements, RbacCorrect, KeysCorrect, PTL

\* In the composed control plane alerts, prices and plugins stay sound, whatever the other parts do
\* (the aggregator and the dispatcher, the pricing service, the plugin marketplace).
THEOREM UpkeepCorrect == ControlSpec => []UpkeepSound
<1>1. AlertSound /\ PriceSound /\ MarketSound => UpkeepSound
  BY DEF UpkeepSound
<1> QED BY <1>1, ControlImplements, AlertsCorrect, PricesCorrect, MarketCorrect, PTL

\* In the composed control plane what a gateway serves with is what was seeded and reloaded, whatever the other
\* parts do (the seed of a start, the reloads of the configuration).
THEOREM ConfigCorrect == ControlSpec => []ConfigSound
<1>1. StartSound /\ ReloadSound => ConfigSound
  BY DEF ConfigSound
<1> QED BY <1>1, ControlImplements, SeedCorrect, ReloadCorrect, PTL

\* No step of the control plane changes another user's key, activates a revoked key by another change, changes what
\* a service serves by staging, or sends a quota alert again after its mark (UpdateAPIKey, the versions of a
\* service, CheckQuotaUsage).
THEOREM ControlStepsCorrect == ControlSpec => ControlSteps
<1>1. AlertInv /\ [AlertNext]_alertVars => AlertInv'
  BY AlertStep
<1>2. AlertInv /\ [AlertNext]_alertVars => QuotaMarkHolds
  BY MarkStep
<1>3. AlertSpec => [][QuotaMarkHolds]_alertVars
  BY <1>1, <1>2, AlertsStart, PTL DEF AlertSpec
<1>4. ASSUME [UserScoped /\ RevocationHolds]_keyVars PROVE UserScoped /\ RevocationHolds
  <2>1. CASE UNCHANGED keyVars
    <3>1. writes' = writes /\ apiKeyRow' = apiKeyRow
      BY <2>1 DEF keyVars
    <3>2. UserScoped
      BY <3>1 DEF UserScoped
    <3>3. RevocationHolds
      BY <3>1 DEF RevocationHolds
    <3> QED BY <3>2, <3>3
  <2> QED BY <1>4, <2>1
<1>5. ASSUME [StagingKeepsServed]_catVars PROVE StagingKeepsServed
  <2>1. CASE UNCHANGED catVars
    <3>1. svc' = svc
      BY <2>1 DEF catVars
    <3> QED BY <3>1 DEF StagingKeepsServed
  <2> QED BY <1>5, <2>1
<1>6. ASSUME [QuotaMarkHolds]_alertVars PROVE QuotaMarkHolds
  <2>1. CASE UNCHANGED alertVars
    <3>1. notifierAt' = notifierAt
      BY <2>1 DEF alertVars
    <3> QED BY <3>1 DEF QuotaMarkHolds
  <2> QED BY <1>6, <2>1
<1>7. [UserScoped /\ RevocationHolds]_keyVars /\ [StagingKeepsServed]_catVars /\ [QuotaMarkHolds]_alertVars =>
         [UserScoped /\ RevocationHolds /\ StagingKeepsServed /\ QuotaMarkHolds]_controlVars
  BY <1>4, <1>5, <1>6
<1> QED BY <1>3, <1>7, ControlImplements, KeyStepsCorrect, CatalogStepsCorrect, PTL DEF ControlSteps
=============================================================================

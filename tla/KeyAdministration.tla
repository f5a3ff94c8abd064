-------------------------- MODULE KeyAdministration --------------------------
(***************************************************************************)
(* The rows behind a credential (tenant, project, users, API keys and       *)
(* virtual keys), the calls of one tenant's administrators and users that   *)
(* change them, and the authentication of a virtual key.  A call looks its  *)
(* row up, checks, and writes by id: others write in between.  Rows are     *)
(* never deleted but for virtual keys: the others are marked.  A list of    *)
(* allowed providers that is empty allows all.  Lists of models are written *)
(* like those of providers, but CheckModel also compares a model with the   *)
(* parent's list, so what is asked here is only in question for providers.  *)
(***************************************************************************)
EXTENDS Integers, FiniteSets

CONSTANTS
    Users, Admin,          \* the tenant's users and administrator
    KeyCallers,            \* those who call
    Keys, VKeys, NoKey,
    BootKey, BootUser,     \* the key the configuration names, and whose it is
    Providers, Lists,      \* lists that requests give, of allowed providers
    MaxWrites              \* bound

ASSUME KeyAssumption ==
    /\ Admin \notin Users /\ KeyCallers \subseteq Users \cup {Admin} /\ BootUser \in Users /\ BootKey \in Keys /\ NoKey \notin Keys
    /\ Lists \subseteq SUBSET Providers /\ {} \in Lists
    /\ MaxWrites \in Nat

VARIABLES
    tenantUp, projectUp, userUp,   \* status = active
    apiKeyRow, vkRow,
    keyOp,     \* the call under way of each caller
    vauth,     \* an authentication by virtual key
    writes

keyVars == <<tenantUp, projectUp, userUp, apiKeyRow, vkRow, keyOp, vauth, writes>>
ownerRows == <<tenantUp, projectUp, userUp>>

Allows(list, name) == list = {} \/ name \in list
isTenantUser(c) == c \in Users

NoKeyRow == [st |-> "absent", owner |-> BootUser, inProject |-> FALSE, providers |-> {}]
NoVRow == [st |-> "absent", owner |-> BootUser, parent |-> NoKey, inProject |-> FALSE,
           providers |-> {}, byUser |-> FALSE, parentMoved |-> FALSE]
\* An id of a virtual key is never given again.
GoneVRow == [NoVRow EXCEPT !.st = "deleted"]
NoCall == [pc |-> "idle", key |-> NoKey, vkey |-> NoKey, field |-> "st", set |-> NoKeyRow, moved |-> FALSE]
NoAuth == [pc |-> "idle", vkey |-> NoKey, vk |-> NoVRow, parent |-> NoKeyRow]

KeyInit ==
    /\ tenantUp = TRUE /\ projectUp = TRUE /\ userUp = [u \in Users |-> TRUE]
    /\ apiKeyRow \in [Keys -> {NoKeyRow} \cup [st : {"active"}, owner : Users, inProject : {FALSE}, providers : Lists]]
    /\ apiKeyRow[BootKey] = [NoKeyRow EXCEPT !.st = "active"]
    /\ vkRow = [v \in VKeys |-> NoVRow]
    /\ keyOp = [c \in KeyCallers |-> NoCall]
    /\ vauth = NoAuth
    /\ writes = 0

-----------------------------------------------------------------------------
CallIdle(c) == keyOp[c].pc = "idle"
CanCall(c) == CallIdle(c) /\ writes < MaxWrites
Calls(c, r) == keyOp' = [keyOp EXCEPT ![c] = r]
Write == writes < MaxWrites /\ writes' = writes + 1

\* Caller c writes the rows of keys and its call ends.  moved and parentMoved tell of calls under
\* way and of virtual keys that the lists of their parent have changed since.
PutKeys(c, rows) ==
    LET moved == {k \in Keys : rows[k] # [apiKeyRow[k] EXCEPT !.st = rows[k].st]}
    IN  /\ Write
        /\ apiKeyRow' = rows
        /\ vkRow' = [v \in VKeys |-> [vkRow[v] EXCEPT !.parentMoved = @ \/ vkRow[v].parent \in moved]]
        /\ keyOp' = [d \in KeyCallers |->
              IF d = c THEN NoCall ELSE [keyOp[d] EXCEPT !.moved = @ \/ keyOp[d].key \in moved]]

Revoked(ks) == [k \in Keys |-> IF k \in ks THEN [apiKeyRow[k] EXCEPT !.st = "revoked"] ELSE apiKeyRow[k]]

\* ownsUserResource
Owns(c, owner) == ~isTenantUser(c) \/ owner = c

\* CreateAPIKey: for a user of the tenant, whatever the status of user and project.
CreateAPIKey(c, k, u, p, list) ==
    /\ CallIdle(c) /\ apiKeyRow[k].st = "absent"
    /\ isTenantUser(c) => u = c
    /\ Write
    /\ apiKeyRow' = [apiKeyRow EXCEPT ![k] = [NoKeyRow EXCEPT !.st = "active", !.owner = u, !.inProject = p,
                                                     !.providers = list]]
    /\ UNCHANGED <<ownerRows, vkRow, keyOp, vauth>>

\* GetAPIKey, with which UpdateAPIKey, RotateAPIKey and RevokeAPIKey begin.
GetAPIKey(c, k, pc, f, set) ==
    /\ CanCall(c) /\ apiKeyRow[k].st # "absent"
    /\ Owns(c, apiKeyRow[k].owner)
    /\ Calls(c, [NoCall EXCEPT !.pc = pc, !.key = k, !.field = f, !.set = set])
    /\ UNCHANGED <<ownerRows, apiKeyRow, vkRow, vauth, writes>>

\* A tenant user may only change the status.
BeginUpdateAPIKey(c, k, f, set) ==
    /\ isTenantUser(c) => f = "st"
    /\ GetAPIKey(c, k, "update", f, set)

BeginRotateAPIKey(c, k) == GetAPIKey(c, k, "rotate", "st", NoKeyRow)
BeginRevokeAPIKey(c, k) == GetAPIKey(c, k, "revoke", "st", NoKeyRow)

\* Mutant: the status is written too, as it was looked up.
With_Row(row, f, set) == [row EXCEPT !.st = set.st, ![f] = set[f]]
\* SET only the columns of the request.
With(row, f, set) == [row EXCEPT ![f] = set[f]]

UpdateAPIKey(c) ==
    /\ keyOp[c].pc = "update"
    /\ PutKeys(c, [apiKeyRow EXCEPT ![keyOp[c].key] = With(@, keyOp[c].field, keyOp[c].set)])
    /\ UNCHANGED <<ownerRows, vauth>>

\* A rotation also makes the key active.
RotateAPIKey(c) ==
    /\ keyOp[c].pc = "rotate"
    /\ PutKeys(c, [apiKeyRow EXCEPT ![keyOp[c].key].st = "active"])
    /\ UNCHANGED <<ownerRows, vauth>>

RevokeAPIKey(c) ==
    /\ keyOp[c].pc = "revoke"
    /\ PutKeys(c, Revoked({keyOp[c].key}))
    /\ UNCHANGED <<ownerRows, vauth>>

-----------------------------------------------------------------------------
(* Virtual keys.                                                            *)

\* stringSubset: an empty list on either side passes.
stringSubset(list, allowed) == list = {} \/ allowed = {} \/ list \subseteq allowed

\* virtualKeyUpdateWithinAPIKeyLimits: of the lists that the request has.
UpdateWithin(set, parent) == stringSubset(set.providers, parent.providers)

\* virtualKeyWithinAPIKeyLimits
WithinAPIKeyLimits(set, parent) == stringSubset(set.providers, parent.providers)

\* GetAPIKey of input.APIKeyID
FindsParent(k) == apiKeyRow[k].st # "absent"

VKeyExists(v) == vkRow[v].st \in {"active", "revoked"}

\* The limits of the parent are those of the moment, and only tenant users are held to them.
BeginCreateVirtualKey(c, k, u, set) ==
    /\ CanCall(c) /\ FindsParent(k)
    /\ isTenantUser(c) => u = c /\ apiKeyRow[k].owner = c /\ WithinAPIKeyLimits(set, apiKeyRow[k])
    /\ Calls(c, [NoCall EXCEPT !.pc = "vcreate", !.key = k, !.set = [set EXCEPT !.owner = u]])
    /\ UNCHANGED <<ownerRows, apiKeyRow, vkRow, vauth, writes>>

CreateVirtualKey(c, v) ==
    /\ keyOp[c].pc = "vcreate" /\ vkRow[v].st = "absent"
    /\ Write
    /\ vkRow' = [vkRow EXCEPT ![v] =
          [st |-> "active", owner |-> keyOp[c].set.owner, parent |-> keyOp[c].key,
           inProject |-> keyOp[c].set.inProject,
           providers |-> keyOp[c].set.providers, byUser |-> isTenantUser(c),
           parentMoved |-> keyOp[c].moved]]
    /\ Calls(c, NoCall)
    /\ UNCHANGED <<ownerRows, apiKeyRow, vauth>>

BeginUpdateVirtualKey(c, v, f, set) ==
    /\ CanCall(c) /\ VKeyExists(v)
    /\ Owns(c, vkRow[v].owner)
    /\ isTenantUser(c) => UpdateWithin(set, apiKeyRow[vkRow[v].parent])
    /\ Calls(c, [NoCall EXCEPT !.pc = "vupdate", !.vkey = v, !.key = vkRow[v].parent, !.field = f, !.set = set])
    /\ UNCHANGED <<ownerRows, apiKeyRow, vkRow, vauth, writes>>

\* The UPDATE of a virtual key that was deleted meanwhile changes nothing.
UpdateVirtualKey(c) ==
    /\ keyOp[c].pc = "vupdate"
    /\ LET v == keyOp[c].vkey
       IN  \/ /\ VKeyExists(v)
              /\ Write
              /\ vkRow' = [vkRow EXCEPT ![v] =
                    [With(vkRow[v], keyOp[c].field, keyOp[c].set) EXCEPT
                        !.byUser = @ /\ isTenantUser(c), !.parentMoved = @ \/ keyOp[c].moved]]
           \/ ~VKeyExists(v) /\ UNCHANGED <<vkRow, writes>>
    /\ Calls(c, NoCall)
    /\ UNCHANGED <<ownerRows, apiKeyRow, vauth>>

DeleteVirtualKey(c, v) ==
    /\ CallIdle(c) /\ VKeyExists(v)
    /\ Owns(c, vkRow[v].owner)
    /\ Write
    /\ vkRow' = [vkRow EXCEPT ![v] = GoneVRow]
    /\ UNCHANGED <<ownerRows, apiKeyRow, keyOp, vauth>>

-----------------------------------------------------------------------------
(* Users, projects, tenants: the administrator's.                           *)

OwnKeys(u) == {k \in Keys : apiKeyRow[k].st # "absent" /\ apiKeyRow[k].owner = u}
LiveKeys == {k \in Keys : apiKeyRow[k].st # "absent"}
UpdateUser(u, up) ==
    /\ CallIdle(Admin)
    /\ Write
    /\ userUp' = [userUp EXCEPT ![u] = up]
    /\ UNCHANGED <<tenantUp, projectUp, apiKeyRow, vkRow, keyOp, vauth>>

DeleteUser(u) ==
    /\ CallIdle(Admin)
    /\ PutKeys(Admin, Revoked(OwnKeys(u)))
    /\ userUp' = [userUp EXCEPT ![u] = FALSE]
    /\ UNCHANGED <<tenantUp, projectUp, vauth>>

\* DeleteProject and DeleteTenant revoke the keys and delete the virtual keys.
Revoke(ks, vs) ==
    /\ CallIdle(Admin)
    /\ Write
    /\ apiKeyRow' = Revoked(ks)
    /\ vkRow' = [v \in VKeys |-> IF v \in vs THEN GoneVRow ELSE vkRow[v]]
    /\ UNCHANGED <<keyOp, vauth>>

DeleteProject ==
    /\ Revoke({k \in LiveKeys : apiKeyRow[k].inProject}, {v \in VKeys : VKeyExists(v) /\ vkRow[v].inProject})
    /\ projectUp' = FALSE
    /\ UNCHANGED <<tenantUp, userUp>>

DeleteTenant ==
    /\ Revoke(LiveKeys, {v \in VKeys : VKeyExists(v)})
    /\ tenantUp' = FALSE /\ projectUp' = FALSE /\ userUp' = [u \in Users |-> FALSE]

UpdateProject(up) == Write /\ projectUp' = up /\ UNCHANGED <<tenantUp, userUp, apiKeyRow, vkRow, keyOp, vauth>>
UpdateTenant(up) == Write /\ tenantUp' = up /\ UNCHANGED <<projectUp, userUp, apiKeyRow, vkRow, keyOp, vauth>>

\* EnsureBootstrapKey, at every start: the user and the key of the configuration are made
\* active again, and calls under way are gone.
EnsureBootstrapKey ==
    /\ Write
    /\ apiKeyRow' = [apiKeyRow EXCEPT ![BootKey].st = "active", ![BootKey].inProject = FALSE]
    /\ userUp' = [userUp EXCEPT ![BootUser] = TRUE]
    /\ keyOp' = [c \in KeyCallers |-> NoCall]
    /\ vauth' = NoAuth
    /\ UNCHANGED <<tenantUp, projectUp, vkRow>>

-----------------------------------------------------------------------------
(* Authentication by virtual key: its row is read, then its parent's.       *)

AuthenticateVirtualKey(v) ==
    /\ vauth.pc = "idle"
    /\ vkRow[v].st = "active"
    /\ vauth' = [NoAuth EXCEPT !.pc = "parent", !.vkey = v, !.vk = vkRow[v]]
    /\ UNCHANGED <<ownerRows, apiKeyRow, vkRow, keyOp, writes>>

isIdentityActive(row) == row.st = "active" /\ userUp[row.owner] /\ tenantUp

\* The parent is looked up by what the request that made the virtual key called it, its id or its key: by
\* its key it is not found any more once it was rotated.  Nor is it when the store fails.
LoadParent ==
    /\ vauth.pc = "parent"
    /\ LET row == apiKeyRow[vauth.vk.parent]
       IN  \/ isIdentityActive(row) /\ vauth' = [vauth EXCEPT !.pc = "accepted", !.parent = row]
           \/ vauth' = NoAuth
    /\ UNCHANGED <<ownerRows, apiKeyRow, vkRow, keyOp, writes>>

ServedKey == vauth.pc = "accepted" /\ vauth' = NoAuth /\ UNCHANGED <<ownerRows, apiKeyRow, vkRow, keyOp, writes>>

Overlay(own, parents) == IF own = {} THEN parents ELSE own

\* CheckProvider: the list of the virtual key replaces the parent's.
CheckProvider(name) == Allows(Overlay(vauth.vk.providers, vauth.parent.providers), name)

-----------------------------------------------------------------------------
\* What a request may set.
Columns == {<<"providers", l>> : l \in Lists} \cup {<<"st", s>> : s \in {"active", "revoked"}}

KeyCall(c) ==
    \/ \E k \in Keys :
          \/ \E u \in Users, p \in BOOLEAN, l \in Lists : CreateAPIKey(c, k, u, p, l)
          \/ \E s \in Columns : BeginUpdateAPIKey(c, k, s[1], [apiKeyRow[k] EXCEPT ![s[1]] = s[2]])
          \/ BeginRotateAPIKey(c, k) \/ BeginRevokeAPIKey(c, k)
          \/ \E u \in Users, p \in BOOLEAN, l \in Lists :
                BeginCreateVirtualKey(c, k, u, [NoKeyRow EXCEPT !.inProject = p, !.providers = l])
    \/ \E v \in VKeys :
          \/ \E s \in Columns : BeginUpdateVirtualKey(c, v, s[1], [NoKeyRow EXCEPT ![s[1]] = s[2]])
          \/ CreateVirtualKey(c, v) \/ DeleteVirtualKey(c, v)
    \/ UpdateAPIKey(c) \/ RotateAPIKey(c) \/ RevokeAPIKey(c) \/ UpdateVirtualKey(c)

KeyNext ==
    \/ \E c \in KeyCallers : KeyCall(c)
    \/ \E u \in Users : DeleteUser(u) \/ \E up \in BOOLEAN : UpdateUser(u, up)
    \/ \E up \in BOOLEAN : UpdateProject(up) \/ UpdateTenant(up)
    \/ DeleteProject \/ DeleteTenant
    \/ EnsureBootstrapKey
    \/ \E v \in VKeys : AuthenticateVirtualKey(v)
    \/ LoadParent \/ ServedKey

KeySpec == KeyInit /\ [][KeyNext]_keyVars

-----------------------------------------------------------------------------
(* Properties.                                                              *)

Stat == {"absent", "active", "revoked"}
KeyRows == [st : Stat, owner : Users, inProject : BOOLEAN, providers : Lists]
VKeyRows == [st : Stat \cup {"deleted"}, owner : Users, parent : Keys \cup {NoKey}, inProject : BOOLEAN,
             providers : Lists, byUser : BOOLEAN, parentMoved : BOOLEAN]

\* Type invariant; a virtual key has a parent.
KeyTypeOK ==
    /\ tenantUp \in BOOLEAN /\ projectUp \in BOOLEAN /\ userUp \in [Users -> BOOLEAN]
    /\ apiKeyRow \in [Keys -> KeyRows]
    /\ vkRow \in [VKeys -> VKeyRows]
    /\ \A v \in VKeys : VKeyExists(v) => vkRow[v].parent \in LiveKeys
    /\ \A c \in KeyCallers :
          /\ keyOp[c].pc \in {"idle", "update", "rotate", "revoke", "vcreate", "vupdate"}
          /\ keyOp[c].set \in KeyRows /\ keyOp[c].moved \in BOOLEAN
          /\ keyOp[c].key \in Keys \cup {NoKey} /\ keyOp[c].vkey \in VKeys \cup {NoKey}
    /\ vauth.pc \in {"idle", "parent", "accepted"}
    /\ writes \in 0..MaxWrites

\* A call of a tenant user changes no key and no virtual key of another user, whatever
\* others write between its look-up and its write.
UserScoped ==
    \A c \in KeyCallers \cap Users :
       keyOp[c].pc # "idle" /\ keyOp'[c].pc = "idle" /\ writes' # writes /\ ~EnsureBootstrapKey =>
          /\ \A k \in Keys : apiKeyRow'[k] # apiKeyRow[k] => apiKeyRow[k].owner = c
          /\ \A v \in VKeys : vkRow'[v] # [vkRow[v] EXCEPT !.parentMoved = vkRow'[v].parentMoved]
                               => vkRow'[v].owner = c

\* A revoked key becomes active by a rotation, a request to activate it or a restart, never
\* because a change of something else that was under way writes back what it had read.
RevocationHolds ==
    \A k \in Keys : apiKeyRow[k].st = "revoked" /\ apiKeyRow'[k].st = "active" =>
       \/ \E c \in KeyCallers :
             /\ keyOp[c].key = k /\ keyOp'[c].pc = "idle"
             /\ keyOp[c].pc = "rotate" \/ (keyOp[c].pc = "update" /\ keyOp[c].field = "st")
       \/ k = BootKey /\ keyOp' = [c \in KeyCallers |-> NoCall]

\* What is let through with a virtual key that only tenant users have written is within its
\* parent's list, when that has not changed since a call compared them.
LetThroughWithinParent ==
    /\ vauth.pc = "accepted"
    /\ vkRow[vauth.vkey] = vauth.vk /\ vauth.vk.byUser /\ ~vauth.vk.parentMoved
    => \A name \in Providers : CheckProvider(name) => Allows(vauth.parent.providers, name)

\* What is let through with a virtual key is within its parent's list (CreateVirtualKey, UpdateVirtualKey).
KeySound == KeyTypeOK /\ LetThroughWithinParent
=============================================================================

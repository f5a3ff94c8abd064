--------------------------- MODULE GatewayStartup ---------------------------
(***************************************************************************)
(* What a gateway does to the database before it serves                    *)
(* (app/gateway/app.go Run, seed.go): it makes sure that the default       *)
(* tenant exists, adds its configured providers to the tenant's list,      *)
(* gives rows of the time before tenants to the default tenant, and        *)
(* creates or rewrites the configured keys.  Several gateways share one    *)
(* database and may start at the same time, next to an administrator of a  *)
(* gateway that serves already.                                            *)
(*                                                                         *)
(* Every statement or transaction of the code is one step here, except     *)
(* that the transaction which replaces the tenant's provider list is two:  *)
(* its DELETE sees the rows committed before it, and its commit fails when *)
(* another transaction has inserted one of its names since.                *)
(***************************************************************************)
EXTENDS Integers, FiniteSets

CONSTANTS Gateways,          \* the processes that share the database
          ProviderNames,     \* names of providers
          EnabledProviders,  \* for each gateway, the enabled providers of its file
          BootKeys,          \* the configured keys, the bootstrap admin's included
          MaxStarts,         \* how many starts there are in all
          MaxTenantEdits,    \* how many changes administrators make
          MaxSeedFaults      \* how many statements fail

ASSUME StartupAssumption ==
    /\ EnabledProviders \in [Gateways -> SUBSET ProviderNames]
    /\ MaxStarts \in Nat /\ MaxTenantEdits \in Nat /\ MaxSeedFaults \in Nat

VARIABLES boot,        \* for each gateway, the step it is at
          listed,      \* what a gateway's SELECT has read of the list
          fresh,       \* names that others inserted since its DELETE read the list
          tenantRow,   \* the default tenant: absent, active or inactive
          offered,     \* the tenant's provider list
          legacy,      \* tables that still hold rows of no tenant
          toSeed,      \* for each gateway, the configured keys it has still to do
          keyRow,      \* for each configured key, the status of its row
          keyUsers,    \* for each configured key, how many users were made for it
          crossed,     \* gateways whose seed another one's seed ran across
          edited,      \* gateways since whose start an administrator changed something
          seedWork     \* starts, edits and faults so far

startVars == <<boot, listed, fresh, tenantRow, offered, legacy, toSeed, keyRow,
               keyUsers, crossed, edited, seedWork>>

Tables == {"users", "usage_records"}
StartSteps == {"down", "tenant", "insert", "list", "replace", "commit", "users",
               "usage_records", "lookup", "update", "create", "serving"}

StartInit ==
    /\ boot = [g \in Gateways |-> "down"]
    /\ listed = [g \in Gateways |-> {}] /\ fresh = [g \in Gateways |-> {}]
    /\ tenantRow = "absent" /\ offered = {}
    /\ legacy \in {{}, Tables}
    /\ toSeed = [g \in Gateways |-> {}]
    /\ keyRow = [k \in BootKeys |-> "none"] /\ keyUsers = [k \in BootKeys |-> 0]
    /\ crossed = {} /\ edited = {}
    /\ seedWork = [starts |-> 0, edits |-> 0, faults |-> 0]

-----------------------------------------------------------------------------
Goto(g, s) == boot' = [boot EXCEPT ![g] = s]
Tally(what) == seedWork' = [seedWork EXCEPT ![what] = @ + 1]

StartProcess(g) ==
    /\ boot[g] = "down" /\ seedWork.starts < MaxStarts
    /\ Goto(g, "tenant") /\ Tally("starts")
    /\ toSeed' = [toSeed EXCEPT ![g] = BootKeys]
    /\ crossed' = crossed \ {g} /\ edited' = edited \ {g}
    /\ UNCHANGED <<listed, fresh, tenantRow, offered, legacy, keyRow, keyUsers>>

\* Any error of a statement ends the start; a process may also be killed.
StartFails(g) ==
    /\ boot[g] # "down" /\ seedWork.faults < MaxSeedFaults
    /\ Goto(g, "down") /\ Tally("faults")
    /\ UNCHANGED <<listed, fresh, tenantRow, offered, legacy, toSeed, keyRow,
                   keyUsers, crossed, edited>>

\* A row that is not found is inserted, and any other is taken as it is.
AfterLoad == IF tenantRow = "absent" THEN "insert" ELSE "list"

\* EnsureTenant returns a row that is there whatever its status, and inserts one
\* that is not; the slug is unique, so of two that insert one fails.
EnsureTenant(g) ==
    /\ \/ boot[g] = "tenant"
          /\ Goto(g, AfterLoad) /\ UNCHANGED tenantRow
       \/ boot[g] = "insert" /\ tenantRow = "absent"
          /\ tenantRow' = "active" /\ Goto(g, "list")
       \/ boot[g] = "insert" /\ tenantRow # "absent"
          /\ Goto(g, "down") /\ UNCHANGED tenantRow
    /\ UNCHANGED <<listed, fresh, offered, legacy, toSeed, keyRow, keyUsers,
                   crossed, edited, seedWork>>

\* The names of the file are added to those that the tenant has.
Merged(g) == listed[g] \cup EnabledProviders[g]

ListTenantProviders(g) ==
    /\ boot[g] = "list"
    /\ listed' = [listed EXCEPT ![g] = offered] /\ Goto(g, "replace")
    /\ UNCHANGED <<fresh, tenantRow, offered, legacy, toSeed, keyRow, keyUsers,
                   crossed, edited, seedWork>>

\* The list after a commit that keeps the rows which its DELETE did not see.
Committed(g, names, kept) ==
    /\ offered' = kept \cup names
    /\ fresh' = [h \in Gateways |-> IF h # g /\ boot[h] = "commit"
                                    THEN fresh[h] \cup names ELSE fresh[h]]

\* A seed that commits while another has read the list runs across it.
Crossing(g) == {h \in Gateways \ {g} : boot[h] \in {"replace", "commit"}}

ReplaceTenantProviders(g) ==
    /\ \/ /\ boot[g] = "replace" /\ Goto(g, "commit")
          /\ fresh' = [fresh EXCEPT ![g] = {}]
          /\ UNCHANGED <<offered, crossed>>
       \/ /\ boot[g] = "commit" /\ fresh[g] \cap Merged(g) = {}
          /\ Goto(g, "users") /\ Committed(g, Merged(g), fresh[g])
          /\ crossed' = IF Crossing(g) = {} THEN crossed
                        ELSE crossed \cup Crossing(g) \cup {g}
       \/ /\ boot[g] = "commit" /\ fresh[g] \cap Merged(g) # {}
          /\ Goto(g, "down") /\ UNCHANGED <<fresh, offered, crossed>>
    /\ UNCHANGED <<listed, tenantRow, legacy, toSeed, keyRow, keyUsers, edited, seedWork>>

\* Two statements, of which a start that ends between them leaves the second to
\* the next start.
BackfillDefaultTenant(g) ==
    /\ boot[g] \in Tables
    /\ legacy' = legacy \ {boot[g]}
    /\ Goto(g, IF boot[g] = "users" THEN "usage_records" ELSE "lookup")
    /\ UNCHANGED <<listed, fresh, tenantRow, offered, toSeed, keyRow, keyUsers,
                   crossed, edited, seedWork>>

\* The next configured key, in the order of the file.
NextKey(g) == CHOOSE k \in toSeed[g] : TRUE

\* A key that exists is made active again with what the file says of it.
LookupKey(g) ==
    /\ boot[g] = "lookup"
    /\ Goto(g, IF toSeed[g] = {} THEN "serving"
               ELSE IF keyRow[NextKey(g)] = "none" THEN "create" ELSE "update")
    /\ UNCHANGED <<listed, fresh, tenantRow, offered, legacy, toSeed, keyRow,
                   keyUsers, crossed, edited, seedWork>>

\* The user that stays behind when the key's insert fails: none, the transaction is
\* rolled back.
LeftBehind_User == 1
LeftBehind == 0

SeedKey(g) ==
    LET k == NextKey(g)
    IN  /\ \/ /\ (boot[g] = "update" \/ (boot[g] = "create" /\ keyRow[k] = "none"))
              /\ keyRow' = [keyRow EXCEPT ![k] = "active"]
              /\ keyUsers' = [keyUsers EXCEPT ![k] = IF boot[g] = "create" THEN @ + 1 ELSE @]
              /\ toSeed' = [toSeed EXCEPT ![g] = @ \ {k}] /\ Goto(g, "lookup")
           \/ /\ boot[g] = "create" /\ keyRow[k] # "none"
              /\ keyUsers' = [keyUsers EXCEPT ![k] = @ + LeftBehind]
              /\ Goto(g, "down") /\ UNCHANGED <<keyRow, toSeed>>
        /\ UNCHANGED <<listed, fresh, tenantRow, offered, legacy, crossed, edited, seedWork>>

-----------------------------------------------------------------------------
(* An administrator of a gateway that serves.                              *)

Edit == /\ seedWork.edits < MaxTenantEdits
        /\ Tally("edits") /\ edited' = Gateways
        /\ UNCHANGED <<boot, listed, legacy, toSeed, keyUsers, crossed>>

\* The handler's list is replaced as a whole.
ReplaceByAdmin(g, names) ==
    /\ boot[g] = "serving" /\ Edit
    /\ Committed(g, names, {}) /\ UNCHANGED <<tenantRow, keyRow>>

\* Creating the tenant that is there already resets its list to the gateway's own.
CreateTenantAgain(g) == ReplaceByAdmin(g, EnabledProviders[g])

\* Deleting it empties the list and revokes its keys; the row stays, inactive.
DeleteTenantByAdmin(g) ==
    /\ boot[g] = "serving" /\ Edit
    /\ tenantRow' = "inactive" /\ offered' = {} /\ UNCHANGED fresh
    /\ keyRow' = [k \in BootKeys |-> IF keyRow[k] = "none" THEN "none" ELSE "revoked"]

StartNext ==
    \E g \in Gateways :
        \/ StartProcess(g) \/ StartFails(g) \/ EnsureTenant(g)
        \/ ListTenantProviders(g) \/ ReplaceTenantProviders(g)
        \/ BackfillDefaultTenant(g) \/ LookupKey(g) \/ SeedKey(g)
        \/ \E names \in SUBSET ProviderNames : ReplaceByAdmin(g, names)
        \/ CreateTenantAgain(g) \/ DeleteTenantByAdmin(g)

StartSpec == StartInit /\ [][StartNext]_startVars

-----------------------------------------------------------------------------
\* Every gateway is at a step of its start, and a step that writes for the default
\* tenant is reached only once its row exists.
StartTypeOK ==
    /\ boot \in [Gateways -> StartSteps] /\ offered \subseteq ProviderNames
    /\ keyRow \in [BootKeys -> {"none", "active", "revoked"}]
    /\ \A g \in Gateways : boot[g] \notin {"down", "tenant", "insert"} => tenantRow # "absent"

\* A gateway that serves finds the providers of its file in the tenant's list, no
\* row without a tenant, and its keys active, unless an administrator has changed
\* something since it started or, for the list alone, another gateway was seeding at
\* the same time: the seed adds to the list that it has read
\* (seed.go SeedTenantProviders, tenant.go ReplaceTenantProviders).
ServingIsSeeded ==
    \A g \in Gateways :
        boot[g] = "serving" =>
            /\ legacy = {}
            /\ g \notin edited => \A k \in BootKeys : keyRow[k] = "active"
            /\ g \notin edited \cup crossed => EnabledProviders[g] \subseteq offered

\* However many gateways start at once and however many of them fail on the other's
\* key, a configured key has one user: the user's row goes when the key's insert
\* fails (sqlstore/identity.go EnsureBootstrapKey).
OneUserPerKey ==
    \A k \in BootKeys : keyUsers[k] = IF keyRow[k] = "none" THEN 0 ELSE 1

\* The seed: a serving gateway has what its file says, and a configured key has one user.
StartSound == StartTypeOK /\ ServingIsSeeded /\ OneUserPerKey
=============================================================================

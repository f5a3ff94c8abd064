--------------------------- MODULE MCControlPlane ---------------------------
(***************************************************************************)
(* Small instances of the modules of the control plane, checked in one     *)
(* run.  They share no state: in a behaviour one of them, part, moves and   *)
(* the others keep an initial state, so that the states are those of each   *)
(* module alone, one after the other.                                      *)
(***************************************************************************)
EXTENDS IdentityCache, PermissionCache, KeyAdministration, ProviderRegistry, ServiceCatalog,
        AlertDelivery, PricingFeed, PluginMarket, GatewayStartup, ConfigReload

CONSTANTS n1, n2, q1, q2, a1, a2, s1, s2, u2

VARIABLE part

\* A request comes to one replica, the other to the other.
Home == q1 :> n1 @@ q2 :> n2

KeyLists == {{}, {"a"}, {"b"}}

\* The channels: a list with labels, the older form of the configuration, and none.
Channel(t, ls) == [type |-> t, labels |-> ls]
NoLabels == [l \in {} |-> ""]
OnState == [event |-> "provider_state"]
Labelled(e, s) == [event |-> e, severity |-> s]
AlertFiles ==
    { [enabled |-> TRUE, legacy |-> <<>>,
       listed |-> <<Channel("webhook", Labelled("provider_state", "critical")), Channel("pager", NoLabels)>>],
      [enabled |-> TRUE, legacy |-> <<Channel("webhook", NoLabels), Channel("webhook", OnState)>>, listed |-> <<>>],
      [enabled |-> FALSE, legacy |-> <<>>, listed |-> <<Channel("feishu", NoLabels)>>] }
Happenings ==
    { [memory |-> "dedup", key |-> "state:p", labels |-> Labelled("provider_state", "critical")],
      [memory |-> "dedup", key |-> "state:p", labels |-> Labelled("provider_state", "info")],
      [memory |-> "quota", key |-> "user", labels |-> Labelled("quota_alert", "warning")],
      [memory |-> "none", key |-> "request", labels |-> Labelled("request_event", "info")] }

\* Two feeds: what one prices the other does not; X is a key with a capital.
Feeds == {("m" :> "priced") @@ ("X" :> "unpriced"), ("m" :> "malformed") @@ ("X" :> "priced")}
LowerCase == ("m" :> "m") @@ ("M" :> "m") @@ ("X" :> "x") @@ ("x" :> "x")

PluginFile == <<[there |-> TRUE, tenant |-> "default", type |-> "grpc", name |-> "p", phase |-> "pre",
                 file |-> FALSE, enabled |-> TRUE]>>

GatewayFiles == [g \in Gateways |-> IF g = "g1" THEN {"p"} ELSE {"p", "q"}]

Parts == {"identity", "rbac", "keys", "registry", "catalog", "alerts", "pricing", "market", "startup", "reload"}

ControlInit ==
    /\ part \in Parts
    /\ IdInit       /\ (part # "identity" => ~withRedis)
    /\ RbacInit
    /\ KeyInit      /\ \A k \in Keys \ {BootKey} :
                       apiKeyRow[k] # NoKeyRow => part = "keys" /\ apiKeyRow[k].owner = u2 /\ apiKeyRow[k].providers = {"a"}
    /\ RegInit      /\ (part # "registry" => row = Seeded([n \in Names |-> Absent]))
    /\ CatInit
    /\ AlertInit    /\ (part # "alerts" => alertConf = (CHOOSE c \in AlertConfs : TRUE) /\ ~aggRedis)
    /\ PriceInit    /\ (part # "pricing" => feedNow.entries = CHOOSE f \in Published : TRUE)
    /\ MarketInit
    /\ StartInit    /\ (part # "startup" => legacy = {})
    /\ ReloadInit

\* Bounds on what comes together.  Identities, permissions and alerts: after a failure
\* (for alerts also a reload, or with Redis) the second request rests.  Roles: one administrator
\* creates and updates, with the permission that no system role gives, the other deletes.
\* The catalog: a failure, a second service and a second administrator at work come one
\* without the others, except while an approval is between its two reads, where a second edit comes
\* too; of the services, prefixes and administrators, each the same as the other, the first
\* comes first; a consumer who is known asks for every surface.
\* Keys: the project of a virtual key is the administrator's choice.  Prices: one charge a start.  Of the plugins' administrators and of the reloads, each the
\* same as the other, the first comes first.
IdFewTroubles == redisFaults' > 0 => auth'[q2].pc = "idle"
RbacFewTroubles ==
    /\ rbacFaults' > 0 => permReq'[q2].pc = "idle" /\ roleOp'[a2].pc = "idle"
    /\ rolePermRows' \in {{}, Perms \ SystemPerms}
    /\ roleOp'[a1].pc # "delete" /\ roleOp'[a2].pc # "update"
    /\ roleOp'[a1].perms \in {{}, Perms \ SystemPerms}
KeyFewProjects == ~keyOp'[u2].set.inProject
PriceOneCharge == charges # NoCharge => charges' \in {charges, NoCharge}
AlertFewTroubles == reloads' > 0 \/ aggRedis' => notifierAt'[n2] = "idle"
AdminsInOrder == adminOp[a1] = NoOp /\ adminOp[a2] = NoOp => adminOp'[a2] = NoOp
ReloadsInOrder == ~Working("r1") /\ ~Working("r2") => reloadOf'["r2"] = Idle
CatFewTroubles ==
    /\ catFaults' > 0 => svc'[s2] = NoService
    /\ catFaults' > 0 \/ (svc'[s2] # NoService /\ work[a1].pc # "load") => work'[a2] = NoWork
    /\ edits' > 1 => work[a1].pc = "load" \/ edits > 1
    /\ \A u \in Subs : sub'[u].status = "asked" => (sub'[u].known <=> sub'[u].surfaces = {})
    /\ work[a1] = NoWork /\ work[a2] = NoWork => work'[a2] = NoWork
    /\ svc[s1] = NoService /\ shown[s1] = {} => svc'[s2] = NoService /\ svc'[s1].prefix # "y"

ControlNext ==
    \/ /\ part = "identity" /\ IdNext /\ IdFewTroubles
       /\ UNCHANGED <<part, rbacVars, keyVars, regVars, catVars, alertVars, priceVars, marketVars, startVars, reloadVars>>
    \/ /\ part = "rbac" /\ RbacNext /\ RbacFewTroubles
       /\ UNCHANGED <<part, idVars, keyVars, regVars, catVars, alertVars, priceVars, marketVars, startVars, reloadVars>>
    \/ /\ part = "keys" /\ KeyNext /\ KeyFewProjects
       /\ UNCHANGED <<part, idVars, rbacVars, regVars, catVars, alertVars, priceVars, marketVars, startVars, reloadVars>>
    \/ /\ part = "registry" /\ RegNext
       /\ UNCHANGED <<part, idVars, rbacVars, keyVars, catVars, alertVars, priceVars, marketVars, startVars, reloadVars>>
    \/ /\ part = "catalog" /\ CatNext /\ CatFewTroubles
       /\ UNCHANGED <<part, idVars, rbacVars, keyVars, regVars, alertVars, priceVars, marketVars, startVars, reloadVars>>
    \/ /\ part = "alerts" /\ AlertNext /\ AlertFewTroubles
       /\ UNCHANGED <<part, idVars, rbacVars, keyVars, regVars, catVars, priceVars, marketVars, startVars, reloadVars>>
    \/ /\ part = "pricing" /\ PriceNext /\ PriceOneCharge
       /\ UNCHANGED <<part, idVars, rbacVars, keyVars, regVars, catVars, alertVars, marketVars, startVars, reloadVars>>
    \/ /\ part = "market" /\ MarketNext /\ AdminsInOrder
       /\ UNCHANGED <<part, idVars, rbacVars, keyVars, regVars, catVars, alertVars, priceVars, startVars, reloadVars>>
    \/ /\ part = "startup" /\ StartNext
       /\ UNCHANGED <<part, idVars, rbacVars, keyVars, regVars, catVars, alertVars, priceVars, marketVars, reloadVars>>
    \/ /\ part = "reload" /\ ReloadNext /\ ReloadsInOrder
       /\ UNCHANGED <<part, idVars, rbacVars, keyVars, regVars, catVars, alertVars, priceVars, marketVars, startVars>>

controlVars == <<part, idVars, rbacVars, keyVars, regVars, catVars, alertVars, priceVars, marketVars, startVars,
                 reloadVars>>

ControlSpec == ControlInit /\ [][ControlNext]_controlVars

-----------------------------------------------------------------------------
\* Who may do what: RequirePermission and the administration of keys.
AccessSound == RbacSound /\ KeySound

\* What runs beside the requests: the alerts' aggregator and channels, the pricing feed and the
\* plugins of the market.
UpkeepSound == AlertSound /\ PriceSound /\ MarketSound

\* What a gateway serves with: the seed of its start and the reloads of its configuration.
ConfigSound == StartSound /\ ReloadSound

\* What no step of the control plane does: change another user's key, activate a revoked key by
\* another change, change what a service serves by staging, or send a quota alert again
\* after its mark (UpdateAPIKey, PromoteStagedServiceVersion and the staging of sqlstore, CheckQuotaUsage).
ControlSteps == [][UserScoped /\ RevocationHolds /\ StagingKeepsServed /\ QuotaMarkHolds]_controlVars
=============================================================================

----------------------------- MODULE PluginMarket -----------------------------
(***************************************************************************)
(* The plugin marketplace: rows and WebAssembly files that administrators   *)
(* create, upload, update and delete; what a starting gateway loads of      *)
(* them; the health of its gRPC plugins; and the chain of plugins a request *)
(* is shown to.                                                             *)
(*                                                                          *)
(* A file and its row are written by separate steps, each of which may      *)
(* fail, and the process may die between them.  Plugins are read once, at   *)
(* start, for the default tenant.  The gRPC plugins are asked in the order  *)
(* of a Go map, that is any order, and before the WebAssembly ones.         *)
(***************************************************************************)
EXTENDS Selections, FiniteSets

CONSTANTS
    PluginAdmins,     \* administrators with a request in flight
    PluginNames,      \* names given to plugins
    Configured,       \* sequence of the plugins of the configuration file
    MaxPlugins,       \* bound on the plugins created
    MaxPluginEdits,   \* bound on updates and deletions
    MaxPluginFaults   \* bound on crashes and failures of the disk and database

ASSUME PluginAssumption ==
    /\ MaxPlugins \in Nat /\ MaxPluginEdits \in Nat /\ MaxPluginFaults \in Nat
    /\ IsFiniteSet(PluginNames) /\ PluginNames # {}
    /\ Configured \in Seq(Members(Configured))
    /\ \A i \in DOMAIN Configured : Configured[i].name \in PluginNames /\ Configured[i].tenant = "default"

VARIABLES
    pluginRows,    \* the table, by the order of creation
    pluginFiles,   \* of each plugin its file: "none", "partial", "whole"
    adminOp,       \* what each administrator's request is doing
    gatewayUp,     \* the gateway process runs
    clients,       \* the gRPC plugins it has, by name
    modules,       \* the WebAssembly plugins it has, in order
    health,        \* what it thinks of each gRPC plugin
    serving,       \* whether the plugin really answers
    chain,         \* the request being shown to plugins
    damaged,       \* ghost: plugins an operation on which failed half way
    gone,          \* ghost: plugins whose deletion succeeded
    kept,          \* ghost: plugins whose file could not be removed when last tried
    pluginEdits, pluginFaults

marketVars == <<pluginRows, pluginFiles, adminOp, gatewayUp, clients, modules, health, serving,
                chain, damaged, gone, kept, pluginEdits, pluginFaults>>

PluginIds == 1 .. MaxPlugins
Spellings == {"pre", "PRE"}
toLower(phase) == IF phase = "PRE" THEN "pre" ELSE phase
NoRow == [there |-> FALSE, tenant |-> "default", type |-> "grpc", name |-> "", phase |-> "pre",
          file |-> FALSE, enabled |-> FALSE]
NoOp == [op |-> "none", id |-> 0]
NoPlugin == [there |-> FALSE, phase |-> "pre"]
NoChain == [at |-> "idle", plan |-> <<>>, answers |-> <<>>, result |-> "none"]
Fresh == Cardinality({i \in PluginIds : pluginRows[i] # NoRow \/ pluginFiles[i] # "none"
                                        \/ \E a \in PluginAdmins : adminOp[a].id = i} \cup damaged \cup gone) + 1

MarketInit ==
    /\ pluginRows = [i \in PluginIds |-> NoRow]
    /\ pluginFiles = [i \in PluginIds |-> "none"]
    /\ adminOp = [a \in PluginAdmins |-> NoOp]
    /\ gatewayUp = FALSE
    /\ clients = [n \in PluginNames |-> NoPlugin]
    /\ modules = <<>>
    /\ health = [n \in PluginNames |-> "unknown"]
    /\ serving = [n \in PluginNames |-> TRUE]
    /\ chain = NoChain
    /\ damaged = {} /\ gone = {} /\ kept = {}
    /\ pluginEdits = 0 /\ pluginFaults = 0

RuntimeSame == UNCHANGED <<gatewayUp, clients, modules, health, serving, chain>>
Fails == pluginFaults < MaxPluginFaults /\ pluginFaults' = pluginFaults + 1
AdminFree(a) == gatewayUp /\ adminOp[a] = NoOp
Goes(a, op, id) == adminOp' = [adminOp EXCEPT ![a] = [op |-> op, id |-> id]]
Ends(a) == adminOp' = [adminOp EXCEPT ![a] = NoOp]

-----------------------------------------------------------------------------
(* Administration.                                                          *)

\* A plugin made from a body: the phases are checked in lower case and
\* stored as they were spelt; there is no file.
CreatePlugin(a) ==
    /\ AdminFree(a)
    /\ Fresh \in PluginIds
    /\ \E tenant \in {"default", "other"}, type \in {"grpc", "wasm"}, name \in PluginNames,
          phase \in Spellings, on \in BOOLEAN :
          pluginRows' = [pluginRows EXCEPT ![Fresh] =
              [there |-> TRUE, tenant |-> tenant, type |-> type, name |-> name, phase |-> phase,
               file |-> FALSE, enabled |-> on]]
    /\ UNCHANGED <<pluginFiles, adminOp, damaged, gone, kept, pluginEdits, pluginFaults>>
    /\ RuntimeSame

\* The upload creates the file and copies into it; a copy that fails leaves
\* what it had written, and no row.
AfterCopy(copied) == IF copied THEN "insert" ELSE "none"
UploadFile(a) ==
    /\ AdminFree(a)
    /\ Fresh \in PluginIds
    /\ \E copied \in BOOLEAN :
          /\ IF copied THEN UNCHANGED pluginFaults ELSE Fails
          /\ pluginFiles' = [pluginFiles EXCEPT ![Fresh] = IF copied THEN "whole" ELSE "partial"]
          /\ adminOp' = IF AfterCopy(copied) = "none" THEN adminOp
                        ELSE [adminOp EXCEPT ![a] = [op |-> AfterCopy(copied), id |-> Fresh]]
    /\ UNCHANGED <<pluginRows, damaged, gone, kept, pluginEdits>>
    /\ RuntimeSame

UploadedRow(tenant, on) ==
    [there |-> TRUE, tenant |-> tenant, type |-> "wasm", name |-> CHOOSE n \in PluginNames : TRUE,
     phase |-> "pre", file |-> TRUE, enabled |-> on]

\* The row is inserted and read back.  Either may fail, and for the handler
\* both are the same: it removes the file.
UploadInsert(a) ==
    LET id == adminOp[a].id IN
    /\ adminOp[a].op = "insert"
    /\ \/ /\ \E tenant \in {"default", "other"}, on \in BOOLEAN :
                pluginRows' = [pluginRows EXCEPT ![id] = UploadedRow(tenant, on)]
          /\ Ends(a)
          /\ UNCHANGED <<damaged, gone, pluginFaults>>
       \/ /\ Fails
          /\ Goes(a, "remove", id)
          /\ damaged' = damaged \cup {id}
          /\ pluginRows' \in {pluginRows, [pluginRows EXCEPT ![id] = UploadedRow("default", TRUE)]}
    /\ UNCHANGED <<pluginFiles, gone, kept, pluginEdits>>
    /\ RuntimeSame

\* The file system may refuse to remove a file; both callers drop its error
\* and go on.
Removes(id, after) ==
    \/ /\ pluginFiles' = after
       /\ kept' = kept \ {id}
       /\ UNCHANGED pluginFaults
    \/ /\ Fails
       /\ kept' = kept \cup {id}
       /\ UNCHANGED pluginFiles

UploadRemove(a) ==
    /\ adminOp[a].op = "remove"
    /\ Removes(adminOp[a].id, [pluginFiles EXCEPT ![adminOp[a].id] = "none"])
    /\ Ends(a)
    /\ UNCHANGED <<pluginRows, damaged, gone, pluginEdits>>
    /\ RuntimeSame

\* An update sets the columns it names, in one statement; phases are stored
\* in lower case.
UpdatePlugin(a) ==
    /\ AdminFree(a)
    /\ pluginEdits < MaxPluginEdits
    /\ pluginEdits' = pluginEdits + 1
    /\ \E id \in PluginIds :
          /\ pluginRows[id].there
          /\ \/ \E on \in BOOLEAN : pluginRows' = [pluginRows EXCEPT ![id].enabled = on]
             \/ \E phase \in Spellings : pluginRows' = [pluginRows EXCEPT ![id].phase = toLower(phase)]
    /\ UNCHANGED <<pluginFiles, adminOp, damaged, gone, kept, pluginFaults>>
    /\ RuntimeSame

\* A deletion reads the row, removes the file, and then deletes the row,
\* whatever became of the file.
RemoveFirst_Other(id) == [pluginFiles EXCEPT ![id] = IF pluginRows[id].enabled THEN @ ELSE "none"]
RemoveFirst(id) == [pluginFiles EXCEPT ![id] = "none"]
DeletePlugin(a) ==
    /\ AdminFree(a)
    /\ pluginEdits < MaxPluginEdits
    /\ pluginEdits' = pluginEdits + 1
    /\ \E id \in PluginIds :
          /\ pluginRows[id].there
          /\ IF pluginRows[id].file THEN Removes(id, RemoveFirst(id))
             ELSE UNCHANGED <<pluginFiles, kept, pluginFaults>>
          /\ Goes(a, "delete", id)
    /\ UNCHANGED <<pluginRows, damaged, gone>>
    /\ RuntimeSame

\* The row is deleted; a statement that fails may have been done.
DeleteRow(a) ==
    LET id == adminOp[a].id IN
    /\ adminOp[a].op = "delete"
    /\ \/ /\ pluginRows' = [pluginRows EXCEPT ![id] = NoRow]
          /\ gone' = gone \cup {id}
          /\ UNCHANGED <<pluginFaults, damaged>>
       \/ /\ Fails
          /\ damaged' = damaged \cup {id}
          /\ pluginRows' \in {pluginRows, [pluginRows EXCEPT ![id] = NoRow]}
          /\ UNCHANGED gone
    /\ Ends(a)
    /\ UNCHANGED <<pluginFiles, kept, pluginEdits>>
    /\ RuntimeSame

-----------------------------------------------------------------------------
(* The gateway's start and end.                                             *)

\* The enabled rows of the default tenant, in order of creation, go behind
\* the configured plugins; one without an address or a path is left out, and
\* a module whose file does not compile is skipped.
Hydrated(i) ==
    LET r == pluginRows[i] IN r.there /\ r.tenant = "default" /\ r.enabled /\ (r.type = "grpc" \/ r.file)
Compiles(i) == pluginRows[i].type = "wasm" => pluginFiles[i] = "whole"
HydrateMarketplacePlugins ==
    LET ids == MembersIn([i \in PluginIds |-> i], {i \in PluginIds : Hydrated(i) /\ Compiles(i)})
    IN  Configured \o [i \in DOMAIN ids |-> pluginRows[ids[i]]]

\* gRPC plugins are kept by name, a later one in the place of an earlier;
\* each is checked once when it is added.  A module that does not load is
\* skipped.
StartGateway ==
    /\ ~gatewayUp
    /\ gatewayUp' = TRUE
    /\ LET items == HydrateMarketplacePlugins
           named(n) == {i \in DOMAIN items : items[i].type = "grpc" /\ items[i].name = n}
       IN  /\ clients' = [n \in PluginNames |->
                  IF named(n) = {} THEN NoPlugin
                  ELSE [there |-> TRUE, phase |-> items[CHOOSE i \in named(n) : \A j \in named(n) : j <= i].phase]]
           /\ modules' = MembersIn(items, {r \in Members(items) : r.type = "wasm"})
    /\ health' = [n \in PluginNames |-> IF serving[n] THEN "healthy" ELSE "unhealthy"]
    /\ UNCHANGED <<pluginRows, pluginFiles, adminOp, serving, chain, damaged, gone, kept, pluginEdits, pluginFaults>>

\* The process ends or dies with whatever its requests were doing.
EndGateway ==
    /\ gatewayUp
    /\ Fails
    /\ gatewayUp' = FALSE
    /\ clients' = [n \in PluginNames |-> NoPlugin]
    /\ modules' = <<>>
    /\ health' = [n \in PluginNames |-> "unknown"]
    /\ chain' = NoChain
    /\ adminOp' = [a \in PluginAdmins |-> NoOp]
    /\ damaged' = damaged \cup {adminOp[a].id : a \in {b \in PluginAdmins : adminOp[b].op = "delete"}}
    /\ UNCHANGED <<pluginRows, pluginFiles, serving, gone, kept, pluginEdits>>

-----------------------------------------------------------------------------
(* gRPC health and the chain of plugins.                                    *)

Serves(n) ==
    /\ Fails
    /\ serving' = [serving EXCEPT ![n] = ~@]
    /\ UNCHANGED <<pluginRows, pluginFiles, adminOp, gatewayUp, clients, modules, health, chain, damaged, gone, kept, pluginEdits>>

\* One check of the health loop.
checkHealth(n) ==
    /\ gatewayUp /\ clients[n].there
    /\ health' = [health EXCEPT ![n] = IF serving[n] THEN "healthy" ELSE "unhealthy"]
    /\ UNCHANGED <<pluginRows, pluginFiles, adminOp, gatewayUp, clients, modules, serving, chain, damaged, gone, kept, pluginEdits, pluginFaults>>

Subscribed == {n \in PluginNames : clients[n].there /\ health[n] = "healthy" /\ clients[n].phase = "pre"}
AnyOrder(S) == {s \in [1 .. Cardinality(S) -> S] : \A i, j \in DOMAIN s : s[i] = s[j] => i = j}

\* The plugins of the phase: the healthy gRPC ones and every module.
GetByPhase ==
    /\ gatewayUp
    /\ chain.at = "idle"
    /\ \E order \in AnyOrder(Subscribed) :
          LET wasm == MembersIn(modules, {m \in Members(modules) : m.phase = "pre"})
          IN  chain' = [at |-> "ask",
                        plan |-> [i \in DOMAIN order |-> [type |-> "grpc", name |-> order[i]]]
                                 \o [i \in DOMAIN wasm |-> [type |-> "wasm", name |-> wasm[i].name]],
                        answers |-> <<>>, result |-> "none"]
    /\ UNCHANGED <<pluginRows, pluginFiles, adminOp, gatewayUp, clients, modules, health, serving, damaged, gone, kept, pluginEdits, pluginFaults>>

\* What the chain does after an answer: an error is passed over, a command
\* ends the chain, and SKIP ends it with none.
AfterAnswer(answer, last) ==
    IF answer = "SKIP" THEN "none"
    ELSE IF answer \in {"BLOCK", "TRANSFORM", "CACHE_HIT"} THEN answer
    ELSE IF last THEN "none" ELSE "next"

\* A gRPC plugin that does not serve, or was found unhealthy meanwhile,
\* gives an error, and a stream that cannot be opened marks it unhealthy.
Process(p, answer) ==
    IF p.type = "wasm" THEN UNCHANGED health
    ELSE IF health[p.name] # "healthy" THEN answer = "error" /\ UNCHANGED health
    ELSE IF ~serving[p.name] THEN answer = "error" /\ health' = [health EXCEPT ![p.name] = "unhealthy"]
    ELSE UNCHANGED health

invokePlugins ==
    /\ chain.at = "ask"
    /\ IF chain.plan = <<>> THEN chain' = [chain EXCEPT !.at = "done"] /\ UNCHANGED health
       ELSE \E answer \in {"nothing", "error", "BLOCK", "TRANSFORM", "SKIP"} :
              LET asked == Append(chain.answers, answer)
                  then == AfterAnswer(answer, Len(asked) = Len(chain.plan))
              IN  /\ Process(chain.plan[Len(asked)], answer)
                  /\ chain' = [chain EXCEPT !.answers = asked,
                                            !.at = IF then = "next" THEN "ask" ELSE "done",
                                            !.result = IF then = "next" THEN "none" ELSE then]
    /\ UNCHANGED <<pluginRows, pluginFiles, adminOp, gatewayUp, clients, modules, serving, damaged, gone, kept, pluginEdits, pluginFaults>>

\* The request goes on, or is refused, and another one may come.
NextRequest ==
    /\ chain.at = "done"
    /\ chain' = NoChain
    /\ UNCHANGED <<pluginRows, pluginFiles, adminOp, gatewayUp, clients, modules, health, serving, damaged, gone, kept, pluginEdits, pluginFaults>>

MarketNext ==
    \/ \E a \in PluginAdmins : CreatePlugin(a)
    \/ \E a \in PluginAdmins : UploadFile(a)
    \/ \E a \in PluginAdmins : UploadInsert(a)
    \/ \E a \in PluginAdmins : UploadRemove(a)
    \/ \E a \in PluginAdmins : UpdatePlugin(a)
    \/ \E a \in PluginAdmins : DeletePlugin(a)
    \/ \E a \in PluginAdmins : DeleteRow(a)
    \/ StartGateway
    \/ EndGateway
    \/ \E n \in PluginNames : Serves(n)
    \/ \E n \in PluginNames : checkHealth(n)
    \/ GetByPhase
    \/ invokePlugins
    \/ NextRequest

MarketSpec == MarketInit /\ [][MarketNext]_marketVars

-----------------------------------------------------------------------------
\* The state is of its type, and what is loaded is what the table of the
\* default tenant and the configuration had: no tenant's plugin but the
\* default one's runs (HydrateMarketplacePlugins).
MarketTypeOK ==
    /\ \A i \in PluginIds : pluginFiles[i] \in {"none", "partial", "whole"}
    /\ \A n \in PluginNames : health[n] \in {"unknown", "healthy", "unhealthy"} /\ serving[n] \in BOOLEAN
    /\ \A i \in DOMAIN modules : modules[i].tenant = "default"
    /\ chain.at \in {"idle", "ask", "done"}
    /\ pluginEdits \in 0 .. MaxPluginEdits /\ pluginFaults \in 0 .. MaxPluginFaults

\* A row that names a file has it, whole, unless an operation on that very
\* plugin failed half way or is under way: an upload that could not be
\* written makes no plugin, and no operation on one plugin touches the file
\* of another (UploadPlugin, DeletePlugin).
RowHasFile ==
    \A id \in PluginIds :
        pluginRows[id].there /\ pluginRows[id].file =>
            \/ pluginFiles[id] = "whole"
            \/ id \in damaged
            \/ \E a \in PluginAdmins : adminOp[a] = [op |-> "delete", id |-> id]

\* A plugin whose deletion succeeded does not come back, also when another
\* administrator worked on it meanwhile, and leaves no file behind unless the
\* file system refused to remove that very file when last asked: the dropped
\* error of os.Remove is the only way to an orphan (DeletePlugin).
NoFileLeft ==
    \A id \in gone : ~pluginRows[id].there /\ (pluginFiles[id] = "none" \/ id \in kept)

\* Plugins fail open one by one: the answer of the chain is the first
\* command any of its plugins gave, whatever failed before it, and without
\* a command every plugin of the plan has been asked (invokePlugins).
FirstCommandWins ==
    chain.at = "done" =>
        LET told == {i \in DOMAIN chain.answers : chain.answers[i] \notin {"nothing", "error"}}
        IN  IF told = {} THEN chain.result = "none" /\ Len(chain.answers) = Len(chain.plan)
            ELSE LET i == CHOOSE j \in told : \A k \in told : j <= k
                 IN  chain.result = (IF chain.answers[i] = "SKIP" THEN "none" ELSE chain.answers[i])

\* The market: rows have their files, deletions leave nothing, and the first command of a chain wins.
MarketSound == MarketTypeOK /\ RowHasFile /\ NoFileLeft /\ FirstCommandWins
=============================================================================

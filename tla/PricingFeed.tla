----------------------------- MODULE PricingFeed -----------------------------
(***************************************************************************)
(* The price table: fetched in the background from a published feed, kept   *)
(* in memory and in a cache file that the next start reads.  The memory is  *)
(* replaced under a lock before the file is written beside its place and    *)
(* renamed; the process may die between any two of these steps.  A request  *)
(* is charged by the provider's configured price, else by the table.        *)
(***************************************************************************)
EXTENDS Integers, FiniteSets, TLC

CONSTANTS
    FeedKeys,      \* model names, in the spelling of a feed or a request
    LowerOf,       \* lowerASCII of each
    Published,     \* feeds the URL may serve: each maps its keys to entries
    MaxFeeds,      \* bound on how often the published feed changes
    MaxPriceFaults \* bound on failed fetches, failed writes and crashes

ASSUME PriceAssumption ==
    /\ LowerOf \in [FeedKeys -> FeedKeys]
    /\ \A f \in Published : DOMAIN f \subseteq FeedKeys
    /\ MaxFeeds \in Nat \ {0} /\ MaxPriceFaults \in Nat

VARIABLES
    feedNow,       \* the feed published now, with its number
    table,         \* f.prices, with the number of the feed it came from
    cacheFile,     \* the cache file: none, or what it holds
    loopAt,        \* where the refresh loop is
    body,          \* the data of the refresh under way
    cancelled,     \* Stop was called
    feedProcess,   \* "up" or "down"
    charges,       \* what the last request was charged by, at which table
    newest,        \* ghost: the newest feed that this process, or the file it
                   \* started from, had in full
    unread,        \* ghost: the start could not read the file, and nothing was
                   \* fetched since
    priceFaults

priceVars == <<feedNow, table, cacheFile, loopAt, body, cancelled, feedProcess, charges, newest,
              unread, priceFaults>>

NoFeed == [number |-> 0, entries |-> [k \in {} |-> "none"]]
NoFile == [there |-> FALSE, whole |-> FALSE, data |-> NoFeed]
NoTable == [number |-> 0, prices |-> {}]
NoCharge == [by |-> "none", names |-> {}, number |-> 0]

\* What a feed prices: entries with one of the two costs.  An entry that
\* does not decode, or has neither, is left out and the others are kept.
parseFeed(data) ==
    [number |-> data.number,
     prices |-> {k \in DOMAIN data.entries : data.entries[k] = "priced"}]

\* A fresh process: what Bootstrap reads of the file, where there is one and
\* it parses.  Any other error of the reading is returned, the gateway warns
\* and goes on with an empty table.
Bootstrap(readFails) ==
    IF ~readFails /\ cacheFile.there /\ cacheFile.whole THEN parseFeed(cacheFile.data) ELSE NoTable

PriceInit ==
    /\ \E f \in Published : feedNow = [number |-> 1, entries |-> f]
    /\ table = NoTable
    /\ cacheFile = NoFile
    /\ loopAt = "refresh"
    /\ body = NoFeed
    /\ cancelled = FALSE
    /\ feedProcess = "up"
    /\ charges = NoCharge
    /\ newest = NoFeed
    /\ unread = FALSE
    /\ priceFaults = 0

Publish ==
    /\ feedNow.number < MaxFeeds
    /\ \E f \in Published : feedNow' = [number |-> feedNow.number + 1, entries |-> f]
    /\ UNCHANGED <<table, cacheFile, loopAt, body, cancelled, feedProcess, charges, newest, unread, priceFaults>>

-----------------------------------------------------------------------------
(* Refresh.                                                                 *)

\* The request, the status, the size limit and the decoding: all is well,
\* or the refresh ends and nothing has changed.  A cancelled context fails
\* the request.
Fetch ==
    /\ loopAt = "refresh"
    /\ \/ /\ ~cancelled
          /\ body' = feedNow
          /\ loopAt' = "replace"
          /\ UNCHANGED priceFaults
       \/ /\ cancelled \/ priceFaults < MaxPriceFaults
          /\ priceFaults' = IF cancelled THEN priceFaults ELSE priceFaults + 1
          /\ loopAt' = "select"
          /\ UNCHANGED body
    /\ UNCHANGED <<feedNow, table, cacheFile, cancelled, feedProcess, charges, newest, unread>>

\* The table is replaced before the file.
Replaced(data) == parseFeed(data)
Replace ==
    /\ loopAt = "replace"
    /\ table' = Replaced(body)
    /\ newest' = body
    /\ unread' = FALSE
    /\ loopAt' = "temp"
    /\ UNCHANGED <<feedNow, cacheFile, body, cancelled, feedProcess, charges, priceFaults>>

\* writeAtomic writes a temporary file, which nothing else reads, ...
WriteTemp_InPlace == [there |-> TRUE, whole |-> FALSE, data |-> body]
WriteTemp == cacheFile

Temp ==
    /\ loopAt = "temp"
    /\ \/ loopAt' = "rename" /\ cacheFile' = WriteTemp /\ UNCHANGED <<priceFaults, body>>
       \/ /\ priceFaults < MaxPriceFaults
          /\ priceFaults' = priceFaults + 1
          /\ loopAt' = "select"
          /\ body' = NoFeed
          /\ UNCHANGED cacheFile
    /\ UNCHANGED <<feedNow, table, cancelled, feedProcess, charges, newest, unread>>

\* ... and renames it over the cache file; the errors of both are dropped.
Rename ==
    /\ loopAt = "rename"
    /\ \/ cacheFile' = [there |-> TRUE, whole |-> TRUE, data |-> body] /\ UNCHANGED priceFaults
       \/ /\ priceFaults < MaxPriceFaults
          /\ priceFaults' = priceFaults + 1
          /\ UNCHANGED cacheFile
    /\ body' = NoFeed
    /\ loopAt' = "select"
    /\ UNCHANGED <<feedNow, table, cancelled, feedProcess, charges, newest, unread>>

\* The loop waits for the ticker or the cancellation.
RunLoop ==
    /\ loopAt = "select"
    /\ loopAt' \in {"refresh"} \cup (IF cancelled THEN {"done"} ELSE {})
    /\ UNCHANGED <<feedNow, table, cacheFile, body, cancelled, feedProcess, charges, newest, unread, priceFaults>>

-----------------------------------------------------------------------------
(* Start, stop and crash.                                                   *)

Stop ==
    /\ feedProcess = "up" /\ ~cancelled
    /\ cancelled' = TRUE
    /\ UNCHANGED <<feedNow, table, cacheFile, loopAt, body, feedProcess, charges, newest, unread, priceFaults>>

\* Stop returns when the loop has ended, and the process exits.
StopWaits == cancelled /\ loopAt = "done"
Exit ==
    /\ feedProcess = "up"
    /\ StopWaits
    /\ feedProcess' = "down"
    /\ UNCHANGED <<feedNow, table, cacheFile, loopAt, body, cancelled, charges, newest, unread, priceFaults>>

Crash ==
    /\ feedProcess = "up"
    /\ priceFaults < MaxPriceFaults
    /\ priceFaults' = priceFaults + 1
    /\ feedProcess' = "down"
    /\ loopAt' = "done"
    /\ body' = NoFeed
    /\ UNCHANGED <<feedNow, table, cacheFile, cancelled, charges, newest, unread>>

Start(readFails) ==
    /\ feedProcess = "down"
    /\ readFails => cacheFile.there /\ priceFaults < MaxPriceFaults
    /\ priceFaults' = IF readFails THEN priceFaults + 1 ELSE priceFaults
    /\ feedProcess' = "up"
    /\ table' = Bootstrap(readFails)
    /\ newest' = cacheFile.data
    /\ unread' = readFails
    /\ loopAt' = "refresh"
    /\ body' = NoFeed
    /\ cancelled' = FALSE
    /\ charges' = NoCharge
    /\ UNCHANGED <<feedNow, cacheFile>>

-----------------------------------------------------------------------------
(* Charging.                                                                *)

\* The name as it is spelt, else in lower case.
Get(name) == IF name \in table.prices THEN {name} ELSE {LowerOf[name]} \cap table.prices

\* The provider's price where it makes the request cost anything; else the
\* table's for the name asked, else for the provider's own model.
computeCost(yaml, requested, model) ==
    [by |-> IF yaml THEN "yaml" ELSE IF Get(requested) \cup Get(model) # {} THEN "feed" ELSE "zero",
     names |-> {requested, model}, number |-> table.number]

Charge ==
    /\ feedProcess = "up"
    /\ \E yaml \in BOOLEAN, requested, model \in FeedKeys :
          charges' = computeCost(yaml, requested, model)
    /\ UNCHANGED <<feedNow, table, cacheFile, loopAt, body, cancelled, feedProcess, newest, unread, priceFaults>>

PriceNext ==
    Publish \/ Fetch \/ Replace \/ Temp \/ Rename \/ RunLoop \/ Stop \/ Exit \/ Crash \/ Charge
    \/ \E readFails \in BOOLEAN : Start(readFails)

PriceSpec == PriceInit /\ [][PriceNext]_priceVars

-----------------------------------------------------------------------------
\* The state is of its type; once Stop has returned the loop is over, so
\* that nothing of the feed runs in a process that is going away.
PriceTypeOK ==
    /\ table.number \in 0 .. MaxFeeds /\ table.prices \subseteq FeedKeys
    /\ cacheFile.there \in BOOLEAN /\ cacheFile.whole \in BOOLEAN
    /\ loopAt \in {"refresh", "replace", "temp", "rename", "select", "done"}
    /\ feedProcess \in {"up", "down"}
    /\ feedProcess = "down" => loopAt = "done"
    /\ priceFaults \in 0 .. MaxPriceFaults

\* The cache file is absent or holds one feed whole, never the half of one,
\* whenever the process dies (writeAtomic), and is never ahead of what the
\* running process charges by, unless this process could not read it.
FileWhole ==
    /\ cacheFile.there => cacheFile.whole
    /\ (feedProcess = "up" /\ cacheFile.there /\ ~unread) => cacheFile.data.number <= table.number

\* A refresh that fails takes no price away, and a restart takes none that
\* had reached the file: the table is exactly what the newest feed priced
\* that this process, or the file it started from, had in full; what that
\* feed dropped is dropped.  Only a file that is there and cannot be read
\* leaves the table empty, until the first refresh that succeeds, whatever
\* fails in between (Refresh, Bootstrap).
NewestInForce ==
    feedProcess = "up" =>
        IF unread THEN table = NoTable
        ELSE /\ table.number = newest.number
             /\ table.prices = {k \in DOMAIN newest.entries : newest.entries[k] = "priced"}

\* A request is recorded at no cost only if the table in force prices
\* neither the model asked for nor the provider's own, in the spelling
\* given or in lower case (computeCost, Get).
FreeOnlyUnpriced ==
    charges.by = "zero" /\ charges.number = table.number =>
        \A n \in charges.names : {n, LowerOf[n]} \cap table.prices = {}

\* The feed: the file is whole, the newest feed is in force, and only what has no price is free.
PriceSound == PriceTypeOK /\ FileWhole /\ NewestInForce /\ FreeOnlyUnpriced
=============================================================================

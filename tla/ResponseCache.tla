--------------------------- MODULE ResponseCache ---------------------------
(***************************************************************************)
(* The two caches of answers: the exact one (memory before Redis, by the    *)
(* hash of tenant, model, surface, prompt) and the semantic one (rows of    *)
(* SQL, by similarity of embeddings, within tenant, project and service).   *)
(* A semantic hit is copied into the exact cache under the asker's own key  *)
(* and counted by a read-modify-write of its whole row; both, like the      *)
(* writes of a new answer, happen on goroutines.  Prompts are points on a   *)
(* line and alike when they are neighbours.  Model, surface and service     *)
(* behave as tenant and project do and are left out, as is the bucket, which*)
(* is part of the exact key and not of the semantic search.                 *)
(***************************************************************************)
EXTENDS Integers, Sequences, FiniteSets, Selections

CONSTANTS
    Questions,       \* who asks (<<tenant, project>>, project "" for none) which prompt (an integer)
    Drivers,         \* of the SQL store: "sqlite", "postgres"
    TTLs, SemTTL,    \* of the exact cache (default, or the request's hint), of the semantic one
    Capacity,        \* entries of the memory cache
    MaxCandidates,
    MaxAsks, MaxOpen, MaxPending, \* requests; open ones and goroutines while another one comes
    MaxClock, MaxCacheFaults

ASSUME CacheAssumption ==
    /\ \A q \in Questions : q.prompt \in Int
    /\ TTLs \subseteq Nat \ {0} /\ \E t \in TTLs : \A u \in TTLs : u <= t
    /\ SemTTL \in Nat \ {0} /\ Capacity \in Nat \ {0}
    /\ MaxCandidates \in Nat \ {0} /\ MaxAsks \in Nat /\ MaxOpen \in Nat /\ MaxPending \in Nat
    /\ MaxClock \in Nat /\ MaxCacheFaults \in Nat

VARIABLES
    clock, driver,
    ask,       \* the requests: who asks, what, where it is
    l0, l1,    \* the memory cache, most recently used first; Redis
    sem,       \* rows of semantic_cache_entries
    tasks,     \* goroutines that write
    answer,    \* the last answer from a cache: the request and what it got
    off,       \* ids that were disabled or deleted
    overlapped, \*  while a count of a hit was between its read and its write
    cacheFaults \* failures of Redis and of SQL, restarts

cacheVars == <<clock, driver, ask, l0, l1, sem, tasks, answer, off, overlapped, cacheFaults>>
admin == <<off, overlapped>>

Ids == 1..MaxAsks
Alike(p, r) == p - r \in {-1, 0, 1}
Distance(p, r) == IF p >= r THEN p - r ELSE r - p

NotAsked == [pc |-> "idle"]
Finished == [pc |-> "done"]
NoAnswer == [via |-> "none"]

CacheInit ==
    /\ clock = 0 /\ driver \in Drivers
    /\ ask = [n \in Ids |-> NotAsked]
    /\ l0 = <<>> /\ l1 = {} /\ sem = {} /\ tasks = {}
    /\ answer = NoAnswer
    /\ off = {} /\ overlapped = {} /\ cacheFaults = 0

\* Works, or fails once more.
Works(up) == IF up THEN UNCHANGED cacheFaults ELSE cacheFaults < MaxCacheFaults /\ cacheFaults' = cacheFaults + 1

-----------------------------------------------------------------------------
(* The exact cache.                                                         *)

\* BuildKey
Key(q) == <<q.who[1], q.prompt>>

Expired(e) == clock > e.exp
Without(s, k) == MembersIn(s, {e \in Members(s) : e.k # k})

\* MemoryCache.Get: an expired entry goes, one that is found moves to the front.
MemoryHit(k) == {e \in Members(l0) : e.k = k /\ ~Expired(e)}
MemoryGet(k) == IF MemoryHit(k) = {} THEN Without(l0, k) ELSE <<CHOOSE e \in MemoryHit(k) : TRUE>> \o Without(l0, k)

\* MemoryCache.Set
MemorySet(e) == SubSeq(<<e>> \o Without(l0, e.k), 1, IF Len(Without(l0, e.k)) < Capacity
                                                     THEN Len(Without(l0, e.k)) + 1 ELSE Capacity)

\* RedisCache.Get: a key that has outlived its TTL is gone.
RedisHit(k) == {e \in l1 : e.k = k /\ clock < e.exp}
RedisSet(e) == {x \in l1 : x.k # e.k} \cup {e}

\* LayeredCache.Get: memory, then Redis, whose hits are not copied to memory.
Got(k, up) == IF MemoryHit(k) # {} THEN MemoryHit(k) ELSE IF up THEN RedisHit(k) ELSE {}

\* The next request in line, while few are open and little is pending.
Opens(n) ==
    /\ ask[n].pc = "idle" /\ \A m \in 1..(n - 1) : ask[m].pc # "idle"
    /\ Cardinality({m \in Ids : ask[m].pc \notin {"idle", "done"}}) < MaxOpen
    /\ Cardinality(tasks) <= MaxPending

\* lookupCache, unless cacheSkipReason has one.
LookupCache(n, q, up) ==
    /\ Opens(n)
    /\ Works(up)
    /\ l0' = MemoryGet(Key(q))
    /\ IF Got(Key(q), up) = {}
          THEN ask' = [ask EXCEPT ![n] = [pc |-> "semantic", q |-> q]] /\ UNCHANGED answer
          ELSE \E e \in Got(Key(q), up) :
                  /\ ask' = [ask EXCEPT ![n] = Finished]
                  /\ answer' = [via |-> "exact", by |-> n, q |-> q, v |-> e.v, age |-> clock - e.v.made]
    /\ UNCHANGED <<clock, driver, l1, sem, tasks, admin>>

SkipCache(n, q) ==
    /\ Opens(n)
    /\ ask' = [ask EXCEPT ![n] = [pc |-> "skipped", q |-> q]]
    /\ UNCHANGED <<clock, driver, l0, l1, sem, tasks, answer, admin, cacheFaults>>

-----------------------------------------------------------------------------
(* The semantic cache.                                                      *)

\* semanticCacheWhere: a request without project searches all of its tenant's.
Matches(r, q) == /\ r.body.who[1] = q.who[1] /\ (q.who[2] = "" \/ r.body.who[2] = q.who[2])
                 /\ ~r.disabled

\* Rows that fewer than MaxCandidates others come before.
FirstOf(S, rank) == {r \in S : Cardinality({x \in S : rank[x] < rank[r]}) < MaxCandidates}

\* FindSemanticCacheCandidates: SQLite lists the newest and then drops what has expired,
\* PostgreSQL drops first and lists the nearest.
Candidates(q) ==
    LET rows == {r \in sem : Matches(r, q)}
        live == {r \in rows : clock < r.exp}
    IN  IF driver = "sqlite"
            THEN {r \in FirstOf(rows, [r \in rows |-> -r.id]) : ~Expired(r)}
            ELSE FirstOf(live, [r \in live |-> Distance(r.near, q.prompt)])

\* The most similar one of those at or above the threshold.
Best(q) == {r \in Candidates(q) :
               /\ Alike(r.near, q.prompt)
               /\ \A x \in Candidates(q) : Distance(r.near, q.prompt) <= Distance(x.near, q.prompt)}

ToEntry(r) == [r.body EXCEPT !.copied = TRUE]

\* writeCache: the TTL starts over.
WriteCache(q, v, ttl) == [t |-> "set", k |-> Key(q), v |-> v, ttl |-> ttl]

\* writeSemanticCache: a row with the embedding of the prompt and the answer.
NewRow(n, q, v) ==
    [t |-> "create", row |-> [id |-> n, near |-> q.prompt, body |-> v, exp |-> clock + SemTTL,
                              hits |-> 0, disabled |-> FALSE]]

\* A hit is counted and copied to the exact cache.
OnHit_Stored(n, q, r, ttl) ==
    {WriteCache(q, ToEntry(r), ttl),
     NewRow(n, q, r.body)}
OnHit(n, q, r, ttl) ==
    {WriteCache(q, ToEntry(r), ttl), [t |-> "read", by |-> n, id |-> r.id, hits |-> r.hits + 1]}

LookupSemanticCache(n, ttl) ==
    /\ ask[n].pc = "semantic"
    /\ LET q == ask[n].q
       IN  IF Best(q) = {}
              THEN ask' = [ask EXCEPT ![n].pc = "upstream"] /\ UNCHANGED <<tasks, answer>>
              ELSE \E r \in Best(q) :
                      /\ ask' = [ask EXCEPT ![n] = Finished]
                      /\ tasks' = tasks \cup OnHit(n, q, r, ttl)
                      /\ answer' = [via |-> "semantic", by |-> n, q |-> q, v |-> ToEntry(r), id |-> r.id,
                                    age |-> clock - r.body.made]
    /\ UNCHANGED <<clock, driver, l0, l1, sem, admin, cacheFaults>>

\* The embedding or the query fails, or the request does not qualify.
SemanticSkipped(n) ==
    /\ ask[n].pc = "semantic" /\ Works(FALSE)
    /\ ask' = [ask EXCEPT ![n].pc = "upstream"]
    /\ UNCHANGED <<clock, driver, l0, l1, sem, tasks, answer, admin>>

\* A provider answers: writeCache, and writeSemanticCache if the request qualifies.
Upstream(n, ttl, semantic) ==
    /\ ask[n].pc = "upstream"
    /\ LET q == ask[n].q
           v == [of |-> q.prompt, who |-> q.who, made |-> clock, copied |-> FALSE]
       IN  tasks' = tasks \cup {WriteCache(q, v, ttl)} \cup
             (IF semantic THEN {NewRow(n, q, v)} ELSE {})
    /\ ask' = [ask EXCEPT ![n] = Finished]
    /\ UNCHANGED <<clock, driver, l0, l1, sem, answer, admin, cacheFaults>>

\* It fails, or the request skipped the caches: nothing is written.
NotCached(n) ==
    /\ ask[n].pc \in {"upstream", "skipped"}
    /\ ask' = [ask EXCEPT ![n] = Finished]
    /\ UNCHANGED <<clock, driver, l0, l1, sem, tasks, answer, admin, cacheFaults>>

-----------------------------------------------------------------------------
(* The goroutines.                                                          *)

\* LayeredCache.Set: both layers, whichever of them fails.
SetEntry(w, up) ==
    /\ w.t = "set" /\ Works(up)
    /\ LET e == [k |-> w.k, v |-> w.v, exp |-> clock + w.ttl]
       IN  l0' = MemorySet(e) /\ l1' = IF up THEN RedisSet(e) ELSE l1
    /\ tasks' = tasks \ {w}
    /\ UNCHANGED <<clock, driver, ask, sem, answer, admin>>

CreateSemanticCacheEntry(w) ==
    /\ w.t = "create"
    /\ sem' = sem \cup {w.row}
    /\ tasks' = tasks \ {w}
    /\ UNCHANGED <<clock, driver, ask, l0, l1, answer, admin, cacheFaults>>

\* UpdateSemanticCacheEntry reads the row and then writes all of it.
UpdateRead(w) ==
    /\ w.t = "read"
    /\ tasks' = (tasks \ {w}) \cup {[t |-> "write", by |-> w.by, row |-> [r EXCEPT !.hits = w.hits]]
                                       : r \in {x \in sem : x.id = w.id}}
    /\ UNCHANGED <<clock, driver, ask, l0, l1, sem, answer, admin, cacheFaults>>
semanticCacheUpdate(w) ==
    /\ w.t = "write"
    /\ sem' = {IF r.id = w.row.id THEN w.row ELSE r : r \in sem}
    /\ tasks' = tasks \ {w}
    /\ UNCHANGED <<clock, driver, ask, l0, l1, answer, admin, cacheFaults>>

\* A goroutine's write to SQL fails or times out.
SemanticWriteFails(w) ==
    /\ w.t \in {"create", "read", "write"} /\ Works(FALSE)
    /\ tasks' = tasks \ {w}
    /\ UNCHANGED <<clock, driver, ask, l0, l1, sem, answer, admin>>

-----------------------------------------------------------------------------
(* Administration of the store, time, and a restart.                        *)

Overlaps(id) == \E w \in tasks : w.t = "write" /\ w.row.id = id

DisableSemanticCacheEntriesByScope(tenant) ==
    LET gone == {r.id : r \in {x \in sem : x.body.who[1] = tenant}}
    IN  /\ gone \ off # {}
        /\ sem' = {IF r.id \in gone THEN [r EXCEPT !.disabled = TRUE] ELSE r : r \in sem}
        /\ off' = off \cup gone
        /\ overlapped' = overlapped \cup {i \in gone : Overlaps(i)}
        /\ UNCHANGED <<clock, driver, ask, l0, l1, tasks, answer, cacheFaults>>

DeleteSemanticCacheEntry(r) ==
    /\ sem' = sem \ {r}
    /\ off' = off \cup {r.id}
    /\ UNCHANGED <<clock, driver, ask, l0, l1, tasks, answer, overlapped, cacheFaults>>

DeleteSemanticCacheEntriesExpiredBefore ==
    /\ \E r \in sem : r.exp < clock
    /\ sem' = {r \in sem : r.exp >= clock}
    /\ UNCHANGED <<clock, driver, ask, l0, l1, tasks, answer, admin, cacheFaults>>

\* A unit of time is long against a goroutine's write.
Tick ==
    /\ clock < MaxClock /\ tasks = {}
    /\ clock' = clock + 1
    /\ UNCHANGED <<driver, ask, l0, l1, sem, tasks, answer, admin, cacheFaults>>

\* The process goes, with its memory and its goroutines; requests under way fail.
RestartGateway ==
    /\ l0 # <<>> \/ tasks # {}
    /\ Works(FALSE)
    /\ l0' = <<>> /\ tasks' = {}
    /\ ask' = [n \in Ids |-> IF ask[n].pc = "idle" THEN ask[n] ELSE Finished]
    /\ UNCHANGED <<clock, driver, l1, sem, answer, admin>>

\* Bounded by MaxAsks: without a request to come nothing more is answered.
CacheNext ==
    /\ \E n \in Ids : ask[n].pc # "done"
    /\ \/ \E n \in Ids :
             \/ \E q \in Questions : SkipCache(n, q) \/ \E up \in BOOLEAN : LookupCache(n, q, up)
             \/ \E ttl \in TTLs : LookupSemanticCache(n, ttl) \/ \E s \in BOOLEAN : Upstream(n, ttl, s)
             \/ SemanticSkipped(n) \/ NotCached(n)
       \/ \E w \in tasks :
             \/ \E up \in BOOLEAN : SetEntry(w, up)
             \/ CreateSemanticCacheEntry(w) \/ UpdateRead(w) \/ semanticCacheUpdate(w) \/ SemanticWriteFails(w)
       \/ \E tenant \in {q.who[1] : q \in Questions} : DisableSemanticCacheEntriesByScope(tenant)
       \/ \E r \in sem : DeleteSemanticCacheEntry(r)
       \/ DeleteSemanticCacheEntriesExpiredBefore \/ Tick \/ RestartGateway

CacheSpec == CacheInit /\ [][CacheNext]_cacheVars

-----------------------------------------------------------------------------
(* Properties.                                                              *)

\* The memory cache keeps to its capacity and holds a key once, whatever the order in which
\* goroutines set and requests get.
CacheTypeOK ==
    /\ clock \in 0..MaxClock /\ driver \in Drivers
    /\ \A n \in Ids : ask[n].pc \in {"idle", "semantic", "upstream", "skipped", "done"}
    /\ Len(l0) <= Capacity
    /\ \A i, j \in DOMAIN l0 : i # j => l0[i].k # l0[j].k
    /\ \A e, f \in l1 : e # f => e.k # f.k
    /\ \A r, s \in sem : r # s => r.id # s.id

Longest == CHOOSE t \in TTLs : \A u \in TTLs : t >= u

\* An answer from a cache was given to a prompt that is alike the one asked: hits copied from the
\* semantic cache to the exact one do not let similarity add up from prompt to prompt.
NoDrift == answer.via # "none" => Alike(answer.v.of, answer.q.prompt)

\* No tenant is answered with another's, not even from the copies of semantic hits; from the
\* semantic cache itself no project is answered with another's.
AnsweredWithinTenant ==
    answer.via # "none" => /\ answer.v.who[1] = answer.q.who[1]
                           /\ answer.via = "semantic" => answer.q.who[2] \in {"", answer.v.who[2]}

\* An answer lives for one TTL in each cache: in the exact one after the semantic one if it was
\* copied, and never through both again.
AnswerAgeBounded ==
    answer.via # "none" =>
        answer.age <= (IF answer.v.copied THEN SemTTL ELSE 0) + (IF answer.via = "exact" THEN Longest ELSE 0)

\* A row that was disabled or deleted answers no later request from the semantic cache, except one
\* that the count of a concurrent hit wrote back as enabled.
OffStaysOff ==
    answer' # answer /\ answer'.via = "semantic" /\ answer'.id \in off
      => answer'.id \in overlapped

\* What the two caches answer with (LayeredCache.Get, the semantic search, the copy of its hits): an
\* answer to a like prompt, of the same tenant, and no older than a life in each cache.
CacheSound == CacheTypeOK /\ NoDrift /\ AnsweredWithinTenant /\ AnswerAgeBounded
=============================================================================

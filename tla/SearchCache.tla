---------------------------- MODULE SearchCache ----------------------------
(* Searches, graph reads and the cache between them and the store, while     *)
(* uploads change the store: search_rag, get_screens_by_service,             *)
(* get_related_screens, search_by_image and analyze_code_impact on one side, *)
(* the end of add_rag_data, add_rag_text_data and generation_rag on the      *)
(* other, RedisCacheClient or NullCacheClient in the middle.  A worker       *)
(* process waits for Redis, for the store and for the encoders at every      *)
(* step, and other requests run meanwhile.                                   *)
(*                                                                           *)
(* The answer to a read is represented by the set of documents it was        *)
(* computed from: ranking, filters and k choose among them and add none.     *)
EXTENDS Naturals

CONSTANTS
    Collections,
    SearchKeys,     \* rag:search:{collection}:{md5}
    GraphKeys,      \* rag:graph:service:..., rag:graph:screen:...
    Scope,          \* Scope[k]: the collections whose documents k's answer is over
    Pattern,        \* Pattern[c]: the keys that match rag:search:{c}:*
    Readers,        \* the clients that read, one request at a time ...
    Regulars,       \* ... and those of them that send request after request
    Writers,        \* the uploads
    Upload,         \* Upload[w]: [endpoint, coll, size]
    Redis,          \* TRUE with RedisCacheClient, FALSE with NullCacheClient
    Faults          \* what may fail: "redis", "store"

Keys == SearchKeys \cup GraphKeys
Endpoints == {"add", "generation"}

KeyAssumption ==
    /\ SearchKeys \cap GraphKeys = {}
    /\ Scope \in [Keys -> SUBSET Collections]
    /\ Pattern \in [Collections -> SUBSET SearchKeys]
PatternAssumption ==
    \A c \in Collections : \A k \in SearchKeys : c \in Scope[k] => k \in Pattern[c]
UploadAssumption ==
    Upload \in [Writers -> [endpoint : Endpoints, coll : Collections, size : Nat]]
SwitchAssumption == Redis \in BOOLEAN /\ Faults \subseteq {"redis", "store"}
RegularAssumption == Regulars \subseteq Readers
ASSUME KeyAssumption
ASSUME PatternAssumption
ASSUME UploadAssumption
ASSUME SwitchAssumption
ASSUME RegularAssumption

VARIABLES
    nodes,      \* documents with a Screen node in the graph
    rows,       \* documents with a row in rag_embeddings
    cache,      \* Redis: a function from the keys that are there
    rpc,        \* rpc[r]: where read r stands
    key,        \* key[r]: what r reads
    result,     \* result[r]: what r read, and in the end answered
    wpc,        \* wpc[w]: where upload w stands
    scanned,    \* scanned[w]: keys the SCAN of w's delete_pattern has passed
    found,      \* found[w]: keys of the last SCAN reply, about to be deleted
    late,       \* history: keys whose value was older than the store at SET
    swept,      \* history: uploads whose delete_pattern ran to its end
    base        \* history: the documents acknowledged when r began

store  == <<nodes, rows>>
reader == <<rpc, key, result, base>>
writer == <<wpc, scanned, found, swept>>
vars == <<nodes, rows, cache, rpc, key, result, wpc, scanned, found,
          late, swept, base>>

-----------------------------------------------------------------------------
DocsOf(w) == {<<w, i>> : i \in 1..Upload[w].size}
Docs == UNION {DocsOf(w) : w \in Writers}

Cached == DOMAIN cache

InScope(D, k) == {d \in D : Upload[d[1]].coll \in Scope[k]}

(* What a query for k finds: searches read the table, graph reads the graph. *)
Visible(k) == InScope(IF k \in SearchKeys THEN rows ELSE nodes, k)

(* The documents in k's reach that clients were told are stored.             *)
Acknowledged(k) ==
    InScope(UNION {DocsOf(w) : w \in {v \in Writers : wpc[v] = "ok"}}, k)

(* Slip: a key without the collection, so that all searches share a value.   *)
PutForAllCollections(k, v) ==
    IF Redis
    THEN {[x \in Cached \cup SearchKeys \cup {k} |->
              IF x \in SearchKeys \cup {k} THEN v ELSE cache[x]]}
    ELSE {cache}

(* SET, or what is left of it: set() swallows every error, and that of       *)
(* NullCacheClient does nothing.                                             *)
Put(k, v) ==
    (IF Redis THEN {[x \in Cached \cup {k} |-> IF x = k THEN v ELSE cache[x]]} ELSE {})
    \cup (IF ~ Redis \/ "redis" \in Faults THEN {cache} ELSE {})

Without(ks) == [x \in Cached \ ks |-> cache[x]]

(* Slip: the insert runs on as a task that nobody awaits.                    *)
SavedNotAwaited(w) == TRUE

Saved(w) == DocsOf(w) \subseteq rows

(* generation_rag has no delete_pattern after its insert, and that of        *)
(* NullCacheClient does nothing.                                             *)
AfterSave(w) ==
    IF Redis /\ Upload[w].endpoint = "add" THEN "sweep" ELSE "answer"

(* Slip: the pattern of the sweep is "rag:*".                                *)
ToScanEverything(w) == Keys \ scanned[w]

ToScan(w) == Pattern[Upload[w].coll] \ scanned[w]

(* Slip: one SCAN reply is taken for all there is.                           *)
SweptOnce(w) == scanned[w] # {} \/ ToScan(w) = {}

(* SCAN's cursor is back at 0.                                               *)
Swept(w) == ToScan(w) = {}

-----------------------------------------------------------------------------
Init ==
    /\ nodes = {} /\ rows = {}
    /\ cache = [k \in {} |-> {}]
    /\ rpc = [r \in Readers |-> "idle"]
    /\ key \in [Readers -> Keys]
    /\ result = [r \in Readers |-> {}]
    /\ wpc = [w \in Writers |-> "idle"]
    /\ scanned = [w \in Writers |-> {}]
    /\ found = [w \in Writers |-> {}]
    /\ late = {} /\ swept = {}
    /\ base = [r \in Readers |-> {}]

(* Slip: a hit is written back, so that its TTL starts again.                *)
HitWrittenBack(r) ==
    /\ rpc[r] = "idle"
    /\ key[r] \in Cached
    /\ result' = [result EXCEPT ![r] = cache[key[r]]]
    /\ rpc' = [rpc EXCEPT ![r] = "fill"]
    /\ base' = [base EXCEPT ![r] = Acknowledged(key[r])]
    /\ UNCHANGED <<store, cache, key, late, writer>>

(* cache_client.get finds a value: it is the answer.                         *)
Hit(r) ==
    /\ rpc[r] = "idle"
    /\ key[r] \in Cached
    /\ result' = [result EXCEPT ![r] = cache[key[r]]]
    /\ rpc' = [rpc EXCEPT ![r] = "done"]
    /\ base' = [base EXCEPT ![r] = Acknowledged(key[r])]
    /\ UNCHANGED <<store, cache, key, late, writer>>

(* It finds none, or fails, which get() answers in the same way.             *)
Miss(r) ==
    /\ rpc[r] = "idle"
    /\ key[r] \in Cached => "redis" \in Faults
    /\ rpc' = [rpc EXCEPT ![r] = "query"]
    /\ base' = [base EXCEPT ![r] = Acknowledged(key[r])]
    /\ UNCHANGED <<store, cache, key, result, late, writer>>

(* search_by_image and analyze_code_impact never ask the cache.              *)
Bypass(r) ==
    /\ rpc[r] = "idle"
    /\ key[r] \in SearchKeys
    /\ rpc' = [rpc EXCEPT ![r] = "bypass"]
    /\ base' = [base EXCEPT ![r] = Acknowledged(key[r])]
    /\ UNCHANGED <<store, cache, key, result, late, writer>>

(* similarity_search or a Cypher query, in a thread, on its own snapshot.    *)
Query(r) ==
    /\ rpc[r] \in {"query", "bypass"}
    /\ result' = [result EXCEPT ![r] = Visible(key[r])]
    /\ rpc' = [rpc EXCEPT ![r] = IF rpc[r] = "query" THEN "fill" ELSE "direct"]
    /\ UNCHANGED <<store, cache, key, base, late, writer>>

(* cache_client.set reaches Redis, with whatever the query found then.       *)
Fill(r) ==
    /\ rpc[r] = "fill"
    /\ cache' \in Put(key[r], result[r])
    /\ late' = IF cache' = cache THEN late
               ELSE IF result[r] = Visible(key[r]) THEN late \ {key[r]}
                    ELSE late \cup {key[r]}
    /\ rpc' = [rpc EXCEPT ![r] = "done"]
    /\ UNCHANGED <<store, key, result, base, writer>>

(* A call raises, answer 500: the first model call, an embedding or the      *)
(* store before the query is done, the reranker or the second model call of  *)
(* analyze_code_impact after it.                                             *)
ReadFails(r) ==
    /\ "store" \in Faults
    /\ rpc[r] \in {"query", "fill", "bypass", "direct"}
    /\ rpc' = [rpc EXCEPT ![r] = "error"]
    /\ UNCHANGED <<store, cache, key, result, base, late, writer>>

(* A regular client sends its next request, for anything.                    *)
Again(r) ==
    /\ r \in Regulars
    /\ rpc[r] \in {"done", "direct", "error"}
    /\ \E k \in Keys : key' = [key EXCEPT ![r] = k]
    /\ rpc' = [rpc EXCEPT ![r] = "idle"]
    /\ result' = [result EXCEPT ![r] = {}]
    /\ base' = [base EXCEPT ![r] = {}]
    /\ UNCHANGED <<store, cache, late, writer>>

-----------------------------------------------------------------------------
(* The upload's documents are ready; save_documents begins.                  *)
Begin(w) ==
    /\ wpc[w] = "idle"
    /\ wpc' = [wpc EXCEPT ![w] = "store"]
    /\ UNCHANGED <<store, cache, reader, scanned, found, late, swept>>

(* The next document's Screen node is committed ...                          *)
Link(w) ==
    /\ wpc[w] = "store"
    /\ \E d \in DocsOf(w) \ nodes :
          /\ \A e \in DocsOf(w) : e[2] < d[2] => e \in rows
          /\ nodes' = nodes \cup {d}
    /\ UNCHANGED <<rows, cache, reader, late, writer>>

(* ... and then its row.                                                     *)
Insert(w) ==
    /\ wpc[w] = "store"
    /\ rows' = rows \cup (DocsOf(w) \cap nodes)
    /\ rows' # rows
    /\ UNCHANGED <<nodes, cache, reader, late, writer>>

(* The thread of _insert_to_collection has ended.                            *)
EndSave(w) ==
    /\ wpc[w] = "store"
    /\ Saved(w)
    /\ wpc' = [wpc EXCEPT ![w] = AfterSave(w)]
    /\ UNCHANGED <<store, cache, reader, scanned, found, late, swept>>

(* One SCAN reply of delete_pattern.  Redis walks its table once: a key is   *)
(* in the reply if it is there when the walk passes it.                      *)
Scan(w) ==
    /\ wpc[w] = "sweep"
    /\ found[w] = {}
    /\ ~ Swept(w)
    /\ \E B \in SUBSET ToScan(w) :
          /\ B # {}
          /\ scanned' = [scanned EXCEPT ![w] = @ \cup B]
          /\ found' = [found EXCEPT ![w] = B \cap Cached]
    /\ UNCHANGED <<store, cache, reader, wpc, late, swept>>

(* The DEL of the keys of that reply.                                        *)
Delete(w) ==
    /\ wpc[w] = "sweep"
    /\ found[w] # {}
    /\ cache' = Without(found[w])
    /\ late' = late \ found[w]
    /\ found' = [found EXCEPT ![w] = {}]
    /\ UNCHANGED <<store, reader, wpc, scanned, swept>>

EndSweep(w) ==
    /\ wpc[w] = "sweep"
    /\ found[w] = {}
    /\ Swept(w)
    /\ swept' = swept \cup {w}
    /\ wpc' = [wpc EXCEPT ![w] = "answer"]
    /\ UNCHANGED <<store, cache, reader, scanned, found, late>>

(* Redis fails during the sweep; delete_pattern logs it and returns.         *)
SweepFails(w) ==
    /\ "redis" \in Faults
    /\ wpc[w] = "sweep"
    /\ wpc' = [wpc EXCEPT ![w] = "answer"]
    /\ found' = [found EXCEPT ![w] = {}]
    /\ UNCHANGED <<store, cache, reader, scanned, late, swept>>

Respond(w) ==
    /\ wpc[w] = "answer"
    /\ wpc' = [wpc EXCEPT ![w] = "ok"]
    /\ UNCHANGED <<store, cache, reader, scanned, found, late, swept>>

(* A statement fails, or the worker dies: nothing is invalidated after it.   *)
Abort(w) ==
    /\ "store" \in Faults
    /\ wpc[w] \in {"store", "sweep", "answer"}
    /\ wpc' = [wpc EXCEPT ![w] = "error"]
    /\ UNCHANGED <<store, cache, reader, scanned, found, late, swept>>

(* The hour of _CACHE_TTL is over, or Redis evicts the key.                  *)
Expire(k) ==
    /\ k \in Cached
    /\ cache' = Without({k})
    /\ late' = late \ {k}
    /\ UNCHANGED <<store, reader, writer>>

-----------------------------------------------------------------------------
Read(r) == Hit(r) \/ Miss(r) \/ Bypass(r) \/ Query(r) \/ Fill(r)

Write(w) ==
    \/ Begin(w)
    \/ Link(w)
    \/ Insert(w)
    \/ EndSave(w)
    \/ Scan(w)
    \/ Delete(w)
    \/ EndSweep(w)
    \/ Respond(w)

Next ==
    \/ \E r \in Readers : Read(r) \/ ReadFails(r) \/ Again(r)
    \/ \E w \in Writers : Write(w) \/ SweepFails(w) \/ Abort(w)
    \/ \E k \in Keys : Expire(k)

Spec == Init /\ [][Next]_vars

(* Every value is SET with a TTL, which Redis enforces; nothing is assumed   *)
(* of the requests.                                                          *)
FairSpec == Spec /\ \A k \in Keys : WF_vars(Expire(k))

-----------------------------------------------------------------------------
Stale(k) == k \in Cached /\ cache[k] # Visible(k)

(* TypeOK: cached answers and what readers hold are sets of documents under  *)
(* keys of their kind, and sweeps touch search keys only.                    *)
TypeOK ==
    /\ nodes \subseteq Docs /\ rows \subseteq Docs
    /\ Cached \subseteq Keys
    /\ \A k \in Cached : cache[k] \subseteq Docs
    /\ rpc \in [Readers -> {"idle", "query", "bypass", "fill", "direct", "done", "error"}]
    /\ key \in [Readers -> Keys]
    /\ result \in [Readers -> SUBSET Docs]
    /\ wpc \in [Writers -> {"idle", "store", "sweep", "answer", "ok", "error"}]
    /\ scanned \in [Writers -> SUBSET SearchKeys]
    /\ found \in [Writers -> SUBSET SearchKeys]
    /\ late \subseteq Keys
    /\ swept \subseteq Writers
    /\ base \in [Readers -> SUBSET Docs]

(* StaleOnlyByLateFill: an upload whose sweep ran to its end leaves no       *)
(* cached search of its collection without its documents, although the SCAN  *)
(* is not atomic and searches fill the cache meanwhile -- unless the value   *)
(* came from a query older than the upload and was SET after the sweep.      *)
StaleOnlyByLateFill ==
    \A k \in (SearchKeys \cap Cached) \ late : \A w \in swept :
        InScope(DocsOf(w), k) \subseteq cache[k]

(* CachedIsReal: a cached answer, however old, has only documents that are   *)
(* stored and that belong to a collection the key is for.                    *)
CachedIsReal ==
    \A k \in Cached : cache[k] \subseteq Visible(k)

(* UncachedSeesAcked: a search by image, a code analysis, and every read of  *)
(* a server without Redis, answers from all documents whose upload was       *)
(* acknowledged before the read began.                                       *)
UncachedSeesAcked ==
    \A r \in Readers :
        rpc[r] = "direct" \/ (rpc[r] = "done" /\ ~ Redis) => base[r] \subseteq result[r]

(* CacheSettles: once no upload changes the store any more, the cache comes  *)
(* to agree with it and never departs from it again, though some of its keys *)
(* were not swept and clients read on for ever: no stale value is carried    *)
(* from one TTL into the next.                                               *)
CacheSettles == <>[](\A k \in Keys : ~ Stale(k))

(* InvalidatedWhenStored: when storing has ended well, no cached search of   *)
(* the collection lacks the new documents (README: "data stored ->           *)
(* rag:search:{collection}:* invalidated automatically").                    *)
InvalidatedWhenStored ==
    \A w \in Writers : \A k \in SearchKeys \cap Cached :
        wpc[w] = "ok" => InScope(DocsOf(w), k) \subseteq cache[k]
=============================================================================

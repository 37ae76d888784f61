# rag_server in TLA+

A verification development for the screen-document RAG server of this
repository (`src/app`): specifications of its stateful parts, TLC runs on small
instances, and theorems that TLAPS checks for every instance. Paths below are
relative to the repository (`src/`); `rgs` is
`app/core/service/rag_generation_service.py`, `age` is
`app/infra/repository/age_repository_impl.py`, `pg` is
`app/infra/database/pgvectorDB.py`.

## 1. The system and its components

A FastAPI server, five uvicorn worker processes (`Dockerfile:30`), each with one
event loop and a thread pool. PostgreSQL holds a graph (Apache AGE) and a vector
table (pgvector), Redis a cache and request counters. Both are shared by all
workers; nothing else is.

| component | state | operations | interacts with |
|---|---|---|---|
| upload pipeline (`rgs` 53-177, 309-348, 378-421, `data_extractor.py`) | per request: items, model answers, documents, images, embeddings | `generation_rag`, `add_rag_data`, `add_rag_text_data`, `_embed_in_batches`, `_insert_to_collection` | model and embedding services, storage, cache invalidation |
| graph and vector writes (`age` 28-113, `pg` 92-112, 248-262) | Service and Screen nodes, `rag_embeddings` | `save_documents`: MERGE, MATCH/CREATE, INSERT for each document, each its own transaction | upload pipeline, reads |
| search and graph reads (`rgs` 179-307, `age` 115-199, `pg` 114-246) | none of their own | `search_rag`, `search_by_image`, `analyze_code_impact`, `get_screens_by_service`, `get_related_screens` | storage, cache, encoders, reranker |
| cache (`redis_cache_client.py`) | Redis keys with a TTL | GET, SET, SCAN+DEL by pattern; a no-op without `REDIS_HOST` | reads, uploads |
| admission (`core/middleware/security.py`) | `rl:{key prefix}:{minute}` counters in Redis | `verify_api_key`, `rate_limit` | every endpoint but `/health` |
| lazy models (`clip_embedding_client.py`, `cross_encoder_client.py`) | a class attribute in each worker | `_ensure_model`, encode, predict | reads and uploads, in threads |
| ranking (`pg` 124-237, `rgs` 191-221) | none | vector, visual, hybrid (RRF), over-fetch and rerank | reads |
| names (`rag_controller.py` 20-28, `age` 7-12, `rgs` 31-35) | none | system prefix, graph label, cache key, delete pattern | all |
| multipart forms (`rgs` 86-114, 141-156) | none | list padding and fallbacks | upload pipeline |
| connection pool (`pg` 16-33, 248-278) | connections of a worker | checkout, timeout, commit/rollback, return | every statement |
| startup, container, health (`main.py`, `di_container.py`, `pg` 37-90, controller 170-193) | registered singletons, table and indexes | registration, DDL, health check | all |
| model, embedding, prompt clients; metrics; request/response models | none that is read back | external calls, counters, declarations | pipeline, reads |

What is hard: uploads and reads interleave at every `await` and in threads;
three transactions for each document and no transaction around them; model calls
that fail one by one and end in any order, whose results are filtered into
parallel lists and joined again by index; `MERGE` without a unique constraint;
an invalidation that is a loop of SCAN and DEL and runs beside SETs of values
read earlier; counters whose key is computed before the INCR and whose TTL is a
second command; workers that die at any point. `PROJECT.json` lists these as
hazards, each with its line and the properties that would catch it.

For each component, correct means:

- *upload pipeline and writes*: what a search finds has its place in the graph;
  text, image embedding and metadata of a row are of one item; `ok` means that
  every item the model could analyse is stored once; a failure leaves a prefix;
  every upload is answered.
- *search and cache*: cached answers hold only stored documents of the right
  collections; an invalidation that ran to its end leaves no answer that was
  there before the upload; no stale answer outlives its TTL by being written
  again; reads past the cache see all that was acknowledged.
- *admission*: a minute's counter misses nothing; no more than the limit get
  through on its word; refusals are deserved; counters do not leak without a
  failure.
- *lazy models*: nobody encodes without a finished model, and a warm call loads
  nothing.
- *graph reads*: the graph and the vector table agree on what belongs to a
  service; documents of one service find each other, and none finds itself by its
  own name, also in graphs that a race has left with duplicates.
- *ranking*: as many rows as were asked for and can be found; a row that is
  better everywhere stays better; the cuts before the fusion and the reranker
  lose nothing that matters.
- *forms and names*: no image or service of a form is lost or stored under
  another's screen; names of two systems, two collections or two questions do
  not meet after conversion; an invalidation reaches its collection.
- *pool, startup, health*: no connection leaks, no job waits for ever, a worker
  serves only over a committed table and in the end does, and the health check
  says nothing that was not so.

## 2. The modules

| module | models | checked by |
|---|---|---|
| `Library` | the abstract promise of an upload | refined by `Ingestion` |
| `Ingestion` | upload pipeline, graph and vector writes | `MCIngestion`, `IngestionProofs`, `IngestionRefinement` |
| `GraphReads` (extends `Ingestion`) | the graph queries over what uploads leave | `MCIngestion`, `IngestionProofs` |
| `SearchCache` | reads, cache, invalidation, the end of uploads | `MCSearchCache`, `SearchCacheProofs` |
| `Ranking` | vector, visual and hybrid search, over-fetching, reranking | `MCRanking`, `RankingProofs` |
| `Requests` | form items, collection, label, cache key, delete pattern | `MCRequests`, `RequestsProofs` |
| `Admission` | authentication and rate limiting | `MCAdmission`, `AdmissionProofs` |
| `LazyModel` | lazy loading | its own cfgs, `LazyModelProofs` |
| `Connections` | pools and threads of the workers, DDL at startup, health check | `MCConnections`, `ConnectionsProofs` |

Operators whose comment begins with "Slip" are not part of the specifications.
They are variants of the next definition with a plausible programming error;
put in its place, each makes a property fail, which shows what the property is
worth. `PROJECT.json` ("mutants") pairs them.

### Ingestion

One upload `r` goes `idle -> analysing -> embed -> (merge -> [create ->] screen
-> insert)* -> saved -> ok`, or to `error` from any point after `idle`.

- `Start`, `Answer`: the gather of `rgs` 71-72, 116-117, 158-159. Each model call
  ends on its own with a service (the `service_name` and `version` the *model*
  wrote into `input_metadata`: `data_extractor.py:42` reads the answer, not the
  request), an exception (of the call or of `json.loads`), or JSON without a
  field that `create_column_document` reads.
- `Gather` drops exceptions and keeps order; image uploads keep a parallel list
  of images (`rgs` 119-133), the bulk and text uploads have none. `Reject` is the
  KeyError of one malformed answer, which fails the whole upload.
- `EmbedBatch`, `Encode`: `_embed_in_batches`, then the zip of documents and
  embeddings with the guard on images (`rgs:335`): an index within the list, and an
  image that is not empty (`blank`: the empty files of the request; the row's image
  embedding is then NULL). The guard's last part, `self.clip_client`, always holds,
  since `main.py` 55-58 registers one and `rgs:50` takes it. The bounds of the
  text lists are those of the code; contents are positions.
- `MergeService` and `CreateService` are MERGE's read, on its snapshot, and its
  write: two uploads may both read before either writes. `CreateScreen` makes
  one Screen node for *each* matching Service node. `InsertRow` ends an
  iteration. Each is its own transaction (`get_cursor`).
- `Abort` is every other exception and the death of the worker. Nothing is
  rolled back but the open statement, nothing retried.

Left out: the wording of prompts and contents, and the `collection_exists` query
(its result is only logged). A graph label is `AgeLabel[c]`, any function.

### GraphReads

`ScreensByService` and `RelatedScreens` are the two Cypher patterns of `age`
137-199 as sets of Screen nodes; each is one statement and sees one state. The
module has no actions of its own: its properties are checked in every state that
`Ingestion` reaches, so also between the statements of several uploads, after
failures, and with the duplicate nodes of a race. A related screen may be of
another collection and another system, since the pattern leaves `other` without a
label; that is what the code and the endpoint's description say, and no property
asks for the isolation of systems here, although README.md:184-195 and 283 speak of
it for searches. The target is looked up by its name, and only the node itself is
excluded (`age` 179-181): of two documents that share a screen name (two shots of a
screen, or a repeated upload) each is returned for that name, where the docstring
(`age:175`) says "the other screens". `RelatedThroughAnother` is what holds for any
set of documents that bear the name.

### Library

`status`, `accepted`, `shelf`. Items worth storing are decided once, then
published one by one in the order of the request; `ok` only with all on the
shelf; failure keeps what was published. `Ingestion` maps its program counter,
document list and rows to these.

### SearchCache

An answer is the set of documents it was computed from. A read takes `Hit`, or
`Miss` then `Query` then `Fill` (three separate moments: other requests run in
between), or `Bypass` then `Query` for the two endpoints that do not use the
cache. `get` and `set` swallow Redis errors, and so do `Miss` and `Put`. An upload
here begins where its documents are ready; `Link` and `Insert` alternate,
`EndSave` goes to the sweep for the form endpoints and to the answer for the
bulk endpoint (`rgs:83` is its last line). `Scan` returns any non-empty part of
what the cursor has not passed, with the keys present at that moment; `Delete`
is the DEL of that reply. `Scope` says which collections a key's answer is over (a
graph key's is over all, since Service nodes are shared), `Pattern` which keys a
collection's glob matches.

`Again` lets the readers in `Regulars` send request after request, which is what
`CacheSettles` is about: it would be easy to keep stale values alive by reading them.
`ReadFails` is any call that raises, before the query or after it (the second model
call of `analyze_code_impact`, `rgs:256`).

`late`, `swept` and `base` are history variables: keys whose value was older than
the store when it was SET, uploads whose sweep ran to its end, and what was
acknowledged when a read began.

### Ranking

One search over the rows of a collection that pass the filters. `near` is the
order in which the index on the embedding gives them, `matching` that of the
keyword query; both are any sequences without repetition, of any of the rows
(HNSW may miss some, and not every row has an image embedding or the words). `SearchNear`
is `_vector_search` and `_visual_search`, `SearchHybrid` is `_hybrid_search` with
its two cuts to `3k`, the FULL OUTER JOIN and the RRF score as a fraction (so ties
are exact; the database's decimals may break such a tie either way, and the
model lets it). `Rerank` is the cross-encoder's stable sort and cut. `k` is not
validated in the code: 0 asks for nothing, which is in the run; a negative one is
an error of the database. `search_by_image` and `analyze_code_impact` take the
path of `SearchNear` without reranking.

Worth knowing: each list is cut before the fusion, so a row's rank beyond `3k` in
one list counts as absence, and the fused order may differ from that of uncut
lists. `Dominance` gives what is independent of it. `BothBeatsOne` says of itself
how far it goes: with more than 61 candidates (`k > 20`, or `k > 6` with the reranker,
and nothing bounds `k`) a row low in both lists no longer comes before the first of
one. `HighRanksAnswered` follows a row through the whole search: one that stands high
enough in every list cannot be lost to a cut or a tie, and the reranker drops it only
for rows it finds as relevant. With reranking, the
reranker judges `3k` rows, cut from two lists of `9k`.

### Requests

`AddImages` and `AddTexts` build the items of the two forms: for each field of an
item, which of the values sent it took (0 for the default). `Get` is the fallback
to the first value, `Screen` the padding. The text form is read by the number of
its `service_name` values: a field with fewer raises for the whole form, values
beyond are dropped silently, so one `service_name` with several texts stores the
first. Names are sequences of characters, because prefixing, the
replacement of `:` by `__`, the joining of keys and the glob of SCAN MATCH are the point;
`Matches` is external, Redis' glob as far as these names need it: where the match of
each star ends (`ends`) fixes where each later character of the pattern is matched
(`Place`); `?` is any character, and sets in brackets and escapes are left out. Two
assumptions: a name is a sequence of characters (`RequestsAssumption`), and the MD5,
in hexadecimal, is not a colon (`DigestAssumption`). The
properties of names state under which condition names stay apart: without
colons, and for graph labels without underscores where they could form `__`.
Outside it they do meet (`a:b` and `a__b`; version `all`). `SweepReach` leaves out
collections with `[` or a backslash, whose searches no upload invalidates.

### Admission

`Authenticate`, `Stamp` (reads the clock), `Incr`, `Expire` are the steps between
which a request waits. `Tick` moves the clock and lets Redis drop due counters.
`FailOpen`, `LoseReply` and `Die` are the failures; `LoseReply` is an INCR or an
EXPIRE that Redis has executed, with the answer lost or the worker dead. A Redis that
loses its data is not among them. `counted` records when each INCR was executed.

### LazyModel

`Call`, `Check`, `Build`, `Install`, `LoadFails`, `Encode` for each thread; the
attribute is read again at `Encode`, as in the code.

### Connections

A worker goes `boot -> create -> alter -> serving`: CREATE TABLE IF NOT EXISTS,
then ALTER TABLE, whose ACCESS EXCLUSIVE lock is kept to the commit, all in one
transaction on one connection of the pool (`pg` 37-90). Two workers that do not
see each other's table collide, and one fails its lifespan and is started again
(`BootFails`). A job is a search, an upload of several statements, or a health
check; it waits for a thread of `asyncio.to_thread` (`Begin`), a connection
(`Checkout`), opens a cursor (`Cursor`), waits for the table's lock (`Lock`; `SELECT
1` needs none) and ends with `Commit` or `Rollback`. `CheckoutFails` is the pool's
timeout or a refused connection. `CursorFails` is `pg:253`, before the `try`: the
connection is an orphan until `Collect`. `End` is where the job's exception goes:
to the client, or into the health check's `except`; `Ping` is its second half.
`out` is the pool's own count, and `PoolExact` compares it with who holds what.
`during` records, for a health check, what it could have met. An outage breaks all
connections and ends the transactions and locks on them (`cut`): who held one fails at
its next step, also when the server is back by then (`Lost`).

`pool_recycle` and the pre-ping's replacement of a stale connection happen within
`Checkout`; `close_all_connections` is called by nobody. PostgreSQL's lock queue,
in which an ALTER that waits also holds back later statements, is left out: it
delays statements as a held lock does, and ends with the same events.

## 3. The runs

| run | asks | instance |
|---|---|---|
| `uploads` | graph behind every row, one Service node for each upload, alignment, meaning of `ok`, prefix after failure, implements Library, every upload answered; what the graph queries find | three image items, one of an empty file, in batches of two, beside a bulk upload of one; two collections, two services |
| `upload_race` | one Screen node for each document: **violated** | two uploads of two items (image, text) |
| `cache` | what the invalidation achieves; cached answers are real; uncached reads are fresh; what it misses does not live on | one reader that reads on and on and one that reads once, a form upload of two documents, two search keys and a graph key, all failures, fair expiry |
| `cache_bulk`, `cache_latefill` | no stale search after `ok`: **violated** | one upload, one read, no failures |
| `admission_budget` | exact counters, budget, deserved refusals, burst, leaks | four requests, limit 1, minutes of two ticks, clock to 4 |
| `admission_sliding` | sliding window: **violated** | clock to 3 |
| `model_calls` | model present, warm calls | three threads, two calls each |
| `model_once` | loaded once: **violated** | two threads, one call each |
| `ranking` | number and order of a search's rows | four rows, all orders of both lists, k of 0, 1 and 2, two grades |
| `requests` | items of forms; collections, labels, keys and patterns | fields with 0 to 3 values; names of up to two of `a : _`, and some with `[`, `*`, `?`, a backslash, `a_a` |
| `connections` | pool, waiting, startup, health check | two workers, one connection each, two and one threads; search, health check, upload of two statements; two faults |

The properties, run by run (each is stated in words above its definition):

- `uploads`: `TypeOK`, `VectorBackedByGraph`, `ServiceOncePerUpload`, `Aligned`,
  `AckedComplete`, `FailureLeavesPrefix`, `RefinesLibrary`, `EveryUploadAnswered`, and for
  the graph queries `ServiceListing`, `SameServiceRelated`, `RelatedThroughAnother`;
- `cache`: `TypeOK`, `StaleOnlyByLateFill`, `CachedIsReal`, `UncachedSeesAcked`, `CacheSettles`;
- `admission_budget`: `TypeOK`, `CounterIsExact`, `MinuteBudget`, `RefusedOnlyOverBudget`,
  `BurstBound`, `LeakOnlyByFailure`;
- `model_calls`: `EncodesWithAModel`, `WarmCallsReuse`;
- `ranking`: `AsManyAsAsked`, `Dominance`, `BothBeatsOne`, `HighRanksAnswered`;
- `requests`: `EveryItemComplete`, `NoBorrowedScreen`, `NamesApart`, `KeysApart`, `SweepReach`;
- `connections`: `TypeOK`, `PoolExact`, `WaitsOnlyForThreads`, `ServesOverTable`,
  `HealthHonest`, `EveryJobEnds`, `WorkersServe`;
- violated: `OneScreenPerDocument` (`upload_race`), `InvalidatedWhenStored` (`cache_bulk`,
  `cache_latefill`), `SlidingWindow` (`admission_sliding`), `LoadedOnce` (`model_once`).

Bounds, and why they suffice. Two uploads are enough for every race on the graph
nodes, since each race is between the step of one and the step of
another; the second document of an upload is needed for the duplicate Screen
node (the first race makes the node) and is there. Three items give a failed
answer in the middle and a short last batch. Two services give documents that
share one and that do not. Three keys are two search keys, so that
the sweep can have passed one and not the other, one of them of a collection that the
pattern matches without meaning it, and a graph key that no sweep reaches. Two
uploads over one cache are left to the proofs, where writers, keys and patterns are
any; a bulk upload, which never sweeps, leaves what a sweep does that fails at once.
Limit 1 with three requests of one counter reaches refusal, the limit and beyond
it; a clock of two and a half minutes reaches the end of a minute, delayed
INCRs and the expiry of a counter. `MaxTime` bounds the clock and `MaxCalls` the
calls of a thread; the budget is one for each key *prefix*, and three of the four
requests share one across two keys (README.md:655 says "for each key", the
docstring of `rate_limit` and the code go by the prefix); nothing else is cut off: each request runs
once, and `Again` goes round in finitely many states.
Four rows are one more than the candidates of a search for one, so that both cuts
leave rows out; they are too few for the bound in `BothBeatsOne`, which is the
theorem's. Three values a field are one that is missing, one that is there and
one that is padded. One connection with two threads is the smallest worker in which
a job can find the pool exhausted, and one with one thread the smallest in which it
cannot; `MaxFaults` counts crashes, outages of either server and failing
statements, and two give an outage and a crash in one behaviour, in any order
(recoveries are free).
`CHECK_DEADLOCK FALSE` stands in every cfg because each system ends when its
requests are answered.

Fairness. `Ingestion!FairSpec` has weak fairness on `Work(r)`: the event loop and
the threads of a live worker go on, and each external call ends with a result or
an exception. The code sets no timeout on model, embedding and Redis calls
(`google_client.py:22`), so for those this is what their client libraries are
taken to do, by their own deadlines and retry limits; the pool has a timeout of
30 s. It does not assume that a request starts, that a call succeeds, or that anything fails.
`SearchCache!FairSpec` has weak fairness on `Expire(k)` only: every SET carries
`ex=ttl` (`redis_cache_client.py:31`). Nothing is assumed of readers, writers and
failures. `Connections!FairSpec` has weak fairness on
each job's steps, since threads and the event loop go on, the pool's wait ends by
its timeout, and PostgreSQL answers or refuses; on each worker's start, since the
server process starts its workers again (`Dockerfile:30`), and on the collection of
orphans. It has none on recovery, crashes or submissions: `EveryJobEnds` needs no
database, and `WorkersServe` says itself that the database stays up.
Safety needs none.

### What the violated runs show

1. `cache_bulk`: `generation_rag` never invalidates, while README.md:167 says
   that storing invalidates automatically.
2. `cache_latefill`: a search that queried before the upload can SET after the
   sweep; its stale answer then stays up to an hour. `StaleOnlyByLateFill` and
   its theorem say that, for completed sweeps, this is the only way.
3. `upload_race`: two MERGEs at once leave two Service nodes, and from then on
   each document of that service gets two Screen nodes, against the structure in
   `age` 59-62. `VectorBackedByGraph` holds nevertheless.
4. `admission_sliding`: the window is a fixed clock minute (`security.py:76`),
   while `security.py:60` and README.md call it sliding. `BurstBound` gives what
   holds: twice the limit.
5. `model_once`: both model clients can load their model more than once, while
   their docstrings say once. `WarmCallsReuse` gives what holds.

## 4. The proofs

`tlapm` checks these for all values of the constants.

**`IngestionProofs`** — `IInv` is `TypeOK` and, for each upload, that nothing is
derived before all answers are in (`Fresh`), that the documents are the kept
items in order with their images (`Decided`), that the embeddings are a prefix
made of the right items (`Embeddings`) and that the loop's position fits the
program counter (`Progress`); and for the shared state, that rows are exactly
those of finished loop positions (`RowsInv`), Screen nodes those of finished
positions and perhaps the present one (`ScreensInv`), and Service nodes are
there before the Screen node and once for each upload (`ServicesInv`). None of
the properties is inductive alone: `VectorBackedByGraph` needs that a Screen node
is there when the row comes, which needs that a Service node is there when the
Screen node comes, which needs what MERGE saw; `AckedComplete` needs the loop's
position to count rows. Each action has a lemma. From the invariant follow
`TypeCorrect`, `GraphBacksVectors`, `RowsAreAligned`, `AckMeansStored`,
`PrefixStored` and `MergeOncePerUpload`. Assumptions: `JobAssumption` (uploads have a
kind, a collection and a size), `BatchAssumption` (a positive batch size) and
`ServiceAssumption` (no service is named like an outcome).

The same module proves the graph queries right over every such graph, from `IInv` and two facts
more. `SlotsAndDocs`: within an upload a document and its position determine each
other. `Nested`, itself inductive: of two documents of the same service, one is
linked to every Service node the other is linked to, since a MATCH links to all nodes
of the service at that moment and nodes only come. That is why related screens survive
the race for the MERGE: two documents of a service meet at a node whichever was linked first.
Theorems: `StoresAgree` (`ServiceListing`), `RelatedAcrossRaces`
(`SameServiceRelated`), `NeverRelatedThroughItself`
(`RelatedThroughAnother`).

`UploadsAreBounded` is the part of `EveryUploadAnswered` that needs no fairness.
`StepsLeft(r)` counts the calls still open, the documents not yet embedded and four
steps for each document not yet saved. It is at most `6n + 4` for `n` items, every
step of the upload lowers it (a batch by its length, `BatchFacts`; a row by the
loop's position) and no step of another touches it. It needs that no more documents
are kept than items were sent (`Fits`). So an upload that is never answered waits for
a call or a statement that does not end, and nothing else.

**`IngestionRefinement`** — `ImplementsLibrary`: `Spec => RefinesLibrary`. Of the
steps of `Ingestion`, `Gather` is `Decide`, `InsertRow` is `Publish`, `Respond` is
`Ack`, `Reject` and `Abort` are `Fail`, and the others are stutters. It uses
`IInv` for the order of publication and for completeness at `Ack`.

**`SearchCacheProofs`** — `IInv` adds to `TypeOK`: an upload that sweeps, answers or
has swept has its rows in place (`StoreInv`); what a reader holds is in the store
and reaches back to where it began (`ReaderInv`); behind the SCAN cursor every key
is clean or about to be deleted (`SweepInv`). The last is the argument for a
SCAN that is not atomic: a key filled behind the cursor was queried after the
insert, or is a late one. Theorems: `TypeCorrect`, `OnlyLateFillsAreStale`,
`CachedAnswersAreReal`, `UncachedReadsAreFresh`. Assumptions: `KeyAssumption`,
`PatternAssumption` (a collection's pattern matches the search keys over it),
`UploadAssumption`, `SwitchAssumption`.

**`RankingProofs`** — about the order of sums of fractions: `FusionRespectsLists`
(`Dominance`) from the monotony of `1/(60+rank)` in each list and from cuts that keep
prefixes; `TwoListsBeatOne` (`BothBeatsOne`, with its bound `CandidateK <= 61`), because
`1/(60+61) + 1/(60+61) > 1/61`; at 62 candidates there is a tie, so the bound is sharp.
`HighRanksSurvive` (`HighRanksAnswered`): the rows ahead of `x` after the fusion are each
ahead of it in one of the lists (`OneBehind`), so they are fewer than `Standing(x)`;
hence the cut to `fetch_k` keeps `x` (`Carried`, inductive), and the reranker's cut to `k`
puts only rows before it that it judges no worse. `SearchFindsEnough` (`AsManyAsAsked`):
a cut of a list without repetition has as many rows as it may (`FirstList`, `ListCount`), and
the join has no fewer than either list (`JoinedEnough`); so at each stage there are as many
rows as the rest of the way may ask for, or all there are (`Enough`, inductive). Assumptions: `NumberAssumption`,
`RowsAssumption`.

**`ConnectionsProofs`** — `IInv` is `TypeOK`, `PoolExact`, `ServesOverTable` and: no more
running jobs than threads (`WithinThreads`), no orphans before a worker serves
(`Quiet`), statements left for every job not at its end (`Owing`), and each claim of
a health check witnessed by what it met (`HealthInv`), a broken connection included
(`CutSeen`: once the server is back, such a check has met its absence). Job steps go through one lemma
(`JobMove`): the pool's count, its orphans and the holders change together. A
pool found exhausted without orphans has as many holders as connections, all
of them running beside the waiting job: `ThreadsExhaustPools`. Others: `TypeCorrect`,
`NothingLeaks`, `TableBeforeService`, `HealthTells`. Two more are the parts of
`EveryJobEnds` that need no fairness: `JobsAreBounded` (a job of `n` statements has at
most `4n + 3` steps before it, each step of its own lowers their number and none of
another raises it: nothing is tried again) and `AlwaysAWayOn` (while a job has not
ended or a worker sets up, the guard of a step of one of them holds: who waits for a
thread waits for one that runs, that one at most for the lock or for statements, and
the lock's holder for nobody). `CanStep` and `CanSetUp` write out when `JobStep`
and `WorkerStep` are enabled. Assumptions: `WorkersAssumption`,
`JobsAssumption` (positive pools, thread counts and statement counts, finitely many
jobs).

**`AdmissionProofs`** — none of the five is inductive alone. `IInv` adds: requests read
the clock before they count (`Stamped`); no TTL ends within its counter's minute
(`Kept`: an EXPIRE begins within the minute or later and lasts one); hence a
counter never shows more than was counted (`NeverMore`) and, until its minute is over,
exactly that (`Exact`); those let through, or waiting for their EXPIRE to be, are
within the budget (`WithinBudget`). Theorems: `TypeCorrect`, `CountersExact`,
`BudgetKept`, `RefusalsDeserved`, `TwoBudgets` (sixty seconds lie in two minutes),
`LeaksExplained`. Assumptions: `RequestsAssumption` (finitely many requests,
identifiers for all keys), `LimitAssumption`, `WindowAssumption`.

**`LazyModelProofs`** — `TypeCorrect`, `EncodingsHaveAModel` and `WarmCallsLoadNothing`,
from: only finished models are assigned, and a warm call is never where models are
built. Assumptions: `CallsAssumption`, `NoneAssumption` (no model is `None`).

**`RequestsProofs`** — for forms and names of any size. `Handled` says what the items of
an accepted form and the key of an accepted request are (`ImageItems`, `TextItems`,
`Answered`); it is inductive (`RequestsHandled`), and the rest is about the operators.
For the labels, `FlattenSeq` is unfolded once (`Flattened`), and a label is what the
characters of a name leave one after the other (`Replaced`): a name without a colon is
its own label, and the colon of a joined one becomes two underscores. Where something is
shown for every position of a name, the argument is by its least counterexample
(`LeastMember`, from the well-foundedness of the natural numbers) and not by induction
over an operator: two joined names without other colons have their colon at the same
place (`FirstColon`); their labels have their first `__` there when no other underscores
meet (`TwoUnderscores`, `LabelsApart`). A pattern's characters before its first star match
themselves (`MatchesPrefix`), and a name's own stars can each stand for themselves
(`InPlace`, `MatchesAlike`). Keys of different kinds differ in their first part, keys of one
kind are split at their colons (`KeyParts`, `RelatedApart`, `QuestionsApart`).
Theorems: `FormsComplete` (`EveryItemComplete`), `ScreensTheirOwn` (`NoBorrowedScreen`),
`SystemsApart` (`NamesApart`), `AnswersApart` (`KeysApart`), `SweepsItsOwn` (`SweepReach`).
Assumptions: `RequestsAssumption`, `DigestAssumption`.

So every invariant and action property of the passing runs is a theorem, and the
refinement is. Only model-checked are the liveness properties
(`EveryUploadAnswered`, `CacheSettles`, `EveryJobEnds`, `WorkersServe`), since liveness under
fairness is out of the prover's reach; and of course the properties that the code
violates. Only proved, in the sense that no run sets it: `UncachedSeesAcked` without Redis
(`Redis = FALSE`), `TypeOK` of `LazyModel`, `UploadsAreBounded`, `JobsAreBounded` and
`AlwaysAWayOn`.

## 5. What is not modelled

- *Content*: prompts, extracted text, scores, JSON. Answers of external services
  are inputs.
- *A repeated upload*: documents have no identity in the code, so a client that
  sends a failed upload again stores its prefix twice. There is no promise to
  check.
- *The dependency container* (`di_container.py`): a dictionary that one coroutine
  fills before the first request and nobody changes after it.
- *Forms without a `collection_name`* (the collection is then called `None`), and
  files that cannot be read: an exception before anything is stored, which is
  `Abort` in `Ingestion`.
- *Filters*: which rows pass `metadata @> filters` is an input of `Ranking`.
- *External clients* (`llm/`, `embedding/`): no state; their results and failures are
  inputs. *Metrics, declarations, prompts, static files*: no behaviour.

## 6. State and plan

Done: `Library`, `Ingestion`, `GraphReads`, `SearchCache`, `Admission`, `LazyModel`,
`Ranking`, `Requests` and `Connections`, each with its proofs, and the refinement of
`Library`. Every stateful part of the server is modelled.

Left, in this order:

1. `RagSystem`: `Ingestion` and `SearchCache` composed over one store, so that the
   rows a search answers are those of `Ingestion` and not sets of documents.
2. PostgreSQL's lock queue in `Connections`, where a waiting ALTER holds back later
   searches.

----------------------------- MODULE Ingestion -----------------------------
(* The upload path: generation_rag, add_rag_data and add_rag_text_data of    *)
(* RagGenerationService, _insert_to_collection, and save_documents of        *)
(* AgeRepositoryImpl with the graph and the vector table it writes.  Any     *)
(* number of uploads run at once, in the threads and worker processes of the *)
(* server; every statement that reaches PostgreSQL is its own transaction.   *)
EXTENDS Integers, Sequences

CONSTANTS
    Requests,       \* the uploads
    Collections,    \* the collections uploads name, system prefix included
    Services,       \* the (service name, version) pairs an answer can carry
    Job,            \* Job[r]: which endpoint, which collection, how many items,
                    \* and which of its image files are empty (blank)
    AgeLabel,       \* AgeLabel[c]: the graph label of collection c
    BatchSize       \* _EMBED_BATCH_SIZE

Kinds == {"generation", "image", "text"}

JobAssumption == Job \in [Requests -> [kind : Kinds, coll : Collections, size : Nat,
                                       blank : SUBSET Nat]]
BatchAssumption == BatchSize \in Nat \ {0}
ServiceAssumption == Services \cap {"pending", "error", "malformed"} = {}
ASSUME JobAssumption
ASSUME BatchAssumption
ASSUME ServiceAssumption

VARIABLES
    pc,         \* pc[r]: where upload r stands
    llm,        \* llm[r][i]: the outcome of the model call for item i
    docs,       \* docs[r]: the items that became documents, as positions
    imgs,       \* docs's images for the CLIP encoder (base64_images)
    embs,       \* embs[r]: the text embeddings, by the item they are of
    slot,       \* slot[r]: how many documents save_documents has finished
    services,   \* Service nodes: [key, req, slot], with the step that made it
    screens,    \* Screen nodes, each with the Service node it belongs to
    rows        \* rows of rag_embeddings

vars == <<pc, llm, docs, imgs, embs, slot, services, screens, rows>>

-----------------------------------------------------------------------------
(* An answer's outcome: the service the model wrote into input_metadata, an  *)
(* exception of the call or of json.loads, or JSON without the fields that   *)
(* create_column_document reads.                                             *)
Outcomes == Services \cup {"error", "malformed"}

Positions(r) == 1..Job[r].size

(* Slip: waiting for a good answer to every item, not for any answer.        *)
AllSucceeded(r) == \A i \in Positions(r) : llm[r][i] \in Services

AllAnswered(r) == \A i \in Positions(r) : llm[r][i] # "pending"

(* Slip: gather's exceptions are left in the results.                        *)
KeptWithExceptions(r) == Positions(r)

(* results_raw without its exceptions                                        *)
Kept(r) == {i \in Positions(r) : llm[r][i] # "error"}

Malformed(r) == \E i \in Positions(r) : llm[r][i] = "malformed"

(* Slip: results are taken as they complete (asyncio.as_completed).          *)
InAnyOrder(f, S) ==
    /\ \A j \in 1..Len(f) : f[j] \in S
    /\ \A j, k \in 1..Len(f) : j # k => f[j] # f[k]
    /\ \A i \in S : \E j \in 1..Len(f) : f[j] = i

(* f lists the members of S in increasing order.                             *)
InOrder(f, S) ==
    /\ \A j \in 1..Len(f) : f[j] \in S
    /\ \A j, k \in 1..Len(f) : j < k => f[j] < f[k]
    /\ \A i \in S : \E j \in 1..Len(f) : f[j] = i

Listings(r) == UNION {[1..m -> Positions(r)] : m \in 0..Job[r].size}

(* Slip: the request's images are passed on, those of failed items included. *)
AttachedUnfiltered(r, f) ==
    IF Job[r].kind = "image" THEN [i \in Positions(r) |-> i] ELSE << >>

(* The images handed to _insert_to_collection beside the documents f.        *)
Attached(r, f) == IF Job[r].kind = "image" THEN f ELSE << >>

Embedded(r) == Len(embs[r]) = Len(docs[r])

(* texts[i:i + _EMBED_BATCH_SIZE] for the next i                             *)
Batch(r) ==
    LET first == Len(embs[r]) + 1
        last  == Len(embs[r]) + BatchSize
    IN  SubSeq(docs[r], first, IF last < Len(docs[r]) THEN last ELSE Len(docs[r]))

(* The image embedding of the j-th document, 0 for NULL.  The fourth part    *)
(* of the condition, self.clip_client, always holds: main.py registers one.  *)
Clip(r, j) ==
    IF j <= Len(imgs[r]) /\ imgs[r][j] \notin Job[r].blank THEN imgs[r][j] ELSE 0

(* The service of the j-th document: metadata comes from the model's answer. *)
ServiceOf(r, j) == llm[r][docs[r][j]]

Current(r) == slot[r] + 1

Matching(r) == {m \in services : m.key = ServiceOf(r, Current(r))}

(* Slip: the Screen node is linked to a Service node only if this upload     *)
(* made it.                                                                  *)
ScreenNodesOfOwnService(r) ==
    {[req |-> r, slot |-> Current(r), doc |-> docs[r][Current(r)],
      label |-> AgeLabel[Job[r].coll], node |-> m] :
          m \in {n \in Matching(r) : n.req = r}}

(* MATCH (s:Service) CREATE (n)-[:BELONGS_TO]->(s): a Screen for each match. *)
ScreenNodes(r) ==
    {[req |-> r, slot |-> Current(r), doc |-> docs[r][Current(r)],
      label |-> AgeLabel[Job[r].coll], node |-> m] : m \in Matching(r)}

RowOf(r, j) ==
    [req |-> r, slot |-> j, coll |-> Job[r].coll, doc |-> docs[r][j],
     svc |-> ServiceOf(r, j), emb |-> embs[r][j], clip |-> Clip(r, j)]

(* Slip: CREATE in the place of MERGE.                                       *)
AfterCreate(r) == "create"

(* MERGE (s:Service): nothing to do when a node matches.                     *)
AfterMerge(r) == IF Matching(r) # {} THEN "screen" ELSE "create"

(* Slip: the loop ends one document early.                                   *)
AtDocumentButLast(r, j) == IF j < Len(docs[r]) THEN "merge" ELSE "saved"

(* The for loop of save_documents, before document j.                        *)
AtDocument(r, j) == IF j <= Len(docs[r]) THEN "merge" ELSE "saved"

(* Slip: an except clause around the storing logs and goes on.               *)
AfterSwallowed(r) == "saved"

(* Where an exception leaves the request: nothing catches it, FastAPI        *)
(* answers 500, and what was committed stays.                                *)
AfterFailure(r) == "error"

-----------------------------------------------------------------------------
Init ==
    /\ pc = [r \in Requests |-> "idle"]
    /\ llm = [r \in Requests |-> [i \in Positions(r) |-> "pending"]]
    /\ docs = [r \in Requests |-> << >>]
    /\ imgs = [r \in Requests |-> << >>]
    /\ embs = [r \in Requests |-> << >>]
    /\ slot = [r \in Requests |-> 0]
    /\ services = {}
    /\ screens = {}
    /\ rows = {}

(* The request's items are built and the model calls are all started.        *)
Start(r) ==
    /\ pc[r] = "idle"
    /\ pc' = [pc EXCEPT ![r] = "analysing"]
    /\ UNCHANGED <<llm, docs, imgs, embs, slot, services, screens, rows>>

(* One model call of the gather ends; they end in any order.                 *)
Answer(r, i) ==
    /\ pc[r] = "analysing"
    /\ llm[r][i] = "pending"
    /\ \E o \in Outcomes : llm' = [llm EXCEPT ![r][i] = o]
    /\ UNCHANGED <<pc, docs, imgs, embs, slot, services, screens, rows>>

(* asyncio.gather returns; exceptions are dropped, the rest are documents.   *)
Gather(r) ==
    /\ pc[r] = "analysing"
    /\ AllAnswered(r)
    /\ ~ Malformed(r)
    /\ \E f \in Listings(r) :
          /\ InOrder(f, Kept(r))
          /\ docs' = [docs EXCEPT ![r] = f]
          /\ imgs' = [imgs EXCEPT ![r] = Attached(r, f)]
    /\ pc' = [pc EXCEPT ![r] = "embed"]
    /\ UNCHANGED <<llm, embs, slot, services, screens, rows>>

(* One answer lacks a field: create_column_document raises for all of them.  *)
Reject(r) ==
    /\ pc[r] = "analysing"
    /\ AllAnswered(r)
    /\ Malformed(r)
    /\ pc' = [pc EXCEPT ![r] = AfterFailure(r)]
    /\ UNCHANGED <<llm, docs, imgs, embs, slot, services, screens, rows>>

(* One embed_documents call of _embed_in_batches.                            *)
EmbedBatch(r) ==
    /\ pc[r] = "embed"
    /\ ~ Embedded(r)
    /\ embs' = [embs EXCEPT ![r] = @ \o Batch(r)]
    /\ UNCHANGED <<pc, llm, docs, imgs, slot, services, screens, rows>>

(* The rest of _insert_to_collection before save_documents: documents and    *)
(* embeddings are zipped, images go through the CLIP encoder.                *)
Encode(r) ==
    /\ pc[r] = "embed"
    /\ Embedded(r)
    /\ pc' = [pc EXCEPT ![r] = AtDocument(r, 1)]
    /\ UNCHANGED <<llm, docs, imgs, embs, slot, services, screens, rows>>

(* MERGE evaluates its pattern on the statement's snapshot.                  *)
MergeService(r) ==
    /\ pc[r] = "merge"
    /\ pc' = [pc EXCEPT ![r] = AfterMerge(r)]
    /\ UNCHANGED <<llm, docs, imgs, embs, slot, services, screens, rows>>

(* ... and, having matched nothing, creates the node and commits.  No        *)
(* constraint makes (name, version) unique.                                  *)
CreateService(r) ==
    /\ pc[r] = "create"
    /\ services' = services \cup
          {[key |-> ServiceOf(r, Current(r)), req |-> r, slot |-> Current(r)]}
    /\ pc' = [pc EXCEPT ![r] = "screen"]
    /\ UNCHANGED <<llm, docs, imgs, embs, slot, screens, rows>>

(* The second statement of the loop.                                         *)
CreateScreen(r) ==
    /\ pc[r] = "screen"
    /\ screens' = screens \cup ScreenNodes(r)
    /\ pc' = [pc EXCEPT ![r] = "insert"]
    /\ UNCHANGED <<llm, docs, imgs, embs, slot, services, rows>>

(* insert_embedding: the third statement; the loop moves to the next one.    *)
InsertRow(r) ==
    /\ pc[r] = "insert"
    /\ rows' = rows \cup {RowOf(r, Current(r))}
    /\ slot' = [slot EXCEPT ![r] = Current(r)]
    /\ pc' = [pc EXCEPT ![r] = AtDocument(r, Current(r) + 1)]
    /\ UNCHANGED <<llm, docs, imgs, embs, services, screens>>

(* The thread is back, the cache invalidated, the answer is {"result":"ok"}. *)
Respond(r) ==
    /\ pc[r] = "saved"
    /\ pc' = [pc EXCEPT ![r] = "ok"]
    /\ UNCHANGED <<llm, docs, imgs, embs, slot, services, screens, rows>>

(* An exception anywhere on the way, or the death of the worker process: a   *)
(* missing form field, the embedding or CLIP call, a connection, a           *)
(* statement, or a commit whose confirmation is lost.                        *)
Running == {"analysing", "embed", "merge", "create", "screen", "insert", "saved"}

Abort(r) ==
    /\ pc[r] \in Running
    /\ pc' = [pc EXCEPT ![r] = AfterFailure(r)]
    /\ UNCHANGED <<llm, docs, imgs, embs, slot, services, screens, rows>>

-----------------------------------------------------------------------------
(* The steps a live server takes for upload r once it has begun.             *)
Work(r) ==
    \/ \E i \in Positions(r) : Answer(r, i)
    \/ Gather(r)
    \/ Reject(r)
    \/ EmbedBatch(r)
    \/ Encode(r)
    \/ MergeService(r)
    \/ CreateService(r)
    \/ CreateScreen(r)
    \/ InsertRow(r)
    \/ Respond(r)

Next == \E r \in Requests : Start(r) \/ Work(r) \/ Abort(r)

Spec == Init /\ [][Next]_vars

(* External calls and statements end, with a result or an exception.         *)
FairSpec == Spec /\ \A r \in Requests : WF_vars(Work(r))

-----------------------------------------------------------------------------
Done == {"ok", "error"}
PCs == {"idle"} \cup Running \cup Done

NodeType == [key : Services, req : Requests, slot : Nat]

(* TypeOK: every variable keeps its type through all steps of an upload.     *)
TypeOK ==
    /\ pc \in [Requests -> PCs]
    /\ DOMAIN llm = Requests
    /\ \A r \in Requests : llm[r] \in [Positions(r) -> Outcomes \cup {"pending"}]
    /\ docs \in [Requests -> Seq(Nat)]
    /\ imgs \in [Requests -> Seq(Nat)]
    /\ embs \in [Requests -> Seq(Nat)]
    /\ slot \in [Requests -> Nat]
    /\ \A m \in services : m \in NodeType
    /\ \A s \in screens : s \in [req : Requests, slot : Nat, doc : Nat,
                                 label : {AgeLabel[c] : c \in Collections},
                                 node : NodeType]
    /\ \A w \in rows : w \in [req : Requests, slot : Nat, coll : Collections,
                              doc : Nat, svc : Services, emb : Nat, clip : Nat]

ScreenFor(s, w) == s.req = w.req /\ s.doc = w.doc

(* VectorBackedByGraph: a search result always has its place in the graph:   *)
(* every row of rag_embeddings has a Screen node, under the label of the     *)
(* row's own collection, that belongs to a Service node of the row's         *)
(* service -- whatever failed in between, and whoever raced.                 *)
VectorBackedByGraph ==
    \A w \in rows : \E s \in screens :
        /\ ScreenFor(s, w)
        /\ s.label = AgeLabel[w.coll]
        /\ s.node \in services
        /\ s.node.key = w.svc

(* Aligned: although failed answers are dropped from the middle of the list  *)
(* and embeddings come in batches, a row's embedding, image embedding and    *)
(* service are all those of the item the row was made from; the image        *)
(* embedding is missing only where that item's own file is empty.            *)
Aligned ==
    \A w \in rows :
        /\ w.emb = w.doc
        /\ w.svc = llm[w.req][w.doc]
        /\ w.clip = IF Job[w.req].kind = "image" /\ w.doc \notin Job[w.req].blank
                    THEN w.doc ELSE 0

(* AckedComplete: an upload answered "ok" has exactly one row for each item  *)
(* whose model call succeeded, and none for the others.                      *)
AckedComplete ==
    \A r \in Requests : pc[r] = "ok" =>
        /\ \A i \in Kept(r) : \E w \in rows : w.req = r /\ w.doc = i
        /\ \A w \in rows : w.req = r => w.doc \in Kept(r)
        /\ \A v, w \in rows : v.req = r /\ w.req = r /\ v.doc = w.doc => v = w

(* FailureLeavesPrefix: at any moment, a failure included, an upload's rows  *)
(* are a prefix of its documents, each once, and at most the one document    *)
(* after the prefix has a Screen node without a row: what a failed upload    *)
(* leaves behind is known from the number of its rows.                       *)
FailureLeavesPrefix ==
    /\ \A v, w \in rows : v.req = w.req /\ v.doc = w.doc => v = w
    /\ \A w \in rows : \A i \in Kept(w.req) :
          i < w.doc => \E v \in rows : v.req = w.req /\ v.doc = i
    /\ \A s, t \in screens :
          s.req = t.req /\ s.doc # t.doc =>
             \E w \in rows : ScreenFor(s, w) \/ ScreenFor(t, w)

(* ServiceOncePerUpload: MERGE spares one upload a second Service node of    *)
(* its own: two nodes of the same service come from two uploads.             *)
ServiceOncePerUpload ==
    \A m, n \in services : m.key = n.key /\ m.req = n.req => m = n

(* OneScreenPerDocument: a document is one Screen node and one row, the      *)
(* structure save_documents states.                                          *)
OneScreenPerDocument ==
    \A s, t \in screens : s.req = t.req /\ s.doc = t.doc => s = t

(* EveryUploadAnswered: an upload that began is answered, whichever calls    *)
(* fail and whoever it races.                                                *)
EveryUploadAnswered ==
    \A r \in Requests : pc[r] = "analysing" ~> pc[r] \in Done

-----------------------------------------------------------------------------
(* The upload as the client sees it.                                         *)
StatusOf(p) ==
    IF p \in {"idle", "analysing"} THEN "open"
    ELSE IF p \in Done THEN p ELSE "storing"

Promise == INSTANCE Library WITH
    Items    <- [r \in Requests |-> Job[r].size],
    status   <- [r \in Requests |-> StatusOf(pc[r])],
    accepted <- [r \in Requests |-> {docs[r][j] : j \in 1..Len(docs[r])}],
    shelf    <- {<<w.req, w.doc>> : w \in rows}

(* RefinesLibrary: the upload path keeps the promise of Library.             *)
RefinesLibrary == Promise!Spec
=============================================================================

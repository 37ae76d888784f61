-------------------------- MODULE IngestionProofs --------------------------
(* The safety properties of Ingestion, and of the graph queries over what it *)
(* leaves, for any uploads at once, any number of items, any batch size and  *)
(* any services.                                                             *)
EXTENDS GraphReads, SequenceTheorems, FiniteSetTheorems, TLAPS

-----------------------------------------------------------------------------
(* The inductive invariant.                                                  *)

(* The answers are in, none is malformed, and docs lists the ones to keep.   *)
Analysed(r) ==
    /\ \A i \in Positions(r) : llm[r][i] \in Services \cup {"error"}
    /\ InOrder(docs[r], Kept(r))
    /\ imgs[r] = Attached(r, docs[r])

(* Nothing is derived from the answers before they are all there.            *)
Fresh(r) ==
    pc[r] \in {"idle", "analysing"} =>
        docs[r] = << >> /\ imgs[r] = << >> /\ embs[r] = << >> /\ slot[r] = 0

Decided(r) ==
    pc[r] \in {"embed", "merge", "create", "screen", "insert", "saved", "ok"}
       \/ slot[r] > 0 \/ Len(docs[r]) > 0 => Analysed(r)

(* Embeddings are made front to back, each from its own document.            *)
Embeddings(r) ==
    /\ Len(embs[r]) <= Len(docs[r])
    /\ \A j \in 1..Len(embs[r]) : embs[r][j] = docs[r][j]
    /\ pc[r] \in {"merge", "create", "screen", "insert", "saved", "ok"} => Embedded(r)
    /\ slot[r] > 0 => Embedded(r)

(* The loop of save_documents stands at a document until it has ended.       *)
Progress(r) ==
    /\ slot[r] <= Len(docs[r])
    /\ pc[r] = "embed" => slot[r] = 0
    /\ pc[r] \in {"merge", "create", "screen", "insert"} => slot[r] < Len(docs[r])
    /\ pc[r] \in {"saved", "ok"} => slot[r] = Len(docs[r])

(* The rows are those of the documents the loop has finished.                *)
RowsInv ==
    /\ \A w \in rows : w.slot \in 1..slot[w.req] /\ w = RowOf(w.req, w.slot)
    /\ \A r \in Requests : \A j \in 1..slot[r] : RowOf(r, j) \in rows

(* Screen nodes exist for finished documents and the one in progress.        *)
ScreensInv ==
    /\ \A s \in screens :
          /\ s.slot \in 1..Len(docs[s.req])
          /\ s.slot <= Current(s.req)
          /\ s.slot = Current(s.req) => pc[s.req] \in {"insert", "error"}
          /\ s.doc = docs[s.req][s.slot]
          /\ s.label = AgeLabel[Job[s.req].coll]
          /\ s.node \in services
          /\ s.node.key = ServiceOf(s.req, s.slot)
    /\ \A r \in Requests : \A j \in 1..slot[r] :
          \E s \in screens : s.req = r /\ s.slot = j
    /\ \A r \in Requests : pc[r] = "insert" =>
          \E s \in screens : s.req = r /\ s.slot = Current(r)

(* An upload makes a Service node only where it has none of that key, and    *)
(* whoever made it, one is there before the Screen node.                     *)
ServicesInv ==
    /\ \A m \in services :
          /\ m.slot \in 1..Len(docs[m.req])
          /\ m.slot <= Current(m.req)
          /\ m.slot = Current(m.req) => pc[m.req] \in {"screen", "insert", "error"}
          /\ m.key = ServiceOf(m.req, m.slot)
    /\ \A r \in Requests : pc[r] = "create" =>
          \A m \in Matching(r) : m.req # r
    /\ \A r \in Requests : pc[r] = "screen" => Matching(r) # {}
    /\ ServiceOncePerUpload

Local(r) == Fresh(r) /\ Decided(r) /\ Embeddings(r) /\ Progress(r)

IInv ==
    /\ TypeOK
    /\ \A r \in Requests : Local(r)
    /\ RowsInv
    /\ ScreensInv
    /\ ServicesInv

(* The invariant holds at the start, when nothing is stored or begun.        *)
LEMMA InitInv == Init => IInv
<1> SUFFICES ASSUME Init PROVE IInv
  OBVIOUS
<1>1. TypeOK
  BY JobAssumption DEF Init, TypeOK, PCs, Running, Done, Positions
<1>2. ASSUME NEW r \in Requests PROVE Local(r)
  <2>1. /\ pc[r] = "idle" /\ slot[r] = 0
        /\ docs[r] = << >> /\ imgs[r] = << >> /\ embs[r] = << >>
    BY DEF Init
  <2> QED BY <2>1 DEF Local, Fresh, Decided, Embeddings, Progress, Embedded
<1>3. RowsInv /\ ScreensInv
  BY DEF Init, RowsInv, ScreensInv
<1>4. ServicesInv
  BY DEF Init, ServicesInv, ServiceOncePerUpload, Matching
<1> QED BY <1>1, <1>2, <1>3, <1>4 DEF IInv

(* What a step leaves alone for q keeps q's part of the invariant.           *)
LEMMA LocalFrame ==
  ASSUME NEW q \in Requests, Local(q),
         pc'[q] = pc[q], llm'[q] = llm[q], docs'[q] = docs[q],
         imgs'[q] = imgs[q], embs'[q] = embs[q], slot'[q] = slot[q]
  PROVE  Local(q)'
<1>1. Kept(q)' = Kept(q) /\ Positions(q)' = Positions(q)
  BY DEF Kept, Positions
<1>2. Analysed(q)' <=> Analysed(q)
  BY <1>1 DEF Analysed, InOrder, Attached
<1>3. Embedded(q)' <=> Embedded(q)
  BY DEF Embedded
<1>4. Fresh(q)' /\ Progress(q)'
  BY DEF Local, Fresh, Progress
<1>5. Decided(q)'
  BY <1>2 DEF Local, Decided
<1>6. Embeddings(q)'
  BY <1>3 DEF Local, Embeddings
<1> QED BY <1>4, <1>5, <1>6 DEF Local

(* A listed document is an item with a service of its own.                   *)
LEMMA DocsTyped ==
  ASSUME TypeOK, NEW r \in Requests, Analysed(r), NEW j \in 1..Len(docs[r])
  PROVE  /\ docs[r][j] \in Positions(r)
         /\ docs[r][j] \in Nat
         /\ ServiceOf(r, j) \in Services
         /\ Clip(r, j) \in Nat
<1>1. docs[r] \in Seq(Nat) /\ Len(docs[r]) \in Nat
  BY DEF TypeOK
<1>2. docs[r][j] \in Kept(r)
  BY DEF Analysed, InOrder
<1>3. docs[r][j] \in Positions(r) /\ docs[r][j] \in Nat
  BY <1>1, <1>2 DEF Kept
<1>4. ServiceOf(r, j) \in Services
  BY <1>2 DEF Kept, Analysed, ServiceOf
<1>5. Clip(r, j) \in Nat
  BY <1>3 DEF Analysed, Clip, Attached
<1> QED BY <1>3, <1>4, <1>5

(* A step that only moves r's program counter.                               *)
LEMMA PcStep ==
  ASSUME IInv, NEW r \in Requests, NEW p \in PCs,
         pc' = [pc EXCEPT ![r] = p],
         UNCHANGED <<llm, docs, imgs, embs, slot, services, screens, rows>>,
         Local(r)',
         p # "insert",
         pc[r] \in {"screen", "insert", "error"} => p = "error",
         p = "create" => \A m \in Matching(r) : m.req # r,
         p = "screen" => Matching(r) # {}
  PROVE  IInv'
<1>0. /\ TypeOK /\ RowsInv /\ ScreensInv /\ ServicesInv
      /\ \A q \in Requests : Local(q)
  BY DEF IInv
<1>1. /\ pc' \in [Requests -> PCs]
      /\ \A q \in Requests : pc'[q] = IF q = r THEN p ELSE pc[q]
  BY <1>0 DEF TypeOK
<1>2. TypeOK'
  BY <1>0, <1>1 DEF TypeOK
<1>3. \A q \in Requests : Local(q)'
  BY <1>0, <1>1, LocalFrame
<1>4. \A q, j : RowOf(q, j)' = RowOf(q, j) /\ ServiceOf(q, j)' = ServiceOf(q, j)
  BY DEF RowOf, ServiceOf, Clip
<1>5. \A q : Current(q)' = Current(q) /\ Matching(q)' = Matching(q)
  BY <1>4 DEF Current, Matching
<1>6. RowsInv'
  BY <1>0, <1>4 DEF RowsInv
<1>7. ScreensInv'
  <2>1. \A s \in screens : s.req \in Requests
    BY <1>0 DEF TypeOK
  <2> QED BY <1>0, <1>1, <1>4, <1>5, <2>1 DEF ScreensInv
<1>8. ServicesInv'
  <2>1. \A m \in services : m.req \in Requests
    BY <1>0 DEF TypeOK, NodeType
  <2> QED BY <1>0, <1>1, <1>4, <1>5, <2>1 DEF ServicesInv, ServiceOncePerUpload
<1> QED BY <1>2, <1>3, <1>6, <1>7, <1>8 DEF IInv

(* Start only moves the program counter.                                     *)
LEMMA StartStep == ASSUME IInv, NEW r \in Requests, Start(r) PROVE IInv'
<1>1. Local(r)'
  BY DEF IInv, TypeOK, Start, Local, Fresh, Decided, Embeddings, Progress, Embedded,
         Analysed, InOrder, Kept, Positions, Attached
<1> QED BY <1>1, PcStep DEF Start, PCs, Running

(* Why the way into "error" keeps what is known of r.                        *)
LEMMA FailLocal ==
  ASSUME IInv, NEW r \in Requests, pc' = [pc EXCEPT ![r] = "error"],
         UNCHANGED <<llm, docs, imgs, embs, slot>>
  PROVE  Local(r)'
<1>1. Local(r) /\ pc'[r] = "error"
  BY DEF IInv, TypeOK
<1>2. Analysed(r)' <=> Analysed(r)
  BY DEF Analysed, InOrder, Kept, Positions, Attached
<1>3. Embedded(r)' <=> Embedded(r)
  BY DEF Embedded
<1> QED BY <1>1, <1>2, <1>3 DEF Local, Fresh, Decided, Embeddings, Progress

(* So does Reject, to "error" ...                                            *)
LEMMA RejectStep == ASSUME IInv, NEW r \in Requests, Reject(r) PROVE IInv'
  BY FailLocal, PcStep DEF Reject, AfterFailure, PCs, Done

(* ... and Abort, from wherever the upload stands.                           *)
LEMMA AbortStep == ASSUME IInv, NEW r \in Requests, Abort(r) PROVE IInv'
  BY FailLocal, PcStep DEF Abort, AfterFailure, PCs, Done

(* With all embeddings made, the loop begins, or has nothing to do.          *)
LEMMA EncodeStep == ASSUME IInv, NEW r \in Requests, Encode(r) PROVE IInv'
<1>1. Local(r) /\ pc'[r] = AtDocument(r, 1) /\ slot[r] \in Nat /\ Len(docs[r]) \in Nat
  BY DEF IInv, TypeOK, Encode
<1>2. Analysed(r)' <=> Analysed(r)
  BY DEF Encode, Analysed, InOrder, Kept, Positions, Attached
<1>3. Embedded(r)' /\ Embedded(r)
  BY DEF Encode, Embedded
<1>4. slot[r] = 0
  BY <1>1 DEF Encode, Local, Progress
<1>5. Local(r)'
  BY <1>1, <1>2, <1>3, <1>4 DEF Encode, Local, Fresh, Decided, Embeddings, Progress, AtDocument
<1> QED BY <1>5, PcStep DEF Encode, PCs, Running, AtDocument

(* MERGE matches, or leaves the upload with no node of its own to match.     *)
LEMMA MergeServiceStep == ASSUME IInv, NEW r \in Requests, MergeService(r) PROVE IInv'
<1>1. Local(r) /\ pc'[r] = AfterMerge(r)
  BY DEF IInv, TypeOK, MergeService
<1>2. Analysed(r)' <=> Analysed(r)
  BY DEF MergeService, Analysed, InOrder, Kept, Positions, Attached
<1>3. Embedded(r)' <=> Embedded(r)
  BY DEF MergeService, Embedded
<1>4. Local(r)'
  BY <1>1, <1>2, <1>3 DEF MergeService, Local, Fresh, Decided, Embeddings, Progress, AfterMerge
<1> QED BY <1>4, PcStep DEF MergeService, PCs, Running, AfterMerge

(* An answered upload has finished its loop.                                 *)
LEMMA RespondStep == ASSUME IInv, NEW r \in Requests, Respond(r) PROVE IInv'
<1>1. Local(r) /\ pc'[r] = "ok"
  BY DEF IInv, TypeOK, Respond
<1>2. Analysed(r)' <=> Analysed(r)
  BY DEF Respond, Analysed, InOrder, Kept, Positions, Attached
<1>3. Embedded(r)' <=> Embedded(r)
  BY DEF Respond, Embedded
<1>4. Local(r)'
  BY <1>1, <1>2, <1>3 DEF Respond, Local, Fresh, Decided, Embeddings, Progress
<1> QED BY <1>4, PcStep DEF Respond, PCs, Done

(* The row of the current document completes the loop's next prefix.         *)
LEMMA InsertRowStep == ASSUME IInv, NEW r \in Requests, InsertRow(r) PROVE IInv'
<1> DEFINE c == Current(r)
<1>0. /\ TypeOK /\ RowsInv /\ ScreensInv /\ ServicesInv
      /\ \A q \in Requests : Local(q)
  BY DEF IInv
<1>1. /\ pc[r] = "insert"
      /\ slot \in [Requests -> Nat] /\ pc \in [Requests -> PCs]
      /\ slot[r] \in Nat /\ Len(docs[r]) \in Nat
      /\ c = slot[r] + 1 /\ c \in 1..Len(docs[r])
      /\ Analysed(r) /\ Embedded(r)
  BY <1>0 DEF TypeOK, InsertRow, Local, Decided, Embeddings, Progress, Current
<1>2. \A q \in Requests : slot'[q] = IF q = r THEN c ELSE slot[q]
  BY <1>1 DEF InsertRow
<1>3. \A q \in Requests : pc'[q] = IF q = r THEN AtDocument(r, c + 1) ELSE pc[q]
  BY <1>1 DEF InsertRow
<1>4. \A q, j : RowOf(q, j)' = RowOf(q, j) /\ ServiceOf(q, j)' = ServiceOf(q, j)
  BY DEF InsertRow, RowOf, ServiceOf, Clip
<1>5. RowOf(r, c) \in [req : Requests, slot : Nat, coll : Collections,
                       doc : Nat, svc : Services, emb : Nat, clip : Nat]
  <2>1. docs[r][c] \in Nat /\ ServiceOf(r, c) \in Services /\ Clip(r, c) \in Nat
    BY <1>0, <1>1, DocsTyped
  <2>2. embs[r][c] \in Nat
    BY <1>0, <1>1 DEF TypeOK, Embedded
  <2>3. Job[r].coll \in Collections
    BY JobAssumption DEF JobAssumption
  <2> QED BY <1>1, <2>1, <2>2, <2>3 DEF RowOf
<1>6. TypeOK'
  <2>1. slot' \in [Requests -> Nat] /\ pc' \in [Requests -> PCs]
    BY <1>1 DEF InsertRow, AtDocument, PCs, Running
  <2>2. \A w \in rows' : w \in [req : Requests, slot : Nat, coll : Collections,
                               doc : Nat, svc : Services, emb : Nat, clip : Nat]
    BY <1>0, <1>5 DEF TypeOK, InsertRow
  <2> QED BY <1>0, <2>1, <2>2 DEF TypeOK, InsertRow
<1>7. \A q \in Requests : Local(q)'
  <2> SUFFICES ASSUME NEW q \in Requests PROVE Local(q)'
    OBVIOUS
  <2>1. CASE q = r
    <3>1. Analysed(r)' /\ Embedded(r)'
      BY <1>1 DEF InsertRow, Analysed, Embedded, InOrder, Kept, Attached, Positions
    <3>2. Progress(r)' /\ Fresh(r)'
      BY <1>1, <1>2, <1>3 DEF InsertRow, Progress, Fresh, AtDocument
    <3>3. Embeddings(r)'
      BY <1>0, <3>1 DEF InsertRow, Embeddings, Local
    <3> QED BY <2>1, <3>1, <3>2, <3>3 DEF Local, Decided
  <2>2. CASE q # r
    BY <1>0, <1>2, <1>3, <2>2, LocalFrame DEF InsertRow
  <2> QED BY <2>1, <2>2
<1>8. RowsInv'
  <2>1. \A w \in rows' : w.slot \in 1..slot'[w.req] /\ w = RowOf(w.req, w.slot)
    <3> SUFFICES ASSUME NEW w \in rows'
                 PROVE  w.slot \in 1..slot'[w.req] /\ w = RowOf(w.req, w.slot)
      OBVIOUS
    <3>1. CASE w \in rows
      <4>1. w.slot \in 1..slot[w.req] /\ w = RowOf(w.req, w.slot) /\ w.req \in Requests
        BY <1>0, <3>1 DEF RowsInv, TypeOK
      <4>2. slot[w.req] \in Nat /\ slot[w.req] <= slot'[w.req] /\ slot'[w.req] \in Nat
        BY <1>1, <1>2, <4>1
      <4> QED BY <4>1, <4>2
    <3>2. CASE w = RowOf(r, c)
      BY <1>1, <1>2, <3>2 DEF RowOf
    <3> QED BY <3>1, <3>2 DEF InsertRow
  <2>2. \A q \in Requests : \A j \in 1..slot'[q] : RowOf(q, j) \in rows'
    BY <1>0, <1>1, <1>2 DEF RowsInv, InsertRow
  <2> QED BY <1>4, <2>1, <2>2 DEF RowsInv
<1>9. ScreensInv'
  <2>1. \A q \in Requests : Current(q)' = IF q = r THEN c + 1 ELSE Current(q)
    BY <1>1, <1>2 DEF Current
  <2>2. \A s \in screens : s.req \in Requests /\ s.slot \in Nat
    BY <1>0 DEF TypeOK
  <2>3. screens' = screens /\ services' = services /\ docs' = docs
    BY DEF InsertRow
  <2>4. \A s \in screens :
          /\ s.slot <= Current(s.req)'
          /\ s.slot = Current(s.req)' => pc'[s.req] \in {"insert", "error"}
    BY <1>0, <1>1, <1>3, <2>1, <2>2 DEF ScreensInv
  <2>5. \A q \in Requests : \A j \in 1..slot'[q] :
          \E s \in screens : s.req = q /\ s.slot = j
    BY <1>0, <1>1, <1>2 DEF ScreensInv
  <2>6. \A q \in Requests : pc'[q] = "insert" =>
          \E s \in screens : s.req = q /\ s.slot = Current(q)'
    BY <1>0, <1>3, <2>1 DEF ScreensInv, AtDocument
  <2> QED BY <1>0, <1>4, <2>3, <2>4, <2>5, <2>6 DEF ScreensInv
<1>10. ServicesInv'
  <2>1. \A q \in Requests : Current(q)' = IF q = r THEN c + 1 ELSE Current(q)
    BY <1>1, <1>2 DEF Current
  <2>2. \A m \in services : m.req \in Requests /\ m.slot \in Nat
    BY <1>0 DEF TypeOK, NodeType
  <2>3. services' = services /\ docs' = docs
    BY DEF InsertRow
  <2>4. \A m \in services :
          /\ m.slot <= Current(m.req)'
          /\ m.slot = Current(m.req)' => pc'[m.req] \in {"screen", "insert", "error"}
    BY <1>0, <1>1, <1>3, <2>1, <2>2 DEF ServicesInv
  <2>5. \A q \in Requests : q # r => Matching(q)' = Matching(q)
    BY <1>4, <2>1, <2>3 DEF Matching
  <2>6. pc'[r] # "create" /\ pc'[r] # "screen"
    BY <1>1, <1>3 DEF AtDocument
  <2> QED BY <1>0, <1>3, <1>4, <2>3, <2>4, <2>5, <2>6 DEF ServicesInv, ServiceOncePerUpload
<1> QED BY <1>6, <1>7, <1>8, <1>9, <1>10 DEF IInv

(* A step of r, whose loop has not begun, that touches no store: there is    *)
(* nothing of r in the stores yet.                                           *)
LEMMA EarlyStep ==
  ASSUME IInv, NEW r \in Requests, TypeOK', Local(r)', slot[r] = 0,
         pc[r] \in {"analysing", "embed"}, pc'[r] \in {"analysing", "embed"},
         pc[r] = "analysing" \/ (docs'[r] = docs[r] /\ llm'[r] = llm[r]),
         \A q \in Requests : q # r =>
            /\ pc'[q] = pc[q] /\ llm'[q] = llm[q] /\ docs'[q] = docs[q]
            /\ imgs'[q] = imgs[q] /\ embs'[q] = embs[q],
         UNCHANGED <<slot, services, screens, rows>>
  PROVE  IInv'
<1>0. /\ TypeOK /\ RowsInv /\ ScreensInv /\ ServicesInv
      /\ \A q \in Requests : Local(q)
  BY DEF IInv
<1>1. \A q \in Requests : Local(q)'
  BY <1>0, LocalFrame
<1>2. \A q \in Requests : q # r => \A j :
         RowOf(q, j)' = RowOf(q, j) /\ ServiceOf(q, j)' = ServiceOf(q, j)
  BY DEF RowOf, ServiceOf, Clip
<1>3. \A q : Current(q)' = Current(q)
  BY DEF Current
<1>4. \A q \in Requests : q # r => Matching(q)' = Matching(q)
  BY <1>2, <1>3 DEF Matching
<1>5. RowsInv'
  <2>1. \A w \in rows : w.req \in Requests /\ w.req # r
    BY <1>0 DEF TypeOK, RowsInv
  <2>2. \A q \in Requests : \A j \in 1..slot[q] : q # r
    OBVIOUS
  <2> QED BY <1>0, <1>2, <2>1, <2>2 DEF RowsInv
<1>6. \A s \in screens : s.req \in Requests /\ s.req # r
  <2>1. \A s \in screens : s.req \in Requests /\ s.slot \in Nat
    BY <1>0 DEF TypeOK
  <2>2. \A s \in screens : s.slot >= 1 /\ (s.req = r => s.slot = Current(r))
    BY <1>0, <2>1 DEF ScreensInv, Current
  <2> QED BY <1>0, <2>1, <2>2 DEF ScreensInv
<1>7. ScreensInv'
  BY <1>0, <1>2, <1>3, <1>6 DEF ScreensInv
<1>8. \A m \in services : m.req \in Requests /\ m.req # r
  <2>1. \A m \in services : m.req \in Requests /\ m.slot \in Nat
    BY <1>0 DEF TypeOK, NodeType
  <2>2. \A m \in services : m.slot >= 1 /\ (m.req = r => m.slot = Current(r))
    BY <1>0, <2>1 DEF ServicesInv, Current
  <2> QED BY <1>0, <2>1, <2>2 DEF ServicesInv
<1>9. ServicesInv'
  BY <1>0, <1>2, <1>3, <1>4, <1>8 DEF ServicesInv, ServiceOncePerUpload
<1> QED BY <1>1, <1>5, <1>7, <1>9 DEF IInv

(* A model call's outcome is recorded before anything is derived from it.    *)
LEMMA AnswerStep ==
  ASSUME IInv, NEW r \in Requests, NEW i \in Positions(r), Answer(r, i)
  PROVE  IInv'
<1>0. TypeOK /\ Local(r)
  BY DEF IInv
<1>1. PICK o \in Outcomes : llm' = [llm EXCEPT ![r][i] = o]
  BY DEF Answer
<1>2. TypeOK'
  <2>1. \A q \in Requests : llm'[q] \in [Positions(q) -> Outcomes \cup {"pending"}]
    BY <1>0, <1>1 DEF TypeOK
  <2> QED BY <1>0, <1>1, <2>1 DEF TypeOK, Answer, Positions
<1>3. Fresh(r) /\ pc[r] = "analysing" /\ slot[r] = 0 /\ docs[r] = << >> /\ embs[r] = << >>
  BY <1>0 DEF Local, Fresh, Answer
<1>4. Local(r)'
  BY <1>0, <1>3 DEF Answer, Local, Fresh, Decided, Embeddings, Embedded, Progress
<1>5. \A q \in Requests : q # r => llm'[q] = llm[q]
  BY <1>0, <1>1 DEF TypeOK
<1>6. UNCHANGED <<pc, docs, imgs, embs, slot, services, screens, rows>>
  BY DEF Answer
<1>7. pc[r] = "analysing" /\ pc'[r] = "analysing" /\ slot[r] = 0
  BY <1>3, <1>6
<1>8. \A q \in Requests : q # r =>
         /\ pc'[q] = pc[q] /\ llm'[q] = llm[q] /\ docs'[q] = docs[q]
         /\ imgs'[q] = imgs[q] /\ embs'[q] = embs[q]
  BY <1>5, <1>6
<1>9. /\ pc[r] \in {"analysing", "embed"} /\ pc'[r] \in {"analysing", "embed"}
      /\ pc[r] = "analysing" \/ (docs'[r] = docs[r] /\ llm'[r] = llm[r])
      /\ UNCHANGED <<slot, services, screens, rows>>
  BY <1>6, <1>7
<1> QED BY <1>2, <1>4, <1>7, <1>8, <1>9, EarlyStep

(* The documents are decided, once, with their images.                       *)
LEMMA GatherStep == ASSUME IInv, NEW r \in Requests, Gather(r) PROVE IInv'
<1>0. TypeOK /\ Local(r)
  BY DEF IInv
<1>1. PICK f \in Listings(r) :
         /\ InOrder(f, Kept(r))
         /\ docs' = [docs EXCEPT ![r] = f]
         /\ imgs' = [imgs EXCEPT ![r] = Attached(r, f)]
  BY DEF Gather
<1>2. f \in Seq(Nat) /\ Attached(r, f) \in Seq(Nat)
  BY <1>1 DEF Listings, Positions, Attached
<1>3. /\ pc[r] = "analysing" /\ pc'[r] = "embed"
      /\ slot[r] = 0 /\ embs[r] = << >> /\ docs'[r] = f /\ imgs'[r] = Attached(r, f)
  BY <1>0, <1>1 DEF Gather, TypeOK, Local, Fresh
<1>4. TypeOK'
  BY <1>0, <1>1, <1>2 DEF TypeOK, Gather, PCs, Running
<1>5. Analysed(r)'
  <2>1. \A i \in Positions(r) : llm[r][i] \in Services \cup {"error"}
    BY <1>0 DEF Gather, TypeOK, AllAnswered, Malformed, Outcomes
  <2>2. llm' = llm /\ Positions(r)' = Positions(r) /\ Kept(r)' = Kept(r)
    BY DEF Gather, Positions, Kept
  <2> QED BY <1>1, <1>3, <2>1, <2>2 DEF Analysed, Attached, InOrder
<1>6. Local(r)'
  BY <1>2, <1>3, <1>5 DEF Gather, Local, Fresh, Decided, Embeddings, Progress
<1>7. \A q \in Requests : q # r => docs'[q] = docs[q] /\ imgs'[q] = imgs[q] /\ pc'[q] = pc[q]
  BY <1>0, <1>1 DEF TypeOK, Gather
<1> QED BY <1>3, <1>4, <1>6, <1>7, EarlyStep DEF Gather

(* Appending the next n elements of d to a prefix of d gives a prefix of d.  *)
LEMMA ExtendPrefix ==
  ASSUME NEW d \in Seq(Nat), NEW s \in Seq(Nat), NEW n \in Nat,
         Len(s) + n <= Len(d), \A j \in 1..Len(s) : s[j] = d[j]
  PROVE  LET t == s \o SubSeq(d, Len(s) + 1, Len(s) + n)
         IN  /\ t \in Seq(Nat)
             /\ Len(t) = Len(s) + n
             /\ \A j \in 1..Len(t) : t[j] = d[j]
<1> DEFINE b == SubSeq(d, Len(s) + 1, Len(s) + n)
           t == s \o b
<1>1. Len(s) \in Nat /\ Len(d) \in Nat
  OBVIOUS
<1>2. \A i \in (Len(s) + 1)..(Len(s) + n) : d[i] \in Nat
  BY <1>1
<1>3. /\ b \in Seq(Nat) /\ Len(b) = n
      /\ \A i \in 1..n : b[i] = d[Len(s) + i]
  <2> DEFINE m == Len(s) + 1
             z == Len(s) + n
  <2>1. m \in Int /\ z \in Int
    BY <1>1
  <2>2. \A i \in m..z : d[i] \in Nat
    BY <1>2
  <2>3. z - m + 1 = n /\ (IF m <= z THEN z - m + 1 ELSE 0) = n
        /\ \A i \in 1..n : m + i - 1 = Len(s) + i
    BY <1>1
  <2>4. b = SubSeq(d, m, z)
    OBVIOUS
  <2> HIDE DEF m, z, b
  <2>5. /\ SubSeq(d, m, z) \in Seq(Nat)
        /\ Len(SubSeq(d, m, z)) = IF m <= z THEN z - m + 1 ELSE 0
        /\ \A i \in 1..(z - m + 1) : SubSeq(d, m, z)[i] = d[m + i - 1]
    BY <2>1, <2>2, SubSeqProperties
  <2> QED BY <2>3, <2>4, <2>5
<1> HIDE DEF b
<1>4. /\ t \in Seq(Nat) /\ Len(t) = Len(s) + Len(b)
      /\ \A i \in 1..(Len(s) + Len(b)) : t[i] = IF i <= Len(s) THEN s[i] ELSE b[i - Len(s)]
  BY <1>3, ConcatProperties DEF b
<1> HIDE DEF t
<1>5. \A j \in 1..(Len(s) + n) : t[j] = d[j]
  <2> SUFFICES ASSUME NEW j \in 1..(Len(s) + n) PROVE t[j] = d[j]
    OBVIOUS
  <2>1. CASE j <= Len(s)
    <3>1. j \in 1..Len(s) /\ j \in 1..(Len(s) + Len(b))
      BY <1>1, <1>3, <2>1
    <3>2. t[j] = s[j] /\ s[j] = d[j]
      BY <1>4, <2>1, <3>1
    <3> QED BY <3>2
  <2>2. CASE ~ (j <= Len(s))
    <3>1. j - Len(s) \in 1..n /\ Len(s) + (j - Len(s)) = j
      BY <1>1, <2>2
    <3> QED BY <1>1, <1>3, <1>4, <2>2, <3>1
  <2> QED BY <2>1, <2>2
<1> QED BY <1>3, <1>4, <1>5 DEF t, b

(* A batch is the next texts, at least one of them.                          *)
LEMMA BatchFacts ==
  ASSUME NEW r \in Requests, Len(embs[r]) \in Nat, Len(docs[r]) \in Nat,
         Len(embs[r]) < Len(docs[r])
  PROVE  \E n \in Nat :
            /\ n # 0 /\ Len(embs[r]) + n <= Len(docs[r])
            /\ Batch(r) = SubSeq(docs[r], Len(embs[r]) + 1, Len(embs[r]) + n)
<1> DEFINE last == Len(embs[r]) + BatchSize
           n == IF last < Len(docs[r]) THEN BatchSize ELSE Len(docs[r]) - Len(embs[r])
<1>0. BatchSize \in Nat \ {0}
  BY BatchAssumption DEF BatchAssumption
<1>1. Batch(r) = SubSeq(docs[r], Len(embs[r]) + 1,
                        IF last < Len(docs[r]) THEN last ELSE Len(docs[r]))
  BY DEF Batch
<1>2. /\ n \in Nat /\ n # 0 /\ Len(embs[r]) + n <= Len(docs[r])
      /\ (IF last < Len(docs[r]) THEN last ELSE Len(docs[r])) = Len(embs[r]) + n
  <2>1. CASE last < Len(docs[r])
    BY <1>0, <2>1
  <2>2. CASE ~ (last < Len(docs[r]))
    BY <1>0, <2>2
  <2> QED BY <2>1, <2>2
<1>3. Batch(r) = SubSeq(docs[r], Len(embs[r]) + 1, Len(embs[r]) + n)
  BY <1>1, <1>2
<1> HIDE DEF n
<1> QED BY <1>2, <1>3

(* A batch extends the embeddings, each under its own document.              *)
LEMMA EmbedBatchStep == ASSUME IInv, NEW r \in Requests, EmbedBatch(r) PROVE IInv'
<1>0. TypeOK /\ Local(r)
  BY DEF IInv
<1>1. /\ pc[r] = "embed" /\ docs[r] \in Seq(Nat) /\ embs[r] \in Seq(Nat)
      /\ Len(embs[r]) \in Nat /\ Len(docs[r]) \in Nat
      /\ Len(embs[r]) < Len(docs[r]) /\ slot[r] = 0
      /\ BatchSize \in Nat \ {0}
  BY <1>0, BatchAssumption
     DEF TypeOK, EmbedBatch, Embedded, Local, Embeddings, Progress, BatchAssumption
<1>2. PICK n \in Nat : /\ Len(embs[r]) + n <= Len(docs[r])
                      /\ Batch(r) = SubSeq(docs[r], Len(embs[r]) + 1, Len(embs[r]) + n)
  BY <1>1, BatchFacts
<1> DEFINE t == embs[r] \o Batch(r)
<1>3. embs' = [embs EXCEPT ![r] = t] /\ embs'[r] = t
  BY <1>0 DEF TypeOK, EmbedBatch
<1>4. /\ t \in Seq(Nat) /\ Len(t) \in Nat /\ Len(t) <= Len(docs[r])
      /\ \A j \in 1..Len(t) : t[j] = docs[r][j]
  <2>1. t = embs[r] \o SubSeq(docs[r], Len(embs[r]) + 1, Len(embs[r]) + n)
    BY <1>2
  <2>2. \A j \in 1..Len(embs[r]) : embs[r][j] = docs[r][j]
    BY <1>0 DEF Local, Embeddings
  <2> DEFINE u == embs[r] \o SubSeq(docs[r], Len(embs[r]) + 1, Len(embs[r]) + n)
  <2>3. u \in Seq(Nat) /\ Len(u) = Len(embs[r]) + n /\ \A j \in 1..Len(u) : u[j] = docs[r][j]
    BY <1>1, <1>2, <2>2, ExtendPrefix
  <2>4. t = u
    BY <2>1
  <2> HIDE DEF t, u
  <2> QED BY <1>1, <1>2, <2>3, <2>4
<1> HIDE DEF t
<1>5. TypeOK'
  BY <1>0, <1>3, <1>4 DEF TypeOK, EmbedBatch
<1>6. Local(r)'
  <2>1. Analysed(r)' <=> Analysed(r)
    BY DEF EmbedBatch, Analysed, InOrder, Kept, Positions, Attached
  <2>2. Embeddings(r)'
    <3>1. docs' = docs /\ pc'[r] = "embed" /\ slot'[r] = 0 /\ embs'[r] = t
      BY <1>1, <1>3 DEF EmbedBatch
    <3> QED BY <1>4, <3>1 DEF Embeddings
  <2> QED BY <1>0, <1>1, <2>1, <2>2 DEF EmbedBatch, Local, Fresh, Decided, Progress
<1>7. \A q \in Requests : q # r => embs'[q] = embs[q]
  BY <1>0, <1>3 DEF TypeOK
<1> QED BY <1>1, <1>5, <1>6, <1>7, EarlyStep DEF EmbedBatch

(* The new Service node is this upload's only one of its key.                *)
LEMMA CreateServiceStep == ASSUME IInv, NEW r \in Requests, CreateService(r) PROVE IInv'
<1> DEFINE c == Current(r)
           node == [key |-> ServiceOf(r, c), req |-> r, slot |-> c]
<1>0. /\ TypeOK /\ RowsInv /\ ScreensInv /\ ServicesInv
      /\ \A q \in Requests : Local(q)
  BY DEF IInv
<1>1. /\ pc[r] = "create" /\ pc' \in [Requests -> PCs]
      /\ \A q \in Requests : pc'[q] = IF q = r THEN "screen" ELSE pc[q]
      /\ slot[r] \in Nat /\ c = slot[r] + 1 /\ c \in 1..Len(docs[r])
      /\ Analysed(r)
  BY <1>0 DEF TypeOK, CreateService, PCs, Running, Local, Decided, Progress, Current
<1>2. \A q, j : RowOf(q, j)' = RowOf(q, j) /\ ServiceOf(q, j)' = ServiceOf(q, j)
  BY DEF CreateService, RowOf, ServiceOf, Clip
<1>3. \A q : Current(q)' = Current(q)
  BY DEF CreateService, Current
<1>4. services' = services \cup {node} /\ node \in NodeType
  <2>1. ServiceOf(r, c) \in Services
    BY <1>0, <1>1, DocsTyped
  <2> QED BY <1>1, <2>1 DEF CreateService, NodeType
<1>5. TypeOK'
  BY <1>0, <1>1, <1>4 DEF TypeOK, CreateService
<1>6. \A q \in Requests : Local(q)'
  <2>1. Analysed(r)' <=> Analysed(r)
    BY DEF CreateService, Analysed, InOrder, Kept, Positions, Attached
  <2>2. Embedded(r)' <=> Embedded(r)
    BY DEF CreateService, Embedded
  <2>3. Local(r)'
    BY <1>0, <1>1, <2>1, <2>2 DEF CreateService, Local, Fresh, Decided, Embeddings, Progress
  <2> QED BY <1>0, <1>1, <2>3, LocalFrame DEF CreateService
<1>7. RowsInv'
  BY <1>0, <1>2 DEF CreateService, RowsInv
<1>8. ScreensInv'
  <2>1. \A s \in screens : s.req \in Requests
    BY <1>0 DEF TypeOK
  <2> QED BY <1>0, <1>1, <1>2, <1>3, <1>4, <2>1 DEF CreateService, ScreensInv
<1>9. ServicesInv'
  <2>1. \A m \in services : m.req \in Requests
    BY <1>0 DEF TypeOK, NodeType
  <2>2. \A m \in services' :
          /\ m.slot \in 1..Len(docs[m.req])
          /\ m.slot <= Current(m.req)
          /\ m.slot = Current(m.req) => pc'[m.req] \in {"screen", "insert", "error"}
          /\ m.key = ServiceOf(m.req, m.slot)
    <3>1. \A m \in services :
            /\ m.slot \in 1..Len(docs[m.req])
            /\ m.slot <= Current(m.req)
            /\ m.slot = Current(m.req) => pc'[m.req] \in {"screen", "insert", "error"}
            /\ m.key = ServiceOf(m.req, m.slot)
      BY <1>0, <1>1, <2>1 DEF ServicesInv
    <3> QED BY <1>1, <1>4, <3>1
  <2>3. \A q \in Requests : q # r => \A m \in Matching(q)' :
          m \in Matching(q) \/ m.req = r
    BY <1>2, <1>3, <1>4 DEF Matching
  <2>4. \A q \in Requests : Matching(q) \subseteq Matching(q)'
    BY <1>2, <1>3, <1>4 DEF Matching
  <2>5. node \in Matching(r)'
    BY <1>2, <1>3, <1>4 DEF Matching
  <2>6. ServiceOncePerUpload'
    <3>1. \A m \in services : m.req = r => m.key # node.key
      BY <1>0, <1>1 DEF ServicesInv, Matching
    <3>2. ServiceOncePerUpload
      BY <1>0 DEF ServicesInv
    <3> QED BY <1>4, <3>1, <3>2 DEF ServiceOncePerUpload
  <2>7. \A q \in Requests : pc'[q] = "create" => \A m \in Matching(q)' : m.req # q
    BY <1>0, <1>1, <2>3 DEF ServicesInv
  <2>8. \A q \in Requests : pc'[q] = "screen" => Matching(q)' # {}
    BY <1>0, <1>1, <2>4, <2>5 DEF ServicesInv
  <2> QED BY <1>2, <1>3, <2>2, <2>6, <2>7, <2>8 DEF ServicesInv, CreateService
<1> QED BY <1>5, <1>6, <1>7, <1>8, <1>9 DEF IInv

(* The current document gets Screen nodes under existing Service nodes.      *)
LEMMA CreateScreenStep == ASSUME IInv, NEW r \in Requests, CreateScreen(r) PROVE IInv'
<1> DEFINE c == Current(r)
<1>0. /\ TypeOK /\ RowsInv /\ ScreensInv /\ ServicesInv
      /\ \A q \in Requests : Local(q)
  BY DEF IInv
<1>1. /\ pc[r] = "screen" /\ pc' \in [Requests -> PCs]
      /\ \A q \in Requests : pc'[q] = IF q = r THEN "insert" ELSE pc[q]
      /\ slot[r] \in Nat /\ c = slot[r] + 1 /\ c \in 1..Len(docs[r])
      /\ Analysed(r)
  BY <1>0 DEF TypeOK, CreateScreen, PCs, Running, Local, Decided, Progress, Current
<1>2. \A q, j : RowOf(q, j)' = RowOf(q, j) /\ ServiceOf(q, j)' = ServiceOf(q, j)
  BY DEF CreateScreen, RowOf, ServiceOf, Clip
<1>3. \A q : Current(q)' = Current(q) /\ Matching(q)' = Matching(q)
  BY <1>2 DEF CreateScreen, Current, Matching
<1>4. \A s \in ScreenNodes(r) :
        /\ s.req = r /\ s.slot = c /\ s.doc = docs[r][c]
        /\ s.label = AgeLabel[Job[r].coll]
        /\ s.node \in services /\ s.node.key = ServiceOf(r, c)
        /\ s \in [req : Requests, slot : Nat, doc : Nat,
                  label : {AgeLabel[x] : x \in Collections}, node : NodeType]
  <2>1. docs[r][c] \in Nat
    BY <1>0, <1>1, DocsTyped
  <2>2. AgeLabel[Job[r].coll] \in {AgeLabel[x] : x \in Collections}
    BY JobAssumption DEF JobAssumption
  <2>3. \A m \in Matching(r) : m \in services /\ m \in NodeType /\ m.key = ServiceOf(r, c)
    BY <1>0 DEF Matching, TypeOK
  <2> QED BY <1>1, <2>1, <2>2, <2>3 DEF ScreenNodes
<1>5. \E s \in ScreenNodes(r) : s.req = r /\ s.slot = c
  <2>1. Matching(r) # {}
    BY <1>0, <1>1 DEF ServicesInv
  <2>2. PICK m \in Matching(r) : TRUE
    BY <2>1
  <2>3. [req |-> r, slot |-> Current(r), doc |-> docs[r][Current(r)],
         label |-> AgeLabel[Job[r].coll], node |-> m] \in ScreenNodes(r)
    BY <2>2 DEF ScreenNodes
  <2> QED BY <1>4, <2>3
<1>6. TypeOK'
  BY <1>0, <1>1, <1>4 DEF TypeOK, CreateScreen
<1>7. \A q \in Requests : Local(q)'
  <2>1. Analysed(r)' <=> Analysed(r)
    BY DEF CreateScreen, Analysed, InOrder, Kept, Positions, Attached
  <2>2. Embedded(r)' <=> Embedded(r)
    BY DEF CreateScreen, Embedded
  <2>3. Local(r)'
    BY <1>0, <1>1, <2>1, <2>2 DEF CreateScreen, Local, Fresh, Decided, Embeddings, Progress
  <2> QED BY <1>0, <1>1, <2>3, LocalFrame DEF CreateScreen
<1>8. RowsInv'
  BY <1>0, <1>2 DEF CreateScreen, RowsInv
<1>9. ScreensInv'
  <2>1. \A s \in screens : s.req \in Requests
    BY <1>0 DEF TypeOK
  <2>2. \A s \in screens' :
          /\ s.slot \in 1..Len(docs[s.req])
          /\ s.slot <= Current(s.req)
          /\ s.slot = Current(s.req) => pc'[s.req] \in {"insert", "error"}
          /\ s.doc = docs[s.req][s.slot]
          /\ s.label = AgeLabel[Job[s.req].coll]
          /\ s.node \in services
          /\ s.node.key = ServiceOf(s.req, s.slot)
    <3> SUFFICES ASSUME NEW s \in screens'
                 PROVE  /\ s.slot \in 1..Len(docs[s.req])
                        /\ s.slot <= Current(s.req)
                        /\ s.slot = Current(s.req) => pc'[s.req] \in {"insert", "error"}
                        /\ s.doc = docs[s.req][s.slot]
                        /\ s.label = AgeLabel[Job[s.req].coll]
                        /\ s.node \in services
                        /\ s.node.key = ServiceOf(s.req, s.slot)
      OBVIOUS
    <3>1. CASE s \in screens
      BY <1>0, <1>1, <2>1, <3>1 DEF ScreensInv
    <3>2. CASE s \in ScreenNodes(r)
      BY <1>1, <1>4, <3>2
    <3> QED BY <3>1, <3>2 DEF CreateScreen
  <2>3. \A q \in Requests : pc'[q] = "insert" =>
          \E s \in screens' : s.req = q /\ s.slot = Current(q)
    BY <1>0, <1>1, <1>5 DEF ScreensInv, CreateScreen
  <2>4. \A q \in Requests : \A j \in 1..slot[q] :
          \E s \in screens' : s.req = q /\ s.slot = j
    BY <1>0 DEF ScreensInv, CreateScreen
  <2> QED BY <1>2, <1>3, <2>2, <2>3, <2>4 DEF ScreensInv, CreateScreen
<1>10. ServicesInv'
  <2>1. \A m \in services : m.req \in Requests
    BY <1>0 DEF TypeOK, NodeType
  <2> QED BY <1>0, <1>1, <1>2, <1>3, <2>1 DEF ServicesInv, ServiceOncePerUpload, CreateScreen
<1> QED BY <1>6, <1>7, <1>8, <1>9, <1>10 DEF IInv

-----------------------------------------------------------------------------
(* Every step preserves the invariant.                                       *)
LEMMA Inductive == IInv /\ [Next]_vars => IInv'
<1> SUFFICES ASSUME IInv, [Next]_vars PROVE IInv'
  OBVIOUS
<1>1. CASE Next
  <2> SUFFICES ASSUME NEW r \in Requests, Start(r) \/ Work(r) \/ Abort(r) PROVE IInv'
    BY <1>1 DEF Next
  <2>1. CASE Start(r)
    BY <2>1, StartStep
  <2>2. CASE Abort(r)
    BY <2>2, AbortStep
  <2>3. CASE \E i \in Positions(r) : Answer(r, i)
    BY <2>3, AnswerStep
  <2>4. CASE Gather(r)
    BY <2>4, GatherStep
  <2>5. CASE Reject(r)
    BY <2>5, RejectStep
  <2>6. CASE EmbedBatch(r)
    BY <2>6, EmbedBatchStep
  <2>7. CASE Encode(r)
    BY <2>7, EncodeStep
  <2>8. CASE MergeService(r)
    BY <2>8, MergeServiceStep
  <2>9. CASE CreateService(r)
    BY <2>9, CreateServiceStep
  <2>10. CASE CreateScreen(r)
    BY <2>10, CreateScreenStep
  <2>11. CASE InsertRow(r)
    BY <2>11, InsertRowStep
  <2>12. CASE Respond(r)
    BY <2>12, RespondStep
  <2> QED
    BY <2>1, <2>2, <2>3, <2>4, <2>5, <2>6, <2>7, <2>8, <2>9, <2>10, <2>11, <2>12 DEF Work
<1>2. CASE UNCHANGED vars
  <2> USE <1>2 DEF vars
  <2>1. TypeOK'
    BY DEF IInv, TypeOK
  <2>2. \A r \in Requests : Local(r)'
    BY LocalFrame DEF IInv
  <2>3. \A q, j : RowOf(q, j)' = RowOf(q, j) /\ ServiceOf(q, j)' = ServiceOf(q, j)
    BY DEF RowOf, ServiceOf, Clip
  <2>4. \A q : Current(q)' = Current(q) /\ Matching(q)' = Matching(q)
    BY <2>3 DEF Current, Matching
  <2>5. RowsInv' /\ ScreensInv' /\ ServicesInv'
    BY <2>3, <2>4 DEF IInv, RowsInv, ScreensInv, ServicesInv, ServiceOncePerUpload
  <2> QED BY <2>1, <2>2, <2>5 DEF IInv
<1> QED BY <1>1, <1>2

(* The invariant holds in every reachable state of the upload path.          *)
LEMMA Invariant == Spec => []IInv
  BY InitInv, Inductive, PTL DEF Spec

(* Every variable has its type in every reachable state.                     *)
THEOREM TypeCorrect == Spec => []TypeOK
<1>1. IInv => TypeOK
  BY DEF IInv
<1> QED BY <1>1, Invariant, PTL

(* Whatever fails and whoever races, a row of the vector table has its       *)
(* Screen node under its own label and a Service node of its own service.    *)
THEOREM GraphBacksVectors == Spec => []VectorBackedByGraph
<1>1. IInv => VectorBackedByGraph
  <2> SUFFICES ASSUME IInv, NEW w \in rows
               PROVE  \E s \in screens :
                        /\ ScreenFor(s, w) /\ s.label = AgeLabel[w.coll]
                        /\ s.node \in services /\ s.node.key = w.svc
    BY DEF VectorBackedByGraph
  <2>1. /\ w.req \in Requests /\ w.slot \in 1..slot[w.req]
        /\ w = RowOf(w.req, w.slot)
    BY DEF IInv, TypeOK, RowsInv
  <2>2. PICK s \in screens : s.req = w.req /\ s.slot = w.slot
    BY <2>1 DEF IInv, ScreensInv
  <2>3. /\ s.doc = docs[w.req][w.slot] /\ s.label = AgeLabel[Job[w.req].coll]
        /\ s.node \in services /\ s.node.key = ServiceOf(w.req, w.slot)
    BY <2>2 DEF IInv, ScreensInv
  <2>4. /\ w.doc = docs[w.req][w.slot] /\ w.coll = Job[w.req].coll
        /\ w.svc = ServiceOf(w.req, w.slot)
    BY <2>1 DEF RowOf
  <2> QED BY <2>2, <2>3, <2>4 DEF ScreenFor
<1> QED BY <1>1, Invariant, PTL

(* A row's embedding, image embedding and service are those of the item its  *)
(* content is from.                                                          *)
THEOREM RowsAreAligned == Spec => []Aligned
<1>1. IInv => Aligned
  <2> SUFFICES ASSUME IInv, NEW w \in rows
               PROVE  /\ w.emb = w.doc /\ w.svc = llm[w.req][w.doc]
                      /\ w.clip = IF Job[w.req].kind = "image" /\ w.doc \notin Job[w.req].blank
                                  THEN w.doc ELSE 0
    BY DEF Aligned
  <2> DEFINE r == w.req
             j == w.slot
  <2>1. r \in Requests /\ j \in 1..slot[r] /\ w = RowOf(r, j)
    BY DEF IInv, TypeOK, RowsInv
  <2>2. Local(r) /\ slot[r] \in Nat /\ slot[r] > 0 /\ Len(docs[r]) \in Nat
    BY <2>1 DEF IInv, TypeOK
  <2>3. Analysed(r) /\ Embedded(r) /\ j \in 1..Len(docs[r])
    BY <2>1, <2>2 DEF Local, Decided, Embeddings, Progress
  <2>4. /\ w.doc = docs[r][j] /\ w.svc = ServiceOf(r, j)
        /\ w.emb = embs[r][j] /\ w.clip = Clip(r, j)
    BY <2>1 DEF RowOf
  <2>5. embs[r][j] = docs[r][j]
    BY <2>2, <2>3 DEF Local, Embeddings, Embedded
  <2>6. Clip(r, j) = IF Job[r].kind = "image" /\ docs[r][j] \notin Job[r].blank
                     THEN docs[r][j] ELSE 0
    BY <2>3 DEF Clip, Analysed, Attached
  <2> QED BY <2>4, <2>5, <2>6 DEF ServiceOf
<1> QED BY <1>1, Invariant, PTL

(* An acknowledged upload has one row for each item that was analysed.       *)
THEOREM AckMeansStored == Spec => []AckedComplete
<1>1. IInv => AckedComplete
  <2> SUFFICES ASSUME IInv, NEW r \in Requests, pc[r] = "ok"
               PROVE  /\ \A i \in Kept(r) : \E w \in rows : w.req = r /\ w.doc = i
                      /\ \A w \in rows : w.req = r => w.doc \in Kept(r)
                      /\ \A v, w \in rows : v.req = r /\ w.req = r /\ v.doc = w.doc => v = w
    BY DEF AckedComplete
  <2>1. Local(r) /\ slot[r] \in Nat /\ docs[r] \in Seq(Nat) /\ Len(docs[r]) \in Nat
    BY DEF IInv, TypeOK
  <2>2. Analysed(r) /\ slot[r] = Len(docs[r])
    BY <2>1 DEF Local, Decided, Progress
  <2>3. \A w \in rows : w.req = r =>
          w.slot \in 1..Len(docs[r]) /\ w = RowOf(r, w.slot) /\ w.doc = docs[r][w.slot]
    BY <2>2 DEF IInv, RowsInv, RowOf
  <2>4. ASSUME NEW i \in Kept(r) PROVE \E w \in rows : w.req = r /\ w.doc = i
    <3>1. PICK j \in 1..Len(docs[r]) : docs[r][j] = i
      BY <2>2 DEF Analysed, InOrder
    <3>2. RowOf(r, j) \in rows
      BY <2>2, <3>1 DEF IInv, RowsInv
    <3> QED BY <3>1, <3>2 DEF RowOf
  <2>5. \A w \in rows : w.req = r => w.doc \in Kept(r)
    BY <2>2, <2>3 DEF Analysed, InOrder
  <2>6. ASSUME NEW v \in rows, NEW w \in rows, v.req = r, w.req = r, v.doc = w.doc
        PROVE  v = w
    <3>1. v.slot = w.slot
      <4>1. /\ v.slot \in 1..Len(docs[r]) /\ w.slot \in 1..Len(docs[r])
            /\ docs[r][v.slot] = docs[r][w.slot]
        BY <2>3, <2>6
      <4>2. \A j, k \in 1..Len(docs[r]) : j < k => docs[r][j] < docs[r][k]
        BY <2>2 DEF Analysed, InOrder
      <4>3. \A j \in 1..Len(docs[r]) : docs[r][j] \in Nat
        BY <2>1
      <4> QED BY <2>1, <4>1, <4>2, <4>3
    <3> QED BY <2>3, <2>6, <3>1
  <2> QED BY <2>4, <2>5, <2>6
<1> QED BY <1>1, Invariant, PTL

(* A failed upload leaves the first part of its documents, and at most one   *)
(* Screen node set without a row.                                            *)
THEOREM PrefixStored == Spec => []FailureLeavesPrefix
<1>1. IInv => FailureLeavesPrefix
  <2> SUFFICES ASSUME IInv PROVE FailureLeavesPrefix
    OBVIOUS
  <2>1. ASSUME NEW w \in rows, NEW i \in Kept(w.req), i < w.doc
        PROVE  \E v \in rows : v.req = w.req /\ v.doc = i
    <3> DEFINE r == w.req
    <3>1. r \in Requests /\ w.slot \in 1..slot[r] /\ w.doc = docs[r][w.slot]
      BY DEF IInv, TypeOK, RowsInv, RowOf
    <3>2. /\ Local(r) /\ slot[r] \in Nat /\ slot[r] > 0
          /\ docs[r] \in Seq(Nat) /\ Len(docs[r]) \in Nat
      BY <3>1 DEF IInv, TypeOK
    <3>3. Analysed(r) /\ slot[r] <= Len(docs[r])
      BY <3>2 DEF Local, Decided, Progress
    <3>4. PICK j \in 1..Len(docs[r]) : docs[r][j] = i
      BY <3>3 DEF Analysed, InOrder
    <3>5. j \in 1..slot[r]
      <4>1. \A k \in 1..Len(docs[r]) : docs[r][k] \in Nat
        BY <3>2
      <4>2. w.slot \in 1..Len(docs[r]) /\ (w.slot < j => docs[r][w.slot] < docs[r][j])
        <5>1. w.slot \in 1..Len(docs[r])
          BY <3>1, <3>2, <3>3
        <5>2. \A k, l \in 1..Len(docs[r]) : k < l => docs[r][k] < docs[r][l]
          BY <3>3 DEF Analysed, InOrder
        <5> QED BY <3>4, <5>1, <5>2
      <4>3. j # w.slot /\ ~ (w.slot < j)
        BY <2>1, <3>1, <3>4, <4>1, <4>2
      <4> QED BY <3>1, <3>2, <3>4, <4>2, <4>3
    <3>6. RowOf(r, j) \in rows
      BY <3>1, <3>5 DEF IInv, RowsInv
    <3> QED BY <3>4, <3>6 DEF RowOf
  <2>2. ASSUME NEW s \in screens, NEW t \in screens, s.req = t.req, s.doc # t.doc
        PROVE  \E w \in rows : ScreenFor(s, w) \/ ScreenFor(t, w)
    <3> DEFINE r == s.req
    <3>1. r \in Requests /\ slot[r] \in Nat /\ s.slot \in Nat /\ t.slot \in Nat
      BY DEF IInv, TypeOK
    <3>2. /\ s.doc = docs[r][s.slot] /\ s.slot >= 1 /\ s.slot <= slot[r] + 1
          /\ t.doc = docs[r][t.slot] /\ t.slot >= 1 /\ t.slot <= slot[r] + 1
      BY <2>2, <3>1 DEF IInv, ScreensInv, Current
    <3>3. s.slot \in 1..slot[r] \/ t.slot \in 1..slot[r]
      BY <2>2, <3>1, <3>2
    <3>4. \A j \in 1..slot[r] : RowOf(r, j) \in rows
      BY <3>1 DEF IInv, RowsInv
    <3> QED BY <2>2, <3>2, <3>3, <3>4 DEF RowOf, ScreenFor
  <2>3. ASSUME NEW v \in rows, NEW w \in rows, v.req = w.req, v.doc = w.doc
        PROVE  v = w
    <3> DEFINE r == w.req
    <3>1. /\ r \in Requests
          /\ v.slot \in 1..slot[r] /\ v = RowOf(r, v.slot) /\ v.doc = docs[r][v.slot]
          /\ w.slot \in 1..slot[r] /\ w = RowOf(r, w.slot) /\ w.doc = docs[r][w.slot]
      BY <2>3 DEF IInv, TypeOK, RowsInv, RowOf
    <3>2. /\ Local(r) /\ slot[r] \in Nat /\ slot[r] > 0
          /\ docs[r] \in Seq(Nat) /\ Len(docs[r]) \in Nat
      BY <3>1 DEF IInv, TypeOK
    <3>3. /\ slot[r] <= Len(docs[r])
          /\ \A j, k \in 1..Len(docs[r]) : j < k => docs[r][j] < docs[r][k]
      BY <3>2 DEF Local, Decided, Progress, Analysed, InOrder
    <3>4. v.slot \in 1..Len(docs[r]) /\ w.slot \in 1..Len(docs[r])
      BY <3>1, <3>2, <3>3
    <3>5. docs[r][v.slot] \in Nat /\ docs[r][w.slot] \in Nat
      BY <3>2, <3>4
    <3>6. docs[r][v.slot] = docs[r][w.slot]
      BY <2>3, <3>1
    <3>7. ~ (v.slot < w.slot) /\ ~ (w.slot < v.slot)
      BY <3>3, <3>4, <3>5, <3>6
    <3>8. v.slot = w.slot
      BY <3>2, <3>4, <3>7
    <3> QED BY <2>3, <3>1, <3>8
  <2> QED BY <2>1, <2>2, <2>3 DEF FailureLeavesPrefix
<1> QED BY <1>1, Invariant, PTL

(* However uploads race, no upload makes two Service nodes of one service.   *)
THEOREM MergeOncePerUpload == Spec => []ServiceOncePerUpload
<1>1. IInv => ServiceOncePerUpload
  BY DEF IInv, ServicesInv
<1> QED BY <1>1, Invariant, PTL

-----------------------------------------------------------------------------
(* What the graph queries find.                                              *)

(* The Service nodes a document is linked to are all those of its service at *)
(* the moment of its MATCH; nodes only come, so of two documents of the same *)
(* service one is linked to every node of the other.                         *)
Nested ==
    \A s, t \in screens : s.node.key = t.node.key =>
        \/ \E o \in screens : o.req = t.req /\ o.slot = t.slot /\ o.node = s.node
        \/ \E o \in screens : o.req = s.req /\ o.slot = s.slot /\ o.node = t.node

(* A step that makes Screen nodes links them to all nodes of the service.    *)
LEMMA NestedStep == IInv /\ Nested /\ [Next]_vars => Nested'
<1> SUFFICES ASSUME IInv, Nested, [Next]_vars PROVE Nested'
  OBVIOUS
<1>1. ASSUME NEW r \in Requests, CreateScreen(r) PROVE Nested'
  <2>1. screens' = screens \cup ScreenNodes(r)
    BY <1>1 DEF CreateScreen
  <2>2. \A s \in screens : s.node \in services
    BY DEF IInv, ScreensInv
  <2>3. \A t \in ScreenNodes(r) : /\ t.req = r /\ t.slot = Current(r)
                                 /\ t.node \in services
                                 /\ t.node.key = ServiceOf(r, Current(r))
    BY DEF ScreenNodes, Matching
  <2>4. ASSUME NEW m \in services, m.key = ServiceOf(r, Current(r))
        PROVE  \E o \in ScreenNodes(r) : o.node = m
    <3> DEFINE o == [req |-> r, slot |-> Current(r), doc |-> docs[r][Current(r)],
                     label |-> AgeLabel[Job[r].coll], node |-> m]
    <3> QED BY <2>4, o \in ScreenNodes(r), o.node = m DEF ScreenNodes, Matching
  <2>5. ASSUME NEW s \in screens', NEW t \in ScreenNodes(r), s.node.key = t.node.key
        PROVE  \E o \in screens' : o.req = t.req /\ o.slot = t.slot /\ o.node = s.node
    BY <2>1, <2>2, <2>3, <2>4, <2>5
  <2>6. ASSUME NEW s \in screens, NEW t \in screens, s.node.key = t.node.key
        PROVE  \/ \E o \in screens' : o.req = t.req /\ o.slot = t.slot /\ o.node = s.node
               \/ \E o \in screens' : o.req = s.req /\ o.slot = s.slot /\ o.node = t.node
    BY <2>1, <2>6 DEF Nested
  <2> QED BY <2>1, <2>5, <2>6 DEF Nested
<1>2. CASE UNCHANGED screens
  BY <1>2 DEF Nested
<1>3. ASSUME NEW r \in Requests, Start(r) \/ Work(r) \/ Abort(r), ~ CreateScreen(r)
      PROVE  UNCHANGED screens
  BY <1>3 DEF Start, Work, Abort, Answer, Gather, Reject, EmbedBatch, Encode,
              MergeService, CreateService, InsertRow, Respond
<1> QED BY <1>1, <1>2, <1>3 DEF Next, vars

(* So it holds in every reachable state, with the invariant of the uploads.  *)
LEMMA NestedInvariant == Spec => [](IInv /\ Nested)
<1>1. Init => Nested
  BY DEF Init, Nested
<1> QED BY <1>1, NestedStep, InitInv, Inductive, PTL DEF Spec

(* The documents of one Screen node and the next of its upload.              *)
LEMMA SlotsAndDocs ==
  ASSUME IInv, NEW s \in screens, NEW t \in screens, s.req = t.req
  PROVE  s.doc = t.doc <=> s.slot = t.slot
<1> DEFINE r == s.req
<1>1. /\ r \in Requests /\ s.slot \in 1..Len(docs[r]) /\ t.slot \in 1..Len(docs[r])
      /\ s.doc = docs[r][s.slot] /\ t.doc = docs[r][t.slot]
  BY DEF IInv, TypeOK, ScreensInv
<1>2. Local(r) /\ docs[r] \in Seq(Nat) /\ Len(docs[r]) \in Nat /\ Len(docs[r]) > 0
  BY <1>1 DEF IInv, TypeOK
<1>3. \A j, k \in 1..Len(docs[r]) : j < k => docs[r][j] < docs[r][k]
  BY <1>2 DEF Local, Decided, Analysed, InOrder
<1>4. docs[r][s.slot] \in Nat /\ docs[r][t.slot] \in Nat
  BY <1>1, <1>2
<1> QED BY <1>1, <1>3, <1>4

(* For all uploads, racing or failing: the graph and the vector table agree  *)
(* on the service of a document.                                             *)
THEOREM StoresAgree == Spec => []ServiceListing
<1>1. IInv => ServiceListing
  <2> SUFFICES ASSUME IInv, NEW w \in rows, NEW keys \in SUBSET Services
               PROVE  w.svc \in keys <=> \E s \in ScreensByService(keys) : ScreenFor(s, w)
    BY DEF ServiceListing
  <2>1. /\ w.req \in Requests /\ w.slot \in 1..slot[w.req] /\ w.doc = docs[w.req][w.slot]
        /\ w.svc = ServiceOf(w.req, w.slot)
    BY DEF IInv, TypeOK, RowsInv, RowOf
  <2>2. PICK s \in screens : s.req = w.req /\ s.slot = w.slot
    BY <2>1 DEF IInv, ScreensInv
  <2>3. s.doc = w.doc
    BY <2>1, <2>2 DEF IInv, ScreensInv
  <2>4. \A t \in screens : ScreenFor(t, w) => t.node.key = w.svc
    <3> SUFFICES ASSUME NEW t \in screens, ScreenFor(t, w) PROVE t.node.key = w.svc
      OBVIOUS
    <3>1. t.slot = w.slot
      BY <2>2, <2>3, SlotsAndDocs DEF ScreenFor
    <3> QED BY <2>1, <3>1 DEF ScreenFor, IInv, ScreensInv
  <2> QED BY <2>2, <2>3, <2>4 DEF ScreensByService, ScreenFor
<1> QED BY <1>1, Invariant, PTL

(* For all uploads and races: documents of one service are related.          *)
THEOREM RelatedAcrossRaces == Spec => []SameServiceRelated
<1>1. IInv /\ Nested => SameServiceRelated
  <2> SUFFICES ASSUME IInv, Nested, NEW s \in screens, NEW t \in screens,
                      s.node.key = t.node.key, DocOf(s) # DocOf(t)
               PROVE  \E o \in RelatedScreens(s.label, {DocOf(s)}) : DocOf(o) = DocOf(t)
    BY DEF SameServiceRelated
  <2>1. CASE \E o \in screens : o.req = t.req /\ o.slot = t.slot /\ o.node = s.node
    <3>1. PICK o \in screens : o.req = t.req /\ o.slot = t.slot /\ o.node = s.node
      BY <2>1
    <3>2. DocOf(o) = DocOf(t)
      BY <3>1, SlotsAndDocs DEF DocOf
    <3>3. s \in Targets(s.label, {DocOf(s)}) /\ o # s
      BY <3>2 DEF Targets
    <3> QED BY <3>1, <3>2, <3>3 DEF RelatedScreens
  <2>2. CASE \E o \in screens : o.req = s.req /\ o.slot = s.slot /\ o.node = t.node
    <3>1. PICK o \in screens : o.req = s.req /\ o.slot = s.slot /\ o.node = t.node
      BY <2>2
    <3>2. DocOf(o) = DocOf(s)
      BY <3>1, SlotsAndDocs DEF DocOf
    <3>3. o.label = s.label
      BY <3>1 DEF IInv, ScreensInv
    <3>4. o \in Targets(s.label, {DocOf(s)}) /\ o # t
      BY <3>2, <3>3 DEF Targets
    <3> QED BY <3>1, <3>4 DEF RelatedScreens
  <2> QED BY <2>1, <2>2 DEF Nested
<1> QED BY <1>1, NestedInvariant, PTL

(* For all uploads, races and names, borne by any documents: a document is   *)
(* returned only because of another document of the name.                    *)
THEOREM NeverRelatedThroughItself == Spec => []RelatedThroughAnother
<1>1. IInv => RelatedThroughAnother
  <2> SUFFICES ASSUME IInv,
                      NEW label, NEW named,
                      NEW o \in screens, NEW t \in Targets(label, named),
                      o.node = t.node, o # t, DocOf(t) = DocOf(o)
               PROVE  FALSE
    BY DEF RelatedThroughAnother, RelatedScreens
  <2>1. t \in screens /\ o.req = t.req /\ o.doc = t.doc
    BY DEF DocOf, Targets
  <2>2. o.slot = t.slot
    BY <2>1, SlotsAndDocs
  <2>3. o.label = t.label
    BY <2>1 DEF IInv, ScreensInv
  <2>4. \A x \in {o, t} : x \in [req : Requests, slot : Nat, doc : Nat,
                                label : {AgeLabel[c] : c \in Collections}, node : NodeType]
    BY <2>1 DEF IInv, TypeOK
  <2> QED BY <2>1, <2>2, <2>3, <2>4
<1> QED BY <1>1, Invariant, PTL

-----------------------------------------------------------------------------
(* How long an upload can take.                                              *)

Unanswered(r) == {i \in Positions(r) : llm[r][i] = "pending"}

Unsaved(r) == Len(docs[r]) - slot[r]

(* A step of upload r itself, or of what ends it.                            *)
StepOf(r) == Start(r) \/ Work(r) \/ Abort(r)

(* The most steps that upload r still has before it: four for each document  *)
(* in the loop, before it one for each batch, which has a text at least, and *)
(* before that one for each answer.                                          *)
StepsLeft(r) ==
    CASE pc[r] = "idle" -> 6 * Job[r].size + 4
      [] pc[r] = "analysing" -> Cardinality(Unanswered(r)) + 5 * Job[r].size + 3
      [] pc[r] = "embed" -> 5 * Len(docs[r]) - Len(embs[r]) + 2
      [] pc[r] = "merge" -> 4 * Unsaved(r) + 1
      [] pc[r] = "create" -> 4 * Unsaved(r)
      [] pc[r] = "screen" -> 4 * Unsaved(r) - 1
      [] pc[r] = "insert" -> 4 * Unsaved(r) - 2
      [] pc[r] = "saved" -> 1
      [] OTHER -> 0

(* Documents are items.                                                      *)
Fits == \A r \in Requests : Len(docs[r]) <= Job[r].size

(* What stays as it was for q leaves q its steps.                            *)
LEMMA StepsFrame ==
  ASSUME TypeOK, NEW r \in Requests, NEW q \in Requests, q # r, StepOf(r)
  PROVE  StepsLeft(q)' = StepsLeft(q) /\ docs'[q] = docs[q]
<1>1. /\ pc'[q] = pc[q] /\ llm'[q] = llm[q] /\ docs'[q] = docs[q]
      /\ embs'[q] = embs[q] /\ slot'[q] = slot[q]
  BY DEF TypeOK, StepOf, Start, Work, Abort, Answer, Gather, Reject, EmbedBatch, Encode,
         MergeService, CreateService, CreateScreen, InsertRow, Respond
<1>2. Unanswered(q)' = Unanswered(q) /\ Unsaved(q)' = Unsaved(q)
  BY <1>1 DEF Unanswered, Unsaved, Positions
<1> QED BY <1>1, <1>2 DEF StepsLeft

(* The numbers that StepsLeft is made of.                                    *)
Sized(r) ==
    /\ Job[r].size \in Nat /\ Len(docs[r]) \in Nat /\ Len(embs[r]) \in Nat
    /\ slot[r] \in Nat /\ Unsaved(r) = Len(docs[r]) - slot[r] /\ Unsaved(r) \in Nat
    /\ Len(embs[r]) <= Len(docs[r]) /\ Len(docs[r]) <= Job[r].size
    /\ pc[r] = "embed" => slot[r] = 0
    /\ pc[r] \in {"merge", "create", "screen", "insert"} => Unsaved(r) >= 1
    /\ IsFiniteSet(Unanswered(r)) /\ Cardinality(Unanswered(r)) \in 0..Job[r].size
    /\ pc[r] \in PCs

Bounded(r) ==
    /\ StepsLeft(r) \in 0..6 * Job[r].size + 4
    /\ pc[r] \in Running => StepsLeft(r) >= 1

LEMMA StepsFacts ==
  ASSUME IInv, Fits, NEW r \in Requests
  PROVE  Sized(r)
<1>1. Job[r].size \in Nat
  BY JobAssumption DEF JobAssumption
<1>2. /\ Len(docs[r]) \in Nat /\ Len(embs[r]) \in Nat /\ slot[r] \in Nat /\ pc[r] \in PCs
  BY DEF IInv, TypeOK
<1>3. /\ slot[r] <= Len(docs[r]) /\ Len(embs[r]) <= Len(docs[r])
      /\ pc[r] = "embed" => slot[r] = 0
      /\ pc[r] \in {"merge", "create", "screen", "insert"} => slot[r] < Len(docs[r])
  BY DEF IInv, Local, Progress, Embeddings
<1>4. IsFiniteSet(Unanswered(r)) /\ Cardinality(Unanswered(r)) \in 0..Job[r].size
  <2>1. Unanswered(r) \in SUBSET (1..Job[r].size)
    BY DEF Unanswered, Positions
  <2>2. IsFiniteSet(1..Job[r].size) /\ Cardinality(1..Job[r].size) = Job[r].size
    <3>1. 1 \in Int /\ Job[r].size \in Int /\ (IF 1 > Job[r].size THEN 0 ELSE Job[r].size - 1 + 1) = Job[r].size
      BY <1>1
    <3> QED BY <3>1, FS_Interval
  <2>3. IsFiniteSet(Unanswered(r)) /\ Cardinality(Unanswered(r)) <= Job[r].size
    BY <2>1, <2>2, FS_Subset
  <2>4. Cardinality(Unanswered(r)) \in Nat
    BY <2>3, FS_CardinalityType
  <2> QED BY <1>1, <2>3, <2>4
<1>5. Unsaved(r) = Len(docs[r]) - slot[r]
  BY DEF Unsaved
<1> QED BY <1>1, <1>2, <1>3, <1>4, <1>5 DEF Fits, Sized

LEMMA StepsBound ==
  ASSUME NEW r \in Requests, Sized(r)
  PROVE  Bounded(r)
<1> DEFINE n == Job[r].size
           d == Len(docs[r])
           e == Len(embs[r])
           s == slot[r]
           u == Unsaved(r)
           c == Cardinality(Unanswered(r))
<1>1. /\ n \in Nat /\ d \in Nat /\ e \in Nat /\ s \in Nat /\ u = d - s /\ u \in Nat
      /\ e <= d /\ d <= n /\ c \in 0..n
      /\ pc[r] \in {"merge", "create", "screen", "insert"} => u >= 1
      /\ pc[r] \in PCs
  BY DEF Sized
<1>2. StepsLeft(r) =
         CASE pc[r] = "idle" -> 6 * n + 4
           [] pc[r] = "analysing" -> c + 5 * n + 3
           [] pc[r] = "embed" -> 5 * d - e + 2
           [] pc[r] = "merge" -> 4 * u + 1
           [] pc[r] = "create" -> 4 * u
           [] pc[r] = "screen" -> 4 * u - 1
           [] pc[r] = "insert" -> 4 * u - 2
           [] pc[r] = "saved" -> 1
           [] OTHER -> 0
  BY DEF StepsLeft
<1> HIDE DEF n, d, e, s, u, c
<1>3. /\ 6 * n + 4 \in 1..6 * n + 4 /\ c + 5 * n + 3 \in 1..6 * n + 4
      /\ 5 * d - e + 2 \in 1..6 * n + 4 /\ 4 * u + 1 \in 1..6 * n + 4
      /\ u >= 1 => /\ 4 * u \in 1..6 * n + 4 /\ 4 * u - 1 \in 1..6 * n + 4
                   /\ 4 * u - 2 \in 1..6 * n + 4
      /\ 1 \in 1..6 * n + 4 /\ 0 \in 0..6 * n + 4
      /\ 1..6 * n + 4 \subseteq 0..6 * n + 4
  BY <1>1
<1>4. pc[r] # "idle" /\ pc[r] \notin Running => StepsLeft(r) = 0
  BY <1>2 DEF Running
<1>5. pc[r] = "idle" \/ pc[r] \in Running => StepsLeft(r) \in 1..6 * n + 4
  BY <1>1, <1>2, <1>3 DEF Running
<1>6. StepsLeft(r) \in 0..6 * n + 4
  BY <1>3, <1>4, <1>5
<1> QED BY <1>1, <1>5, <1>6 DEF n, Bounded

(* A step of an upload leaves it at least one less.                          *)
LEMMA StepsFewer ==
  ASSUME IInv, NEW r \in Requests, Sized(r), Sized(r)', StepOf(r)
  PROVE  StepsLeft(r)' < StepsLeft(r)
<1> DEFINE n == Job[r].size
           d == Len(docs[r])
           e == Len(embs[r])
           s == slot[r]
           u == Unsaved(r)
           c == Cardinality(Unanswered(r))
<1>1. /\ n \in Nat /\ d \in Nat /\ e \in Nat /\ s \in Nat /\ u = d - s /\ u \in Nat
      /\ e <= d /\ d <= n /\ c \in 0..n
      /\ pc[r] = "embed" => s = 0
      /\ pc[r] \in {"merge", "create", "screen", "insert"} => u >= 1
  BY DEF Sized
<1>2. /\ d' \in Nat /\ e' \in Nat /\ s' \in Nat /\ u' = d' - s'
      /\ e' <= d' /\ d' <= n /\ c' \in 0..n
  BY DEF Sized
<1>3. /\ pc \in [Requests -> PCs] /\ docs \in [Requests -> Seq(Nat)]
      /\ embs \in [Requests -> Seq(Nat)] /\ slot \in [Requests -> Nat]
      /\ r \in DOMAIN llm /\ llm[r] \in [Positions(r) -> Outcomes \cup {"pending"}]
  BY DEF IInv, TypeOK
<1>4. StepsLeft(r) =
         CASE pc[r] = "idle" -> 6 * n + 4
           [] pc[r] = "analysing" -> c + 5 * n + 3
           [] pc[r] = "embed" -> 5 * d - e + 2
           [] pc[r] = "merge" -> 4 * u + 1
           [] pc[r] = "create" -> 4 * u
           [] pc[r] = "screen" -> 4 * u - 1
           [] pc[r] = "insert" -> 4 * u - 2
           [] pc[r] = "saved" -> 1
           [] OTHER -> 0
  BY DEF StepsLeft
<1>5. StepsLeft(r)' =
         CASE pc'[r] = "idle" -> 6 * n + 4
           [] pc'[r] = "analysing" -> c' + 5 * n + 3
           [] pc'[r] = "embed" -> 5 * d' - e' + 2
           [] pc'[r] = "merge" -> 4 * u' + 1
           [] pc'[r] = "create" -> 4 * u'
           [] pc'[r] = "screen" -> 4 * u' - 1
           [] pc'[r] = "insert" -> 4 * u' - 2
           [] pc'[r] = "saved" -> 1
           [] OTHER -> 0
  BY DEF StepsLeft
<1>6. CASE Start(r)
  <2>1. pc[r] = "idle" /\ pc'[r] = "analysing"
    BY <1>3, <1>6 DEF Start
  <2>2. StepsLeft(r) = 6 * n + 4 /\ StepsLeft(r)' = c' + 5 * n + 3
    BY <1>4, <1>5, <2>1
  <2> HIDE DEF n, c
  <2> QED BY <1>1, <1>2, <2>2
<1>7. ASSUME NEW i \in Positions(r), Answer(r, i) PROVE StepsLeft(r)' < StepsLeft(r)
  <2>1. pc[r] = "analysing" /\ pc'[r] = "analysing"
    BY <1>7 DEF Answer
  <2>2. StepsLeft(r) = c + 5 * n + 3 /\ StepsLeft(r)' = c' + 5 * n + 3
    BY <1>4, <1>5, <2>1
  <2>3. PICK o \in Outcomes : llm' = [llm EXCEPT ![r][i] = o]
    BY <1>7 DEF Answer
  <2>4. llm'[r] = [llm[r] EXCEPT ![i] = o] /\ i \in Unanswered(r)
    BY <1>3, <1>7, <2>3 DEF Answer, Unanswered
  <2>5. o # "pending"
    BY ServiceAssumption DEF ServiceAssumption, Outcomes
  <2>6. Unanswered(r)' = Unanswered(r) \ {i}
    BY <1>3, <2>4, <2>5 DEF Unanswered, Positions
  <2>7. IsFiniteSet(Unanswered(r))
    BY DEF Sized
  <2>8. c' = c - 1
    BY <2>4, <2>6, <2>7, FS_RemoveElement
  <2> HIDE DEF n, c
  <2> QED BY <1>1, <1>2, <2>2, <2>8
<1>8. CASE Gather(r)
  <2>1. pc[r] = "analysing" /\ pc'[r] = "embed"
    BY <1>3, <1>8 DEF Gather
  <2>2. StepsLeft(r) = c + 5 * n + 3 /\ StepsLeft(r)' = 5 * d' - e' + 2
    BY <1>4, <1>5, <2>1
  <2>3. 5 * d' - e' + 2 < c + 5 * n + 3
    <3>1. ASSUME NEW x \in Nat, NEW y \in Nat, x <= n PROVE 5 * x - y + 2 < c + 5 * n + 3
      <4>1. 5 * x <= 5 * n /\ 5 * n \in Nat /\ 5 * x \in Nat /\ c \in Nat
        <5> HIDE DEF n, c
        <5> QED BY <1>1, <3>1
      <4> HIDE DEF n, c
      <4> QED BY <4>1
    <3> HIDE DEF n, c, d, e
    <3> QED BY <1>2, <3>1
  <2> QED BY <2>2, <2>3
<1>9. CASE Reject(r) \/ Abort(r) \/ Respond(r)
  <2>1. pc[r] \in Running /\ pc'[r] \in {"error", "ok"}
    BY <1>3, <1>9 DEF Reject, Abort, Respond, AfterFailure, Running
  <2>2. StepsLeft(r)' = 0
    BY <1>5, <2>1
  <2> QED BY <1>1, <2>1, <2>2, StepsBound DEF Bounded
<1>10. CASE EmbedBatch(r)
  <2>1. pc[r] = "embed" /\ pc'[r] = "embed" /\ d' = d /\ e < d
    BY <1>1, <1>3, <1>10 DEF EmbedBatch, Embedded
  <2>2. StepsLeft(r) = 5 * d - e + 2 /\ StepsLeft(r)' = 5 * d' - e' + 2
    BY <1>4, <1>5, <2>1
  <2>3. embs'[r] = embs[r] \o Batch(r)
    BY <1>3, <1>10 DEF EmbedBatch
  <2>4. PICK k \in Nat : /\ k # 0 /\ e + k <= d
                        /\ Batch(r) = SubSeq(docs[r], e + 1, e + k)
    BY <1>1, <2>1, BatchFacts
  <2>5. e' = e + k
    <3>1. \A j \in 1..e : embs[r][j] = docs[r][j]
      BY DEF IInv, Local, Embeddings
    <3>2. docs[r] \in Seq(Nat) /\ embs[r] \in Seq(Nat)
      BY <1>3
    <3>3. Len(embs[r] \o SubSeq(docs[r], Len(embs[r]) + 1, Len(embs[r]) + k)) = e + k
      BY <2>4, <3>1, <3>2, ExtendPrefix
    <3> QED BY <2>3, <2>4, <3>3
  <2> HIDE DEF d, e
  <2> QED BY <1>1, <2>1, <2>2, <2>4, <2>5
<1>11. CASE Encode(r)
  <2>1. pc[r] = "embed" /\ e = d /\ u' = u /\ pc'[r] = AtDocument(r, 1)
    BY <1>3, <1>11 DEF Encode, Embedded, Unsaved
  <2>2. StepsLeft(r) = 5 * d - e + 2 /\ u = d
    BY <1>1, <1>4, <2>1
  <2>3. StepsLeft(r)' = 4 * u + 1 \/ StepsLeft(r)' = 1
    BY <1>5, <2>1 DEF AtDocument
  <2> HIDE DEF d, e, u
  <2> QED BY <1>1, <2>1, <2>2, <2>3
<1>12. CASE MergeService(r)
  <2>1. pc[r] = "merge" /\ u' = u /\ pc'[r] \in {"screen", "create"}
    BY <1>3, <1>12 DEF MergeService, AfterMerge, Unsaved
  <2>2. /\ StepsLeft(r) = 4 * u + 1
        /\ StepsLeft(r)' = 4 * u - 1 \/ StepsLeft(r)' = 4 * u
    BY <1>4, <1>5, <2>1
  <2> HIDE DEF u
  <2> QED BY <1>1, <2>2
<1>13. CASE CreateService(r) \/ CreateScreen(r)
  <2>1. /\ u' = u
        /\ \/ pc[r] = "create" /\ pc'[r] = "screen"
           \/ pc[r] = "screen" /\ pc'[r] = "insert"
    BY <1>3, <1>13 DEF CreateService, CreateScreen, Unsaved
  <2>2. \/ StepsLeft(r) = 4 * u /\ StepsLeft(r)' = 4 * u - 1
        \/ StepsLeft(r) = 4 * u - 1 /\ StepsLeft(r)' = 4 * u - 2
    BY <1>4, <1>5, <2>1
  <2> HIDE DEF u
  <2> QED BY <1>1, <2>2
<1>14. CASE InsertRow(r)
  <2>1. /\ pc[r] = "insert" /\ slot'[r] = slot[r] + 1 /\ docs'[r] = docs[r]
        /\ pc'[r] = AtDocument(r, slot[r] + 2)
    BY <1>1, <1>3, <1>14 DEF InsertRow, Current
  <2>2. StepsLeft(r) = 4 * u - 2 /\ u' = u - 1
    <3>1. u' = Len(docs[r]) - (slot[r] + 1) /\ u = Len(docs[r]) - slot[r]
      BY <2>1 DEF Unsaved
    <3>2. StepsLeft(r) = 4 * u - 2
      BY <1>4, <2>1
    <3> HIDE DEF u
    <3> QED BY <1>1, <3>1, <3>2
  <2>3. StepsLeft(r)' = 4 * u' + 1 \/ (StepsLeft(r)' = 1 /\ u >= 1)
    BY <1>1, <1>5, <2>1 DEF AtDocument
  <2> HIDE DEF u
  <2> QED BY <1>1, <2>2, <2>3
<1> QED BY <1>6, <1>7, <1>8, <1>9, <1>10, <1>11, <1>12, <1>13, <1>14 DEF StepOf, Work

LEMMA FitsStep == IInv /\ Fits /\ [Next]_vars => Fits'
<1> SUFFICES ASSUME IInv, Fits, [Next]_vars, NEW q \in Requests
             PROVE  Len(docs'[q]) <= Job[q].size
  BY DEF Fits
<1>1. ASSUME NEW r \in Requests, Gather(r) PROVE Len(docs'[q]) <= Job[q].size
  <2>1. PICK f \in Listings(r) : docs' = [docs EXCEPT ![r] = f]
    BY <1>1 DEF Gather
  <2>2. Len(f) <= Job[r].size
    <3>1. PICK m \in 0..Job[r].size : f \in [1..m -> Positions(r)]
      BY DEF Listings
    <3>2. Job[r].size \in Nat
      BY JobAssumption DEF JobAssumption
    <3>3. m \in Nat /\ f \in Seq(Positions(r))
      BY <3>1, <3>2
    <3>4. Len(f) = m
      BY <3>1, <3>3
    <3> QED BY <3>1, <3>2, <3>4
  <2>3. docs'[q] = IF q = r THEN f ELSE docs[q]
    BY <2>1 DEF IInv, TypeOK
  <2> QED BY <2>2, <2>3 DEF Fits
<1>2. CASE UNCHANGED docs
  BY <1>2 DEF Fits
<1>3. ASSUME NEW r \in Requests, StepOf(r), ~ Gather(r) PROVE UNCHANGED docs
  BY <1>3 DEF StepOf, Start, Work, Abort, Answer, Reject, EmbedBatch, Encode,
              MergeService, CreateService, CreateScreen, InsertRow, Respond
<1> QED BY <1>1, <1>2, <1>3 DEF Next, StepOf, vars

(* However the calls end and whatever an upload races, it comes to its end   *)
(* in at most 6n + 4 steps for n items: none of its loops is ever prolonged  *)
(* or begun again.  So an upload that is not answered waits for a call or a  *)
(* statement that does not end.                                              *)
THEOREM UploadsAreBounded ==
  Spec => /\ [](\A r \in Requests : StepsLeft(r) \in 0..6 * Job[r].size + 4)
          /\ [][\A r \in Requests : /\ StepsLeft(r)' <= StepsLeft(r)
                                    /\ StepOf(r) => StepsLeft(r)' < StepsLeft(r)]_vars
<1>1. Init => Fits
  <2> SUFFICES ASSUME Init, NEW r \in Requests PROVE Len(docs[r]) <= Job[r].size
    BY DEF Fits
  <2>1. docs[r] = << >> /\ Job[r].size \in Nat
    BY JobAssumption DEF Init, JobAssumption
  <2>2. Len(docs[r]) = 0
    BY <2>1
  <2> QED BY <2>1, <2>2
<1> DEFINE Sizes == \A r \in Requests : Sized(r)
           Bounds == \A r \in Requests : StepsLeft(r) \in 0..6 * Job[r].size + 4
           Shorter == \A r \in Requests :
                         /\ StepsLeft(r)' <= StepsLeft(r)
                         /\ StepOf(r) => StepsLeft(r)' < StepsLeft(r)
<1>2. IInv /\ Fits => Sizes
  BY StepsFacts
<1>3. Sizes => Bounds
  BY StepsBound DEF Bounded
<1>4. IInv /\ Sizes /\ Sizes' /\ Bounds /\ Bounds' /\ [Next]_vars => [Shorter]_vars
  <2> SUFFICES ASSUME IInv, Sizes, Sizes', Bounds, Bounds', Next, NEW r \in Requests
               PROVE  /\ StepsLeft(r)' <= StepsLeft(r)
                      /\ StepOf(r) => StepsLeft(r)' < StepsLeft(r)
    OBVIOUS
  <2>1. StepsLeft(r) \in Int /\ StepsLeft(r)' \in Int
    OBVIOUS
  <2>2. CASE StepOf(r)
    BY <2>1, <2>2, StepsFewer
  <2>3. CASE ~ StepOf(r)
    <3>1. PICK q \in Requests : StepOf(q) /\ r # q
      BY <2>3 DEF Next, StepOf
    <3>2. StepsLeft(r)' = StepsLeft(r)
      BY <3>1, StepsFrame DEF IInv
    <3> QED BY <2>1, <2>3, <3>2
  <2> QED BY <2>2, <2>3
<1> HIDE DEF Sizes, Bounds, Shorter
<1>5. Spec => []Bounds /\ [][Shorter]_vars
  BY <1>1, <1>2, <1>3, <1>4, InitInv, Inductive, FitsStep, PTL DEF Spec
<1> QED BY <1>5 DEF Bounds, Shorter
=============================================================================

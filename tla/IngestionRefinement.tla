------------------------ MODULE IngestionRefinement ------------------------
(* Ingestion keeps the promise of Library, for any uploads.                  *)
EXTENDS IngestionProofs

(* The images of Ingestion's state under the refinement mapping.             *)
Told == [r \in Requests |-> StatusOf(pc[r])]
Worth == [r \in Requests |-> {docs[r][j] : j \in 1..Len(docs[r])}]
Found == {<<w.req, w.doc>> : w \in rows}

(* A step is invisible when it changes no status, no document list, no row.  *)
LEMMA Invisible ==
  ASSUME \A r \in Requests : StatusOf(pc'[r]) = StatusOf(pc[r]),
         UNCHANGED <<docs, rows>>
  PROVE  UNCHANGED Promise!vars
<1>1. Told' = Told
  BY DEF Told
<1>2. Worth' = Worth /\ Found' = Found
  BY DEF Worth, Found
<1> QED BY <1>1, <1>2 DEF Promise!vars, Told, Worth, Found

(* A move of r from p to q is a move between their images.                   *)
LEMMA StatusMove ==
  ASSUME TypeOK, NEW r \in Requests, NEW p,
         pc' = [pc EXCEPT ![r] = p]
  PROVE  /\ Told' = [Told EXCEPT ![r] = StatusOf(p)]
         /\ Told[r] = StatusOf(pc[r])
         /\ StatusOf(p) = StatusOf(pc[r]) =>
               \A q \in Requests : StatusOf(pc'[q]) = StatusOf(pc[q])
<1>1. \A q \in Requests : pc'[q] = IF q = r THEN p ELSE pc[q]
  BY DEF TypeOK
<1>2. Told[r] = StatusOf(pc[r])
  BY DEF Told
<1>3. Told' = [q \in Requests |-> StatusOf(pc'[q])]
  BY DEF Told
<1>4. [Told EXCEPT ![r] = StatusOf(p)]
        = [q \in Requests |-> IF q = r THEN StatusOf(p) ELSE StatusOf(pc[q])]
  BY DEF Told
<1>5. \A q \in Requests :
        StatusOf(pc'[q]) = IF q = r THEN StatusOf(p) ELSE StatusOf(pc[q])
  BY <1>1
<1> QED BY <1>2, <1>3, <1>4, <1>5

(* Failure, rejection and death are Fail.                                    *)
LEMMA FailRefined ==
  ASSUME TypeOK, NEW r \in Requests, Reject(r) \/ Abort(r)
  PROVE  Promise!Fail(r)
<1>1. /\ pc[r] \in Running /\ pc' = [pc EXCEPT ![r] = "error"]
      /\ UNCHANGED <<docs, rows>>
  BY DEF Reject, Abort, AfterFailure, Running
<1>2. Told' = [Told EXCEPT ![r] = "error"]
  BY <1>1, StatusMove DEF StatusOf, Done
<1>3. Told[r] \in {"open", "storing"}
  BY <1>1, StatusMove DEF StatusOf, Done, Running
<1>4. Worth' = Worth /\ Found' = Found
  BY <1>1 DEF Worth, Found
<1> QED BY <1>2, <1>3, <1>4 DEF Promise!Fail, Told, Worth, Found

(* The gather's return decides which items become documents.                 *)
LEMMA GatherRefined ==
  ASSUME TypeOK, NEW r \in Requests, Gather(r)
  PROVE  Promise!Decide(r)
<1>1. PICK f \in Listings(r) :
        InOrder(f, Kept(r)) /\ docs' = [docs EXCEPT ![r] = f]
  BY DEF Gather
<1> DEFINE S == {f[j] : j \in 1..Len(f)}
<1>2. S \in SUBSET (1..[q \in Requests |-> Job[q].size][r])
  BY <1>1 DEF InOrder, Kept, Positions
<1>3. Worth' = [Worth EXCEPT ![r] = S]
  <2>1. \A q \in Requests : docs'[q] = IF q = r THEN f ELSE docs[q]
    BY <1>1 DEF TypeOK
  <2>2. Worth' = [q \in Requests |-> {docs'[q][j] : j \in 1..Len(docs'[q])}]
    BY DEF Worth
  <2>3. [Worth EXCEPT ![r] = S]
          = [q \in Requests |-> IF q = r THEN S ELSE {docs[q][j] : j \in 1..Len(docs[q])}]
    BY DEF Worth
  <2>4. \A q \in Requests : {docs'[q][j] : j \in 1..Len(docs'[q])}
          = IF q = r THEN S ELSE {docs[q][j] : j \in 1..Len(docs[q])}
    BY <2>1
  <2> QED BY <2>2, <2>3, <2>4
<1>4. Told' = [Told EXCEPT ![r] = "storing"] /\ Told[r] = "open"
  <2>1. pc[r] = "analysing" /\ pc' = [pc EXCEPT ![r] = "embed"]
    BY DEF Gather
  <2>2. Told' = [Told EXCEPT ![r] = StatusOf("embed")] /\ Told[r] = StatusOf("analysing")
    BY <2>1, StatusMove
  <2>3. StatusOf("embed") = "storing" /\ StatusOf("analysing") = "open"
    BY DEF StatusOf, Done
  <2> QED BY <2>2, <2>3
<1>5. Found' = Found
  BY DEF Gather, Found
<1> QED BY <1>2, <1>3, <1>4, <1>5 DEF Promise!Decide, Told, Worth, Found

(* What IInv says of the documents and rows of one upload.                   *)
LEMMA Shelved ==
  ASSUME IInv, NEW r \in Requests, pc[r] \in {"insert", "saved"}
  PROVE  /\ slot[r] \in Nat /\ Len(docs[r]) \in Nat /\ slot[r] <= Len(docs[r])
         /\ pc[r] = "insert" => slot[r] < Len(docs[r])
         /\ pc[r] = "saved" => slot[r] = Len(docs[r])
         /\ \A j \in 1..Len(docs[r]) : docs[r][j] \in 1..Job[r].size /\ docs[r][j] \in Nat
         /\ \A j, k \in 1..Len(docs[r]) : j < k => docs[r][j] < docs[r][k]
         /\ \A p : <<r, p>> \in Found <=> \E j \in 1..slot[r] : p = docs[r][j]
<1>1. /\ Local(r) /\ slot[r] \in Nat /\ docs[r] \in Seq(Nat) /\ Len(docs[r]) \in Nat
  BY DEF IInv, TypeOK
<1>2. /\ slot[r] <= Len(docs[r])
      /\ pc[r] = "insert" => slot[r] < Len(docs[r])
      /\ pc[r] = "saved" => slot[r] = Len(docs[r])
  BY <1>1 DEF Local, Progress
<1>3. InOrder(docs[r], Kept(r))
  BY <1>1 DEF Local, Decided, Analysed
<1>4. ASSUME NEW p, <<r, p>> \in Found PROVE \E j \in 1..slot[r] : p = docs[r][j]
  <2>1. PICK w \in rows : w.req = r /\ w.doc = p
    BY <1>4 DEF Found
  <2> QED BY <2>1 DEF IInv, RowsInv, RowOf
<1>5. ASSUME NEW j \in 1..slot[r] PROVE <<r, docs[r][j]>> \in Found
  <2>1. RowOf(r, j) \in rows
    BY DEF IInv, RowsInv
  <2> QED BY <2>1 DEF Found, RowOf
<1>6. \A j \in 1..Len(docs[r]) : docs[r][j] \in 1..Job[r].size /\ docs[r][j] \in Nat
  BY <1>1, <1>3 DEF InOrder, Kept, Positions
<1> QED BY <1>1, <1>2, <1>3, <1>4, <1>5, <1>6 DEF InOrder

(* A row puts the next document on the shelf.                                *)
LEMMA InsertRefined ==
  ASSUME IInv, NEW r \in Requests, InsertRow(r)
  PROVE  Promise!Publish(r)
<1> DEFINE n == Current(r)
           p == docs[r][n]
<1>1. TypeOK /\ pc[r] = "insert" /\ docs' = docs /\ n = slot[r] + 1
  BY DEF IInv, InsertRow, Current
<1>2. /\ slot[r] \in Nat /\ Len(docs[r]) \in Nat /\ slot[r] < Len(docs[r])
      /\ \A j \in 1..Len(docs[r]) : docs[r][j] \in Nat
      /\ \A j, k \in 1..Len(docs[r]) : j < k => docs[r][j] < docs[r][k]
      /\ \A q : <<r, q>> \in Found <=> \E j \in 1..slot[r] : q = docs[r][j]
  BY <1>1, Shelved
<1>3. n \in 1..Len(docs[r]) /\ p \in Worth[r]
  BY <1>1, <1>2 DEF Worth
<1>4. <<r, p>> \notin Found
  <2> SUFFICES ASSUME NEW j \in 1..slot[r], p = docs[r][j] PROVE FALSE
    BY <1>2
  <2>1. j \in 1..Len(docs[r]) /\ j < n
    BY <1>1, <1>2
  <2>2. docs[r][j] < p /\ p \in Nat
    BY <1>2, <1>3, <2>1
  <2> QED BY <2>2
<1>5. ASSUME NEW q \in Worth[r], q < p PROVE <<r, q>> \in Found
  <2>1. PICK j \in 1..Len(docs[r]) : q = docs[r][j]
    BY DEF Worth
  <2>2. n < j => p < q
    BY <1>2, <1>3, <2>1
  <2>3. q \in Nat /\ p \in Nat
    BY <1>2, <1>3, <2>1
  <2>4. j \in 1..slot[r]
    BY <1>1, <1>2, <1>5, <2>1, <2>2, <2>3
  <2> QED BY <1>2, <2>1, <2>4
<1>6. Found' = Found \cup {<<r, p>>}
  <2>1. rows' = rows \cup {RowOf(r, n)}
    BY DEF InsertRow
  <2>2. RowOf(r, n).req = r /\ RowOf(r, n).doc = p
    BY DEF RowOf
  <2>3. Found' = {<<w.req, w.doc>> : w \in rows'}
    BY DEF Found
  <2> QED BY <2>1, <2>2, <2>3 DEF Found
<1>7. Told' = Told
  <2>1. PICK s \in {"merge", "saved"} : pc' = [pc EXCEPT ![r] = s]
    BY DEF InsertRow, AtDocument
  <2> QED BY <1>1, <2>1, StatusMove DEF StatusOf, Done, Told
<1>8. Worth' = Worth /\ Told[r] = "storing"
  BY <1>1 DEF Worth, Told, StatusOf, Done
<1> QED BY <1>3, <1>4, <1>5, <1>6, <1>7, <1>8 DEF Promise!Publish, Told, Worth, Found

(* "ok" is answered when everything accepted is on the shelf.                *)
LEMMA RespondRefined ==
  ASSUME IInv, NEW r \in Requests, Respond(r)
  PROVE  Promise!Ack(r)
<1>1. TypeOK /\ pc[r] = "saved" /\ pc' = [pc EXCEPT ![r] = "ok"] /\ UNCHANGED <<docs, rows>>
  BY DEF IInv, Respond
<1>2. /\ slot[r] = Len(docs[r])
      /\ \A j \in 1..Len(docs[r]) : docs[r][j] \in 1..Job[r].size
      /\ \A q : <<r, q>> \in Found <=> \E j \in 1..slot[r] : q = docs[r][j]
  BY <1>1, Shelved
<1>3. {p \in 1..[q \in Requests |-> Job[q].size][r] : <<r, p>> \in Found} = Worth[r]
  BY <1>2 DEF Worth
<1>4. Told' = [Told EXCEPT ![r] = "ok"] /\ Told[r] = "storing"
  BY <1>1, StatusMove DEF StatusOf, Done
<1>5. Worth' = Worth /\ Found' = Found
  BY <1>1 DEF Worth, Found
<1> QED BY <1>3, <1>4, <1>5 DEF Promise!Ack, Promise!OnShelf, Told, Worth, Found

(* The other steps are invisible to the client.                              *)
LEMMA QuietRefined ==
  ASSUME IInv, NEW r \in Requests,
         \/ Start(r) \/ (\E i \in Positions(r) : Answer(r, i))
         \/ EmbedBatch(r) \/ Encode(r) \/ MergeService(r)
         \/ CreateService(r) \/ CreateScreen(r)
  PROVE  UNCHANGED Promise!vars
<1>0. TypeOK
  BY DEF IInv
<1>1. CASE Start(r)
  BY <1>0, <1>1, StatusMove, Invisible DEF Start, StatusOf
<1>2. CASE (\E i \in Positions(r) : Answer(r, i)) \/ EmbedBatch(r)
  BY <1>2, Invisible DEF Answer, EmbedBatch
<1>3. CASE Encode(r)
  <2>1. PICK s \in {"merge", "saved"} : pc' = [pc EXCEPT ![r] = s]
    BY <1>3 DEF Encode, AtDocument
  <2> QED BY <1>0, <1>3, <2>1, StatusMove, Invisible DEF Encode, StatusOf, Done
<1>4. CASE MergeService(r)
  <2>1. PICK s \in {"screen", "create"} : pc' = [pc EXCEPT ![r] = s]
    BY <1>4 DEF MergeService, AfterMerge
  <2> QED BY <1>0, <1>4, <2>1, StatusMove, Invisible DEF MergeService, StatusOf, Done
<1>5. CASE CreateService(r)
  BY <1>0, <1>5, StatusMove, Invisible DEF CreateService, StatusOf, Done
<1>6. CASE CreateScreen(r)
  BY <1>0, <1>6, StatusMove, Invisible DEF CreateScreen, StatusOf, Done
<1> QED BY <1>1, <1>2, <1>3, <1>4, <1>5, <1>6

(* The upload path implements Library: whatever the interleaving and the     *)
(* failures, a client sees an upload whose items are decided once, appear in *)
(* order and are complete when it is told "ok".                              *)
THEOREM ImplementsLibrary == Spec => RefinesLibrary
<1>1. Init => Promise!Init
  <2> SUFFICES ASSUME Init PROVE Promise!Init
    OBVIOUS
  <2>1. \A r \in Requests : StatusOf(pc[r]) = "open"
    BY DEF Init, StatusOf
  <2>2. \A r \in Requests : {docs[r][j] : j \in 1..Len(docs[r])} = {}
    <3> SUFFICES ASSUME NEW r \in Requests PROVE {docs[r][j] : j \in 1..Len(docs[r])} = {}
      OBVIOUS
    <3>1. docs[r] = << >>
      BY DEF Init
    <3>2. Len(docs[r]) = 0
      BY <3>1
    <3> QED BY <3>2
  <2>3. Found = {}
    BY DEF Init, Found
  <2> QED BY <2>1, <2>2, <2>3 DEF Promise!Init, Found
<1>2. IInv /\ [Next]_vars => [Promise!Next]_(Promise!vars)
  <2> SUFFICES ASSUME IInv, [Next]_vars PROVE Promise!Next \/ UNCHANGED Promise!vars
    OBVIOUS
  <2>1. CASE UNCHANGED vars
    BY <2>1, Invisible DEF vars
  <2>2. ASSUME NEW r \in Requests, Start(r) \/ Work(r) \/ Abort(r)
        PROVE  \/ UNCHANGED Promise!vars
               \/ Promise!Decide(r) \/ Promise!Publish(r) \/ Promise!Ack(r) \/ Promise!Fail(r)
    <3>0. TypeOK
      BY DEF IInv
    <3>1. CASE Reject(r) \/ Abort(r)
      BY <3>0, <3>1, FailRefined
    <3>2. CASE Gather(r)
      BY <3>0, <3>2, GatherRefined
    <3>3. CASE InsertRow(r)
      BY <3>3, InsertRefined
    <3>4. CASE Respond(r)
      BY <3>4, RespondRefined
    <3>5. CASE \/ Start(r) \/ (\E i \in Positions(r) : Answer(r, i))
               \/ EmbedBatch(r) \/ Encode(r) \/ MergeService(r)
               \/ CreateService(r) \/ CreateScreen(r)
      BY <3>5, QuietRefined
    <3> QED BY <2>2, <3>1, <3>2, <3>3, <3>4, <3>5 DEF Work
  <2> QED BY <2>1, <2>2 DEF Next, Promise!Next
<1> QED BY <1>1, <1>2, Invariant, PTL DEF Spec, RefinesLibrary, Promise!Spec
=============================================================================

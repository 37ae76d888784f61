------------------------- MODULE SearchCacheProofs -------------------------
(* The safety properties of SearchCache, for any collections and keys, any   *)
(* number of reads and uploads, with and without Redis, whatever fails.      *)
EXTENDS SearchCache, TLAPS

-----------------------------------------------------------------------------
(* The inductive invariant.                                                  *)

(* A document is linked before it is a row; an upload sweeps and answers     *)
(* only with all of its rows in place; a sweep begins with nothing scanned.  *)
StoreInv ==
    /\ rows \subseteq nodes
    /\ \A w \in Writers :
          /\ wpc[w] \in {"sweep", "answer", "ok"} \/ w \in swept => Saved(w)
          /\ wpc[w] \in {"idle", "store"} => scanned[w] = {} /\ found[w] = {}

(* What a reader holds is in the store, and reaches back to the store it     *)
(* began with.                                                               *)
ReaderInv ==
    /\ ~ Redis => Cached = {}
    /\ CachedIsReal
    /\ \A r \in Readers :
          /\ base[r] \subseteq Visible(key[r])
          /\ rpc[r] = "fill" => result[r] \subseteq Visible(key[r])
          /\ rpc[r] \in {"fill", "direct"} \/ (rpc[r] = "done" /\ ~ Redis)
                => base[r] \subseteq result[r]

(* The value under k, if it was no late one, has the documents of w.         *)
Clean(w, k) ==
    k \in Cached /\ k \notin late => InScope(DocsOf(w), k) \subseteq cache[k]

(* Behind its SCAN cursor, a sweep leaves only clean keys, but for those it  *)
(* is about to delete; and keys stay clean.                                  *)
SweepInv ==
    \A w \in Writers : \A k \in SearchKeys :
        \/ w \in swept
        \/ wpc[w] = "sweep" /\ k \in scanned[w] /\ k \notin found[w]
        => Clean(w, k)

IInv == TypeOK /\ StoreInv /\ ReaderInv /\ SweepInv

-----------------------------------------------------------------------------
(* An upload goes to a collection.                                           *)
LEMMA CollOf == ASSUME NEW w \in Writers PROVE Upload[w].coll \in Collections
<1>1. Upload[w] \in [endpoint : Endpoints, coll : Collections, size : Nat]
  BY UploadAssumption DEF UploadAssumption
<1> QED BY <1>1

(* A query finds more as the store grows ...                                 *)
LEMMA VisibleIsMonotone ==
  ASSUME rows \subseteq rows', nodes \subseteq nodes', NEW k
  PROVE  Visible(k) \subseteq Visible(k)'
  BY DEF Visible, InScope

(* ... and never anything but documents.                                     *)
LEMMA VisibleTyped == ASSUME TypeOK, NEW k PROVE Visible(k) \subseteq Docs
  BY DEF TypeOK, Visible, InScope

(* What was acknowledged can be found.                                       *)
LEMMA AckedIsVisible ==
  ASSUME StoreInv, NEW k \in Keys
  PROVE  Acknowledged(k) \subseteq Visible(k)
<1> SUFFICES ASSUME NEW d \in Acknowledged(k) PROVE d \in Visible(k)
  OBVIOUS
<1>1. PICK w \in Writers : wpc[w] = "ok" /\ d \in DocsOf(w)
  BY DEF Acknowledged, InScope
<1>2. d \in rows /\ d \in nodes
  BY <1>1 DEF StoreInv, Saved
<1> QED BY <1>2 DEF Acknowledged, Visible, InScope

(* It holds at the start.                                                    *)
LEMMA InitInv == Init => IInv
<1> SUFFICES ASSUME Init PROVE IInv
  OBVIOUS
<1>1. Cached = {}
  BY DEF Init, Cached
<1>2. TypeOK
  BY <1>1 DEF Init, TypeOK
<1>3. StoreInv /\ SweepInv
  BY <1>1 DEF Init, StoreInv, SweepInv, Clean
<1>4. ReaderInv
  BY <1>1 DEF Init, ReaderInv, CachedIsReal
<1> QED BY <1>2, <1>3, <1>4 DEF IInv

(* Steps of readers that leave the cache alone.                              *)
LEMMA ReaderStep ==
  ASSUME IInv, NEW r \in Readers,
         NEW p \in {"query", "bypass", "fill", "direct", "done", "error"},
         NEW v \in SUBSET Docs, NEW b \in SUBSET Docs,
         rpc' = [rpc EXCEPT ![r] = p],
         result' = [result EXCEPT ![r] = v],
         base' = [base EXCEPT ![r] = b],
         b \subseteq Visible(key[r]),
         p = "fill" => v \subseteq Visible(key[r]),
         p \in {"fill", "direct"} \/ (p = "done" /\ ~ Redis) => b \subseteq v,
         UNCHANGED <<store, cache, key, late, writer>>
  PROVE  IInv'
<1> USE DEF IInv, store, writer
<1>1. TypeOK'
  BY DEF TypeOK, Cached
<1>2. StoreInv' /\ SweepInv'
  BY DEF StoreInv, SweepInv, Saved, Clean, Cached
<1>3. \A k : Visible(k)' = Visible(k)
  BY DEF Visible
<1>4. \A q \in Readers :
        /\ rpc'[q] = IF q = r THEN p ELSE rpc[q]
        /\ result'[q] = IF q = r THEN v ELSE result[q]
        /\ base'[q] = IF q = r THEN b ELSE base[q]
  BY DEF TypeOK
<1>5. ReaderInv'
  BY <1>3, <1>4 DEF ReaderInv, CachedIsReal, Cached
<1> QED BY <1>1, <1>2, <1>5

(* The steps of a read, but for the SET.                                      *)
LEMMA ReadStep ==
  ASSUME IInv, NEW r \in Readers,
         Hit(r) \/ Miss(r) \/ Bypass(r) \/ Query(r) \/ ReadFails(r)
  PROVE  IInv'
<1>0. /\ TypeOK /\ StoreInv /\ ReaderInv
      /\ key[r] \in Keys /\ result[r] \subseteq Docs /\ base[r] \subseteq Docs
      /\ result = [result EXCEPT ![r] = result[r]] /\ base = [base EXCEPT ![r] = base[r]]
  BY DEF IInv, TypeOK
<1>1. /\ Acknowledged(key[r]) \subseteq Visible(key[r])
      /\ Visible(key[r]) \subseteq Docs /\ Acknowledged(key[r]) \subseteq Docs
  BY <1>0, AckedIsVisible, VisibleTyped
<1>2. CASE Hit(r)
  <2>1. Redis
    BY <1>0, <1>2 DEF Hit, ReaderInv, SwitchAssumption
  <2>2. cache[key[r]] \subseteq Docs
    BY <1>0, <1>2 DEF Hit, TypeOK
  <2> QED BY <1>1, <1>2, <2>1, <2>2, ReaderStep DEF Hit
<1>3. CASE Miss(r)
  BY <1>0, <1>1, <1>3, ReaderStep DEF Miss
<1>4. CASE Bypass(r)
  BY <1>0, <1>1, <1>4, ReaderStep DEF Bypass
<1>5. CASE Query(r)
  <2>1. base[r] \subseteq Visible(key[r])
    BY <1>0 DEF ReaderInv
  <2>2. rpc' = [rpc EXCEPT ![r] = "fill"] \/ rpc' = [rpc EXCEPT ![r] = "direct"]
    BY <1>5 DEF Query
  <2> QED BY <1>0, <1>1, <1>5, <2>1, <2>2, ReaderStep DEF Query
<1>6. CASE ReadFails(r)
  <2>1. base[r] \subseteq Visible(key[r])
    BY <1>0 DEF ReaderInv
  <2> QED BY <1>0, <1>6, <2>1, ReaderStep DEF ReadFails
<1> QED BY <1>2, <1>3, <1>4, <1>5, <1>6

(* The next request of a client, which holds nothing yet.                    *)
LEMMA AgainStep ==
  ASSUME IInv, NEW r \in Readers, Again(r)
  PROVE  IInv'
<1>0. PICK k \in Keys : key' = [key EXCEPT ![r] = k]
  BY DEF Again
<1>1. /\ TypeOK /\ StoreInv /\ ReaderInv /\ SweepInv
      /\ UNCHANGED <<nodes, rows, cache, late, wpc, scanned, found, swept>>
  BY DEF IInv, Again, store, writer
<1>2. \A q \in Readers : /\ rpc'[q] = IF q = r THEN "idle" ELSE rpc[q]
                         /\ key'[q] = IF q = r THEN k ELSE key[q]
                         /\ result'[q] = IF q = r THEN {} ELSE result[q]
                         /\ base'[q] = IF q = r THEN {} ELSE base[q]
  BY <1>0, <1>1 DEF Again, TypeOK
<1>3. TypeOK'
  BY <1>0, <1>1 DEF Again, TypeOK, Cached
<1>4. StoreInv' /\ SweepInv'
  BY <1>1 DEF StoreInv, SweepInv, Saved, Clean, Cached
<1>5. \A x : Visible(x)' = Visible(x)
  BY <1>1 DEF Visible
<1>6. ReaderInv'
  BY <1>1, <1>2, <1>5 DEF ReaderInv, CachedIsReal, Cached
<1> QED BY <1>3, <1>4, <1>6 DEF IInv

(* A cached value is Clean until it is replaced; one that is SET late, or    *)
(* removed, is Clean for want of anything to say.                            *)
LEMMA FillStep ==
  ASSUME IInv, NEW r \in Readers, Fill(r)
  PROVE  IInv'
<1> DEFINE k == key[r]
<1>0. /\ TypeOK /\ StoreInv /\ ReaderInv /\ SweepInv
      /\ k \in Keys /\ result[r] \subseteq Docs
      /\ rpc[r] = "fill" /\ result[r] \subseteq Visible(k)
      /\ base[r] \subseteq result[r]
  BY DEF IInv, TypeOK, ReaderInv, Fill
<1>1. /\ UNCHANGED <<nodes, rows, key, result, base, wpc, scanned, found, swept>>
      /\ rpc' = [rpc EXCEPT ![r] = "done"]
  BY DEF Fill, store, writer
<1>2. \A q \in Readers : rpc'[q] = IF q = r THEN "done" ELSE rpc[q]
  BY <1>0, <1>1 DEF TypeOK
<1>3. \A x : Visible(x)' = Visible(x)
  BY <1>1 DEF Visible
<1>4. StoreInv'
  BY <1>0, <1>1 DEF StoreInv, Saved
<1>5. CASE cache' = cache
  <2>1. late' = late
    BY <1>5 DEF Fill
  <2>2. TypeOK'
    BY <1>0, <1>1, <1>5, <2>1 DEF TypeOK, Cached
  <2>3. ReaderInv'
    BY <1>0, <1>1, <1>2, <1>3, <1>5 DEF ReaderInv, CachedIsReal, Cached
  <2>4. SweepInv'
    BY <1>0, <1>1, <1>5, <2>1 DEF SweepInv, Clean, Cached
  <2> QED BY <1>4, <2>2, <2>3, <2>4 DEF IInv
<1>6. CASE cache' # cache
  <2>1. /\ Redis
        /\ cache' = [x \in Cached \cup {k} |-> IF x = k THEN result[r] ELSE cache[x]]
    BY <1>6 DEF Fill, Put
  <2>2. /\ Cached' = Cached \cup {k}
        /\ cache'[k] = result[r]
        /\ \A x \in Cached : x # k => cache'[x] = cache[x]
    BY <2>1 DEF Cached
  <2>3. late' = IF result[r] = Visible(k) THEN late \ {k} ELSE late \cup {k}
    BY <1>6 DEF Fill
  <2>4. TypeOK'
    <3>1. Cached' \subseteq Keys /\ \A x \in Cached' : cache'[x] \subseteq Docs
      BY <1>0, <2>2 DEF TypeOK
    <3>2. late' \subseteq Keys
      BY <1>0, <2>3 DEF TypeOK
    <3> QED BY <1>0, <1>1, <3>1, <3>2 DEF TypeOK
  <2>5. CachedIsReal'
    BY <1>0, <1>3, <2>2 DEF ReaderInv, CachedIsReal
  <2>6. ReaderInv'
    BY <1>0, <1>1, <1>2, <1>3, <2>1, <2>5 DEF ReaderInv
  <2>7. SweepInv'
    <3> SUFFICES ASSUME NEW w \in Writers, NEW x \in SearchKeys,
                        \/ w \in swept
                        \/ wpc[w] = "sweep" /\ x \in scanned[w] /\ x \notin found[w],
                        x \in Cached', x \notin late'
                 PROVE  InScope(DocsOf(w), x) \subseteq cache'[x]
      BY <1>1 DEF SweepInv, Clean, InScope
    <3>1. CASE x # k
      BY <1>0, <2>2, <2>3, <3>1 DEF SweepInv, Clean
    <3>2. CASE x = k
      <4>1. cache'[x] = Visible(x)
        BY <2>2, <2>3, <3>2
      <4>2. DocsOf(w) \subseteq rows
        BY <1>0 DEF StoreInv, Saved
      <4> QED BY <4>1, <4>2 DEF Visible, InScope
    <3> QED BY <3>1, <3>2
  <2> QED BY <1>4, <2>4, <2>6, <2>7 DEF IInv
<1> QED BY <1>5, <1>6

(* Keys leave the cache, by DEL or at the end of their TTL.                  *)
LEMMA DropStep ==
  ASSUME IInv, NEW ks, cache' = Without(ks), late' = late \ ks,
         UNCHANGED <<nodes, rows, rpc, key, result, base, wpc, scanned, swept>>,
         found' \in [Writers -> SUBSET SearchKeys],
         \A w \in Writers : /\ found'[w] \subseteq found[w]
                            /\ found[w] \subseteq found'[w] \cup ks
  PROVE  IInv'
<1>0. TypeOK /\ StoreInv /\ ReaderInv /\ SweepInv
  BY DEF IInv
<1>1. Cached' = Cached \ ks /\ \A x \in Cached' : cache'[x] = cache[x]
  BY DEF Without, Cached
<1>2. \A x : Visible(x)' = Visible(x)
  BY DEF Visible
<1>3. TypeOK'
  BY <1>0, <1>1 DEF TypeOK
<1>4. StoreInv'
  BY <1>0 DEF StoreInv, Saved
<1>5. ReaderInv'
  BY <1>0, <1>1, <1>2 DEF ReaderInv, CachedIsReal
<1>6. SweepInv'
  <2> SUFFICES ASSUME NEW w \in Writers, NEW x \in SearchKeys,
                      \/ w \in swept
                      \/ wpc[w] = "sweep" /\ x \in scanned[w] /\ x \notin found'[w],
                      x \in Cached', x \notin late'
               PROVE  InScope(DocsOf(w), x) \subseteq cache'[x]
    BY DEF SweepInv, Clean, InScope
  <2>1. x \in Cached /\ x \notin ks /\ x \notin late /\ cache'[x] = cache[x]
    BY <1>1
  <2>2. w \in swept \/ (wpc[w] = "sweep" /\ x \in scanned[w] /\ x \notin found[w])
    BY <2>1
  <2> QED BY <1>0, <2>1, <2>2 DEF SweepInv, Clean
<1> QED BY <1>3, <1>4, <1>5, <1>6 DEF IInv

(* Nodes and rows are only added, and rows only of linked documents.         *)
LEMMA GrowStep ==
  ASSUME IInv, nodes' \subseteq Docs, rows' \subseteq nodes',
         nodes \subseteq nodes', rows \subseteq rows',
         UNCHANGED <<cache, reader, late, writer>>
  PROVE  IInv'
<1>0. /\ TypeOK /\ StoreInv /\ ReaderInv /\ SweepInv
      /\ UNCHANGED <<rpc, key, result, base, wpc, scanned, found, swept>>
  BY DEF IInv, reader, writer
<1>1. TypeOK'
  BY <1>0 DEF TypeOK, Cached
<1>2. StoreInv'
  BY <1>0 DEF StoreInv, Saved
<1>3. \A x : Visible(x) \subseteq Visible(x)'
  BY VisibleIsMonotone
<1>4. ReaderInv'
  BY <1>0, <1>3 DEF ReaderInv, CachedIsReal, Cached
<1>5. SweepInv'
  BY <1>0 DEF SweepInv, Clean, Cached
<1> QED BY <1>1, <1>2, <1>4, <1>5 DEF IInv

(* Steps that only move an upload on.                                        *)
LEMMA MoveStep ==
  ASSUME IInv, NEW w \in Writers,
         NEW p \in {"store", "sweep", "answer", "ok", "error"},
         NEW f \in SUBSET SearchKeys,
         wpc' = [wpc EXCEPT ![w] = p],
         found' = [found EXCEPT ![w] = f],
         p \in {"sweep", "answer", "ok"} => Saved(w),
         p \in {"store", "sweep"} => scanned[w] = {} /\ f = {},
         \/ swept' = swept
         \/ /\ swept' = swept \cup {w}
            /\ p = "answer"
            /\ \A x \in SearchKeys : Clean(w, x),
         UNCHANGED <<store, cache, reader, scanned, late>>
  PROVE  IInv'
<1>0. /\ TypeOK /\ StoreInv /\ ReaderInv /\ SweepInv
      /\ UNCHANGED <<nodes, rows, rpc, key, result, base>>
  BY DEF IInv, reader, store
<1>1. \A v \in Writers : /\ wpc'[v] = IF v = w THEN p ELSE wpc[v]
                         /\ found'[v] = IF v = w THEN f ELSE found[v]
  BY <1>0 DEF TypeOK
<1>2. TypeOK'
  <2>1. wpc' \in [Writers -> {"idle", "store", "sweep", "answer", "ok", "error"}]
    BY <1>0 DEF TypeOK
  <2>2. found' \in [Writers -> SUBSET SearchKeys] /\ swept' \subseteq Writers
    BY <1>0 DEF TypeOK
  <2> QED BY <1>0, <2>1, <2>2 DEF TypeOK, Cached
<1>3. StoreInv'
  <2> SUFFICES ASSUME NEW v \in Writers
               PROVE /\ wpc'[v] \in {"sweep", "answer", "ok"} \/ v \in swept' => Saved(v)
                     /\ wpc'[v] \in {"idle", "store"} => scanned[v] = {} /\ found'[v] = {}
    BY <1>0 DEF StoreInv, Saved
  <2>1. CASE v = w
    BY <1>0, <1>1, <2>1 DEF StoreInv
  <2>2. CASE v # w
    BY <1>0, <1>1, <2>2 DEF StoreInv
  <2> QED BY <2>1, <2>2
<1>4. ReaderInv'
  <2>1. \A x : Visible(x)' = Visible(x)
    BY <1>0 DEF Visible
  <2> QED BY <1>0, <2>1 DEF ReaderInv, CachedIsReal, Cached
<1>5. SweepInv'
  <2>1. \A v \in Writers : \A x : Clean(v, x)' <=> Clean(v, x)
    BY <1>0 DEF Clean, Cached
  <2> SUFFICES ASSUME NEW v \in Writers, NEW x \in SearchKeys,
                      \/ v \in swept'
                      \/ wpc'[v] = "sweep" /\ x \in scanned[v] /\ x \notin found'[v]
               PROVE  Clean(v, x)
    BY <2>1 DEF SweepInv
  <2>2. CASE v = w
    BY <1>0, <1>1, <2>2 DEF SweepInv
  <2>3. CASE v # w
    BY <1>0, <1>1, <2>3 DEF SweepInv
  <2> QED BY <2>2, <2>3
<1> QED BY <1>2, <1>3, <1>4, <1>5 DEF IInv

(* A SCAN reply: a key that the walk passed and did not report is not there. *)
LEMMA ScanStep ==
  ASSUME IInv, NEW w \in Writers, Scan(w)
  PROVE  IInv'
<1>0. /\ TypeOK /\ StoreInv /\ ReaderInv /\ SweepInv
      /\ UNCHANGED <<nodes, rows, cache, rpc, key, result, base, wpc, late, swept>>
      /\ wpc[w] = "sweep" /\ found[w] = {}
  BY DEF IInv, Scan, reader, store
<1>1. PICK B \in SUBSET ToScan(w) :
        /\ scanned' = [scanned EXCEPT ![w] = @ \cup B]
        /\ found' = [found EXCEPT ![w] = B \cap Cached]
  BY DEF Scan
<1>2. B \subseteq SearchKeys
  BY CollOf, KeyAssumption DEF ToScan, KeyAssumption
<1>3. \A v \in Writers :
        /\ scanned'[v] = IF v = w THEN scanned[w] \cup B ELSE scanned[v]
        /\ found'[v] = IF v = w THEN B \cap Cached ELSE found[v]
  BY <1>0, <1>1 DEF TypeOK
<1>4. TypeOK'
  <2>1. scanned' \in [Writers -> SUBSET SearchKeys] /\ found' \in [Writers -> SUBSET SearchKeys]
    BY <1>0, <1>1, <1>2 DEF TypeOK
  <2> QED BY <1>0, <2>1 DEF TypeOK, Cached
<1>5. StoreInv'
  BY <1>0, <1>3 DEF StoreInv, Saved
<1>6. ReaderInv'
  <2>1. \A x : Visible(x)' = Visible(x)
    BY <1>0 DEF Visible
  <2> QED BY <1>0, <2>1 DEF ReaderInv, CachedIsReal, Cached
<1>7. SweepInv'
  <2>1. \A v \in Writers : \A x : Clean(v, x)' <=> Clean(v, x)
    BY <1>0 DEF Clean, Cached
  <2> SUFFICES ASSUME NEW v \in Writers, NEW x \in SearchKeys,
                      \/ v \in swept
                      \/ wpc[v] = "sweep" /\ x \in scanned'[v] /\ x \notin found'[v]
               PROVE  Clean(v, x)
    BY <1>0, <2>1 DEF SweepInv
  <2>2. CASE v # w \/ v \in swept \/ x \in scanned[v]
    BY <1>0, <1>3, <2>2 DEF SweepInv
  <2>3. CASE v = w /\ v \notin swept /\ x \notin scanned[v]
    BY <1>3, <2>3 DEF Clean
  <2> QED BY <2>2, <2>3
<1> QED BY <1>4, <1>5, <1>6, <1>7 DEF IInv

(* Each step of an upload is one of these.                                   *)
LEMMA WriteStep ==
  ASSUME IInv, NEW w \in Writers, Write(w) \/ SweepFails(w) \/ Abort(w)
  PROVE  IInv'
<1>0. /\ TypeOK /\ StoreInv /\ SweepInv
      /\ found \in [Writers -> SUBSET SearchKeys]
      /\ found[w] \in SUBSET SearchKeys
      /\ found = [found EXCEPT ![w] = found[w]]
      /\ nodes \subseteq Docs /\ rows \subseteq nodes /\ DocsOf(w) \subseteq Docs
  BY DEF IInv, TypeOK, StoreInv, Docs
<1>1. wpc[w] \in {"sweep", "answer", "ok"} => Saved(w)
  BY <1>0 DEF StoreInv
<1>2. wpc[w] \in {"idle", "store"} => scanned[w] = {} /\ found[w] = {}
  BY <1>0 DEF StoreInv
<1>3. CASE Begin(w)
  BY <1>0, <1>2, <1>3, MoveStep DEF Begin
<1>4. CASE Link(w)
  BY <1>0, <1>4, GrowStep DEF Link
<1>5. CASE Insert(w)
  BY <1>0, <1>5, GrowStep DEF Insert
<1>6. CASE EndSave(w)
  BY <1>0, <1>2, <1>6, MoveStep DEF EndSave, AfterSave
<1>7. CASE Scan(w)
  BY <1>7, ScanStep
<1>8. CASE Delete(w)
  <2>1. found' = [found EXCEPT ![w] = {}]
    BY <1>8 DEF Delete
  <2>2. found' \in [Writers -> SUBSET SearchKeys]
    BY <1>0, <2>1
  <2>3. \A v \in Writers : found'[v] = IF v = w THEN {} ELSE found[v]
    BY <1>0, <2>1
  <2> QED BY <1>8, <2>2, <2>3, DropStep DEF Delete, store, reader
<1>9. CASE EndSweep(w)
  <2>1. wpc[w] = "sweep" /\ found[w] = {} /\ Pattern[Upload[w].coll] \subseteq scanned[w]
    BY <1>9 DEF EndSweep, Swept, ToScan
  <2>2. ASSUME NEW x \in SearchKeys PROVE Clean(w, x)
    <3>1. CASE x \in Pattern[Upload[w].coll]
      BY <1>0, <2>1, <3>1 DEF SweepInv
    <3>2. CASE x \notin Pattern[Upload[w].coll]
      <4>1. Upload[w].coll \notin Scope[x]
        BY <3>2, PatternAssumption, CollOf DEF PatternAssumption
      <4>2. \A d \in DocsOf(w) : d[1] = w
        BY DEF DocsOf
      <4>3. InScope(DocsOf(w), x) = {}
        BY <4>1, <4>2 DEF InScope
      <4> QED BY <4>3 DEF Clean
    <3> QED BY <3>1, <3>2
  <2> QED BY <1>0, <1>1, <1>9, <2>1, <2>2, MoveStep DEF EndSweep
<1>10. CASE Respond(w)
  BY <1>0, <1>1, <1>10, MoveStep DEF Respond
<1>11. CASE SweepFails(w)
  <2>1. {} \in SUBSET SearchKeys
    OBVIOUS
  <2>2. /\ wpc' = [wpc EXCEPT ![w] = "answer"] /\ found' = [found EXCEPT ![w] = {}]
        /\ swept' = swept /\ Saved(w)
        /\ UNCHANGED <<store, cache, reader, scanned, late>>
    BY <1>1, <1>11 DEF SweepFails
  <2> QED BY <2>1, <2>2, MoveStep
<1>12. CASE Abort(w)
  BY <1>0, <1>12, MoveStep DEF Abort
<1> QED BY <1>3, <1>4, <1>5, <1>6, <1>7, <1>8, <1>9, <1>10, <1>11, <1>12 DEF Write

(* Every step preserves the invariant.                                       *)
LEMMA Inductive == IInv /\ [Next]_vars => IInv'
<1> SUFFICES ASSUME IInv, [Next]_vars PROVE IInv'
  OBVIOUS
<1>1. ASSUME NEW r \in Readers, Read(r) \/ ReadFails(r) \/ Again(r) PROVE IInv'
  BY <1>1, ReadStep, FillStep, AgainStep DEF Read
<1>2. ASSUME NEW w \in Writers, Write(w) \/ SweepFails(w) \/ Abort(w) PROVE IInv'
  BY <1>2, WriteStep
<1>3. ASSUME NEW k \in Keys, Expire(k) PROVE IInv'
  <2>1. found' = found /\ found' \in [Writers -> SUBSET SearchKeys]
    BY <1>3 DEF IInv, TypeOK, Expire, writer
  <2> QED BY <1>3, <2>1, DropStep DEF Expire, store, reader, writer
<1>4. CASE UNCHANGED vars
  <2>1. UNCHANGED <<nodes, rows, cache, rpc, key, result, wpc, scanned, found, late, swept, base>>
    BY <1>4 DEF vars
  <2>2. TypeOK'
    BY <2>1 DEF IInv, TypeOK, Cached
  <2>3. StoreInv'
    BY <2>1 DEF IInv, StoreInv, Saved
  <2>4. \A x : Visible(x)' = Visible(x)
    BY <2>1 DEF Visible
  <2>5. ReaderInv'
    BY <2>1, <2>4 DEF IInv, ReaderInv, CachedIsReal, Cached
  <2>6. SweepInv'
    BY <2>1 DEF IInv, SweepInv, Clean, Cached
  <2> QED BY <2>2, <2>3, <2>5, <2>6 DEF IInv
<1> QED BY <1>1, <1>2, <1>3, <1>4 DEF Next

(* IInv holds in every reachable state.                                      *)
THEOREM Invariant == Spec => []IInv
<1> QED BY InitInv, Inductive, PTL DEF Spec

-----------------------------------------------------------------------------
(* Type correctness of caches, readers and uploads, whatever fails.          *)
THEOREM TypeCorrect == Spec => []TypeOK
<1>1. IInv => TypeOK
  BY DEF IInv
<1> QED BY <1>1, Invariant, PTL

(* The SCAN/DEL invalidation of a finished upload, though other requests     *)
(* fill the cache between its steps, leaves only late values without the     *)
(* new documents.                                                            *)
THEOREM OnlyLateFillsAreStale == Spec => []StaleOnlyByLateFill
<1>1. IInv => StaleOnlyByLateFill
  <2> SUFFICES ASSUME IInv, NEW k \in SearchKeys, k \in Cached, k \notin late,
                      NEW w \in Writers, w \in swept
               PROVE  InScope(DocsOf(w), k) \subseteq cache[k]
    BY DEF StaleOnlyByLateFill, IInv, TypeOK
  <2> QED BY DEF IInv, SweepInv, Clean
<1> QED BY <1>1, Invariant, PTL

(* No cached answer contains a document that is not stored, or one of a      *)
(* collection its key is not for.                                            *)
THEOREM CachedAnswersAreReal == Spec => []CachedIsReal
<1>1. IInv => CachedIsReal
  BY DEF IInv, ReaderInv
<1> QED BY <1>1, Invariant, PTL

(* A read that does not use Redis sees everything acknowledged before it.    *)
THEOREM UncachedReadsAreFresh == Spec => []UncachedSeesAcked
<1>1. IInv => UncachedSeesAcked
  BY DEF IInv, ReaderInv, UncachedSeesAcked
<1> QED BY <1>1, Invariant, PTL
=============================================================================

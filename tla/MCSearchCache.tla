--------------------------- MODULE MCSearchCache ---------------------------
(* One upload of two documents, so that a read can see the half of it, or of *)
(* one.  The pattern of collection "a" matches the key of a search in it and *)
(* that of one in "a:b"; no pattern matches the graph key, whose answer is   *)
(* over both collections, since they share their Service nodes.              *)
EXTENDS SearchCache, TLC

CONSTANTS a, ab, ka, kb, kg, wa

MCScope == ka :> {a} @@ kb :> {ab} @@ kg :> {a, ab}
MCPattern == a :> {ka, kb} @@ ab :> {kb}

Sent(e, c, n) == [endpoint |-> e, coll |-> c, size |-> n]

TwoAdded == wa :> Sent("add", a, 2)
OneAdded == wa :> Sent("add", a, 1)
OneInBulk == wa :> Sent("generation", a, 1)
=============================================================================

---------------------------- MODULE MCIngestion ----------------------------
(* Small uploads for TLC: three images, for batches of two and for gaps in   *)
(* the answers, the second file empty, beside a bulk upload into another     *)
(* collection; or two of two items each, the least that shows a race's       *)
(* effect on both.                                                           *)
EXTENDS GraphReads, TLC

CONSTANTS ra, rb, ca, cb

Upload(k, c, n, b) == [kind |-> k, coll |-> c, size |-> n, blank |-> b]

JobsUneven == ra :> Upload("image", ca, 3, {2}) @@ rb :> Upload("generation", cb, 1, {})
JobsPair == ra :> Upload("image", ca, 2, {}) @@ rb :> Upload("text", cb, 2, {})

Labels == ca :> "label_a" @@ cb :> "label_b"
=============================================================================

------------------------------ MODULE Library ------------------------------
(* What an upload promises its client, with nothing about language models,   *)
(* embeddings, the graph or the vector table: every upload either fails or   *)
(* is acknowledged; the set of its items worth storing is decided once; the  *)
(* items appear one at a time in the order of the request; and an            *)
(* acknowledged upload has all of them on the shelf.  A failed upload keeps  *)
(* what it had published: nothing is rolled back, and nothing is ever taken  *)
(* off the shelf.                                                            *)
EXTENDS Naturals

CONSTANTS
    Requests,   \* the uploads
    Items       \* Items[r]: how many items upload r carries

VARIABLES
    status,     \* status[r]: "open", "storing", "ok" or "error"
    accepted,   \* accepted[r]: the items of r worth storing, once decided
    shelf       \* the items a search can find, as pairs <<upload, item>>

vars == <<status, accepted, shelf>>

OnShelf(r) == {p \in 1..Items[r] : <<r, p>> \in shelf}

Init ==
    /\ status = [r \in Requests |-> "open"]
    /\ accepted = [r \in Requests |-> {}]
    /\ shelf = {}

(* The items that are worth storing are fixed, all at once.                  *)
Decide(r) ==
    /\ status[r] = "open"
    /\ \E S \in SUBSET (1..Items[r]) : accepted' = [accepted EXCEPT ![r] = S]
    /\ status' = [status EXCEPT ![r] = "storing"]
    /\ UNCHANGED shelf

(* The first accepted item that is not on the shelf is put there.            *)
Publish(r) ==
    /\ status[r] = "storing"
    /\ \E p \in accepted[r] :
          /\ <<r, p>> \notin shelf
          /\ \A q \in accepted[r] : q < p => <<r, q>> \in shelf
          /\ shelf' = shelf \cup {<<r, p>>}
    /\ UNCHANGED <<status, accepted>>

(* The client is told "ok" only when nothing accepted is missing.            *)
Ack(r) ==
    /\ status[r] = "storing"
    /\ OnShelf(r) = accepted[r]
    /\ status' = [status EXCEPT ![r] = "ok"]
    /\ UNCHANGED <<accepted, shelf>>

Fail(r) ==
    /\ status[r] \in {"open", "storing"}
    /\ status' = [status EXCEPT ![r] = "error"]
    /\ UNCHANGED <<accepted, shelf>>

Next == \E r \in Requests : Decide(r) \/ Publish(r) \/ Ack(r) \/ Fail(r)

Spec == Init /\ [][Next]_vars
=============================================================================

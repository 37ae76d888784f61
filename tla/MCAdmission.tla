---------------------------- MODULE MCAdmission ----------------------------
(* Minutes of two ticks.  Three requests share a counter, two of one client  *)
(* and one of a client whose key has the same sixteen first characters; a    *)
(* fourth has no key.                                                        *)
EXTENDS Admission, TLC

CONSTANTS p1, p2, p3, p4, k1, k2

TwinClients == p1 :> k1 @@ p2 :> k1 @@ p3 :> k2 @@ p4 :> NoKey

Prefixes == k1 :> "k1" @@ k2 :> "k1" @@ NoKey :> "anonymous"

Alike == Permutations({p1, p2})
=============================================================================

----------------------------- MODULE MCRanking -----------------------------
(* Four rows, one more than the candidates of a search for one: both cuts    *)
(* leave rows out.  Rows are alike but for their places in the lists.        *)
EXTENDS Ranking, TLC

CONSTANTS w1, w2, w3, w4

Alike == Permutations(Rows)
=============================================================================

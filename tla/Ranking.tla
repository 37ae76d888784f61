------------------------------ MODULE Ranking ------------------------------
(* Which rows a search answers with, and in what order: the vector, visual   *)
(* and hybrid queries of PGVectorManager, over-fetching and the reranker.    *)
(* The rows are those of the collection that pass the filters.  Distances    *)
(* and keyword ranks matter only by the order they give, which is any.       *)
EXTENDS Integers, SequencesExt

CONSTANTS
    Rows,
    Asked,          \* values of k
    Grades          \* scores of the cross-encoder

ASSUME NumberAssumption == Asked \subseteq Nat /\ Grades \subseteq Nat
ASSUME RowsAssumption == IsFiniteSet(Rows)

(* What an ORDER BY may put in line: some of the rows, each once.            *)
Lists == {t \in BoundedSeq(Rows, Cardinality(Rows)) : IsInjective(t)}

VARIABLES
    request,        \* the mode, k, rerank, and whether the query has words
    near,           \* what the index on the mode's embedding yields: HNSW may
                    \* miss rows, and the one on images has not all
    matching,       \* the rows that match the query's words, by ts_rank
    grade,          \* grade[x]: what the cross-encoder gives row x
    pc,
    fetched,
    answer

vars == <<request, near, matching, grade, pc, fetched, answer>>

-----------------------------------------------------------------------------
Lesser(m, n) == IF m < n THEN m ELSE n

(* LIMIT n, or [:n]                                                          *)
First(t, n) == SubSeq(t, 1, Lesser(Len(t), n))

(* ORDER BY ... LIMIT n over the rows S: ties may come in any order.         *)
Ordered(S, n, Ahead(_, _)) ==
    {t \in Lists :
        /\ ToSet(t) \subseteq S
        /\ Len(t) = Lesser(Cardinality(S), n)
        /\ \A i \in DOMAIN t : \A x \in S :
              Ahead(x, t[i]) => \E j \in 1..(i - 1) : t[j] = x}

(* An empty query has no query_text and falls back to the vector query.      *)
Hybrid == request.mode = "hybrid" /\ request.words

FetchK == IF request.rerank THEN request.k * 3 ELSE request.k

CandidateK == FetchK * 3

VectorRanks == First(near, CandidateK)

(* Slip: ORDER BY ts_rank without DESC.                                      *)
KeywordRanksAscending == First(Reverse(matching), CandidateK)

KeywordRanks == First(matching, CandidateK)

RankIn(t, x) == CHOOSE i \in DOMAIN t : t[i] = x

(* Slip: reciprocal ranks without the constant.                              *)
Unsmoothed(rank) == rank

Smoothed(rank) == 60 + rank

Term(t, x) == Smoothed(RankIn(t, x))

InBoth(x) == x \in ToSet(VectorRanks) /\ x \in ToSet(KeywordRanks)

(* rrf_score as a fraction: 1/a + 1/b, or with COALESCE one of them.         *)
Score(x) ==
    LET a == Term(VectorRanks, x)
        b == Term(KeywordRanks, x)
    IN  CASE InBoth(x) -> <<a + b, a * b>>
          [] x \notin ToSet(KeywordRanks) -> <<1, a>>
          [] x \notin ToSet(VectorRanks) -> <<1, b>>

FusedAhead(x, y) == Score(x)[1] * Score(y)[2] > Score(y)[1] * Score(x)[2]

(* Slip: JOIN.                                                               *)
JoinedInner == ToSet(VectorRanks) \cap ToSet(KeywordRanks)

(* FULL OUTER JOIN                                                           *)
Joined == ToSet(VectorRanks) \cup ToSet(KeywordRanks)

(* Slip: the reranker gets k documents.                                      *)
JudgedFirst == First(fetched, request.k)

Judged == fetched

(* sorted(..., reverse=True) keeps the order of equal scores.                *)
JudgedAhead(x, y) ==
    \/ grade[x] > grade[y]
    \/ grade[x] = grade[y] /\ RankIn(Judged, x) < RankIn(Judged, y)

-----------------------------------------------------------------------------
Requests ==
    [mode : {"vector", "hybrid", "visual"}, words : BOOLEAN,
     k : Asked, rerank : BOOLEAN]

Init ==
    /\ request \in Requests
    /\ near \in Lists
    /\ matching \in IF Hybrid THEN Lists ELSE {<<>>}
    /\ grade \in IF request.rerank THEN [Rows -> Grades] ELSE {[x \in Rows |-> 0]}
    /\ pc = "query" /\ fetched = <<>> /\ answer = <<>>

(* similarity_search has returned.                                           *)
Fetch(results) ==
    /\ fetched' = results
    /\ IF request.rerank /\ results # <<>>
       THEN pc' = "rerank" /\ answer' = answer
       ELSE pc' = "done" /\ answer' = results
    /\ UNCHANGED <<request, near, matching, grade>>

(* _vector_search and _visual_search                                         *)
SearchNear ==
    /\ pc = "query" /\ ~Hybrid
    /\ Fetch(First(near, FetchK))

(* _hybrid_search                                                            *)
SearchHybrid ==
    /\ pc = "query" /\ Hybrid
    /\ \E results \in Ordered(Joined, FetchK, FusedAhead) : Fetch(results)

Rerank ==
    /\ pc = "rerank"
    /\ answer' \in Ordered(ToSet(Judged), request.k, JudgedAhead)
    /\ pc' = "done"
    /\ UNCHANGED <<request, near, matching, grade, fetched>>

Next == SearchNear \/ SearchHybrid \/ Rerank

Spec == Init /\ [][Next]_vars

-----------------------------------------------------------------------------
(* AheadIn(t, x, y): x comes before y in t, where y may be missing.          *)
AheadIn(t, x, y) ==
    \E i \in DOMAIN t : t[i] = x /\ \A j \in 1..i : t[j] # y

Offered == ToSet(near) \cup ToSet(matching)

(* AsManyAsAsked: a search answers with k different rows, or with all there  *)
(* are to find if they are fewer: the cuts to candidates before the join and *)
(* to fetch_k before the reranker leave enough.                              *)
AsManyAsAsked ==
    pc = "done" =>
        /\ IsInjective(answer) /\ ToSet(answer) \subseteq Offered
        /\ Len(answer) = Lesser(Cardinality(Offered), request.k)

(* Dominance: a row that is ahead of another in every list the other is in   *)
(* is ahead of it in the fused result, although each list is cut and the     *)
(* scores of ties are in no order.                                           *)
Dominance ==
    Hybrid => \A x \in Rows : \A y \in ToSet(fetched) \ {x} :
        /\ y \in ToSet(near) => AheadIn(near, x, y)
        /\ y \in ToSet(matching) => AheadIn(matching, x, y)
        => AheadIn(fetched, x, y)

(* BothBeatsOne: with the constant 60, and while each query has at most 61   *)
(* candidates (k up to 20, or 6 with the reranker; nothing bounds k), a row  *)
(* among the candidates of both queries, down to the last of each, comes     *)
(* before any that is among those of one.  With 62 candidates the last of    *)
(* both lists ties with the first of one.                                    *)
BothBeatsOne ==
    Hybrid /\ CandidateK <= 61 =>
        \A x \in Rows : \A y \in ToSet(fetched) :
            InBoth(x) /\ ~InBoth(y) => AheadIn(fetched, x, y)

(* Standing(x): how many rows at most can be at the level of x or above it:  *)
(* those up to its place in the one list, or in the two together.            *)
Standing(x) ==
    IF Hybrid THEN RankIn(near, x) + RankIn(matching, x) - 1 ELSE RankIn(near, x)

(* HighRanksAnswered: a row that stands high enough in every list of the     *)
(* search cannot get lost on the way through the candidates, the fusion with *)
(* its ties, fetch_k and the reranker: it is answered, or the reranker has   *)
(* judged it and found nothing in the answer less relevant.                  *)
HighRanksAnswered ==
    pc = "done" =>
        \A x \in ToSet(near) :
            (Hybrid => x \in ToSet(matching)) /\ Standing(x) <= FetchK =>
                \/ x \in ToSet(answer)
                \/ request.rerank /\ \A y \in ToSet(answer) : grade[y] >= grade[x]
=============================================================================

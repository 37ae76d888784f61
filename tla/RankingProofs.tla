--------------------------- MODULE RankingProofs ---------------------------
(* Proofs about Ranking, for any rows, any k and any scores.                 *)
EXTENDS Ranking, FiniteSetTheorems, SequenceTheorems, TLAPS

-----------------------------------------------------------------------------
(* ListFacts: a list is a sequence of rows without repetition.               *)
LEMMA ListFacts ==
    ASSUME NEW t \in Lists
    PROVE  /\ t \in Seq(Rows) /\ Len(t) \in Nat /\ DOMAIN t = 1..Len(t)
           /\ \A i, j \in DOMAIN t : t[i] = t[j] => i = j
PROOF
  <1>1. t \in BoundedSeq(Rows, Cardinality(Rows)) /\ IsInjective(t)
    BY DEF Lists
  <1>2. PICK m \in 0..Cardinality(Rows) : t \in [1..m -> Rows]
    BY <1>1 DEF BoundedSeq, SeqOf
  <1>3. m \in Nat
    OBVIOUS
  <1>4. t \in Seq(Rows) /\ Len(t) = m
    BY <1>2, <1>3
  <1> QED
    BY <1>1, <1>2, <1>3, <1>4 DEF IsInjective

(* FirstFacts: a cut keeps the places of what it keeps.                      *)
LEMMA FirstFacts ==
    ASSUME NEW t \in Lists, NEW n \in Nat
    PROVE  /\ DOMAIN First(t, n) = 1..Lesser(Len(t), n)
           /\ DOMAIN First(t, n) \subseteq DOMAIN t
           /\ \A i \in DOMAIN First(t, n) : i <= n /\ First(t, n)[i] = t[i]
           /\ \A i \in DOMAIN t : i <= n => i \in DOMAIN First(t, n)
PROOF
  <1>1. t \in Seq(Rows) /\ Len(t) \in Nat /\ DOMAIN t = 1..Len(t)
    BY ListFacts
  <1> DEFINE m == Lesser(Len(t), n)
  <1>2. m \in Nat /\ m <= Len(t) /\ m <= n /\ (m = Len(t) \/ m = n)
    BY <1>1 DEF Lesser
  <1>3. DOMAIN First(t, n) = 1..m /\ \A i \in 1..m : First(t, n)[i] = t[i]
    BY <1>1, <1>2, SMTT(30) DEF First
  <1> QED
    BY <1>1, <1>2, <1>3

(* RankIsPlace: RankIn is the place of a row in a list, or in a cut of it.   *)
LEMMA RankIsPlace ==
    ASSUME NEW t \in Lists, NEW n \in Nat, NEW i \in DOMAIN First(t, n)
    PROVE  RankIn(First(t, n), t[i]) = i
PROOF
  <1> DEFINE c == First(t, n)
  <1>1. c[i] = t[i]
    BY FirstFacts
  <1>2. \A j \in DOMAIN c : c[j] = t[i] => j = i
    BY ListFacts, FirstFacts
  <1> HIDE DEF c
  <1> QED
    BY <1>1, <1>2 DEF RankIn, c

-----------------------------------------------------------------------------
(* Two terms up to 121 are together more than any one.                       *)
LEMMA TwoTerms ==
    ASSUME NEW a \in 61..121, NEW b \in 61..121, NEW c \in Nat, c >= 61
    PROVE  (a + b) * c > 1 * (a * b)
PROOF
  <1>1. (a - 61) * (b - 61) <= 60 * 60
    <2>1. PICK d \in 0..60, e \in 0..60 : d = a - 61 /\ e = b - 61
      OBVIOUS
    <2>2. d * e <= 60 * e
      BY <2>1
    <2> QED
      BY <2>1, <2>2
  <1>2. a * b <= 61 * (a + b) - 121
    BY <1>1
  <1>3. (a + b) * c >= (a + b) * 61
    <2> DEFINE s == a + b
    <2>1. s \in Nat
      OBVIOUS
    <2> HIDE DEF s
    <2>2. s * c >= s * 61
      BY <2>1
    <2> QED
      BY <2>2 DEF s
  <1> QED
    BY <1>2, <1>3

(* More terms, or a greater one in place of another, make a greater sum.     *)
LEMMA GreaterSum ==
    ASSUME NEW a \in Nat \ {0}, NEW b \in Nat \ {0}, a < b,
           NEW c \in Nat \ {0}, NEW d \in Nat \ {0}, c < d
    PROVE  /\ 1 * b > 1 * a
           /\ (a + c) * b > 1 * (a * c) /\ (c + a) * b > 1 * (c * a)
           /\ (a + c) * (b * d) > (b + d) * (a * c)
PROOF
  <1>1. PICK e \in Nat \ {0}, f \in Nat \ {0} : b = a + e /\ d = c + f
    <2>1. b - a \in Nat \ {0} /\ d - c \in Nat \ {0} /\ b = a + (b - a) /\ d = c + (d - c)
      OBVIOUS
    <2> QED
      BY <2>1
  <1>2. a * c \in Nat /\ a * b \in Nat \ {0} /\ c * e \in Nat /\ c * d \in Nat \ {0}
        /\ (a * b) * f \in Nat \ {0} /\ (c * d) * e \in Nat
    BY <1>1
  <1>3. (a + c) * b = a * b + a * c + c * e
    BY <1>1
  <1>4. (a + c) * (b * d) = (b + d) * (a * c) + (a * b) * f + (c * d) * e
    BY <1>1
  <1>5. (b + d) * (a * c) \in Nat
    BY <1>2
  <1>6. (a + c) * b > 1 * (a * c) /\ (c + a) * b > 1 * (c * a)
    BY <1>2, <1>3
  <1> QED
    BY <1>2, <1>4, <1>5, <1>6

-----------------------------------------------------------------------------
(* TermFacts: the term of a row is 60 and its place.                         *)
LEMMA TermFacts ==
    ASSUME NEW t \in Lists, NEW n \in Nat, NEW x \in ToSet(First(t, n))
    PROVE  \E i \in DOMAIN t : t[i] = x /\ i <= n /\ Term(First(t, n), x) = 60 + i
PROOF
  <1>1. PICK i \in DOMAIN First(t, n) : First(t, n)[i] = x
    BY DEF ToSet
  <1>2. i \in DOMAIN t /\ t[i] = x /\ i <= n
    BY <1>1, FirstFacts
  <1>3. RankIn(First(t, n), t[i]) = i
    BY RankIsPlace
  <1> QED
    BY <1>2, <1>3 DEF Term, Smoothed

(* TermOvertakes: what is ahead of a candidate is one too, with a lower term.*)
LEMMA TermOvertakes ==
    ASSUME NEW t \in Lists, NEW n \in Nat, NEW x, NEW y \in ToSet(First(t, n)),
           AheadIn(t, x, y)
    PROVE  /\ x \in ToSet(First(t, n))
           /\ Term(First(t, n), x) \in Nat \ {0} /\ Term(First(t, n), y) \in Nat \ {0}
           /\ Term(First(t, n), x) < Term(First(t, n), y)
PROOF
  <1>0. DOMAIN t = 1..Len(t) /\ Len(t) \in Nat
    BY ListFacts
  <1>1. PICK i \in DOMAIN t : t[i] = x /\ \A j \in 1..i : t[j] # y
    BY DEF AheadIn
  <1>2. PICK j \in DOMAIN t : t[j] = y /\ j <= n /\ Term(First(t, n), y) = 60 + j
    BY TermFacts
  <1>3. i < j
    BY <1>0, <1>1, <1>2
  <1>4. i \in DOMAIN First(t, n) /\ First(t, n)[i] = x
    BY <1>0, <1>1, <1>2, <1>3, FirstFacts
  <1>5. RankIn(First(t, n), x) = i
    BY <1>1, <1>4, RankIsPlace
  <1> QED
    BY <1>0, <1>2, <1>3, <1>4, <1>5 DEF Term, Smoothed, ToSet

(* PlacedAhead: in a result in order, what must be ahead is ahead.           *)
LEMMA PlacedAhead ==
    ASSUME NEW t \in Lists, NEW i \in DOMAIN t, NEW x,
           \E j \in 1..(i - 1) : t[j] = x
    PROVE  AheadIn(t, x, t[i])
PROOF
  <1>1. DOMAIN t = 1..Len(t) /\ Len(t) \in Nat /\ \A k, l \in DOMAIN t : t[k] = t[l] => k = l
    BY ListFacts
  <1>2. PICK j \in 1..(i - 1) : t[j] = x
    OBVIOUS
  <1>3. j \in DOMAIN t /\ \A l \in 1..j : l \in DOMAIN t /\ l # i
    BY <1>1
  <1> QED
    BY <1>1, <1>2, <1>3 DEF AheadIn

-----------------------------------------------------------------------------
(* What the request and the lists are.                                       *)
Inputs ==
    /\ request \in Requests
    /\ near \in Lists /\ matching \in Lists
    /\ grade \in [Rows -> Nat]

(* CandidateFacts: the number of candidates is a number.                     *)
LEMMA CandidateFacts ==
    ASSUME Inputs
    PROVE  request.k \in Nat /\ FetchK \in Nat /\ CandidateK \in Nat
PROOF
  <1>1. request.k \in Nat
    BY NumberAssumption DEF Inputs, Requests, NumberAssumption
  <1> QED
    BY <1>1 DEF FetchK, CandidateK

(* DominantScore: a row ahead in every list of another has the higher score. *)
LEMMA DominantScore ==
    ASSUME Inputs, NEW x \in Rows, NEW y \in Joined,
           y \in ToSet(near) => AheadIn(near, x, y),
           y \in ToSet(matching) => AheadIn(matching, x, y)
    PROVE  x \in Joined /\ FusedAhead(x, y)
PROOF
  <1> DEFINE V == ToSet(VectorRanks)
             K == ToSet(KeywordRanks)
             a == Term(VectorRanks, x)
             b == Term(VectorRanks, y)
             c == Term(KeywordRanks, x)
             d == Term(KeywordRanks, y)
  <1>0. near \in Lists /\ matching \in Lists /\ CandidateK \in Nat
    BY CandidateFacts DEF Inputs
  <1>1. V \subseteq ToSet(near) /\ K \subseteq ToSet(matching)
    BY <1>0, FirstFacts DEF ToSet, VectorRanks, KeywordRanks
  <1>2. ASSUME y \in V
        PROVE  x \in V /\ a \in Nat \ {0} /\ b \in Nat \ {0} /\ a < b
    BY <1>0, <1>1, <1>2, TermOvertakes DEF VectorRanks
  <1>3. ASSUME y \in K
        PROVE  x \in K /\ c \in Nat \ {0} /\ d \in Nat \ {0} /\ c < d
    BY <1>0, <1>1, <1>3, TermOvertakes DEF KeywordRanks
  <1>4. ASSUME x \in V PROVE a \in Nat \ {0}
    BY <1>0, <1>4, TermFacts, ListFacts DEF VectorRanks
  <1>5. ASSUME x \in K PROVE c \in Nat \ {0}
    BY <1>0, <1>5, TermFacts, ListFacts DEF KeywordRanks
  <1>6. y \in V \/ y \in K
    BY DEF Joined
  <1>7. Score(x) = IF x \in V /\ x \in K THEN <<a + c, a * c>>
                   ELSE IF x \in V THEN <<1, a>> ELSE <<1, c>>
    BY <1>2, <1>3, <1>6 DEF Score, InBoth
  <1>8. Score(y) = IF y \in V /\ y \in K THEN <<b + d, b * d>>
                   ELSE IF y \in V THEN <<1, b>> ELSE <<1, d>>
    BY <1>6 DEF Score, InBoth
  <1>9. x \in Joined
    BY <1>2, <1>3, <1>6 DEF Joined
  <1> HIDE DEF V, K, a, b, c, d
  <1>10. CASE y \in V /\ y \in K
    <2>1. Score(x) = <<a + c, a * c>> /\ Score(y) = <<b + d, b * d>>
      BY <1>2, <1>3, <1>7, <1>8, <1>10
    <2>2. (a + c) * (b * d) > (b + d) * (a * c)
      BY <1>2, <1>3, <1>10, GreaterSum
    <2> QED
      BY <1>9, <2>1, <2>2 DEF FusedAhead
  <1>11. CASE y \in V /\ y \notin K
    <2>1. Score(y) = <<1, b>> /\ Score(x) = IF x \in K THEN <<a + c, a * c>> ELSE <<1, a>>
      BY <1>2, <1>7, <1>8, <1>11
    <2>2. ASSUME x \in K PROVE (a + c) * b > 1 * (a * c)
      <3>1. c < c + 1 /\ c + 1 \in Nat \ {0}
        BY <1>5, <2>2
      <3> QED
        BY <1>2, <1>5, <1>11, <2>2, <3>1, GreaterSum
    <2>3. 1 * b > 1 * a
      BY <1>2, <1>11
    <2> QED
      BY <1>9, <2>1, <2>2, <2>3 DEF FusedAhead
  <1>12. CASE y \in K /\ y \notin V
    <2>1. Score(y) = <<1, d>> /\ Score(x) = IF x \in V THEN <<a + c, a * c>> ELSE <<1, c>>
      BY <1>3, <1>7, <1>8, <1>12
    <2>2. ASSUME x \in V PROVE (a + c) * d > 1 * (a * c)
      <3>1. a < a + 1 /\ a + 1 \in Nat \ {0}
        BY <1>4, <2>2
      <3> QED
        BY <1>3, <1>4, <1>12, <2>2, <3>1, GreaterSum
    <2>3. 1 * d > 1 * c
      BY <1>3, <1>12
    <2> QED
      BY <1>9, <2>1, <2>2, <2>3 DEF FusedAhead
  <1> QED
    BY <1>6, <1>10, <1>11, <1>12

(* BothScore: among at most 61 candidates, two lists are more than one.      *)
LEMMA BothScore ==
    ASSUME Inputs, CandidateK <= 61, NEW x, NEW y \in Joined,
           InBoth(x), ~InBoth(y)
    PROVE  FusedAhead(x, y)
PROOF
  <1> DEFINE a == Term(VectorRanks, x)
             b == Term(KeywordRanks, x)
             c == Term(VectorRanks, y)
             d == Term(KeywordRanks, y)
  <1>0. near \in Lists /\ matching \in Lists /\ CandidateK \in Nat
    BY CandidateFacts DEF Inputs
  <1>1. \A t \in Lists : DOMAIN t = 1..Len(t) /\ Len(t) \in Nat
    BY ListFacts
  <1>2. a \in 61..121 /\ b \in 61..121
    <2>1. x \in ToSet(First(near, CandidateK)) /\ x \in ToSet(First(matching, CandidateK))
      BY DEF InBoth, VectorRanks, KeywordRanks
    <2>2. PICK i \in DOMAIN near : i <= CandidateK /\ a = 60 + i
      BY <1>0, <2>1, TermFacts DEF VectorRanks
    <2>3. PICK j \in DOMAIN matching : j <= CandidateK /\ b = 60 + j
      BY <1>0, <2>1, TermFacts DEF KeywordRanks
    <2> HIDE DEF a, b
    <2>4. i \in Nat /\ i >= 1 /\ j \in Nat /\ j >= 1
      BY <1>0, <1>1
    <2>5. i <= 61 /\ j <= 61
      BY <1>0, <2>2, <2>3, <2>4
    <2> QED
      BY <2>2, <2>3, <2>4, <2>5
  <1>3. y \in ToSet(VectorRanks) => c \in Nat /\ c >= 61
    BY <1>0, <1>1, TermFacts DEF VectorRanks
  <1>4. y \in ToSet(KeywordRanks) => d \in Nat /\ d >= 61
    BY <1>0, <1>1, TermFacts DEF KeywordRanks
  <1>5. Score(x) = <<a + b, a * b>>
    BY DEF Score, InBoth
  <1>6. PICK e \in Nat : e >= 61 /\ Score(y) = <<1, e>>
    <2>1. CASE y \in ToSet(VectorRanks)
      BY <1>3, <2>1 DEF Score, InBoth, Joined
    <2>2. CASE y \in ToSet(KeywordRanks) /\ y \notin ToSet(VectorRanks)
      BY <1>4, <2>2 DEF Score, InBoth, Joined
    <2> QED
      BY <2>1, <2>2 DEF Joined
  <1> HIDE DEF a, b
  <1>7. (a + b) * e > 1 * (a * b)
    BY <1>2, <1>6, TwoTerms
  <1> QED
    BY <1>5, <1>6, <1>7 DEF FusedAhead

-----------------------------------------------------------------------------
(* The rows fetched are in the order of the fused scores ...                 *)
FusedOrder ==
    /\ fetched \in Lists /\ ToSet(fetched) \subseteq Joined
    /\ \A i \in DOMAIN fetched : \A x \in Joined :
          FusedAhead(x, fetched[i]) => \E j \in 1..(i - 1) : fetched[j] = x

(* ... and a reranked answer in that of the reranker's.                      *)
JudgedOrder ==
    /\ answer \in Lists
    /\ \A i \in DOMAIN answer : \A x \in ToSet(fetched) :
          JudgedAhead(x, answer[i]) => \E j \in 1..(i - 1) : answer[j] = x

IInv ==
    /\ Inputs
    /\ pc = "query" => fetched = <<>>
    /\ pc # "query" /\ Hybrid => FusedOrder
    /\ pc = "done" /\ request.rerank => JudgedOrder

(* EmptyList: nothing found is a list.                                       *)
LEMMA EmptyList == <<>> \in Lists
PROOF
  <1>1. Cardinality(Rows) \in Nat
    BY RowsAssumption, FS_CardinalityType DEF RowsAssumption
  <1>2. <<>> \in [1..0 -> Rows] /\ 0 \in 0..Cardinality(Rows)
    BY <1>1
  <1>3. <<>> \in BoundedSeq(Rows, Cardinality(Rows))
    BY <1>2 DEF BoundedSeq, SeqOf
  <1>4. IsInjective(<<>>)
    BY DEF IsInjective
  <1> QED
    BY <1>3, <1>4 DEF Lists

(* The invariant holds at the start.                                         *)
LEMMA InitInv == Init => IInv
PROOF
  <1> SUFFICES ASSUME Init PROVE IInv
    OBVIOUS
  <1>1. request \in Requests /\ near \in Lists /\ pc = "query" /\ fetched = <<>>
    BY DEF Init
  <1>2. matching \in Lists
    BY EmptyList DEF Init
  <1>3. grade \in [Rows -> Nat]
    <2>1. CASE request.rerank
      <3>1. grade \in [Rows -> Grades] /\ Grades \subseteq Nat
        BY <2>1, NumberAssumption DEF Init, NumberAssumption
      <3> QED
        BY <3>1
    <2>2. CASE ~request.rerank
      BY <2>2 DEF Init
    <2> QED
      BY <2>1, <2>2
  <1> QED
    BY <1>1, <1>2, <1>3 DEF IInv, Inputs

(* Every step keeps it.                                                      *)
LEMMA StepInv == IInv /\ [Next]_vars => IInv'
PROOF
  <1> SUFFICES ASSUME IInv, [Next]_vars PROVE IInv'
    OBVIOUS
  <1>1. UNCHANGED <<request, near, matching, grade>>
    BY DEF Next, SearchNear, SearchHybrid, Rerank, Fetch, vars
  <1>2. Inputs' /\ Hybrid' = Hybrid
    BY <1>1 DEF IInv, Inputs, Hybrid
  <1>3. VectorRanks' = VectorRanks /\ KeywordRanks' = KeywordRanks
    BY <1>1 DEF VectorRanks, KeywordRanks, CandidateK, FetchK
  <1>4. Joined' = Joined /\ \A x, y : FusedAhead(x, y)' = FusedAhead(x, y)
    BY <1>3 DEF Joined, FusedAhead, Score, Term, InBoth
  <1>5. ASSUME NEW results, Fetch(results), pc = "query" PROVE
            /\ pc' # "query" /\ fetched' = results
            /\ pc' = "done" /\ request'.rerank => JudgedOrder'
    <2>1. pc' # "query" /\ fetched' = results
      BY <1>5 DEF Fetch
    <2>2. pc' = "done" /\ request'.rerank => answer' = <<>>
      BY <1>1, <1>5 DEF Fetch
    <2> QED
      BY <2>1, <2>2, EmptyList DEF JudgedOrder
  <1>6. CASE SearchNear
    BY <1>2, <1>5, <1>6 DEF SearchNear, IInv
  <1>7. CASE SearchHybrid
    <2>1. PICK results \in Ordered(Joined, FetchK, FusedAhead) : Fetch(results)
      BY <1>7 DEF SearchHybrid
    <2>2. /\ results \in Lists /\ ToSet(results) \subseteq Joined
          /\ \A i \in DOMAIN results : \A x \in Joined :
                FusedAhead(x, results[i]) => \E j \in 1..(i - 1) : results[j] = x
      BY <2>1 DEF Ordered
    <2>3. fetched' = results
      BY <2>1 DEF Fetch
    <2>4. FusedOrder'
      BY <1>4, <2>2, <2>3 DEF FusedOrder
    <2> QED
      BY <1>2, <1>5, <1>7, <2>1, <2>4 DEF SearchHybrid, IInv
  <1>8. CASE Rerank
    <2>1. pc = "rerank" /\ pc' = "done" /\ fetched' = fetched
      BY <1>8 DEF Rerank
    <2>2. FusedOrder' = FusedOrder
      BY <1>4, <2>1 DEF FusedOrder
    <2>3. /\ answer' \in Lists
          /\ \A i \in DOMAIN answer' : \A x \in ToSet(fetched) :
                JudgedAhead(x, answer'[i]) => \E j \in 1..(i - 1) : answer'[j] = x
      BY <1>8 DEF Rerank, Ordered, Judged
    <2>4. \A x, y : JudgedAhead(x, y)' = JudgedAhead(x, y)
      BY <1>1, <2>1 DEF JudgedAhead, Judged
    <2>5. JudgedOrder'
      BY <2>1, <2>3, <2>4 DEF JudgedOrder
    <2> QED
      BY <1>2, <2>1, <2>2, <2>5 DEF IInv
  <1>9. CASE UNCHANGED vars
    <2>1. FusedOrder' = FusedOrder /\ pc' = pc /\ fetched' = fetched
      BY <1>4, <1>9 DEF FusedOrder, vars
    <2>2. JudgedOrder' = JudgedOrder
      BY <1>9 DEF JudgedOrder, JudgedAhead, Judged, vars
    <2> QED
      BY <1>1, <1>2, <2>1, <2>2 DEF IInv
  <1> QED
    BY <1>6, <1>7, <1>8, <1>9 DEF Next

-----------------------------------------------------------------------------
(* FusionRespectsLists: Dominance holds of the hybrid query for any rows,    *)
(* lists and k: no cut and no tie puts a dominated row first.                *)
THEOREM FusionRespectsLists == Spec => []Dominance
PROOF
  <1>1. IInv => Dominance
    <2> SUFFICES ASSUME IInv, Hybrid, NEW x \in Rows, NEW y \in ToSet(fetched) \ {x},
                        y \in ToSet(near) => AheadIn(near, x, y),
                        y \in ToSet(matching) => AheadIn(matching, x, y)
                 PROVE  AheadIn(fetched, x, y)
      BY DEF Dominance
    <2>1. PICK i \in DOMAIN fetched : fetched[i] = y
      BY DEF ToSet
    <2>2. FusedOrder
      BY <2>1 DEF IInv
    <2>3. x \in Joined /\ FusedAhead(x, y)
      BY <2>2, DominantScore DEF FusedOrder, IInv
    <2> QED
      BY <2>1, <2>2, <2>3, PlacedAhead DEF FusedOrder
  <1> QED
    BY <1>1, InitInv, StepInv, PTL DEF Spec

(* TwoListsBeatOne: BothBeatsOne, which states the bound on the candidates:  *)
(* with 62 the last of both lists ties with the first of one.                *)
THEOREM TwoListsBeatOne == Spec => []BothBeatsOne
PROOF
  <1>1. IInv => BothBeatsOne
    <2> SUFFICES ASSUME IInv, CandidateK <= 61, Hybrid, NEW x \in Rows,
                        NEW y \in ToSet(fetched), InBoth(x), ~InBoth(y)
                 PROVE  AheadIn(fetched, x, y)
      BY DEF BothBeatsOne
    <2>1. PICK i \in DOMAIN fetched : fetched[i] = y
      BY DEF ToSet
    <2>2. FusedOrder
      BY <2>1 DEF IInv
    <2>3. x \in Joined /\ FusedAhead(x, y)
      BY <2>2, BothScore DEF FusedOrder, IInv, InBoth, Joined
    <2> QED
      BY <2>1, <2>2, <2>3, PlacedAhead DEF FusedOrder
  <1> QED
    BY <1>1, InitInv, StepInv, PTL DEF Spec

-----------------------------------------------------------------------------
(* ListCount: a list has as many rows as places.                             *)
LEMMA ListCount ==
    ASSUME NEW t \in Lists
    PROVE  /\ IsFiniteSet(ToSet(t)) /\ Cardinality(ToSet(t)) = Len(t)
           /\ Len(t) \in Nat /\ ToSet(t) \subseteq Rows
PROOF
  <1>1. /\ t \in Seq(Rows) /\ Len(t) \in Nat /\ DOMAIN t = 1..Len(t)
        /\ \A i, j \in DOMAIN t : t[i] = t[j] => i = j
    BY ListFacts
  <1>2. t \in [1..Len(t) -> ToSet(t)] /\ ToSet(t) \subseteq Rows
    <2>1. \A i \in 1..Len(t) : t[i] \in Rows /\ t[i] \in ToSet(t)
      BY <1>1 DEF ToSet
    <2>2. t = [i \in 1..Len(t) |-> t[i]]
      BY <1>1
    <2>3. t \in [1..Len(t) -> ToSet(t)]
      BY <2>1, <2>2
    <2> QED
      BY <1>1, <2>1, <2>3 DEF ToSet
  <1>3. \A x \in ToSet(t) : \E i \in 1..Len(t) : t[i] = x
    BY <1>1 DEF ToSet
  <1>4. t \in Bijection(1..Len(t), ToSet(t))
    <2>1. \A i, j \in 1..Len(t) : t[i] = t[j] => i = j
      BY <1>1
    <2> QED
      BY <1>2, <1>3, <2>1 DEF Bijection, Injection, Surjection, IsInjective
  <1>5. ExistsBijection(1..Len(t), ToSet(t))
    BY <1>4 DEF ExistsBijection
  <1>6. IsFiniteSet(ToSet(t))
    <2>1. ToSet(t) \in SUBSET Rows
      BY <1>2
    <2> QED
      BY <2>1, RowsAssumption, FS_Subset DEF RowsAssumption
  <1> QED
    BY <1>1, <1>2, <1>5, <1>6, FS_CountingElements

(* FirstList: a cut of a list is a list, of some of its rows.                *)
LEMMA FirstList ==
    ASSUME NEW t \in Lists, NEW n \in Nat
    PROVE  /\ First(t, n) \in Lists /\ ToSet(First(t, n)) \subseteq ToSet(t)
           /\ Len(First(t, n)) = Lesser(Len(t), n)
           /\ Len(t) <= n => ToSet(First(t, n)) = ToSet(t)
PROOF
  <1> DEFINE c == First(t, n)
             m == Lesser(Len(t), n)
  <1>1. /\ t \in Seq(Rows) /\ Len(t) \in Nat /\ DOMAIN t = 1..Len(t)
        /\ \A i, j \in DOMAIN t : t[i] = t[j] => i = j
    BY ListFacts
  <1>2. m \in Nat /\ m <= Len(t) /\ m <= n
    BY <1>1 DEF Lesser
  <1>3. /\ DOMAIN c = 1..m /\ DOMAIN c \subseteq DOMAIN t
        /\ \A i \in DOMAIN c : c[i] = t[i]
        /\ \A i \in DOMAIN t : i <= n => i \in DOMAIN c
    BY FirstFacts
  <1>4. c \in Seq(Rows) /\ Len(c) = m
    BY <1>1, <1>2, <1>3, SMTT(30) DEF First
  <1>5. m \in 0..Cardinality(Rows)
    <2>1. PICK k \in 0..Cardinality(Rows) : t \in [1..k -> Rows]
      BY DEF Lists, BoundedSeq, SeqOf
    <2>2. Cardinality(Rows) \in Nat
      BY RowsAssumption, FS_CardinalityType DEF RowsAssumption
    <2>3. Len(t) = k
      BY <2>1, <2>2
    <2> QED
      BY <1>2, <2>2, <2>3
  <1>6. c \in [1..m -> Rows]
    <2> HIDE DEF c
    <2> QED
      BY <1>4
  <1>7. c \in BoundedSeq(Rows, Cardinality(Rows)) /\ IsInjective(c)
    BY <1>1, <1>3, <1>5, <1>6 DEF BoundedSeq, SeqOf, IsInjective
  <1>8. ToSet(c) \subseteq ToSet(t)
    BY <1>3 DEF ToSet
  <1>9. Len(t) <= n => ToSet(c) = ToSet(t)
    <2>1. Len(t) <= n => DOMAIN c = DOMAIN t
      <3> HIDE DEF c
      <3>1. \A i \in 1..Len(t) : Len(t) <= n => i <= n
        BY <1>1
      <3> QED
        BY <1>1, <1>3, <3>1
    <2> QED
      BY <1>3, <2>1 DEF ToSet
  <1> QED
    BY <1>4, <1>7, <1>8, <1>9 DEF Lists

(* Cutting: what is left of n or fewer, then of k or fewer.                  *)
LEMMA Cutting ==
    ASSUME NEW a \in Nat, NEW n \in Nat, NEW k \in Nat, k <= n
    PROVE  Lesser(Lesser(a, n), k) = Lesser(a, k)
PROOF BY DEF Lesser

(* Found(t, n): t is n of the rows there are to find, or all if fewer.       *)
Found(t, n) ==
    /\ t \in Lists /\ ToSet(t) \subseteq Offered
    /\ Len(t) = Lesser(Cardinality(Offered), n)

Enough ==
    /\ Inputs
    /\ ~Hybrid => matching = <<>>
    /\ pc = "rerank" => request.rerank
    /\ pc # "query" => Found(fetched, FetchK)
    /\ pc = "done" => Found(answer, request.k)

(* OfferedFacts: there are finitely many to find.                            *)
LEMMA OfferedFacts ==
    ASSUME Inputs
    PROVE  /\ IsFiniteSet(Offered) /\ Cardinality(Offered) \in Nat
           /\ \A S \in SUBSET Offered : IsFiniteSet(S) /\ Cardinality(S) \in Nat
                                        /\ Cardinality(S) <= Cardinality(Offered)
PROOF
  <1>1. Offered \in SUBSET Rows
    BY ListCount DEF Offered, Inputs
  <1>2. IsFiniteSet(Offered)
    BY <1>1, RowsAssumption, FS_Subset DEF RowsAssumption
  <1> QED
    BY <1>2, FS_CardinalityType, FS_Subset

(* JoinedEnough: the candidates are all there is, or three times fetch_k.    *)
LEMMA JoinedEnough ==
    ASSUME Inputs
    PROVE  /\ Joined \subseteq Offered
           /\ Lesser(Cardinality(Joined), FetchK) = Lesser(Cardinality(Offered), FetchK)
PROOF
  <1>1. near \in Lists /\ matching \in Lists /\ FetchK \in Nat /\ CandidateK = FetchK * 3
    BY CandidateFacts DEF Inputs, CandidateK
  <1>2. CandidateK \in Nat /\ FetchK <= CandidateK
    BY <1>1
  <1>3. /\ ToSet(VectorRanks) \subseteq ToSet(near)
        /\ ToSet(KeywordRanks) \subseteq ToSet(matching)
    BY <1>1, <1>2, FirstList DEF VectorRanks, KeywordRanks
  <1>4. Joined \subseteq Offered
    BY <1>3 DEF Joined, Offered
  <1>5. /\ Cardinality(Joined) \in Nat /\ Cardinality(Offered) \in Nat
        /\ Cardinality(Joined) <= Cardinality(Offered)
    BY <1>4, OfferedFacts
  <1>6. ASSUME NEW t \in Lists, ToSet(First(t, CandidateK)) \subseteq Joined,
               CandidateK < Len(t)
        PROVE  FetchK <= Cardinality(Joined)
    <2> DEFINE c == First(t, CandidateK)
    <2>1. c \in Lists /\ Len(c) = CandidateK
      BY <1>2, <1>6, FirstList, ListFacts DEF Lesser
    <2> HIDE DEF c
    <2>2. IsFiniteSet(ToSet(c)) /\ Cardinality(ToSet(c)) = CandidateK
      BY <2>1, ListCount
    <2>3. ToSet(c) \in SUBSET Joined /\ IsFiniteSet(Joined)
      BY <1>4, <1>6, OfferedFacts DEF c
    <2>4. Cardinality(ToSet(c)) <= Cardinality(Joined)
      BY <2>3, FS_Subset
    <2> QED
      BY <1>1, <1>2, <1>5, <2>2, <2>4
  <1>7. CASE CandidateK < Len(near) \/ CandidateK < Len(matching)
    <2>1. FetchK <= Cardinality(Joined)
      BY <1>1, <1>6, <1>7 DEF Joined, VectorRanks, KeywordRanks
    <2> QED
      BY <1>1, <1>4, <1>5, <2>1 DEF Lesser
  <1>8. CASE Len(near) <= CandidateK /\ Len(matching) <= CandidateK
    <2>1. /\ ToSet(VectorRanks) = ToSet(near)
          /\ ToSet(KeywordRanks) = ToSet(matching)
      BY <1>1, <1>2, <1>8, FirstList DEF VectorRanks, KeywordRanks
    <2>2. Joined = Offered
      BY <2>1 DEF Joined, Offered
    <2> QED
      BY <2>2
  <1> QED
    BY <1>1, <1>2, <1>7, <1>8, ListCount

LEMMA InitEnough == Init => Enough
PROOF
  <1> SUFFICES ASSUME Init PROVE Enough
    OBVIOUS
  <1>1. Inputs
    BY InitInv DEF IInv
  <1> QED
    BY <1>1 DEF Init, Enough

(* FetchEnough: when the query has found enough, so has what follows.        *)
LEMMA FetchEnough ==
    ASSUME Enough, NEW results, Found(results, FetchK), Fetch(results)
    PROVE  Enough'
PROOF
  <1>1. UNCHANGED <<request, near, matching, grade>> /\ fetched' = results
    BY DEF Fetch
  <1>2. /\ Inputs' /\ (~Hybrid => matching = <<>>)' /\ FetchK' = FetchK
        /\ Offered' = Offered
    BY <1>1 DEF Enough, Inputs, Hybrid, FetchK, Offered
  <1>3. Found(fetched, FetchK)'
    BY <1>1, <1>2 DEF Found
  <1>4. request.k \in Nat /\ FetchK \in Nat /\ Cardinality(Offered) \in Nat
    BY CandidateFacts, OfferedFacts DEF Enough
  <1>5. CASE request.rerank /\ results # <<>>
    BY <1>1, <1>2, <1>3, <1>5 DEF Enough, Fetch
  <1>6. CASE ~(request.rerank /\ results # <<>>)
    <2>1. pc' = "done" /\ answer' = results
      BY <1>6 DEF Fetch
    <2>2. Found(results, request.k)
      <3>1. CASE ~request.rerank
        BY <3>1 DEF FetchK
      <3>2. CASE request.rerank /\ results = <<>>
        <4>1. Lesser(Cardinality(Offered), FetchK) = 0 /\ FetchK = request.k * 3
          BY <3>2, EmptySeq DEF Found, FetchK
        <4>2. Lesser(Cardinality(Offered), request.k) = 0
          BY <1>4, <4>1 DEF Lesser
        <4> QED
          BY <4>1, <4>2 DEF Found
      <3> QED
        BY <1>6, <3>1, <3>2
    <2>3. Found(answer, request.k)'
      BY <1>1, <1>2, <2>1, <2>2 DEF Found
    <2> QED
      BY <1>2, <1>3, <2>1, <2>3 DEF Enough
  <1> QED
    BY <1>5, <1>6

LEMMA StepEnough == Enough /\ [Next]_vars => Enough'
PROOF
  <1> SUFFICES ASSUME Enough, [Next]_vars PROVE Enough'
    OBVIOUS
  <1>1. /\ near \in Lists /\ matching \in Lists /\ request.k \in Nat /\ FetchK \in Nat
        /\ Cardinality(Offered) \in Nat
    BY CandidateFacts, OfferedFacts DEF Enough, Inputs
  <1>2. CASE SearchNear
    <2>1. Offered = ToSet(near)
      BY <1>2 DEF SearchNear, Enough, Offered, ToSet
    <2>2. Cardinality(Offered) = Len(near)
      BY <1>1, <2>1, ListCount
    <2>3. Found(First(near, FetchK), FetchK)
      BY <1>1, <2>1, <2>2, FirstList DEF Found
    <2> QED
      BY <1>2, <2>3, FetchEnough DEF SearchNear
  <1>3. CASE SearchHybrid
    <2>1. PICK results \in Ordered(Joined, FetchK, FusedAhead) : Fetch(results)
      BY <1>3 DEF SearchHybrid
    <2>2. /\ results \in Lists /\ ToSet(results) \subseteq Joined
          /\ Len(results) = Lesser(Cardinality(Joined), FetchK)
      BY <2>1 DEF Ordered
    <2>3. Found(results, FetchK)
      BY <2>2, JoinedEnough DEF Found, Enough
    <2> QED
      BY <2>1, <2>3, FetchEnough
  <1>4. CASE Rerank
    <2>1. /\ pc = "rerank" /\ pc' = "done" /\ answer' \in Lists
          /\ UNCHANGED <<request, near, matching, grade, fetched>>
          /\ ToSet(answer') \subseteq ToSet(fetched)
          /\ Len(answer') = Lesser(Cardinality(ToSet(fetched)), request.k)
      BY <1>4 DEF Rerank, Ordered, Judged
    <2>2. Found(fetched, FetchK) /\ request.rerank
      BY <2>1 DEF Enough
    <2>3. Cardinality(ToSet(fetched)) = Lesser(Cardinality(Offered), FetchK)
      BY <2>2, ListCount DEF Found
    <2>4. request.k <= FetchK
      BY <1>1, <2>2 DEF FetchK
    <2>5. Len(answer') = Lesser(Cardinality(Offered), request.k)
      BY <1>1, <2>1, <2>3, <2>4, Cutting
    <2>6. Offered' = Offered /\ FetchK' = FetchK /\ Inputs' /\ (~Hybrid => matching = <<>>)'
      BY <2>1 DEF Offered, FetchK, Enough, Inputs, Hybrid
    <2>7. Found(fetched, FetchK)' /\ Found(answer, request.k)'
      BY <2>1, <2>2, <2>5, <2>6 DEF Found
    <2> QED
      BY <2>1, <2>6, <2>7 DEF Enough
  <1>5. CASE UNCHANGED vars
    BY <1>5 DEF vars, Enough, Inputs, Hybrid, Found, FetchK, Offered
  <1> QED
    BY <1>2, <1>3, <1>4, <1>5 DEF Next

(* SearchFindsEnough: the cuts never cost a search one of the k rows it asked*)
(* for: CANDIDATE_K is three times fetch_k in each list of the hybrid query, *)
(* and the reranker is given at least k.                                     *)
THEOREM SearchFindsEnough == Spec => []AsManyAsAsked
PROOF
  <1>1. Enough => AsManyAsAsked
    BY DEF Enough, Found, AsManyAsAsked, Lists
  <1> QED
    BY <1>1, InitEnough, StepEnough, PTL DEF Spec

-----------------------------------------------------------------------------
(* Above(t, x): the rows before x in t.                                      *)
Above(t, x) == ToSet(First(t, RankIn(t, x) - 1))

(* AboveFacts: they are one fewer than the place of x, which is ahead of all *)
(* others.                                                                   *)
LEMMA AboveFacts ==
    ASSUME NEW t \in Lists, NEW x \in ToSet(t)
    PROVE  /\ RankIn(t, x) \in DOMAIN t /\ t[RankIn(t, x)] = x
           /\ RankIn(t, x) \in Nat \ {0}
           /\ IsFiniteSet(Above(t, x)) /\ Cardinality(Above(t, x)) = RankIn(t, x) - 1
           /\ \A y \in ToSet(t) : y # x /\ y \notin Above(t, x) => AheadIn(t, x, y)
PROOF
  <1>1. DOMAIN t = 1..Len(t) /\ Len(t) \in Nat
    BY ListFacts
  <1>2. \E i \in DOMAIN t : t[i] = x
    BY DEF ToSet
  <1>3. RankIn(t, x) \in DOMAIN t /\ t[RankIn(t, x)] = x
    BY <1>2 DEF RankIn
  <1> DEFINE a == RankIn(t, x)
             c == First(t, a - 1)
  <1>4. a \in Nat \ {0} /\ a <= Len(t) /\ a - 1 \in Nat
    BY <1>1, <1>3
  <1>5. c \in Lists /\ Len(c) = a - 1
    BY <1>4, FirstList, ListFacts DEF Lesser
  <1>6. IsFiniteSet(ToSet(c)) /\ Cardinality(ToSet(c)) = a - 1
    BY <1>5, ListCount
  <1>7. ASSUME NEW y \in ToSet(t), y # x, y \notin ToSet(c) PROVE AheadIn(t, x, y)
    <2>1. ASSUME NEW j \in 1..a, t[j] = y PROVE FALSE
      <3>1. j # a
        BY <1>3, <1>7, <2>1
      <3>2. j \in DOMAIN t /\ j <= a - 1
        BY <1>1, <1>4, <3>1
      <3>3. j \in DOMAIN c /\ c[j] = y
        BY <1>4, <2>1, <3>2, FirstFacts
      <3> QED
        BY <1>7, <3>3 DEF ToSet
    <2> QED
      BY <1>3, <2>1 DEF AheadIn
  <1> QED
    BY <1>3, <1>4, <1>6, <1>7 DEF Above

(* OneBehind: among as many rows as the places of x together, one is behind  *)
(* it in both lists.                                                         *)
LEMMA OneBehind ==
    ASSUME NEW s \in Lists, NEW t \in Lists, NEW x \in ToSet(s), x \in ToSet(t),
           NEW S, IsFiniteSet(S), x \notin S,
           Cardinality(S) >= RankIn(s, x) + RankIn(t, x) - 1
    PROVE  \E y \in S : /\ y \in ToSet(s) => AheadIn(s, x, y)
                        /\ y \in ToSet(t) => AheadIn(t, x, y)
PROOF
  <1>1. /\ IsFiniteSet(Above(s, x)) /\ Cardinality(Above(s, x)) = RankIn(s, x) - 1
        /\ IsFiniteSet(Above(t, x)) /\ Cardinality(Above(t, x)) = RankIn(t, x) - 1
        /\ RankIn(s, x) \in Nat \ {0} /\ RankIn(t, x) \in Nat \ {0}
    BY AboveFacts
  <1> DEFINE U == Above(s, x) \cup Above(t, x)
  <1>2. IsFiniteSet(U) /\ Cardinality(U) <= RankIn(s, x) + RankIn(t, x) - 2
    <2>1. /\ IsFiniteSet(U)
          /\ Cardinality(U) = Cardinality(Above(s, x)) + Cardinality(Above(t, x))
                                - Cardinality(Above(s, x) \cap Above(t, x))
      BY <1>1, FS_Union
    <2>2. Cardinality(Above(s, x) \cap Above(t, x)) \in Nat
      BY <1>1, FS_Intersection, FS_CardinalityType
    <2> QED
      BY <1>1, <2>1, <2>2
  <1>3. ~ (S \subseteq U)
    <2> SUFFICES ASSUME S \subseteq U PROVE FALSE
      OBVIOUS
    <2>1. Cardinality(S) <= Cardinality(U)
      BY <1>2, FS_Subset
    <2>2. Cardinality(S) \in Nat /\ Cardinality(U) \in Nat
      BY <1>2, FS_CardinalityType
    <2> QED
      BY <1>1, <1>2, <2>1, <2>2
  <1>4. PICK y \in S : y \notin Above(s, x) /\ y \notin Above(t, x)
    BY <1>3
  <1> QED
    BY <1>4, AboveFacts

(* What the search without fusion fetches, and what is answered without the  *)
(* reranker.                                                                 *)
Carried ==
    /\ pc # "query" /\ ~Hybrid => fetched = First(near, FetchK)
    /\ pc = "done" /\ ~request.rerank => answer = fetched

LEMMA StepCarried == Enough /\ Carried /\ [Next]_vars => Carried'
PROOF
  <1> SUFFICES ASSUME Enough, Carried, [Next]_vars PROVE Carried'
    OBVIOUS
  <1>1. UNCHANGED <<request, near, matching, grade>>
    BY DEF Next, SearchNear, SearchHybrid, Rerank, Fetch, vars
  <1>2. Hybrid' = Hybrid /\ FetchK' = FetchK /\ First(near, FetchK)' = First(near, FetchK)
    BY <1>1 DEF Hybrid, FetchK, First
  <1>3. ASSUME NEW results, Fetch(results), ~Hybrid => results = First(near, FetchK)
        PROVE  Carried'
    BY <1>1, <1>2, <1>3 DEF Fetch, Carried
  <1>4. CASE SearchNear
    BY <1>3, <1>4 DEF SearchNear
  <1>5. CASE SearchHybrid
    BY <1>3, <1>5 DEF SearchHybrid
  <1>6. CASE Rerank
    BY <1>1, <1>2, <1>6 DEF Rerank, Carried, Enough
  <1>7. CASE UNCHANGED vars
    BY <1>1, <1>2, <1>7 DEF vars, Carried
  <1> QED
    BY <1>4, <1>5, <1>6, <1>7 DEF Next

(* HighStands: a row that stands high enough is fetched.                     *)
LEMMA HighStands ==
    ASSUME IInv, Enough, Carried, pc = "done", NEW x \in ToSet(near),
           Hybrid => x \in ToSet(matching), Standing(x) <= FetchK
    PROVE  x \in ToSet(fetched)
PROOF
  <1>1. /\ near \in Lists /\ matching \in Lists /\ FetchK \in Nat
        /\ fetched \in Lists /\ ToSet(fetched) \subseteq Offered
        /\ Len(fetched) = Lesser(Cardinality(Offered), FetchK)
    BY CandidateFacts DEF IInv, Inputs, Enough, Found
  <1>2. CASE ~Hybrid
    <2>1. /\ RankIn(near, x) \in DOMAIN near /\ near[RankIn(near, x)] = x
          /\ RankIn(near, x) <= FetchK
      BY <1>1, <1>2, AboveFacts DEF Standing
    <2>2. fetched = First(near, FetchK)
      BY <1>2 DEF Carried
    <2> QED
      BY <1>1, <2>1, <2>2, FirstFacts DEF ToSet
  <1>3. CASE Hybrid
    <2> SUFFICES ASSUME x \notin ToSet(fetched) PROVE FALSE
      OBVIOUS
    <2>1. x \in ToSet(matching) /\ RankIn(near, x) + RankIn(matching, x) - 1 <= FetchK
      BY <1>3 DEF Standing
    <2>2. IsFiniteSet(ToSet(fetched)) /\ Cardinality(ToSet(fetched)) = Len(fetched)
      BY <1>1, ListCount
    <2>3. Cardinality(Offered) \in Nat /\ Len(fetched) < Cardinality(Offered)
      <3>1. x \in Offered /\ IsFiniteSet(Offered)
        BY OfferedFacts DEF Offered, IInv
      <3>2. ToSet(fetched) \in SUBSET Offered /\ ToSet(fetched) # Offered
        BY <1>1, <3>1
      <3>3. /\ Cardinality(ToSet(fetched)) <= Cardinality(Offered)
            /\ Cardinality(ToSet(fetched)) # Cardinality(Offered)
        BY <3>1, <3>2, FS_Subset
      <3>4. Cardinality(Offered) \in Nat /\ Len(fetched) \in Nat
        BY <1>1, <3>1, FS_CardinalityType, ListFacts
      <3> QED
        BY <2>2, <3>3, <3>4
    <2>4. Len(fetched) = FetchK
      BY <1>1, <2>3 DEF Lesser
    <2>5. RankIn(near, x) \in Nat /\ RankIn(matching, x) \in Nat
      BY <1>1, <2>1, AboveFacts
    <2>6. Cardinality(ToSet(fetched)) >= RankIn(near, x) + RankIn(matching, x) - 1
      BY <1>1, <2>1, <2>2, <2>4, <2>5
    <2>7. PICK y \in ToSet(fetched) : /\ y \in ToSet(near) => AheadIn(near, x, y)
                                      /\ y \in ToSet(matching) => AheadIn(matching, x, y)
      BY <1>1, <2>1, <2>2, <2>6, OneBehind
    <2>8. PICK i \in DOMAIN fetched : fetched[i] = y
      BY DEF ToSet
    <2>9. FusedOrder /\ x \in Rows
      BY <1>1, <1>3, ListCount DEF IInv
    <2>10. x \in Joined /\ FusedAhead(x, y)
      BY <2>7, <2>9, DominantScore DEF FusedOrder, IInv
    <2>11. AheadIn(fetched, x, y)
      BY <1>1, <2>8, <2>9, <2>10, PlacedAhead DEF FusedOrder
    <2> QED
      BY <2>11 DEF AheadIn, ToSet
  <1> QED
    BY <1>2, <1>3

(* HighRanksSurvive: HighRanksAnswered holds for any rows, lists, k and      *)
(* scores: neither the candidates' cuts nor fetch_k loses a row that both    *)
(* lists have high, and only better rows take its place in the reranker.     *)
THEOREM HighRanksSurvive == Spec => []HighRanksAnswered
PROOF
  <1>1. IInv /\ Enough /\ Carried => HighRanksAnswered
    <2> SUFFICES ASSUME IInv, Enough, Carried, pc = "done", NEW x \in ToSet(near),
                        Hybrid => x \in ToSet(matching), Standing(x) <= FetchK,
                        x \notin ToSet(answer)
                 PROVE  request.rerank /\ \A y \in ToSet(answer) : grade[y] >= grade[x]
      BY DEF HighRanksAnswered
    <2>1. x \in ToSet(fetched)
      BY HighStands
    <2>2. request.rerank
      BY <2>1 DEF Carried, IInv, Inputs, Requests
    <2>3. ASSUME NEW y \in ToSet(answer), grade[x] > grade[y] PROVE FALSE
      <3>1. PICK i \in DOMAIN answer : answer[i] = y
        BY DEF ToSet
      <3>2. JudgedOrder /\ JudgedAhead(x, y)
        BY <2>2, <2>3 DEF IInv, JudgedAhead
      <3>3. AheadIn(answer, x, y)
        BY <2>1, <3>1, <3>2, PlacedAhead DEF JudgedOrder
      <3> QED
        BY <3>3 DEF AheadIn, ToSet
    <2>4. \A y \in ToSet(answer) \cup {x} : grade[y] \in Nat
      <3>1. ToSet(answer) \subseteq Rows /\ x \in Rows
        BY ListCount DEF Enough, Found, Inputs
      <3> QED
        BY <3>1 DEF IInv, Inputs
    <2> QED
      BY <2>2, <2>3, <2>4
  <1>2. Init => Carried
    BY DEF Init, Carried
  <1> QED
    BY <1>1, <1>2, InitInv, StepInv, InitEnough, StepEnough, StepCarried, PTL DEF Spec
=============================================================================

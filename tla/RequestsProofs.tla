--------------------------- MODULE RequestsProofs ---------------------------
(* Proofs about Requests, for names of any length: what a glob matches and   *)
(* what replacing a character leaves are shown for every string.             *)
EXTENDS Requests, SequenceTheorems, WellFoundedInduction, TLAPS

(* What names, labels, keys and patterns are made of.                        *)
Signs == STRING \cup {":", "_", "*", "?", "a", "l", Digest,
                      "rag:search:", "rag:graph:service:", "rag:graph:screen:"}

-----------------------------------------------------------------------------
(* A nonempty set of numbers has a least one: induction without a predicate  *)
(* for parameter.                                                            *)
LEMMA LeastMember ==
    ASSUME NEW T \in SUBSET Nat, T # {}
    PROVE  \E m \in T : \A k \in T : m <= k
PROOF
  <1> DEFINE R == OpToRel(<, Nat)
  <1>1. IsWellFoundedOn(R, Nat)
    BY NatLessThanWellFounded
  <1>2. \A x, y \in Nat : x < y => <<x, y>> \in R
    BY DEF OpToRel
  <1> HIDE DEF R
  <1>3. PICK x \in T : \A y \in T : ~ (<<y, x>> \in R)
    BY <1>1, WFMin
  <1>4. ASSUME NEW y \in T PROVE x <= y
    <2>1. x \in Nat /\ y \in Nat /\ ~ (y < x)
      BY <1>2, <1>3
    <2> QED
      BY <2>1
  <1> QED
    BY <1>4

(* g[i] is the first i of the n sequences, put together.                     *)
Gathers(g, seqs, n) ==
    /\ g = [i \in 1..n |-> g[i]]
    /\ \A i \in 1..n : g[i] = IF i = 1 THEN seqs[i] ELSE g[i - 1] \o seqs[i]

(* Flattened: what gathers the sequences is the value of FlattenSeq.         *)
LEMMA Flattened ==
    ASSUME NEW seqs, NEW n \in Nat \ {0}, Len(seqs) = n, NEW g, Gathers(g, seqs, n)
    PROVE  FlattenSeq(seqs) = g[n]
PROOF
  <1> DEFINE F == CHOOSE f : f = [i \in 1..n |-> IF i = 1 THEN seqs[i] ELSE f[i - 1] \o seqs[i]]
  <1>1. FlattenSeq(seqs) = F[n]
    BY DEF FlattenSeq
  <1>2. F = [i \in 1..n |-> IF i = 1 THEN seqs[i] ELSE F[i - 1] \o seqs[i]]
    <2>1. g = [i \in 1..n |-> IF i = 1 THEN seqs[i] ELSE g[i - 1] \o seqs[i]]
      BY DEF Gathers
    <2> QED
      BY <2>1
  <1> HIDE DEF F
  <1> DEFINE D == {i \in 1..n : F[i] # g[i]}
  <1>3. D = {}
    <2> SUFFICES ASSUME D # {} PROVE FALSE
      OBVIOUS
    <2>1. PICK m \in D : \A k \in D : m <= k
      <3>1. D \in SUBSET Nat
        OBVIOUS
      <3> HIDE DEF D
      <3> QED BY <3>1, LeastMember
    <2>2. m \in 1..n /\ F[m] # g[m]
      OBVIOUS
    <2>3. F[m] = (IF m = 1 THEN seqs[m] ELSE F[m - 1] \o seqs[m])
      BY <1>2, <2>2
    <2>4. g[m] = (IF m = 1 THEN seqs[m] ELSE g[m - 1] \o seqs[m])
      BY <2>2 DEF Gathers
    <2>5. m # 1 => m - 1 \in 1..n /\ m - 1 \notin D
      BY <2>1, <2>2
    <2>6. m # 1 => F[m - 1] = g[m - 1]
      BY <2>5
    <2> QED BY <2>2, <2>3, <2>4, <2>6
  <1>4. n \in 1..n
    OBVIOUS
  <1>5. F[n] = g[n]
    BY <1>3, <1>4
  <1> QED BY <1>1, <1>5

LEMMA Underscore == "_" \in Signs /\ ":" \in Signs
PROOF BY DEF Signs

(* Pairs: a pair is its two members, one after the other.                    *)
LEMMA Pairs ==
    ASSUME NEW S, NEW a \in S, NEW b \in S
    PROVE  /\ <<a>> \in Seq(S) /\ <<a, b>> \in Seq(S)
           /\ \A s \in Seq(S) : (s \o <<a>>) \o <<b>> = s \o <<a, b>>
PROOF
  <1>1. <<a>> \in Seq(S) /\ <<a, b>> \in Seq(S) /\ <<b>> \in Seq(S)
    OBVIOUS
  <1>2. <<a>> \o <<b>> = <<a, b>>
    <2> DEFINE x == <<a>> \o <<b>> y == <<a, b>>
    <2>1. x \in Seq(S) /\ Len(x) = 2 /\ x[1] = a /\ x[2] = b
       <3>1. Len(<<a>>) = 1 /\ Len(<<b>>) = 1 /\ <<a>>[1] = a /\ <<b>>[1] = b
         OBVIOUS
       <3>2. \A i \in 1..2 : x[i] = IF i <= Len(<<a>>) THEN <<a>>[i] ELSE <<b>>[i - Len(<<a>>)]
         BY <1>1, <3>1, ConcatProperties
       <3>3. x \in Seq(S) /\ Len(x) = 2
         BY <1>1, <3>1, ConcatProperties
       <3> HIDE DEF x
       <3>4. x[1] = a /\ x[2] = b
         BY <3>1, <3>2
       <3> QED BY <3>3, <3>4
    <2>2. y \in Seq(S) /\ Len(y) = 2 /\ y[1] = a /\ y[2] = b
      BY <1>1
    <2> HIDE DEF x, y
    <2>3. \A i \in 1..2 : x[i] = y[i]
      BY <2>1, <2>2
    <2>4. x = y
      BY <2>1, <2>2, <2>3, SeqEqual
    <2> QED BY <2>4 DEF x, y
  <1>3. ASSUME NEW s \in Seq(S) PROVE (s \o <<a>>) \o <<b>> = s \o (<<a>> \o <<b>>)
    BY <1>1, ConcatAssociative
  <1> QED BY <1>1, <1>2, <1>3

(* w[i] is how much of the label the first i characters leave.               *)
Spelt(c, l, w) ==
    /\ w \in [0..Len(c) -> 0..Len(l)] /\ w[0] = 0 /\ w[Len(c)] = Len(l)
    /\ \A i \in 1..Len(c) :
          /\ c[i] = ":" => w[i] = w[i - 1] + 2 /\ l[w[i] - 1] = "_" /\ l[w[i]] = "_"
          /\ c[i] # ":" => w[i] = w[i - 1] + 1 /\ l[w[i]] = c[i]

(* Replaced: a label is what the characters leave, one after the other.      *)
LEMMA Replaced ==
    ASSUME NEW c \in Seq(Signs), c # <<>>, NEW l \in Seq(Signs), NEW w, Spelt(c, l, w)
    PROVE  AgeSafeLabel(c) = l
PROOF
  <1> DEFINE n == Len(c)
             m == Len(l)
             piece(i) == IF c[i] = ":" THEN <<"_", "_">> ELSE <<c[i]>>
             seqs == [i \in DOMAIN c |-> piece(i)]
             g == [i \in 1..n |-> SubSeq(l, 1, w[i])]
  <1>1. /\ n \in Nat \ {0} /\ DOMAIN c = 1..n /\ \A i \in 1..n : c[i] \in Signs
        /\ m \in Nat /\ \A i \in 1..m : l[i] \in Signs
    BY LenProperties, EmptySeq
  <1>2. Len(seqs) = n
    BY <1>1
  <1>3. /\ w \in [0..n -> 0..m] /\ w[0] = 0 /\ w[n] = m
        /\ \A i \in 1..n :
              /\ c[i] = ":" => w[i] = w[i - 1] + 2 /\ l[w[i] - 1] = "_" /\ l[w[i]] = "_"
              /\ c[i] # ":" => w[i] = w[i - 1] + 1 /\ l[w[i]] = c[i]
    BY DEF Spelt
  <1>4. \A k \in 1..m : SubSeq(l, 1, k) = SubSeq(l, 1, k - 1) \o <<l[k]>>
    BY SubSeqRecursiveSecond
  <1>5. \A k \in 0..m : SubSeq(l, 1, k) \in Seq(Signs)
    BY <1>1, SubSeqProperties
  <1>6. SubSeq(l, 1, 0) = <<>> /\ SubSeq(l, 1, m) = l
    BY SubSeqEmpty, SubSeqFull
  <1>7. AgeSafeLabel(c) = FlattenSeq(seqs)
    BY DEF AgeSafeLabel
  <1>8. /\ \A i \in 1..n : seqs[i] = piece(i) /\ g[i] = SubSeq(l, 1, w[i])
        /\ \A i \in 1..n : <<>> \o piece(i) = piece(i)
    <2>1. \A i \in 1..n : seqs[i] = piece(i) /\ g[i] = SubSeq(l, 1, w[i])
      BY <1>1
    <2>2. <<"_", "_">> \in Seq(Signs) /\ \A i \in 1..n : <<c[i]>> \in Seq(Signs)
      BY <1>1, Underscore, Pairs
    <2>3. \A i \in 1..n : piece(i) \in Seq(Signs)
      BY <2>2
    <2> QED
      BY <2>1, <2>3, ConcatEmptySeq
  <1>9. g = [i \in 1..n |-> g[i]]
    OBVIOUS
  <1> HIDE DEF n, m, seqs, g
  <1>15. n \in 1..n /\ 1 \in 1..n /\ 0 \in 0..n /\ \A i \in 1..n : i # 1 => i - 1 \in 1..n
    BY <1>1
  <1>16. \A a, b \in 0..m :
            /\ b = a + 1 => b \in 1..m /\ a = b - 1
            /\ b = a + 2 => b \in 1..m /\ b - 1 \in 1..m /\ a = b - 1 - 1
    BY <1>1
  <1>10. ASSUME NEW i \in 1..n
         PROVE  SubSeq(l, 1, w[i]) = SubSeq(l, 1, w[i - 1]) \o piece(i)
    <2>1. i \in 0..n /\ i - 1 \in 0..n
      BY <1>1
    <2>2. w[i - 1] \in 0..m /\ w[i] \in 0..m
      BY <1>3, <2>1
    <2>3. CASE c[i] = ":"
      <3> DEFINE k == w[i]
      <3>1. k = w[i - 1] + 2 /\ l[k - 1] = "_" /\ l[k] = "_"
        BY <1>3, <2>3
      <3>2. k \in 1..m /\ k - 1 \in 1..m /\ w[i - 1] = k - 1 - 1
        BY <1>16, <2>2, <3>1
      <3>3. SubSeq(l, 1, k) = (SubSeq(l, 1, w[i - 1]) \o <<"_">>) \o <<"_">>
        BY <1>4, <3>1, <3>2
      <3>4. SubSeq(l, 1, w[i - 1]) \in Seq(Signs)
        BY <1>5, <2>2
      <3> HIDE DEF k
      <3>5. SubSeq(l, 1, k) = SubSeq(l, 1, w[i - 1]) \o <<"_", "_">>
        BY <3>3, <3>4, Underscore, Pairs
      <3> QED
        BY <2>3, <3>5 DEF k
    <2>4. CASE c[i] # ":"
      <3>1. w[i] = w[i - 1] + 1 /\ l[w[i]] = c[i]
        BY <1>3, <2>4
      <3>2. w[i] \in 1..m /\ w[i - 1] = w[i] - 1
        BY <1>16, <2>2, <3>1
      <3> QED
        BY <1>4, <2>4, <3>1, <3>2
    <2> QED
      BY <2>3, <2>4
  <1>11. ASSUME NEW i \in 1..n
         PROVE  g[i] = IF i = 1 THEN seqs[i] ELSE g[i - 1] \o seqs[i]
    <2> HIDE DEF piece
    <2>0. g[i] = SubSeq(l, 1, w[i - 1]) \o piece(i) /\ seqs[i] = piece(i)
      BY <1>8, <1>10
    <2>1. CASE i = 1
      <3>1. i - 1 = 0
        BY <2>1
      <3>2. SubSeq(l, 1, w[i - 1]) = <<>>
        BY <1>3, <1>6, <3>1
      <3> QED
        BY <1>8, <2>0, <2>1, <3>2
    <2>2. CASE i # 1
      <3>1. i - 1 \in 1..n
        BY <1>15, <2>2
      <3> QED
        BY <1>8, <2>0, <2>2, <3>1
    <2> QED
      BY <2>1, <2>2
  <1>12. Gathers(g, seqs, n)
    BY <1>9, <1>11 DEF Gathers
  <1>13. FlattenSeq(seqs) = g[n]
    BY <1>1, <1>2, <1>12, Flattened
  <1>14. g[n] = l
    BY <1>3, <1>6, <1>8, <1>15
  <1> QED
    BY <1>7, <1>13, <1>14

-----------------------------------------------------------------------------
(* WithoutFacts: a character a name is without is at none of its places.     *)
LEMMA WithoutFacts ==
    ASSUME NEW c \in Seq(Signs), NEW x
    PROVE  Without(c, {x}) <=> \A i \in 1..Len(c) : c[i] # x
PROOF
  <1>1. DOMAIN c = 1..Len(c)
    BY LenProperties
  <1> QED
    BY <1>1 DEF Without, ToSet

(* JoinFacts: the colon is right behind the first part.                      *)
LEMMA JoinFacts ==
    ASSUME NEW a \in Seq(Signs), NEW b \in Seq(Signs)
    PROVE  /\ Prefixed(a, b) \in Seq(Signs)
           /\ Len(Prefixed(a, b)) = Len(a) + 1 + Len(b)
           /\ \A i \in 1..Len(a) : Prefixed(a, b)[i] = a[i]
           /\ Prefixed(a, b)[Len(a) + 1] = ":"
           /\ \A i \in 1..Len(b) : Prefixed(a, b)[Len(a) + 1 + i] = b[i]
PROOF
  <1> DEFINE s == a \o <<":">>
             n == Len(a)
             k == Len(b)
  <1>1. <<":">> \in Seq(Signs) /\ Len(<<":">>) = 1 /\ <<":">>[1] = ":"
    BY Underscore, Pairs
  <1>2. n \in Nat /\ k \in Nat
    BY LenProperties
  <1>3. /\ s \in Seq(Signs) /\ Len(s) = n + 1
        /\ \A i \in 1..n + 1 : s[i] = IF i <= n THEN a[i] ELSE <<":">>[i - n]
    BY <1>1, ConcatProperties
  <1>4. Prefixed(a, b) = s \o b
    BY DEF Prefixed
  <1>5. /\ s \o b \in Seq(Signs) /\ Len(s \o b) = Len(s) + k
        /\ \A i \in 1..Len(s) + k : (s \o b)[i] = IF i <= Len(s) THEN s[i] ELSE b[i - Len(s)]
    BY <1>3, ConcatProperties
  <1> HIDE DEF s, n, k
  <1>6. \A i \in 1..n : (s \o b)[i] = a[i]
    <2> TAKE i \in 1..n
    <2>1. i \in 1..Len(s) + k /\ i <= Len(s) /\ i \in 1..n + 1 /\ i <= n
      BY <1>2, <1>3
    <2> QED
      BY <1>3, <1>5, <2>1
  <1>7. (s \o b)[n + 1] = ":"
    <2>1. n + 1 \in 1..Len(s) + k /\ n + 1 <= Len(s) /\ n + 1 \in 1..n + 1 /\ ~ (n + 1 <= n)
      BY <1>2, <1>3
    <2>2. (n + 1) - n = 1
      BY <1>2
    <2>3. (s \o b)[n + 1] = s[n + 1]
      BY <1>5, <2>1
    <2>4. s[n + 1] = <<":">>[(n + 1) - n]
      BY <1>3, <2>1
    <2> QED
      BY <1>1, <2>2, <2>3, <2>4
  <1>8. \A i \in 1..k : (s \o b)[n + 1 + i] = b[i]
    <2> TAKE i \in 1..k
    <2>1. /\ n + 1 + i \in 1..Len(s) + k /\ ~ (n + 1 + i <= Len(s))
          /\ (n + 1 + i) - Len(s) = i
      BY <1>2, <1>3
    <2> QED
      BY <1>5, <2>1
  <1> QED
    BY <1>3, <1>4, <1>5, <1>6, <1>7, <1>8 DEF n, k

(* FirstColon: what is without a colon before one can be told from the rest. *)
LEMMA FirstColon ==
    ASSUME NEW a \in Seq(Signs), NEW b \in Seq(Signs), NEW c \in Seq(Signs),
           NEW d \in Seq(Signs), Without(a, {":"}), Without(c, {":"}),
           Prefixed(a, b) = Prefixed(c, d)
    PROVE  a = c /\ b = d
PROOF
  <1>1. /\ Len(a) \in Nat /\ Len(b) \in Nat /\ Len(c) \in Nat /\ Len(d) \in Nat
    BY LenProperties
  <1> DEFINE p == Prefixed(a, b)
  <1>2. /\ Len(p) = Len(a) + 1 + Len(b) /\ p[Len(a) + 1] = ":"
        /\ \A i \in 1..Len(a) : p[i] = a[i]
        /\ \A i \in 1..Len(b) : p[Len(a) + 1 + i] = b[i]
    BY JoinFacts
  <1>3. /\ Len(p) = Len(c) + 1 + Len(d) /\ p[Len(c) + 1] = ":"
        /\ \A i \in 1..Len(c) : p[i] = c[i]
        /\ \A i \in 1..Len(d) : p[Len(c) + 1 + i] = d[i]
    <2>1. p = Prefixed(c, d)
      OBVIOUS
    <2> HIDE DEF p
    <2> QED
      BY <2>1, JoinFacts
  <1>4. \A i \in 1..Len(a) : a[i] # ":"
    BY WithoutFacts
  <1>5. \A i \in 1..Len(c) : c[i] # ":"
    BY WithoutFacts
  <1> HIDE DEF p
  <1>6. ~ (Len(a) < Len(c))
    <2>1. Len(a) < Len(c) => Len(a) + 1 \in 1..Len(c)
      BY <1>1
    <2> QED
      BY <1>2, <1>3, <1>5, <2>1
  <1>7. ~ (Len(c) < Len(a))
    <2>1. Len(c) < Len(a) => Len(c) + 1 \in 1..Len(a)
      BY <1>1
    <2> QED
      BY <1>2, <1>3, <1>4, <2>1
  <1>8. Len(a) = Len(c) /\ Len(b) = Len(d)
    BY <1>1, <1>2, <1>3, <1>6, <1>7
  <1>9. a = c
    BY <1>2, <1>3, <1>8, SeqEqual
  <1>10. b = d
    BY <1>2, <1>3, <1>8, SeqEqual
  <1> QED
    BY <1>9, <1>10

(* NoColon: a joined name has one.                                           *)
LEMMA NoColon ==
    ASSUME NEW a \in Seq(Signs), NEW b \in Seq(Signs)
    PROVE  ~ Without(Prefixed(a, b), {":"})
PROOF
  <1>1. Len(a) + 1 \in 1..Len(Prefixed(a, b))
    <2>1. Len(Prefixed(a, b)) = Len(a) + 1 + Len(b) /\ Len(a) \in Nat /\ Len(b) \in Nat
      BY JoinFacts, LenProperties
    <2> QED
      BY <2>1
  <1> QED
    BY <1>1, JoinFacts, WithoutFacts

-----------------------------------------------------------------------------
(* PlainLabel: a name without a colon is its own label.                      *)
LEMMA PlainLabel ==
    ASSUME NEW c \in Seq(Signs), Without(c, {":"})
    PROVE  AgeSafeLabel(c) = c
PROOF
  <1>1. Len(c) \in Nat /\ DOMAIN c = 1..Len(c) /\ \A i \in 1..Len(c) : c[i] # ":"
    BY LenProperties, WithoutFacts
  <1>2. CASE c = <<>>
    <2>1. AgeSafeLabel(c) = FlattenSeq(<<>>)
      BY <1>2 DEF AgeSafeLabel
    <2> QED
      BY <1>2, <2>1 DEF FlattenSeq
  <1>3. CASE c # <<>>
    <2> DEFINE w == [i \in 0..Len(c) |-> i]
    <2>1. /\ w \in [0..Len(c) -> 0..Len(c)] /\ w[0] = 0 /\ w[Len(c)] = Len(c)
          /\ \A i \in 1..Len(c) : w[i] = i /\ w[i - 1] = i - 1 /\ i = i - 1 + 1
      BY <1>1
    <2> HIDE DEF w
    <2>2. Spelt(c, c, w)
      BY <1>1, <2>1 DEF Spelt
    <2> QED
      BY <1>3, <2>2, Replaced
  <1> QED
    BY <1>2, <1>3

(* The label of a joined name.                                               *)
Underlined(a, b) == (a \o <<"_", "_">>) \o b

(* UnderlinedFacts: it has two underscores for the colon.                    *)
LEMMA UnderlinedFacts ==
    ASSUME NEW a \in Seq(Signs), NEW b \in Seq(Signs)
    PROVE  /\ Underlined(a, b) \in Seq(Signs)
           /\ Len(Underlined(a, b)) = Len(a) + 2 + Len(b)
           /\ \A i \in 1..Len(a) : Underlined(a, b)[i] = a[i]
           /\ Underlined(a, b)[Len(a) + 1] = "_" /\ Underlined(a, b)[Len(a) + 2] = "_"
           /\ \A i \in 1..Len(b) : Underlined(a, b)[Len(a) + 2 + i] = b[i]
PROOF
  <1> DEFINE u == <<"_", "_">>
             s == a \o u
             n == Len(a)
             k == Len(b)
  <1>1. u \in Seq(Signs) /\ Len(u) = 2 /\ u[1] = "_" /\ u[2] = "_"
    BY Underscore, Pairs
  <1>2. n \in Nat /\ k \in Nat
    BY LenProperties
  <1>3. /\ s \in Seq(Signs) /\ Len(s) = n + 2
        /\ \A i \in 1..n + 2 : s[i] = IF i <= n THEN a[i] ELSE u[i - n]
    BY <1>1, ConcatProperties
  <1>4. Underlined(a, b) = s \o b
    BY DEF Underlined
  <1>5. /\ s \o b \in Seq(Signs) /\ Len(s \o b) = Len(s) + k
        /\ \A i \in 1..Len(s) + k : (s \o b)[i] = IF i <= Len(s) THEN s[i] ELSE b[i - Len(s)]
    BY <1>3, ConcatProperties
  <1> HIDE DEF u, s, n, k
  <1>6. \A i \in 1..n + 2 : (s \o b)[i] = s[i]
    <2> TAKE i \in 1..n + 2
    <2>1. i \in 1..Len(s) + k /\ i <= Len(s)
      BY <1>2, <1>3
    <2> QED
      BY <1>5, <2>1
  <1>7. \A i \in 1..n : i \in 1..n + 2 /\ s[i] = a[i]
    <2> TAKE i \in 1..n
    <2>1. i \in 1..n + 2 /\ i <= n
      BY <1>2
    <2> QED
      BY <1>3, <2>1
  <1>8. n + 1 \in 1..n + 2 /\ n + 2 \in 1..n + 2 /\ s[n + 1] = "_" /\ s[n + 2] = "_"
    <2>1. /\ n + 1 \in 1..n + 2 /\ n + 2 \in 1..n + 2 /\ ~ (n + 1 <= n) /\ ~ (n + 2 <= n)
          /\ (n + 1) - n = 1 /\ (n + 2) - n = 2
      BY <1>2
    <2>2. s[n + 1] = u[(n + 1) - n] /\ s[n + 2] = u[(n + 2) - n]
      BY <1>3, <2>1
    <2> QED
      BY <1>1, <2>1, <2>2
  <1>9. \A i \in 1..k : (s \o b)[n + 2 + i] = b[i]
    <2> TAKE i \in 1..k
    <2>1. /\ n + 2 + i \in 1..Len(s) + k /\ ~ (n + 2 + i <= Len(s))
          /\ (n + 2 + i) - Len(s) = i
      BY <1>2, <1>3
    <2> QED
      BY <1>5, <2>1
  <1> QED
    BY <1>3, <1>4, <1>5, <1>6, <1>7, <1>8, <1>9 DEF n, k

(* JoinedLabel: the one colon of a joined name becomes two underscores.      *)
LEMMA JoinedLabel ==
    ASSUME NEW a \in Seq(Signs), NEW b \in Seq(Signs), Without(a, {":"}), Without(b, {":"})
    PROVE  AgeSafeLabel(Prefixed(a, b)) = Underlined(a, b)
PROOF
  <1> DEFINE c == Prefixed(a, b)
             l == Underlined(a, b)
             n == Len(a)
             k == Len(b)
             w == [i \in 0..Len(c) |-> IF i <= n THEN i ELSE i + 1]
  <1>1. n \in Nat /\ k \in Nat
    BY LenProperties
  <1>2. /\ c \in Seq(Signs) /\ Len(c) = n + 1 + k /\ c[n + 1] = ":"
        /\ \A i \in 1..n : c[i] = a[i]
        /\ \A i \in 1..k : c[n + 1 + i] = b[i]
    BY JoinFacts
  <1>3. /\ l \in Seq(Signs) /\ Len(l) = n + 2 + k /\ l[n + 1] = "_" /\ l[n + 2] = "_"
        /\ \A i \in 1..n : l[i] = a[i]
        /\ \A i \in 1..k : l[n + 2 + i] = b[i]
    BY UnderlinedFacts
  <1>4. (\A i \in 1..n : a[i] # ":") /\ (\A i \in 1..k : b[i] # ":")
    BY WithoutFacts
  <1> HIDE DEF c, l, n, k
  <1>5. ASSUME NEW i \in 1..Len(c)
        PROVE  /\ c[i] = ":" => w[i] = w[i - 1] + 2 /\ l[w[i] - 1] = "_" /\ l[w[i]] = "_"
               /\ c[i] # ":" => w[i] = w[i - 1] + 1 /\ l[w[i]] = c[i]
    <2>1. i \in 0..Len(c) /\ i - 1 \in 0..Len(c)
      BY <1>1, <1>2
    <2>2. CASE i \in 1..n
      <3>1. w[i] = i /\ w[i - 1] = i - 1 /\ i = (i - 1) + 1
        BY <1>1, <2>1, <2>2
      <3>2. c[i] = a[i] /\ l[i] = a[i] /\ a[i] # ":"
        BY <1>2, <1>3, <1>4, <2>2
      <3> QED
        BY <3>1, <3>2
    <2>3. CASE i = n + 1
      <3>1. w[i] = n + 2 /\ w[i - 1] = n /\ w[i] - 1 = n + 1
        BY <1>1, <2>1, <2>3
      <3> QED
        BY <1>1, <1>2, <1>3, <2>3, <3>1
    <2>4. CASE i > n + 1
      <3>1. PICK j \in 1..k : i = n + 1 + j
        <4>1. i - (n + 1) \in 1..k /\ i = n + 1 + (i - (n + 1))
          BY <1>1, <1>2, <2>4
        <4> QED
          BY <4>1
      <3>2. w[i] = n + 2 + j /\ w[i - 1] = n + 1 + j /\ n + 2 + j = (n + 1 + j) + 1
        BY <1>1, <2>1, <2>4, <3>1
      <3>3. c[i] = b[j] /\ l[w[i]] = b[j] /\ b[j] # ":"
        BY <1>2, <1>3, <1>4, <3>1, <3>2
      <3> QED
        BY <3>2, <3>3
    <2>5. i \in 1..n \/ i = n + 1 \/ i > n + 1
      BY <1>1, <1>2
    <2> QED
      BY <2>2, <2>3, <2>4, <2>5
  <1>6. w \in [0..Len(c) -> 0..Len(l)] /\ w[0] = 0 /\ w[Len(c)] = Len(l)
    <2>0. Len(c) = n + 1 + k /\ Len(l) = n + 2 + k
      BY <1>2, <1>3
    <2>1. \A i \in 0..Len(c) : (IF i <= n THEN i ELSE i + 1) \in 0..Len(l)
      BY <1>1, <2>0
    <2>2. /\ 0 \in 0..Len(c) /\ 0 <= n /\ Len(c) \in 0..Len(c) /\ ~ (Len(c) <= n)
          /\ Len(c) + 1 = Len(l)
      BY <1>1, <2>0
    <2>3. w[0] = 0
      BY <2>2
    <2>4. w[Len(c)] = Len(l)
      BY <2>2
    <2>5. w \in [0..Len(c) -> 0..Len(l)]
      BY <2>1
    <2> QED
      BY <2>3, <2>4, <2>5
  <1>7. c # <<>>
    BY <1>1, <1>2, EmptySeq
  <1> HIDE DEF w
  <1>8. Spelt(c, l, w)
    BY <1>5, <1>6 DEF Spelt
  <1>9. AgeSafeLabel(c) = l
    BY <1>2, <1>3, <1>7, <1>8, Replaced
  <1> QED
    BY <1>9 DEF c, l

(* TwoUnderscores: no tame name holds two in a row, and the label of a       *)
(* joined name tells where the first of them ends.                           *)
LEMMA TwoUnderscores ==
    ASSUME NEW a \in Seq(Signs), NEW b \in Seq(Signs), NEW t \in Seq(Signs), Tame(t)
    PROVE  /\ Underlined(a, b) # t
           /\ \A u \in Seq(Signs) : Underlined(a, b) = Underlined(t, u) => ~ (Len(a) < Len(t))
PROOF
  <1> DEFINE l == Underlined(a, b)
             n == Len(a)
             m == Len(t)
             k == Len(b)
  <1>1. n \in Nat /\ m \in Nat /\ k \in Nat /\ (m # 0 => t # <<>>)
    BY LenProperties, EmptySeq
  <1>2. Len(l) = n + 2 + k /\ l[n + 1] = "_" /\ l[n + 2] = "_"
    BY UnderlinedFacts
  <1>3. t # <<>> => t[m] # "_" /\ \A i \in 1..m - 1 : t[i] = "_" => t[i + 1] # "_"
    BY DEF Tame
  <1>4. \A u \in Seq(Signs) : \A i \in 1..m : Underlined(t, u)[i] = t[i]
    BY UnderlinedFacts
  <1>5. l = t => m = n + 2 + k
    BY <1>2
  <1> HIDE DEF l, n, m, k
  <1>6. ASSUME n < m, t[n + 1] = "_" PROVE n + 2 \in 1..m /\ t[n + 2] # "_"
    <2>0. n \in Nat /\ m \in Nat /\ n < m
      BY <1>1, <1>6
    <2>1. n + 1 \in 1..m /\ m # 0
      BY <2>0
    <2>2. n + 1 # m
      BY <1>1, <1>3, <1>6, <2>1
    <2>3. n + 1 \in 1..m - 1 /\ n + 1 + 1 = n + 2 /\ n + 2 \in 1..m
      BY <2>0, <2>1, <2>2
    <2>4. t[n + 1 + 1] # "_"
      BY <1>1, <1>3, <1>6, <2>1, <2>3
    <2> QED
      BY <2>3, <2>4
  <1>7. l # t
    <2>1. m = n + 2 + k => n < m
      BY <1>1
    <2> QED
      BY <1>2, <1>5, <1>6, <2>1
  <1>8. ASSUME NEW u \in Seq(Signs), l = Underlined(t, u), n < m PROVE FALSE
    <2>1. n + 1 \in 1..m
      BY <1>1, <1>8
    <2>2. t[n + 1] = "_"
      BY <1>2, <1>4, <1>8, <2>1
    <2> QED
      BY <1>2, <1>4, <1>6, <1>8, <2>2
  <1> QED
    BY <1>7, <1>8 DEF l, n, m

(* LabelsApart: of tame names, no two joined ones have one label.            *)
LEMMA LabelsApart ==
    ASSUME NEW a \in Seq(Signs), NEW b \in Seq(Signs), NEW c \in Seq(Signs),
           NEW d \in Seq(Signs), Tame(a), Tame(c), Underlined(a, b) = Underlined(c, d)
    PROVE  a = c /\ b = d
PROOF
  <1> DEFINE l == Underlined(a, b)
  <1>1. Len(a) \in Nat /\ Len(b) \in Nat /\ Len(c) \in Nat /\ Len(d) \in Nat
    BY LenProperties
  <1>2. ~ (Len(a) < Len(c))
    BY TwoUnderscores
  <1>3. ~ (Len(c) < Len(a))
    BY TwoUnderscores
  <1>4. /\ Len(l) = Len(a) + 2 + Len(b)
        /\ \A i \in 1..Len(a) : l[i] = a[i]
        /\ \A i \in 1..Len(b) : l[Len(a) + 2 + i] = b[i]
    BY UnderlinedFacts
  <1>5. /\ Len(l) = Len(c) + 2 + Len(d)
        /\ \A i \in 1..Len(c) : l[i] = c[i]
        /\ \A i \in 1..Len(d) : l[Len(c) + 2 + i] = d[i]
    <2>1. l = Underlined(c, d)
      OBVIOUS
    <2> HIDE DEF l
    <2> QED
      BY <2>1, UnderlinedFacts
  <1> HIDE DEF l
  <1>6. Len(a) = Len(c)
    BY <1>1, <1>2, <1>3
  <1>7. Len(b) = Len(d)
    BY <1>1, <1>4, <1>5, <1>6
  <1>8. a = c
    BY <1>4, <1>5, <1>6, SeqEqual
  <1>9. b = d
    BY <1>4, <1>5, <1>6, <1>7, SeqEqual
  <1> QED
    BY <1>8, <1>9

-----------------------------------------------------------------------------
(* RequestFacts: the names of a request are strings of signs.                *)
LEMMA RequestFacts ==
    ASSUME NEW q \in Requests
    PROVE  /\ q.op \in Uploads \cup Questions /\ q.values \in [Fields -> Nat]
           /\ q.system \in Seq(Signs) /\ q.name \in Seq(Signs) /\ q.item \in Seq(Signs)
           /\ System(q) \in Seq(Signs) /\ Collection(q) \in Seq(Signs)
PROOF
  <1>1. q \in [op : Uploads \cup Questions, system : Seq(STRING),
               name : Seq(STRING), item : Seq(STRING), values : [Fields -> Nat]]
    BY RequestsAssumption DEF RequestsAssumption
  <1>2. STRING \subseteq Signs
    BY DEF Signs
  <1>3. \A s \in Seq(STRING) : s \in Seq(Signs)
    BY <1>2, SeqMonotonic
  <1>4. q.system \in Seq(Signs) /\ q.name \in Seq(Signs) /\ q.item \in Seq(Signs)
    BY <1>1, <1>3
  <1>5. System(q) \in Seq(Signs)
    BY <1>4, EmptySeq DEF System
  <1>6. Collection(q) \in Seq(Signs)
    BY <1>4, <1>5, JoinFacts DEF Collection
  <1> QED
    BY <1>1, <1>4, <1>5, <1>6

(* PlainFacts: what has no colon keeps none.                                 *)
LEMMA PlainFacts ==
    ASSUME NEW q \in Requests, Plain(q)
    PROVE  /\ Without(System(q), {":"}) /\ Without(q.name, {":"}) /\ Without(q.item, {":"})
PROOF
  <1>1. Without(q.system, {":"}) /\ Without(q.name, {":"}) /\ Without(q.item, {":"})
    BY DEF Plain
  <1>2. Without(<<>>, {":"})
    BY DEF Without, ToSet
  <1> QED
    BY <1>1, <1>2 DEF System

(* CollectionsApart: a collection's name tells its system.                   *)
LEMMA CollectionsApart ==
    ASSUME NEW q \in Requests, NEW r \in Requests, Plain(q), Plain(r),
           Collection(q) = Collection(r)
    PROVE  System(q) = System(r) /\ q.name = r.name
PROOF
  <1>1. /\ System(q) \in Seq(Signs) /\ q.name \in Seq(Signs)
        /\ System(r) \in Seq(Signs) /\ r.name \in Seq(Signs)
        /\ Without(System(q), {":"}) /\ Without(q.name, {":"})
        /\ Without(System(r), {":"}) /\ Without(r.name, {":"})
    BY RequestFacts, PlainFacts
  <1>2. CASE System(q) = <<>> /\ System(r) = <<>>
    BY <1>2 DEF Collection
  <1>3. CASE System(q) = <<>> /\ System(r) # <<>>
    BY <1>1, <1>3, NoColon DEF Collection
  <1>4. CASE System(q) # <<>> /\ System(r) = <<>>
    BY <1>1, <1>4, NoColon DEF Collection
  <1>5. CASE System(q) # <<>> /\ System(r) # <<>>
    BY <1>1, <1>5, FirstColon DEF Collection
  <1> QED
    BY <1>2, <1>3, <1>4, <1>5

(* GraphsApart: with tame names its label tells the collection's system.     *)
LEMMA GraphsApart ==
    ASSUME NEW q \in Requests, NEW r \in Requests, Plain(q), Plain(r),
           Tame(q.system), Tame(q.name), Tame(r.system), Tame(r.name),
           AgeSafeLabel(Collection(q)) = AgeSafeLabel(Collection(r))
    PROVE  System(q) = System(r) /\ q.name = r.name
PROOF
  <1>1. /\ System(q) \in Seq(Signs) /\ q.name \in Seq(Signs)
        /\ System(r) \in Seq(Signs) /\ r.name \in Seq(Signs)
        /\ Without(System(q), {":"}) /\ Without(q.name, {":"})
        /\ Without(System(r), {":"}) /\ Without(r.name, {":"})
    BY RequestFacts, PlainFacts
  <1>2. Tame(System(q)) /\ Tame(System(r))
    BY DEF System, Tame
  <1>3. \A x \in {q, r} : AgeSafeLabel(Collection(x)) =
            IF System(x) = <<>> THEN x.name ELSE Underlined(System(x), x.name)
    BY <1>1, PlainLabel, JoinedLabel DEF Collection
  <1>4. CASE System(q) = <<>> /\ System(r) = <<>>
    BY <1>3, <1>4
  <1>5. CASE System(q) = <<>> /\ System(r) # <<>>
    BY <1>1, <1>3, <1>5, TwoUnderscores
  <1>6. CASE System(q) # <<>> /\ System(r) = <<>>
    BY <1>1, <1>3, <1>6, TwoUnderscores
  <1>7. CASE System(q) # <<>> /\ System(r) # <<>>
    BY <1>1, <1>2, <1>3, <1>7, LabelsApart
  <1> QED
    BY <1>4, <1>5, <1>6, <1>7

-----------------------------------------------------------------------------
(* Appended: where the members of two sequences are when one follows the     *)
(* other.                                                                    *)
LEMMA Appended ==
    ASSUME NEW a \in Seq(Signs), NEW b \in Seq(Signs)
    PROVE  /\ a \o b \in Seq(Signs) /\ Len(a \o b) = Len(a) + Len(b)
           /\ \A i \in 1..Len(a) : (a \o b)[i] = a[i]
           /\ \A i \in 1..Len(b) : (a \o b)[Len(a) + i] = b[i]
PROOF
  <1> DEFINE s == a \o b
             n == Len(a)
             k == Len(b)
  <1>1. n \in Nat /\ k \in Nat
    BY LenProperties
  <1>2. /\ s \in Seq(Signs) /\ Len(s) = n + k
        /\ \A i \in 1..n + k : s[i] = IF i <= n THEN a[i] ELSE b[i - n]
    BY ConcatProperties
  <1> HIDE DEF s, n, k
  <1>3. \A i \in 1..n : i \in 1..n + k /\ i <= n
    BY <1>1
  <1>4. \A i \in 1..k : n + i \in 1..n + k /\ ~ (n + i <= n) /\ (n + i) - n = i
    BY <1>1
  <1>5. \A i \in 1..n : s[i] = a[i]
    BY <1>2, <1>3
  <1>6. \A i \in 1..k : s[n + i] = b[i]
    BY <1>2, <1>4
  <1> QED
    BY <1>2, <1>5, <1>6 DEF s, n, k

(* FirstSign: a sequence with a sign before it.                              *)
LEMMA FirstSign ==
    ASSUME NEW x \in Signs, NEW s \in Seq(Signs)
    PROVE  /\ <<x>> \o s \in Seq(Signs) /\ Len(<<x>> \o s) = 1 + Len(s)
           /\ (<<x>> \o s)[1] = x
           /\ \A i \in 1..Len(s) : (<<x>> \o s)[1 + i] = s[i]
PROOF
  <1>1. <<x>> \in Seq(Signs) /\ Len(<<x>>) = 1 /\ <<x>>[1] = x
    BY Pairs
  <1> DEFINE y == <<x>>
  <1>2. y \in Seq(Signs) /\ Len(y) = 1 /\ y[1] = x
    BY <1>1
  <1> HIDE DEF y
  <1>3. /\ y \o s \in Seq(Signs) /\ Len(y \o s) = Len(y) + Len(s)
        /\ \A i \in 1..Len(y) : (y \o s)[i] = y[i]
        /\ \A i \in 1..Len(s) : (y \o s)[Len(y) + i] = s[i]
    BY <1>2, Appended
  <1>4. 1 \in 1..Len(y)
    BY <1>2
  <1> QED
    BY <1>2, <1>3, <1>4 DEF y

(* SameTail: the same after the first sign.                                  *)
LEMMA SameTail ==
    ASSUME NEW x \in Signs, NEW y \in Signs, NEW s \in Seq(Signs), NEW t \in Seq(Signs),
           <<x>> \o s = <<y>> \o t
    PROVE  x = y /\ s = t
PROOF
  <1> DEFINE u == <<x>> \o s
             n == Len(s)
             k == Len(t)
  <1>1. n \in Nat /\ k \in Nat
    BY LenProperties
  <1>2. Len(u) = 1 + n /\ u[1] = x /\ \A i \in 1..n : u[1 + i] = s[i]
    BY FirstSign
  <1>3. Len(u) = 1 + k /\ u[1] = y /\ \A i \in 1..k : u[1 + i] = t[i]
    <2>1. u = <<y>> \o t
      OBVIOUS
    <2> HIDE DEF u
    <2> QED
      BY <2>1, FirstSign
  <1> HIDE DEF u, n, k
  <1>4. n = k
    BY <1>1, <1>2, <1>3
  <1>5. s = t
    BY <1>2, <1>3, <1>4, SeqEqual DEF n, k
  <1> QED
    BY <1>2, <1>3, <1>5

(* What begins with rag:search: and ends after a colon.                      *)
SearchName(c, x) == <<"rag:search:">> \o c \o <<":", x>>

(* SearchFacts: where its characters are.                                    *)
LEMMA SearchFacts ==
    ASSUME NEW c \in Seq(Signs), NEW x \in Signs
    PROVE  LET p == SearchName(c, x)
           IN  /\ p \in Seq(Signs) /\ Len(p) = Len(c) + 3
               /\ p[1] = "rag:search:" /\ \A i \in 1..Len(c) : p[1 + i] = c[i]
               /\ p[Len(c) + 2] = ":" /\ p[Len(c) + 3] = x
PROOF
  <1> DEFINE p == SearchName(c, x)
             a == <<"rag:search:">> \o c
             e == <<":", x>>
             n == Len(c)
  <1>1. "rag:search:" \in Signs /\ ":" \in Signs
    BY DEF Signs
  <1>2. n \in Nat
    BY LenProperties
  <1>3. /\ a \in Seq(Signs) /\ Len(a) = 1 + n /\ a[1] = "rag:search:"
        /\ \A i \in 1..n : a[1 + i] = c[i]
    BY <1>1, FirstSign
  <1>4. e \in Seq(Signs) /\ Len(e) = 2 /\ e[1] = ":" /\ e[2] = x
    BY <1>1, Pairs
  <1>5. p = a \o e
    BY DEF SearchName
  <1> HIDE DEF p, a, e, n
  <1>6. /\ p \in Seq(Signs) /\ Len(p) = Len(a) + Len(e)
        /\ \A i \in 1..Len(a) : p[i] = a[i]
        /\ \A i \in 1..Len(e) : p[Len(a) + i] = e[i]
    <2>1. /\ a \o e \in Seq(Signs) /\ Len(a \o e) = Len(a) + Len(e)
          /\ \A i \in 1..Len(a) : (a \o e)[i] = a[i]
          /\ \A i \in 1..Len(e) : (a \o e)[Len(a) + i] = e[i]
      BY <1>3, <1>4, Appended
    <2> QED
      BY <1>5, <2>1
  <1>7. /\ 1 + n + 2 = n + 3 /\ 1 \in 1..1 + n /\ 1 \in 1..2 /\ 2 \in 1..2
        /\ 1 + n + 1 = n + 2 /\ \A i \in 1..n : 1 + i \in 1..1 + n
    BY <1>2
  <1>8. Len(p) = n + 3
    BY <1>3, <1>4, <1>6, <1>7
  <1>9. p[1] = "rag:search:" /\ \A i \in 1..n : p[1 + i] = c[i]
    BY <1>3, <1>6, <1>7
  <1>10. p[n + 2] = ":" /\ p[n + 3] = x
    BY <1>3, <1>4, <1>6, <1>7
  <1> QED
    BY <1>6, <1>8, <1>9, <1>10 DEF p, n

-----------------------------------------------------------------------------
(* Greatest: a nonempty set of numbers below another has its Max.            *)
LEMMA Greatest ==
    ASSUME NEW n \in Nat, NEW S \in SUBSET (0..n), S # {}
    PROVE  Max(S) \in S
PROOF
  <1> DEFINE T == {n - x : x \in S}
  <1>1. T \in SUBSET Nat /\ T # {}
    <2>1. \A x \in S : n - x \in Nat
      OBVIOUS
    <2> QED
      BY <2>1
  <1>2. PICK m \in T : \A k \in T : m <= k
    <2> HIDE DEF T
    <2> QED
      BY <1>1, LeastMember
  <1>3. PICK x \in S : m = n - x
    OBVIOUS
  <1>4. ASSUME NEW y \in S PROVE x >= y
    <2>1. n - y \in T
      OBVIOUS
    <2>2. n - x <= n - y
      BY <1>2, <1>3, <2>1
    <2>3. x \in 0..n /\ y \in 0..n
      OBVIOUS
    <2> QED
      BY <2>2, <2>3
  <1> QED
    BY <1>4 DEF Max

(* InPlace: behind stars that stand for one character each, or none, a       *)
(* character of a pattern has its match in its own place.                    *)
LEMMA InPlace ==
    ASSUME NEW p \in Seq(Signs), NEW ends, NEW i \in 1..Len(p) + 1,
           \A j \in Stars(p) : j < i => ends[j] = j + 1
    PROVE  Place(p, ends, i) = i
PROOF
  <1> DEFINE before == {j \in Stars(p) : j < i}
             m == Max(before)
  <1>1. Place(p, ends, i) = IF before = {} THEN i ELSE ends[m] + (i - m - 1)
    BY DEF Place
  <1>2. i \in Nat /\ Len(p) \in Nat /\ DOMAIN p = 1..Len(p)
    BY LenProperties
  <1>3. before \in SUBSET (0..i)
    BY <1>2 DEF Stars
  <1>4. CASE before # {}
    <2>1. m \in before
      <3> HIDE DEF before
      <3> QED
        BY <1>2, <1>3, <1>4, Greatest
    <2>2. ends[m] = m + 1 /\ m \in Nat
      BY <1>2, <2>1 DEF Stars
    <2> HIDE DEF m, before
    <2>3. m + 1 + (i - m - 1) = i
      BY <1>2, <2>2
    <2> QED
      BY <1>1, <1>4, <2>2, <2>3
  <1> QED
    BY <1>1, <1>4

(* MatchesAlike: a pattern matches what differs only at its stars.           *)
LEMMA MatchesAlike ==
    ASSUME NEW p \in Seq(Signs), NEW s \in Seq(Signs), Len(p) = Len(s),
           \A i \in 1..Len(p) : p[i] # "*" => p[i] = s[i]
    PROVE  Matches(p, s)
PROOF
  <1> DEFINE n == Len(s)
             ends == [i \in Stars(p) |-> i + 1]
  <1>1. n \in Nat /\ DOMAIN p = 1..n
    BY LenProperties
  <1>2. Stars(p) \subseteq 1..n
    BY <1>1 DEF Stars
  <1>3. ends \in [Stars(p) -> 1..n + 1]
    BY <1>1, <1>2
  <1>4. \A j \in Stars(p) : ends[j] = j + 1
    OBVIOUS
  <1>5. \A i \in 1..n + 1 : Place(p, ends, i) = i
    <2> HIDE DEF ends
    <2> QED
      BY <1>4, InPlace
  <1>6. \A i \in 1..n : i \in 1..n + 1 /\ i <= i + 1 /\ i <= n
    BY <1>1
  <1>7. n + 1 \in 1..n + 1
    BY <1>1
  <1>8. \A i \in 1..n : i \notin Stars(p) => p[i] = s[i]
    BY <1>1 DEF Stars
  <1> HIDE DEF n, ends
  <1>9. \A i \in 1..n :
            IF i \in Stars(p) THEN Place(p, ends, i) <= ends[i]
            ELSE /\ Place(p, ends, i) <= n
                 /\ p[i] \in {"?", s[Place(p, ends, i)]}
    BY <1>4, <1>5, <1>6, <1>8
  <1>10. Place(p, ends, Len(p) + 1) = n + 1
    BY <1>5, <1>7 DEF n
  <1> QED
    BY <1>1, <1>3, <1>9, <1>10 DEF Matches, n

(* MatchesPrefix: without wildcards but its last, a pattern matches only     *)
(* what begins like it.                                                      *)
LEMMA MatchesPrefix ==
    ASSUME NEW p \in Seq(Signs), NEW s \in Seq(Signs), NEW n \in Nat, Len(p) = n + 1,
           \A i \in 1..n : p[i] \notin {"*", "?"}, Matches(p, s)
    PROVE  n <= Len(s) /\ \A i \in 1..n : p[i] = s[i]
PROOF
  <1> DEFINE m == Len(s)
  <1>1. m \in Nat /\ DOMAIN p = 1..n + 1
    BY LenProperties
  <1>2. PICK ends \in [Stars(p) -> 1..m + 1] :
            \A i \in DOMAIN p : i \notin Stars(p) =>
                Place(p, ends, i) <= m /\ p[i] \in {"?", s[Place(p, ends, i)]}
    BY DEF Matches
  <1>3. Stars(p) \subseteq {n + 1}
    BY <1>1 DEF Stars
  <1>4. ASSUME NEW i \in 1..n PROVE i <= m /\ p[i] = s[i]
    <2>1. i \in 1..n + 1 /\ i \in 1..Len(p) + 1 /\ i # n + 1 /\ ~ (n + 1 < i)
      OBVIOUS
    <2>2. Place(p, ends, i) = i
      BY <1>3, <2>1, InPlace
    <2>3. i \in DOMAIN p /\ i \notin Stars(p)
      BY <1>1, <1>3, <2>1
    <2> QED
      BY <1>2, <2>2, <2>3
  <1>5. n <= m
    <2>1. n # 0 => n \in 1..n
      OBVIOUS
    <2> QED
      BY <1>1, <1>4, <2>1
  <1> QED
    BY <1>4, <1>5

(* KeyFacts: the same of a search key.                                       *)
LEMMA KeyFacts ==
    ASSUME NEW c \in Seq(Signs)
    PROVE  /\ SearchKey(c) \in Seq(Signs) /\ Len(SearchKey(c)) = Len(c) + 3
           /\ SearchKey(c)[1] = "rag:search:"
           /\ \A i \in 1..Len(c) : SearchKey(c)[1 + i] = c[i]
           /\ SearchKey(c)[Len(c) + 2] = ":" /\ SearchKey(c)[Len(c) + 3] = Digest
PROOF
  <1>1. Digest \in Signs
    BY DigestAssumption DEF DigestAssumption, Signs
  <1>2. SearchKey(c) = SearchName(c, Digest)
    BY DEF SearchKey, SearchName
  <1>3. LET p == SearchName(c, Digest)
        IN  /\ p \in Seq(Signs) /\ Len(p) = Len(c) + 3
            /\ p[1] = "rag:search:" /\ \A i \in 1..Len(c) : p[1 + i] = c[i]
            /\ p[Len(c) + 2] = ":" /\ p[Len(c) + 3] = Digest
    BY <1>1, SearchFacts
  <1> QED
    BY <1>2, <1>3

-----------------------------------------------------------------------------
(* PatternReaches: an upload's pattern reaches what SweepReach says.         *)
LEMMA PatternReaches ==
    ASSUME NEW c \in Seq(Signs)
    PROVE  /\ Matches(Pattern(c), SearchKey(c))
           /\ Without(c, {"*", "?"}) => \A d \in Seq(Signs) :
                 Matches(Pattern(c), SearchKey(d)) => IsPrefix(c \o <<":">>, d \o <<":">>)
PROOF
  <1> DEFINE p == Pattern(c)
             n == Len(c)
  <1>1. "*" \in Signs /\ n \in Nat
    BY LenProperties DEF Signs
  <1>2. /\ p \in Seq(Signs) /\ Len(p) = n + 3
        /\ p[1] = "rag:search:" /\ \A i \in 1..n : p[1 + i] = c[i]
        /\ p[n + 2] = ":" /\ p[n + 3] = "*"
    <2>1. p = SearchName(c, "*")
      BY DEF Pattern, SearchName
    <2> HIDE DEF p
    <2> QED
      BY <1>1, <2>1, SearchFacts DEF n
  <1> HIDE DEF p, n
  <1>4. \A i \in 1..n + 3 : i = 1 \/ i = n + 2 \/ i = n + 3 \/ \E j \in 1..n : i = 1 + j
    <2> TAKE i \in 1..n + 3
    <2>1. i # 1 /\ i # n + 2 /\ i # n + 3 => i - 1 \in 1..n /\ i = 1 + (i - 1)
      BY <1>1
    <2> QED
      BY <2>1
  <1>5. Matches(p, SearchKey(c))
    <2> DEFINE s == SearchKey(c)
    <2>1. /\ s \in Seq(Signs) /\ Len(s) = n + 3
          /\ s[1] = "rag:search:" /\ \A i \in 1..n : s[1 + i] = c[i]
          /\ s[n + 2] = ":" /\ s[n + 3] = Digest
      BY KeyFacts DEF n
    <2> HIDE DEF s
    <2>2. \A i \in 1..Len(p) : p[i] # "*" => p[i] = s[i]
      BY <1>2, <1>4, <2>1
    <2>3. Matches(p, s)
      BY <1>2, <2>1, <2>2, MatchesAlike
    <2> QED
      BY <2>3 DEF s
  <1>6. ASSUME NEW d \in Seq(Signs), Without(c, {"*", "?"}), Matches(p, SearchKey(d))
        PROVE  IsPrefix(c \o <<":">>, d \o <<":">>)
    <2> DEFINE s == SearchKey(d)
               m == Len(d)
               x == c \o <<":">>
               y == d \o <<":">>
    <2>1. /\ s \in Seq(Signs) /\ Len(s) = m + 3 /\ m \in Nat
          /\ s[1] = "rag:search:" /\ \A i \in 1..m : s[1 + i] = d[i]
          /\ s[m + 2] = ":" /\ s[m + 3] = Digest /\ Digest # ":"
      BY KeyFacts, LenProperties, DigestAssumption DEF DigestAssumption
    <2>2. <<":">> \in Seq(Signs) /\ Len(<<":">>) = 1 /\ <<":">>[1] = ":"
      BY Underscore, Pairs
    <2>3. /\ x \in Seq(Signs) /\ Len(x) = n + 1 /\ x[n + 1] = ":"
          /\ \A i \in 1..n : x[i] = c[i]
      BY <2>2, Appended DEF n
    <2>4. /\ y \in Seq(Signs) /\ Len(y) = m + 1 /\ y[m + 1] = ":"
          /\ \A i \in 1..m : y[i] = d[i]
      BY <2>2, Appended
    <2>5. \A i \in 1..n : c[i] \notin {"*", "?"}
      <3>1. DOMAIN c = 1..n
        BY LenProperties DEF n
      <3> QED
        BY <1>6, <3>1 DEF Without, ToSet
    <2>6. Matches(p, s)
      BY <1>6
    <2> HIDE DEF s, m, x, y
    <2>7. \A i \in 1..n + 2 : p[i] \notin {"*", "?"}
      <3>1. \A i \in 1..n + 2 : i \in 1..n + 3 /\ i # n + 3
        BY <1>1
      <3> QED
        BY <1>2, <1>4, <2>5, <3>1
    <2>8. n + 2 \in Nat /\ Len(p) = n + 2 + 1
      BY <1>1, <1>2
    <2>9. n + 2 <= Len(s) /\ \A i \in 1..n + 2 : p[i] = s[i]
      BY <1>2, <2>1, <2>6, <2>7, <2>8, MatchesPrefix
    <2>10. s[n + 2] = ":" /\ \A i \in 1..n : s[1 + i] = c[i]
      <3>1. n + 2 \in 1..n + 2 /\ \A i \in 1..n : 1 + i \in 1..n + 2
        BY <1>1
      <3> QED
        BY <1>2, <2>9, <3>1
    <2>11. n <= m
      <3>1. n + 2 <= m + 3 /\ n + 2 # m + 3
        BY <2>1, <2>9, <2>10
      <3> QED
        BY <1>1, <2>1, <3>1
    <2>12. \A i \in 1..n + 1 : x[i] = y[i]
      <3>1. \A i \in 1..n : x[i] = y[i]
        <4>1. \A i \in 1..n : i \in 1..m
          BY <1>1, <2>1, <2>11
        <4> QED
          BY <2>1, <2>3, <2>4, <2>10, <4>1
      <3>2. x[n + 1] = y[n + 1]
        <4>1. CASE n = m
          BY <2>3, <2>4, <4>1
        <4>2. CASE n # m
          <5>1. n + 1 \in 1..m /\ 1 + (n + 1) = n + 2
            BY <1>1, <2>1, <2>11, <4>2
          <5>2. s[1 + (n + 1)] = d[n + 1] /\ y[n + 1] = d[n + 1]
            BY <2>1, <2>4, <5>1
          <5> QED
            BY <2>3, <2>10, <5>1, <5>2
        <4> QED
          BY <4>1, <4>2
      <3>3. \A i \in 1..n + 1 : i \in 1..n \/ i = n + 1
        BY <1>1
      <3> QED
        BY <3>1, <3>2, <3>3
    <2>13. Len(x) <= Len(y)
      BY <1>1, <2>1, <2>3, <2>4, <2>11
    <2>14. SubSeq(x, 1, Len(x)) = SubSeq(y, 1, Len(x))
      <3>1. \A i \in 1..n + 1 : x[i] \in Signs /\ y[i] \in Signs
        <4>1. \A i \in 1..n + 1 : x[i] \in Signs
          BY <2>3, ElementOfSeq
        <4> QED
          BY <2>12, <4>1
      <3>2. /\ SubSeq(x, 1, n + 1) \in Seq(Signs) /\ Len(SubSeq(x, 1, n + 1)) = n + 1
            /\ \A i \in 1..n + 1 : SubSeq(x, 1, n + 1)[i] = x[i]
        BY <1>1, <3>1, SubSeqProperties
      <3>3. /\ SubSeq(y, 1, n + 1) \in Seq(Signs) /\ Len(SubSeq(y, 1, n + 1)) = n + 1
            /\ \A i \in 1..n + 1 : SubSeq(y, 1, n + 1)[i] = y[i]
        BY <1>1, <3>1, SubSeqProperties
      <3> QED
        BY <2>3, <2>12, <3>2, <3>3, SeqEqual
    <2>15. IsPrefix(x, y)
      BY <2>13, <2>14 DEF IsPrefix
    <2> QED
      BY <2>15 DEF x, y
  <1> QED
    BY <1>5, <1>6 DEF p
-----------------------------------------------------------------------------
(* A key of the graph's answers, with what it is of in front.                *)
GraphKey(x, a, b) == <<x>> \o a \o <<":">> \o b

(* Regroup: such a key is its first character before two joined parts.       *)
LEMMA Regroup ==
    ASSUME NEW x \in Signs, NEW a \in Seq(Signs), NEW b \in Seq(Signs)
    PROVE  GraphKey(x, a, b) = <<x>> \o Prefixed(a, b)
PROOF
  <1> DEFINE s == <<x>>
             u == <<":">>
  <1>1. s \in Seq(Signs) /\ u \in Seq(Signs)
    BY Underscore, Pairs
  <1>2. ((s \o a) \o u) \o b = s \o ((a \o u) \o b)
    <2> HIDE DEF s, u
    <2>1. a \o u \in Seq(Signs)
      BY <1>1, Appended
    <2>2. (s \o a) \o u = s \o (a \o u)
      BY <1>1, ConcatAssociative
    <2>3. (s \o (a \o u)) \o b = s \o ((a \o u) \o b)
      BY <1>1, <2>1, ConcatAssociative
    <2> QED
      BY <2>2, <2>3
  <1> QED
    BY <1>2 DEF GraphKey, Prefixed

(* Reprefixed: joining three parts, it does not matter which first.          *)
LEMMA Reprefixed ==
    ASSUME NEW a \in Seq(Signs), NEW b \in Seq(Signs), NEW c \in Seq(Signs)
    PROVE  Prefixed(Prefixed(a, b), c) = Prefixed(a, Prefixed(b, c))
PROOF
  <1> DEFINE u == <<":">>
             s == a \o u
  <1>1. u \in Seq(Signs)
    BY Underscore, Pairs
  <1> HIDE DEF u
  <1>2. s \in Seq(Signs) /\ b \o u \in Seq(Signs)
    BY <1>1, Appended
  <1> HIDE DEF s
  <1>3. (s \o b) \o u = s \o (b \o u)
    BY <1>1, <1>2, ConcatAssociative
  <1>4. (s \o (b \o u)) \o c = s \o ((b \o u) \o c)
    <2> DEFINE v == b \o u
    <2>1. v \in Seq(Signs)
      BY <1>2
    <2> HIDE DEF v
    <2>2. (s \o v) \o c = s \o (v \o c)
      BY <1>2, <2>1, ConcatAssociative
    <2> QED
      BY <2>2 DEF v
  <1>5. ((s \o b) \o u) \o c = s \o ((b \o u) \o c)
    BY <1>3, <1>4
  <1> QED
    BY <1>5 DEF s, u, Prefixed

(* SearchesApart: a search key tells its collection.                         *)
LEMMA SearchesApart ==
    ASSUME NEW c \in Seq(Signs), NEW d \in Seq(Signs), SearchKey(c) = SearchKey(d)
    PROVE  c = d
PROOF
  <1>1. Len(c) + 3 = Len(d) + 3 /\ Len(c) \in Nat /\ Len(d) \in Nat
    BY KeyFacts, LenProperties
  <1>2. Len(c) = Len(d)
    BY <1>1
  <1>3. ASSUME NEW i \in 1..Len(c) PROVE c[i] = d[i]
    <2>1. SearchKey(c)[1 + i] = c[i] /\ SearchKey(d)[1 + i] = d[i]
      BY <1>2, KeyFacts
    <2> QED
      BY <2>1
  <1> QED
    BY <1>2, <1>3, SeqEqual

(* What a question's key has after its first character.                      *)
Rest(q) ==
    CASE q.op = "service" -> Prefixed(q.name, VKey(q.item))
      [] q.op = "related" -> Prefixed(Collection(q), q.item)

(* KeyParts: the keys of the endpoints, which differ in their first character*)
LEMMA KeyParts ==
    ASSUME NEW q \in Requests
    PROVE  /\ VKey(q.item) \in Seq(Signs)
           /\ q.op = "search" => CacheKey(q) = SearchKey(Collection(q))
           /\ q.op = "service" => CacheKey(q) = <<"rag:graph:service:">> \o Rest(q)
           /\ q.op = "related" => CacheKey(q) = <<"rag:graph:screen:">> \o Rest(q)
           /\ q.op \in {"service", "related"} => Rest(q) \in Seq(Signs)
           /\ q.op = "search" => CacheKey(q)[1] = "rag:search:"
           /\ q.op = "service" => CacheKey(q)[1] = "rag:graph:service:"
           /\ q.op = "related" => CacheKey(q)[1] = "rag:graph:screen:"
PROOF
  <1>1. /\ "rag:graph:service:" \in Signs /\ "rag:graph:screen:" \in Signs
        /\ "a" \in Signs /\ "l" \in Signs
    BY DEF Signs
  <1>2. q.name \in Seq(Signs) /\ q.item \in Seq(Signs) /\ Collection(q) \in Seq(Signs)
    BY RequestFacts
  <1>3. VKey(q.item) \in Seq(Signs)
    <2>1. All \in Seq(Signs)
      BY <1>1 DEF All
    <2> QED
      BY <1>2, <2>1 DEF VKey
  <1>4. ASSUME q.op = "search"
        PROVE  CacheKey(q) = SearchKey(Collection(q)) /\ CacheKey(q)[1] = "rag:search:"
    <2>1. CacheKey(q) = SearchKey(Collection(q))
      BY <1>4 DEF CacheKey
    <2> QED
      BY <1>2, <2>1, KeyFacts
  <1>5. ASSUME q.op = "service"
        PROVE  /\ CacheKey(q) = <<"rag:graph:service:">> \o Rest(q)
               /\ Rest(q) \in Seq(Signs) /\ CacheKey(q)[1] = "rag:graph:service:"
    <2>1. Rest(q) = Prefixed(q.name, VKey(q.item))
      BY <1>5 DEF Rest
    <2>2. CacheKey(q) = GraphKey("rag:graph:service:", q.name, VKey(q.item))
      BY <1>5 DEF CacheKey, GraphKey
    <2>3. Rest(q) \in Seq(Signs)
      BY <1>2, <1>3, <2>1, JoinFacts
    <2>4. CacheKey(q) = <<"rag:graph:service:">> \o Rest(q)
      <3>1. GraphKey("rag:graph:service:", q.name, VKey(q.item))
              = <<"rag:graph:service:">> \o Prefixed(q.name, VKey(q.item))
        BY <1>1, <1>2, <1>3, Regroup
      <3> QED
        BY <2>1, <2>2, <3>1
    <2> QED
      BY <1>1, <2>3, <2>4, FirstSign
  <1>6. ASSUME q.op = "related"
        PROVE  /\ CacheKey(q) = <<"rag:graph:screen:">> \o Rest(q)
               /\ Rest(q) \in Seq(Signs) /\ CacheKey(q)[1] = "rag:graph:screen:"
    <2>1. Rest(q) = Prefixed(Collection(q), q.item)
      BY <1>6 DEF Rest
    <2>2. CacheKey(q) = GraphKey("rag:graph:screen:", Collection(q), q.item)
      BY <1>6 DEF CacheKey, GraphKey
    <2>3. Rest(q) \in Seq(Signs)
      BY <1>2, <2>1, JoinFacts
    <2>4. CacheKey(q) = <<"rag:graph:screen:">> \o Rest(q)
      BY <1>1, <1>2, <2>1, <2>2, Regroup
    <2> QED
      BY <1>1, <2>3, <2>4, FirstSign
  <1> QED
    BY <1>3, <1>4, <1>5, <1>6

(* RelatedApart: without colons, a related key tells its system, collection  *)
(* and screen: with one system missing, the other's would be the name, and   *)
(* a colon is left for the screen.                                           *)
LEMMA RelatedApart ==
    ASSUME NEW q \in Requests, NEW r \in Requests, Plain(q), Plain(r),
           Prefixed(Collection(q), q.item) = Prefixed(Collection(r), r.item)
    PROVE  System(q) = System(r) /\ q.name = r.name /\ q.item = r.item
PROOF
  <1>1. /\ System(q) \in Seq(Signs) /\ q.name \in Seq(Signs) /\ q.item \in Seq(Signs)
        /\ System(r) \in Seq(Signs) /\ r.name \in Seq(Signs) /\ r.item \in Seq(Signs)
    BY RequestFacts
  <1>2. /\ Without(System(q), {":"}) /\ Without(q.name, {":"}) /\ Without(q.item, {":"})
        /\ Without(System(r), {":"}) /\ Without(r.name, {":"}) /\ Without(r.item, {":"})
    BY PlainFacts
  <1>3. ASSUME NEW s \in Requests
        PROVE  LET tail == Prefixed(s.name, s.item)
               IN  /\ tail \in Seq(Signs)
                   /\ Prefixed(Collection(s), s.item) =
                         IF System(s) = <<>> THEN tail ELSE Prefixed(System(s), tail)
    <2>1. System(s) \in Seq(Signs) /\ s.name \in Seq(Signs) /\ s.item \in Seq(Signs)
      BY RequestFacts
    <2>2. Prefixed(s.name, s.item) \in Seq(Signs)
      BY <2>1, JoinFacts
    <2>3. CASE System(s) = <<>>
      BY <2>2, <2>3 DEF Collection
    <2>4. CASE System(s) # <<>>
      <3>1. Collection(s) = Prefixed(System(s), s.name)
        BY <2>4 DEF Collection
      <3>2. Prefixed(Collection(s), s.item) = Prefixed(System(s), Prefixed(s.name, s.item))
        BY <2>1, <3>1, Reprefixed
      <3> QED
        BY <2>2, <2>4, <3>2
    <2> QED
      BY <2>3, <2>4
  <1> DEFINE t == Prefixed(q.name, q.item)
             u == Prefixed(r.name, r.item)
  <1>4. t \in Seq(Signs) /\ u \in Seq(Signs)
    BY <1>3
  <1>5. ~ Without(t, {":"}) /\ ~ Without(u, {":"})
    BY <1>1, NoColon
  <1>6. (IF System(q) = <<>> THEN t ELSE Prefixed(System(q), t))
          = (IF System(r) = <<>> THEN u ELSE Prefixed(System(r), u))
    BY <1>3
  <1>7. t = u => q.name = r.name /\ q.item = r.item
    BY <1>1, <1>2, FirstColon
  <1>8. CASE System(q) = <<>> /\ System(r) = <<>>
    BY <1>6, <1>7, <1>8
  <1>9. CASE System(q) # <<>> /\ System(r) # <<>>
    <2> HIDE DEF t, u
    <2>1. Prefixed(System(q), t) = Prefixed(System(r), u)
      BY <1>6, <1>9
    <2> QED
      BY <1>1, <1>2, <1>4, <1>7, <2>1, FirstColon
  <1>10. CASE System(q) = <<>> /\ System(r) # <<>>
    <2>1. Prefixed(q.name, q.item) = Prefixed(System(r), u)
      BY <1>6, <1>10
    <2> HIDE DEF t, u
    <2>2. q.item = u
      BY <1>1, <1>2, <1>4, <2>1, FirstColon
    <2> QED
      BY <1>2, <1>5, <2>2
  <1>11. CASE System(q) # <<>> /\ System(r) = <<>>
    <2>1. Prefixed(r.name, r.item) = Prefixed(System(q), t)
      BY <1>6, <1>11
    <2> HIDE DEF t, u
    <2>2. r.item = t
      BY <1>1, <1>2, <1>4, <2>1, FirstColon
    <2> QED
      BY <1>2, <1>5, <2>2
  <1> QED
    BY <1>8, <1>9, <1>10, <1>11

(* QuestionsApart: a cache key tells the question it answers.                *)
LEMMA QuestionsApart ==
    ASSUME NEW q \in Requests, NEW r \in Requests, q.op \in Questions, r.op \in Questions,
           Plain(q), Plain(r), {q.item, r.item} # {<<>>, All}, CacheKey(q) = CacheKey(r)
    PROVE  q.op = r.op /\ About(q) = About(r)
PROOF
  <1>1. q.op \in {"search", "service", "related"} /\ r.op \in {"search", "service", "related"}
    BY DEF Questions
  <1>2. q.op = r.op
    BY <1>1, KeyParts
  <1>3. /\ q.name \in Seq(Signs) /\ Collection(q) \in Seq(Signs)
        /\ r.name \in Seq(Signs) /\ Collection(r) \in Seq(Signs)
    BY RequestFacts
  <1>4. "rag:graph:service:" \in Signs /\ "rag:graph:screen:" \in Signs
    BY DEF Signs
  <1>5. q.op \in {"service", "related"} => Rest(q) = Rest(r)
    <2>1. ASSUME NEW x \in Signs, q.op \in {"service", "related"},
                 CacheKey(q) = <<x>> \o Rest(q), CacheKey(r) = <<x>> \o Rest(r)
          PROVE  Rest(q) = Rest(r)
      <3>1. Rest(q) \in Seq(Signs) /\ Rest(r) \in Seq(Signs)
        BY <1>2, <2>1, KeyParts
      <3> QED
        BY <2>1, <3>1, SameTail
    <2> QED
      BY <1>2, <1>4, <2>1, KeyParts
  <1>6. CASE q.op = "search"
    <2>1. SearchKey(Collection(q)) = SearchKey(Collection(r))
      BY <1>2, <1>6, KeyParts
    <2>2. Collection(q) = Collection(r)
      BY <1>3, <2>1, SearchesApart
    <2>3. System(q) = System(r) /\ q.name = r.name
      BY <2>2, CollectionsApart
    <2> QED
      BY <1>2, <1>6, <2>3 DEF About
  <1>7. CASE q.op = "service"
    <2>1. Prefixed(q.name, VKey(q.item)) = Prefixed(r.name, VKey(r.item))
      BY <1>2, <1>5, <1>7 DEF Rest
    <2>2. VKey(q.item) \in Seq(Signs) /\ VKey(r.item) \in Seq(Signs)
      BY KeyParts
    <2>3. Without(q.name, {":"}) /\ Without(r.name, {":"})
      BY PlainFacts
    <2>4. q.name = r.name /\ VKey(q.item) = VKey(r.item)
      BY <1>3, <2>1, <2>2, <2>3, FirstColon
    <2>5. q.item = r.item
      BY <2>4 DEF VKey
    <2> QED
      BY <1>2, <1>7, <2>4, <2>5 DEF About
  <1>8. CASE q.op = "related"
    <2>1. Prefixed(Collection(q), q.item) = Prefixed(Collection(r), r.item)
      BY <1>2, <1>5, <1>8 DEF Rest
    <2>2. System(q) = System(r) /\ q.name = r.name /\ q.item = r.item
      BY <2>1, RelatedApart
    <2> QED
      BY <1>2, <1>8, <2>2 DEF About
  <1> QED
    BY <1>1, <1>6, <1>7, <1>8

-----------------------------------------------------------------------------
(* The inductive invariant: what a handler has made of its request, which it *)
(* leaves alone.                                                             *)
ImageItems == [i \in ImageLoop(request.values) |-> ImageItem(request.values, i)]

TextItems == [i \in TextLoop(request.values) |-> [f \in Fields |-> i]]

Answered ==
    CASE request.op = "image" -> items = ImageItems /\ key = Pattern(Collection(request))
      [] request.op = "text" ->
            /\ items = TextItems /\ key = Pattern(Collection(request))
            /\ \A i \in TextLoop(request.values) : \A f \in Fields : i <= request.values[f]
      [] OTHER -> items = <<>> /\ key = CacheKey(request)

Handled ==
    /\ request \in Requests
    /\ IF pc = "accepted" THEN Answered ELSE items = <<>>

LEMMA InitHandled == Init => Handled
PROOF BY DEF Init, Handled

LEMMA StepHandled == Handled /\ [Next]_vars => Handled'
PROOF
  <1> SUFFICES ASSUME Handled, [Next]_vars PROVE Handled'
    OBVIOUS
  <1>1. request.op \in Uploads \cup Questions
    BY RequestFacts DEF Handled
  <1>2. CASE AddImages
    BY <1>2 DEF AddImages, Handled, Answered, ImageItems
  <1>3. CASE AddTexts
    BY <1>3 DEF AddTexts, Handled, Answered, TextItems
  <1>4. CASE Ask
    BY <1>4 DEF Ask, Handled, Answered, Questions
  <1>5. CASE UNCHANGED vars
    BY <1>5 DEF vars, Handled, Answered, ImageItems, TextItems
  <1> QED
    BY <1>2, <1>3, <1>4, <1>5 DEF Next

(* Handled holds in every state of a request: it is untouched and without    *)
(* items until its handler has made them all at once.                        *)
THEOREM RequestsHandled == Spec => []Handled
PROOF
  <1> QED
    BY InitHandled, StepHandled, PTL DEF Spec

-----------------------------------------------------------------------------
LEMMA HandledComplete == Handled => EveryItemComplete
PROOF
  <1> SUFFICES ASSUME Handled, request.op \in Uploads, pc = "accepted"
               PROVE  EveryItemComplete
    BY DEF EveryItemComplete
  <1> DEFINE values == request.values
  <1>1. values \in [Fields -> Nat] /\ "content" \in Fields /\ "service_name" \in Fields
    BY RequestFacts DEF Handled, Fields
  <1>2. CASE request.op = "image"
    <2>1. items = [i \in 1..values["content"] |-> ImageItem(values, i)]
      BY <1>2 DEF Handled, Answered, ImageItems, ImageLoop
    <2>2. DOMAIN items = 1..values["content"] /\ Len(items) = values["content"]
      BY <1>1, <2>1
    <2>3. ASSUME NEW i \in DOMAIN items, NEW f \in Fields
          PROVE  IF i <= values[f] THEN items[i][f] = i /\ i <= values[f]
                                   ELSE items[i][f] \in {0, 1}
      <3>1. i \in Nat \ {0} /\ i <= values["content"] /\ values[f] \in Nat
        BY <1>1, <2>2
      <3>2. items[i][f] = CASE f = "content" -> i
                            [] f = "screen_name" -> Screen(values[f], i)
                            [] OTHER -> Get(values[f], i)
        BY <2>1, <2>2 DEF ImageItem
      <3> QED
        BY <3>1, <3>2 DEF Screen, Get
    <2> QED
      BY <1>2, <2>2, <2>3 DEF EveryItemComplete
  <1>3. CASE request.op = "text"
    <2>1. /\ items = [i \in 1..values["service_name"] |-> [f \in Fields |-> i]]
          /\ \A i \in 1..values["service_name"] : \A f \in Fields : i <= values[f]
      BY <1>3 DEF Handled, Answered, TextItems, TextLoop
    <2>2. /\ DOMAIN items = 1..values["service_name"]
          /\ Len(items) = values["service_name"]
      BY <1>1, <2>1
    <2> QED
      BY <1>3, <2>1, <2>2 DEF EveryItemComplete
  <1> QED
    BY <1>2, <1>3 DEF Uploads

LEMMA HandledScreens == Handled => NoBorrowedScreen
PROOF
  <1> SUFFICES ASSUME Handled, NEW i \in DOMAIN items, NEW j \in DOMAIN items,
                      NEW f \in {"screen_name", "content"},
                      items[i][f] = items[j][f], items[i][f] # 0
               PROVE  i = j
    BY DEF NoBorrowedScreen
  <1> DEFINE values == request.values
  <1>1. values \in [Fields -> Nat] /\ f \in Fields /\ "content" \in Fields /\ "service_name" \in Fields
    BY RequestFacts DEF Handled, Fields
  <1>2. pc = "accepted" /\ request.op \in {"image", "text"}
    BY RequestFacts DEF Handled, Answered, Uploads
  <1>3. CASE request.op = "image"
    <2>1. items = [k \in 1..values["content"] |-> ImageItem(values, k)]
      BY <1>2, <1>3 DEF Handled, Answered, ImageItems, ImageLoop
    <2>2. ASSUME NEW k \in 1..values["content"]
          PROVE  items[k][f] = IF f = "content" THEN k ELSE Screen(values[f], k)
      BY <1>1, <2>1 DEF ImageItem
    <2> QED
      BY <1>1, <2>1, <2>2 DEF Screen
  <1>4. CASE request.op = "text"
    <2>1. items = [k \in 1..values["service_name"] |-> [g \in Fields |-> k]]
      BY <1>2, <1>4 DEF Handled, Answered, TextItems, TextLoop
    <2> QED
      BY <1>1, <2>1
  <1> QED
    BY <1>2, <1>3, <1>4

LEMMA HandledNames == Handled => NamesApart
PROOF
  <1> SUFFICES ASSUME Handled, Plain(request), NEW q \in Requests, Plain(q),
                      <<System(q), q.name>> # <<System(request), request.name>>
               PROVE  /\ Collection(q) # Collection(request)
                      /\ (\A r \in {q, request} : Tame(r.system) /\ Tame(r.name)) =>
                            AgeSafeLabel(Collection(q)) # AgeSafeLabel(Collection(request))
    BY DEF NamesApart
  <1>1. request \in Requests
    BY DEF Handled
  <1> QED
    BY <1>1, CollectionsApart, GraphsApart

LEMMA HandledKeys == Handled => KeysApart
PROOF
  <1> SUFFICES ASSUME Handled, request.op \in Questions, pc = "accepted", Plain(request),
                      NEW q \in Requests, q.op \in Questions, Plain(q),
                      {q.item, request.item} # {<<>>, All}, CacheKey(q) = key
               PROVE  q.op = request.op /\ About(q) = About(request)
    BY DEF KeysApart
  <1>1. request \in Requests /\ key = CacheKey(request)
    BY DEF Handled, Answered, Questions
  <1> QED
    BY <1>1, QuestionsApart

LEMMA HandledSweep == Handled => SweepReach
PROOF
  <1> SUFFICES ASSUME Handled, request.op \in Uploads, pc = "accepted"
               PROVE  SweepReach
    BY DEF SweepReach
  <1> DEFINE c == Collection(request)
  <1>1. request \in Requests /\ c \in Seq(Signs) /\ key = Pattern(c)
    BY RequestFacts DEF Handled, Answered, Uploads
  <1>2. ASSUME NEW q \in Requests, q.op = "search"
        PROVE  CacheKey(q) = SearchKey(Collection(q)) /\ Collection(q) \in Seq(Signs)
    BY <1>2, RequestFacts DEF CacheKey
  <1> HIDE DEF c
  <1>3. Matches(key, SearchKey(c))
    BY <1>1, PatternReaches
  <1>4. ASSUME Without(c, {"*", "?"}), NEW q \in Requests, q.op = "search",
               Matches(key, CacheKey(q))
        PROVE  IsPrefix(c \o <<":">>, Collection(q) \o <<":">>)
    BY <1>1, <1>2, <1>4, PatternReaches
  <1> QED
    BY <1>3, <1>4 DEF SweepReach, c

-----------------------------------------------------------------------------
(* However many values the fields of a form have, each image and each        *)
(* service becomes one item, with what was sent in its place: add_rag_data   *)
(* fills up, add_rag_text_data refuses the form.                             *)
THEOREM FormsComplete == Spec => []EveryItemComplete
PROOF
  <1> QED
    BY RequestsHandled, HandledComplete, PTL

(* The padding of screen_names never gives an image the name of another's    *)
(* screen, whatever the counts.                                              *)
THEOREM ScreensTheirOwn == Spec => []NoBorrowedScreen
PROOF
  <1> QED
    BY RequestsHandled, HandledScreens, PTL

(* _prefixed_collection keeps the systems apart for all names without colons,*)
(* and _age_safe_label too where no underscore meets another.                *)
THEOREM SystemsApart == Spec => []NamesApart
PROOF
  <1> QED
    BY RequestsHandled, HandledNames, PTL

(* A cache key of the endpoints answers one question only, for all names     *)
(* without colons.                                                           *)
THEOREM AnswersApart == Spec => []KeysApart
PROOF
  <1> QED
    BY RequestsHandled, HandledKeys, PTL

(* The pattern an upload deletes by matches each search key of its own       *)
(* collection, and no key of an unrelated one, for names of any length.      *)
THEOREM SweepsItsOwn == Spec => []SweepReach
PROOF
  <1> QED
    BY RequestsHandled, HandledSweep, PTL
=============================================================================

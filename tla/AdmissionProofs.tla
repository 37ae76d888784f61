-------------------------- MODULE AdmissionProofs --------------------------
(* The rate limiter's counters, for any limit, any length of the minute, any *)
(* requests and any interleaving of their commands with the clock.           *)
EXTENDS Admission, FiniteSetTheorems, TLAPS

(* A request counted has read the clock before, and not later than now.      *)
Uncounted == {"idle", "stamp", "incr"}

Stamped ==
    \A r \in Requests :
        /\ window[r] <= CurrentWindow /\ counted[r] <= now
        /\ pc[r] \in Uncounted => counted[r] = -1

(* No TTL ends within the minute of its counter.                             *)
Kept == \A k \in DOMAIN deadline : deadline[k] \div Window > k[2]

(* A counter counts no more than there was, and all of it till its minute is *)
(* over.                                                                     *)
NeverMore == \A k \in CounterKeys : Count(k) <= Cardinality(CountedUnder(k))

Exact ==
    \A k \in CounterKeys :
        k[2] >= CurrentWindow => Count(k) = Cardinality(CountedUnder(k))

(* Those let through, or about to be, within the minute they were stamped.   *)
Passed(k) ==
    {q \in CountedUnder(k) :
        Prompt(q) /\ (pc[q] = "admitted" \/ (pc[q] = "expire" /\ Limit > 0))}

WithinBudget == \A k \in CounterKeys : Cardinality(Passed(k)) <= Limit

Before(r) == {q \in CountedUnder(KeyOf(r)) \ {r} : counted[q] <= counted[r]}

Refusals == \A r \in Requests : pc[r] = "refused" => Cardinality(Before(r)) >= Limit

IInv ==
    /\ TypeOK /\ Stamped /\ Kept /\ NeverMore /\ Exact
    /\ WithinBudget /\ Refusals /\ LeakOnlyByFailure

-----------------------------------------------------------------------------
(* Minutes: what is needed of the division by the window.                    *)
LEMMA Minutes ==
    ASSUME NEW a \in Nat
    PROVE  /\ a \div Window \in Nat
           /\ (a + Window) \div Window = a \div Window + 1
           /\ \A b \in Nat : a <= b => a \div Window <= b \div Window
PROOF
  <1>1. Window \in Nat \ {0}
    BY WindowAssumption DEF WindowAssumption
  <1>2. a \div Window \in Nat
    BY <1>1
  <1>3. (a + Window) \div Window = a \div Window + 1
    BY <1>1
  <1>4. ASSUME NEW b \in Nat, a <= b PROVE a \div Window <= b \div Window
    BY <1>1, <1>4
  <1> QED
    BY <1>2, <1>3, <1>4

(* Small: all sets of requests are finite, and a part is no larger.          *)
LEMMA Small ==
    ASSUME NEW S, S \subseteq Requests
    PROVE  /\ IsFiniteSet(S) /\ Cardinality(S) \in Nat
           /\ \A T : T \subseteq S => Cardinality(T) <= Cardinality(S)
           /\ \A r : r \notin S => Cardinality(S \cup {r}) = Cardinality(S) + 1
PROOF
  <1>1. IsFiniteSet(S)
    BY RequestsAssumption, FS_Subset DEF RequestsAssumption
  <1> QED
    BY <1>1, FS_CardinalityType, FS_Subset, FS_AddElement

(* Typed: the counters as numbers.                                           *)
LEMMA Typed ==
    ASSUME TypeOK
    PROVE  /\ now \in Nat /\ CurrentWindow \in Nat /\ Limit \in Nat
           /\ \A k : Count(k) \in Nat
           /\ \A r \in Requests : KeyOf(r) \in CounterKeys /\ KeyOf(r)[2] = window[r]
           /\ \A k \in CounterKeys : k[2] \in Nat
           /\ \A k : CountedUnder(k) \subseteq Requests /\ Passed(k) \subseteq Requests
           /\ \A r : Before(r) \subseteq Requests
PROOF
  <1>1. now \in Nat /\ CurrentWindow \in Nat /\ Limit \in Nat
    BY Minutes, LimitAssumption, WindowAssumption
       DEF TypeOK, CurrentWindow, LimitAssumption, WindowAssumption
  <1>2. \A k : Count(k) \in Nat
    BY DEF TypeOK, Count
  <1>3. \A r \in Requests : KeyOf(r) \in CounterKeys /\ KeyOf(r)[2] = window[r]
    BY RequestsAssumption DEF TypeOK, KeyOf, Identifier, CounterKeys, RequestsAssumption
  <1> QED
    BY <1>1, <1>2, <1>3 DEF CounterKeys, CountedUnder, Passed, Before

-----------------------------------------------------------------------------
(* QuietMove: a step that counts nothing keeps the invariant if it lets no   *)
(* one through but those who were about to be, refuses only if nobody may    *)
(* pass, and leaves no counter without its TTL.                              *)
LEMMA QuietMove ==
    ASSUME IInv, NEW r \in Requests, pc[r] \in Uncounted \cup {"expire"},
           NEW x \in {"stamp", "incr"} \cup Final, pc' = [pc EXCEPT ![r] = x],
           NEW v \in Nat, window' = [window EXCEPT ![r] = v], v <= CurrentWindow,
           v = window[r] \/ counted[r] = -1,
           x \in Uncounted => counted[r] = -1,
           x = "admitted" => pc[r] = "expire" /\ Limit > 0,
           x = "refused" => Limit = 0,
           UNCHANGED <<now, counter, counted>>,
           DOMAIN deadline \subseteq DOMAIN deadline', DOMAIN deadline' \subseteq DOMAIN counter,
           \A k \in DOMAIN deadline' : deadline'[k] \in Nat,
           Kept',
           pc[r] = "expire" =>
              \/ x \in {"unlimited", "lost"}
              \/ KeyOf(r) \in DOMAIN deadline' \/ KeyOf(r) \notin DOMAIN counter
    PROVE  IInv'
PROOF
  <1>0. TypeOK
    BY DEF IInv
  <1>1. /\ \A q \in Requests : pc'[q] = IF q = r THEN x ELSE pc[q]
        /\ \A q \in Requests : window'[q] = IF q = r THEN v ELSE window[q]
    BY <1>0 DEF TypeOK
  <1>2. \A q \in Requests : counted[q] # -1 => KeyOf(q)' = KeyOf(q)
    BY <1>1 DEF KeyOf, Identifier
  <1>3. \A k : CountedUnder(k)' = CountedUnder(k)
    BY <1>2 DEF CountedUnder
  <1>4. TypeOK'
    BY <1>0 DEF TypeOK, Final
  <1>5. Stamped'
    BY <1>1 DEF IInv, Stamped, CurrentWindow
  <1>6. NeverMore' /\ Exact'
    BY <1>3 DEF IInv, NeverMore, Exact, Count, CurrentWindow
  <1>7. WithinBudget'
    <2> SUFFICES ASSUME NEW k \in CounterKeys PROVE Cardinality(Passed(k)') <= Limit
      BY DEF WithinBudget
    <2>1. \A q \in CountedUnder(k) : Prompt(q)' => Prompt(q)
      BY <1>1 DEF CountedUnder, Prompt
    <2>2. Passed(k)' \subseteq Passed(k)
      BY <1>1, <1>3, <2>1 DEF Passed, CountedUnder, Final
    <2>3. Cardinality(Passed(k)') <= Cardinality(Passed(k)) /\ Cardinality(Passed(k)') \in Nat
      BY <1>0, <2>2, Typed, Small
    <2>4. Cardinality(Passed(k)) <= Limit /\ Cardinality(Passed(k)) \in Nat /\ Limit \in Nat
      BY <1>0, Typed, Small DEF IInv, WithinBudget
    <2> QED
      BY <2>3, <2>4
  <1>8. Refusals'
    <2> SUFFICES ASSUME NEW q \in Requests, pc'[q] = "refused"
                 PROVE  Cardinality(Before(q)') >= Limit
      BY DEF Refusals
    <2>1. CASE q = r
      <3>1. Limit = 0
        BY <1>1, <2>1
      <3>2. Before(q)' \subseteq Requests
        BY DEF Before, CountedUnder
      <3> QED
        BY <3>1, <3>2, Small
    <2>2. CASE q # r
      <3>1. KeyOf(q)' = KeyOf(q)
        BY <1>1, <2>2 DEF KeyOf, Identifier
      <3>2. Before(q)' = Before(q)
        BY <1>3, <3>1 DEF Before
      <3> QED
        BY <1>1, <2>2, <3>2 DEF IInv, Refusals
    <2> QED
      BY <2>1, <2>2
  <1>9. LeakOnlyByFailure'
    <2> SUFFICES ASSUME NEW k \in DOMAIN counter \ DOMAIN deadline'
                 PROVE  \E q \in CountedUnder(k) : pc'[q] \in {"expire", "unlimited", "lost"}
      BY <1>3 DEF LeakOnlyByFailure
    <2>1. PICK q \in CountedUnder(k) : pc[q] \in {"expire", "unlimited", "lost"}
      BY DEF IInv, LeakOnlyByFailure
    <2>2. q \in Requests /\ KeyOf(q) = k
      BY DEF CountedUnder
    <2>3. CASE q # r
      BY <1>1, <2>1, <2>2, <2>3
    <2>4. CASE q = r
      <3>1. pc[r] = "expire"
        BY <2>1, <2>4 DEF Uncounted
      <3> QED
        BY <1>1, <2>1, <2>2, <2>4, <3>1
    <2> QED
      BY <2>3, <2>4
  <1> QED
    BY <1>4, <1>5, <1>6, <1>7, <1>8, <1>9 DEF IInv

(* CountMove: a request is counted; its reply decides as the counter says.   *)
LEMMA CountMove ==
    ASSUME IInv, NEW r \in Requests, pc[r] = "incr",
           counter' = Increment(KeyOf(r)), counted' = [counted EXCEPT ![r] = now],
           NEW x \in {"expire", "admitted", "refused", "unlimited", "lost"},
           pc' = [pc EXCEPT ![r] = x],
           x = "admitted" => Count(KeyOf(r)) + 1 <= Limit,
           x = "expire" => Count(KeyOf(r)) = 0,
           x = "refused" => Count(KeyOf(r)) >= Limit,
           Count(KeyOf(r)) = 0 => x \in {"expire", "unlimited", "lost"},
           UNCHANGED <<now, window, deadline>>
    PROVE  IInv'
PROOF
  <1>0. TypeOK
    BY DEF IInv
  <1>14. PICK key \in CounterKeys : key = KeyOf(r)
    BY <1>0, Typed
  <1>1. /\ \A q \in Requests : pc'[q] = IF q = r THEN x ELSE pc[q]
        /\ \A q \in Requests : counted'[q] = IF q = r THEN now ELSE counted[q]
    BY <1>0 DEF TypeOK
  <1>2. counted[r] = -1 /\ now # -1
    <2>1. counted[r] = -1
      BY DEF IInv, Stamped, Uncounted
    <2> QED
      BY <1>0, <2>1, Typed
  <1>3. \A q : KeyOf(q)' = KeyOf(q)
    BY DEF KeyOf, Identifier
  <1>4. /\ CountedUnder(key)' = CountedUnder(key) \cup {r} /\ r \notin CountedUnder(key)
        /\ \A k : k # key => CountedUnder(k)' = CountedUnder(k)
    BY <1>14, <1>1, <1>2, <1>3 DEF CountedUnder
  <1>5. /\ Count(key)' = Count(key) + 1
        /\ \A k : k # key => Count(k)' = Count(k)
        /\ DOMAIN counter' = DOMAIN counter \cup {key}
    <2>1. /\ DOMAIN counter' = DOMAIN counter \cup {key}
          /\ counter'[key] = Count(key) + 1
          /\ \A k \in DOMAIN counter : k # key => counter'[k] = counter[k]
      BY <1>14 DEF Increment
    <2> QED
      BY <2>1 DEF Count
  <1>6. Cardinality(CountedUnder(key)') = Cardinality(CountedUnder(key)) + 1
    BY <1>0, <1>4, Typed, Small
  <1>7. /\ \A k : Count(k) \in Nat
        /\ \A k : Cardinality(CountedUnder(k)) \in Nat
        /\ Limit \in Nat
    BY <1>0, Typed, Small
  <1>8. TypeOK'
    <2>1. DOMAIN counter' \subseteq CounterKeys
      BY <1>0, <1>5 DEF TypeOK
    <2>2. \A k \in DOMAIN counter' : counter'[k] \in Nat \ {0}
      BY <1>0, <1>7 DEF TypeOK, Increment
    <2>3. pc' \in [Requests -> {"idle", "stamp", "incr", "expire"} \cup Final]
      BY <1>0 DEF TypeOK, Final
    <2>4. counted' \in [Requests -> Nat \cup {-1}]
      BY <1>0, Typed DEF TypeOK
    <2> QED
      BY <1>0, <1>5, <2>1, <2>2, <2>3, <2>4 DEF TypeOK
  <1>9. Stamped' /\ Kept'
    <2>1. Stamped'
      BY <1>0, <1>1, Typed DEF IInv, Stamped, CurrentWindow, Uncounted
    <2> QED
      BY <2>1 DEF IInv, Kept
  <1>10. NeverMore' /\ Exact'
    <2> SUFFICES ASSUME NEW k \in CounterKeys
                 PROVE  /\ Count(k)' <= Cardinality(CountedUnder(k)')
                        /\ k[2] >= CurrentWindow => Count(k)' = Cardinality(CountedUnder(k)')
      BY DEF NeverMore, Exact, CurrentWindow
    <2>1. /\ Count(k) <= Cardinality(CountedUnder(k))
          /\ k[2] >= CurrentWindow => Count(k) = Cardinality(CountedUnder(k))
      BY DEF IInv, NeverMore, Exact
    <2>2. CASE k = key
      <3>1. Count(k)' = Count(k) + 1
            /\ Cardinality(CountedUnder(k)') = Cardinality(CountedUnder(k)) + 1
        BY <1>5, <1>6, <2>2
      <3> QED
        BY <1>7, <2>1, <3>1
    <2>3. CASE k # key
      BY <1>4, <1>5, <2>1, <2>3
    <2> QED
      BY <2>2, <2>3
  <1>11. WithinBudget'
    <2> SUFFICES ASSUME NEW k \in CounterKeys PROVE Cardinality(Passed(k)') <= Limit
      BY DEF WithinBudget
    <2>1. \A q \in Requests \ {r} : Prompt(q)' <=> Prompt(q)
      BY <1>1 DEF Prompt
    <2>2. Cardinality(Passed(k)) <= Limit /\ Cardinality(Passed(k)) \in Nat
      BY <1>0, Typed, Small DEF IInv, WithinBudget
    <2>3. CASE r \notin Passed(k)'
      <3>1. Passed(k)' \subseteq Passed(k)
        BY <1>1, <1>4, <2>1, <2>3 DEF Passed, CountedUnder
      <3> QED
        BY <1>0, <1>7, <2>2, <3>1, Typed, Small
    <2>4. CASE r \in Passed(k)'
      <3>1. k = key /\ (x = "admitted" \/ (x = "expire" /\ Limit > 0)) /\ Prompt(r)'
        BY <1>14, <1>1, <1>4, <2>4 DEF Passed, CountedUnder
      <3>2. key[2] >= CurrentWindow
        <4>1. window[r] = CurrentWindow
          BY <1>1, <3>1 DEF Prompt, CurrentWindow
        <4> QED
          BY <1>14, <1>0, <4>1, Typed
      <3>3. Count(key) = Cardinality(CountedUnder(key)) /\ Count(key) + 1 <= Limit
        BY <1>14, <1>7, <3>1, <3>2 DEF IInv, Exact
      <3>4. Passed(k)' \subseteq CountedUnder(key)' /\ CountedUnder(key)' \subseteq Requests
        <4>1. Passed(key)' \subseteq CountedUnder(key)'
          BY DEF Passed
        <4>2. CountedUnder(key)' \subseteq Requests
          BY DEF CountedUnder
        <4> QED
          BY <3>1, <4>1, <4>2
      <3>5. Cardinality(Passed(k)') <= Cardinality(CountedUnder(key)')
            /\ Cardinality(Passed(k)') \in Nat
        <4>1. Passed(k)' \subseteq Requests
          BY <3>4
        <4> QED
          BY <3>4, <4>1, Small
      <3> QED
        BY <1>6, <1>7, <3>3, <3>5
    <2> QED
      BY <2>3, <2>4
  <1>12. Refusals'
    <2> SUFFICES ASSUME NEW q \in Requests, pc'[q] = "refused"
                 PROVE  Cardinality(Before(q)') >= Limit
      BY DEF Refusals
    <2>0. Before(q)' \subseteq Requests
      BY DEF Before, CountedUnder
    <2>1. CASE q = r
      <3>1. CountedUnder(key) \subseteq Before(r)'
        <4>1. ASSUME NEW p \in CountedUnder(key) PROVE p \in Before(r)'
          <5>1. p \in Requests /\ p # r /\ p \in CountedUnder(KeyOf(r))'
            BY <1>14, <1>3, <1>4, <4>1 DEF CountedUnder
          <5>2. counted'[p] <= counted'[r]
            BY <1>1, <5>1 DEF IInv, Stamped
          <5> QED
            BY <1>14, <1>3, <1>4, <5>1, <5>2 DEF Before
        <4> QED
          BY <4>1
      <3>2. Cardinality(CountedUnder(key)) <= Cardinality(Before(r)')
            /\ Cardinality(Before(r)') \in Nat
        BY <2>0, <2>1, <3>1, Small
      <3>3. Count(key) >= Limit /\ Count(key) <= Cardinality(CountedUnder(key))
        BY <1>14, <1>1, <2>1 DEF IInv, NeverMore
      <3> QED
        BY <1>7, <2>1, <3>2, <3>3
    <2>2. CASE q # r
      <3>1. Before(q) \subseteq Before(q)'
        <4>1. ASSUME NEW p \in Before(q) PROVE p \in Before(q)'
          <5>1. p \in CountedUnder(KeyOf(q)) /\ p # q /\ p # r /\ p \in Requests
            BY <1>2, <4>1 DEF Before, CountedUnder
          <5>2. p \in CountedUnder(KeyOf(q))'
            BY <1>1, <1>3, <5>1 DEF CountedUnder
          <5>3. counted'[p] <= counted'[q]
            BY <1>1, <2>2, <4>1, <5>1 DEF Before
          <5> QED
            BY <5>1, <5>2, <5>3 DEF Before
        <4> QED
          BY <4>1
      <3>2. Cardinality(Before(q)) <= Cardinality(Before(q)')
            /\ Cardinality(Before(q)') \in Nat /\ Cardinality(Before(q)) \in Nat
        BY <2>0, <3>1, Small
      <3> QED
        BY <1>1, <1>7, <2>2, <3>2 DEF IInv, Refusals
    <2> QED
      BY <2>1, <2>2
  <1>13. LeakOnlyByFailure'
    <2> SUFFICES ASSUME NEW k \in DOMAIN counter' \ DOMAIN deadline
                 PROVE  \E q \in CountedUnder(k)' : pc'[q] \in {"expire", "unlimited", "lost"}
      BY DEF LeakOnlyByFailure
    <2>1. CASE k \in DOMAIN counter
      <3>1. PICK q \in CountedUnder(k) : pc[q] \in {"expire", "unlimited", "lost"}
        BY <2>1 DEF IInv, LeakOnlyByFailure
      <3>2. q \in Requests /\ q # r /\ q \in CountedUnder(k)'
        BY <1>2, <1>4, <3>1 DEF CountedUnder
      <3> QED
        BY <1>1, <3>1, <3>2
    <2>2. CASE k \notin DOMAIN counter
      <3>1. k = key /\ Count(key) = 0
        BY <1>14, <1>5, <2>2 DEF Count
      <3>2. pc'[r] \in {"expire", "unlimited", "lost"}
        BY <1>14, <1>1, <3>1
      <3>3. r \in CountedUnder(k)'
        BY <1>4, <3>1
      <3> QED
        BY <3>2, <3>3
    <2> QED
      BY <2>1, <2>2
  <1> QED
    BY <1>8, <1>9, <1>10, <1>11, <1>12, <1>13 DEF IInv

(* TickKept: only counters of minutes that are over go.                      *)
LEMMA TickKept == ASSUME IInv, Tick PROVE IInv'
PROOF
  <1>0. TypeOK
    BY DEF IInv
  <1>1. /\ now' = now + 1 /\ UNCHANGED <<pc, window, counted>>
        /\ counter' = [k \in Live(now + 1) |-> counter[k]]
        /\ deadline' = [k \in DOMAIN deadline \cap Live(now + 1) |-> deadline[k]]
    BY DEF Tick
  <1>2. /\ now' \in Nat /\ CurrentWindow <= CurrentWindow' /\ CurrentWindow' \in Nat
        /\ CurrentWindow \in Nat /\ now \in Nat
    BY <1>0, <1>1, Typed, Minutes DEF CurrentWindow
  <1>3. /\ \A k : CountedUnder(k)' = CountedUnder(k) /\ Passed(k)' = Passed(k)
        /\ \A q : Before(q)' = Before(q)
    BY <1>1 DEF CountedUnder, KeyOf, Identifier, Passed, Prompt, Before
  <1>4. TypeOK'
    <2>1. now' \in 0..MaxTime
      BY <1>0, WindowAssumption DEF Tick, TypeOK, WindowAssumption
    <2>2. /\ DOMAIN counter' \subseteq CounterKeys /\ DOMAIN deadline' \subseteq DOMAIN counter'
          /\ \A k \in DOMAIN counter' : counter'[k] \in Nat \ {0}
          /\ \A k \in DOMAIN deadline' : deadline'[k] \in Nat
      BY <1>0, <1>1 DEF TypeOK, Live
    <2> QED
      BY <1>0, <1>1, <2>1, <2>2 DEF TypeOK
  <1>5. Stamped'
    <2>1. \A r \in Requests : window[r] \in Nat /\ counted[r] \in Nat \cup {-1}
      BY <1>0 DEF TypeOK
    <2> QED
      BY <1>1, <1>2, <2>1 DEF IInv, Stamped
  <1>6. Kept'
    BY <1>1 DEF IInv, Kept
  <1>7. NeverMore' /\ Exact'
    <2> SUFFICES ASSUME NEW k \in CounterKeys
                 PROVE  /\ Count(k)' <= Cardinality(CountedUnder(k))
                        /\ k[2] >= CurrentWindow' => Count(k)' = Cardinality(CountedUnder(k))
      BY <1>3 DEF NeverMore, Exact
    <2>1. /\ Count(k) <= Cardinality(CountedUnder(k))
          /\ k[2] >= CurrentWindow => Count(k) = Cardinality(CountedUnder(k))
          /\ Count(k) \in Nat /\ Cardinality(CountedUnder(k)) \in Nat /\ k[2] \in Nat
      BY <1>0, Typed, Small DEF IInv, NeverMore, Exact
    <2>2. CASE k \in DOMAIN counter \ Live(now + 1)
      <3>1. k \in DOMAIN deadline /\ ~(now' < deadline[k])
        BY <1>1, <2>2 DEF Live
      <3>2. deadline[k] \in Nat /\ deadline[k] \div Window > k[2]
        BY <1>0, <3>1 DEF IInv, Kept, TypeOK
      <3>3. CurrentWindow' >= deadline[k] \div Window
        BY <1>2, <3>1, <3>2, Minutes DEF CurrentWindow
      <3>4. deadline[k] \div Window \in Nat
        BY <3>2, Minutes
      <3>5. ~(k[2] >= CurrentWindow')
        BY <1>2, <2>1, <3>2, <3>3, <3>4
      <3>6. Count(k)' = 0
        BY <1>1, <2>2 DEF Count
      <3> QED
        BY <2>1, <3>5, <3>6
    <2>3. CASE k \notin DOMAIN counter \ Live(now + 1)
      <3>1. Count(k)' = Count(k)
        BY <1>1, <2>3 DEF Count, Live
      <3> QED
        BY <1>2, <2>1, <3>1
    <2> QED
      BY <2>2, <2>3
  <1>8. WithinBudget' /\ Refusals'
    BY <1>1, <1>3 DEF IInv, WithinBudget, Refusals
  <1>9. LeakOnlyByFailure'
    BY <1>1, <1>3 DEF IInv, LeakOnlyByFailure, Live
  <1> QED
    BY <1>4, <1>5, <1>6, <1>7, <1>8, <1>9 DEF IInv

(* RequestKept: the steps before and around the count.                       *)
LEMMA RequestKept ==
    ASSUME IInv, NEW r \in Requests, Authenticate(r) \/ Stamp(r) \/ FailOpen(r) \/ Die(r)
    PROVE  IInv'
PROOF
  <1>0. TypeOK /\ window[r] \in Nat /\ window[r] <= CurrentWindow /\ CurrentWindow \in Nat
        /\ (pc[r] \in Uncounted => counted[r] = -1) /\ CurrentWindow <= CurrentWindow
    BY Typed DEF IInv, TypeOK, Stamped
  <1>1. UNCHANGED <<now, counter, counted, deadline>>
    BY DEF Authenticate, Stamp, FailOpen, Die
  <1>2. Kept' /\ DOMAIN deadline' \subseteq DOMAIN counter
        /\ \A k \in DOMAIN deadline' : deadline'[k] \in Nat
    BY <1>0, <1>1 DEF IInv, Kept, TypeOK
  <1>3. PICK x \in {"stamp", "incr", "rejected", "unlimited", "lost"}, v \in Nat :
            /\ pc' = [pc EXCEPT ![r] = x] /\ window' = [window EXCEPT ![r] = v]
            /\ v = window[r] \/ (v = CurrentWindow /\ pc[r] = "stamp")
            /\ pc[r] \in Uncounted \cup {"expire"}
            /\ x \in Uncounted => pc[r] \in Uncounted
            /\ pc[r] = "expire" => x \in {"unlimited", "lost"}
    <2>1. CASE Authenticate(r)
      BY <1>0, <2>1 DEF Authenticate, TypeOK, Uncounted
    <2>2. CASE Stamp(r)
      BY <1>0, <2>2 DEF Stamp, TypeOK, Uncounted
    <2>3. CASE FailOpen(r)
      BY <1>0, <2>3 DEF FailOpen, TypeOK, Uncounted
    <2>4. CASE Die(r)
      BY <1>0, <2>4 DEF Die, TypeOK, Uncounted
    <2> QED
      BY <2>1, <2>2, <2>3, <2>4
  <1>4. v <= CurrentWindow /\ (v = window[r] \/ counted[r] = -1)
        /\ (x \in Uncounted => counted[r] = -1)
    BY <1>0, <1>3 DEF Uncounted
  <1> QED
    BY <1>1, <1>2, <1>3, <1>4, QuietMove DEF Final

(* ExpireMove: the TTL ends after the minute, for it begins within or after. *)
LEMMA ExpireMove ==
    ASSUME IInv, NEW r \in Requests, pc[r] = "expire",
           deadline' = AfterExpire(KeyOf(r)),
           UNCHANGED <<now, counter, counted, window>>,
           NEW x \in {"admitted", "refused", "unlimited", "lost"},
           pc' = [pc EXCEPT ![r] = x],
           x = "admitted" => Limit > 0,
           x = "refused" => Limit = 0
    PROVE  IInv'
PROOF
  <1>0. TypeOK /\ window[r] \in Nat /\ window[r] <= CurrentWindow /\ CurrentWindow \in Nat
        /\ now \in Nat /\ now + Window \in Nat /\ Limit \in Nat
    BY Typed, WindowAssumption DEF IInv, TypeOK, Stamped, WindowAssumption
  <1>3. CASE KeyOf(r) \notin DOMAIN counter
    <2>1. deadline' = deadline
      BY <1>3 DEF AfterExpire
    <2>2. Kept' /\ DOMAIN deadline' \subseteq DOMAIN counter
          /\ \A k \in DOMAIN deadline' : deadline'[k] \in Nat
      BY <1>0, <2>1 DEF IInv, Kept, TypeOK
    <2>3. window' = [window EXCEPT ![r] = window[r]]
      BY <1>0 DEF TypeOK
    <2> QED
      BY <1>0, <1>3, <2>1, <2>2, <2>3, QuietMove DEF Final, Uncounted
  <1>4. CASE KeyOf(r) \in DOMAIN counter
    <2>1. deadline' = [k \in DOMAIN deadline \cup {KeyOf(r)} |->
                          IF k = KeyOf(r) THEN now + Window ELSE deadline[k]]
      BY <1>4 DEF AfterExpire, ExpiryOf
    <2>2. (now + Window) \div Window > KeyOf(r)[2]
      <3>1. (now + Window) \div Window = CurrentWindow + 1
        BY <1>0, Minutes DEF CurrentWindow
      <3> QED
        BY <1>0, <3>1, Typed
    <2>3. Kept' /\ DOMAIN deadline' \subseteq DOMAIN counter
          /\ DOMAIN deadline \subseteq DOMAIN deadline' /\ KeyOf(r) \in DOMAIN deadline'
          /\ \A k \in DOMAIN deadline' : deadline'[k] \in Nat
      <3>1. \A k \in DOMAIN deadline :
               deadline[k] \in Nat /\ deadline[k] \div Window > k[2] /\ k \in DOMAIN counter
        BY <1>0 DEF IInv, Kept, TypeOK
      <3>2. \A k \in DOMAIN deadline' :
               deadline'[k] = (IF k = KeyOf(r) THEN now + Window ELSE deadline[k])
               /\ (k = KeyOf(r) \/ k \in DOMAIN deadline)
        BY <2>1
      <3>3. Kept'
        BY <2>2, <3>1, <3>2 DEF Kept
      <3> QED
        BY <1>0, <1>4, <2>1, <3>1, <3>2, <3>3
    <2>4. window' = [window EXCEPT ![r] = window[r]]
      BY <1>0 DEF TypeOK
    <2> QED
      BY <1>0, <2>3, <2>4, QuietMove DEF Final, Uncounted
  <1> QED
    BY <1>3, <1>4

(* CountKept: INCR and EXPIRE, with or without their replies.                *)
LEMMA CountKept ==
    ASSUME IInv, NEW r \in Requests, Incr(r) \/ Expire(r) \/ LoseReply(r) PROVE IInv'
PROOF
  <1>2. Count(KeyOf(r)) \in Nat /\ Limit \in Nat
    BY Typed DEF IInv
  <1>3. CASE LoseReply(r)
    <2>1. PICK x \in {"unlimited", "lost"} : pc' = [pc EXCEPT ![r] = x]
      BY <1>3 DEF LoseReply
    <2>2. CASE pc[r] = "incr"
      <3>1. /\ counter' = Increment(KeyOf(r)) /\ counted' = [counted EXCEPT ![r] = now]
            /\ UNCHANGED <<now, window, deadline>>
        BY <1>3, <2>2 DEF LoseReply
      <3> QED
        BY <2>1, <2>2, <3>1, CountMove
    <2>3. CASE pc[r] = "expire"
      <3>1. /\ deadline' = AfterExpire(KeyOf(r))
            /\ UNCHANGED <<now, counter, counted, window>>
        BY <1>3, <2>3 DEF LoseReply
      <3> QED
        BY <2>1, <2>3, <3>1, ExpireMove
    <2> QED
      BY <1>3, <2>2, <2>3 DEF LoseReply
  <1>5. CASE Expire(r)
    <2> DEFINE x == Verdict(1)
    <2>1. /\ x \in {"admitted", "refused"}
          /\ x = "admitted" => Limit > 0
          /\ x = "refused" => Limit = 0
      BY <1>2 DEF Verdict
    <2>2. /\ pc[r] = "expire" /\ pc' = [pc EXCEPT ![r] = x]
          /\ deadline' = AfterExpire(KeyOf(r))
          /\ UNCHANGED <<now, counter, counted, window>>
      BY <1>5 DEF Expire
    <2> HIDE DEF x
    <2> QED
      BY <2>1, <2>2, ExpireMove
  <1>4. CASE Incr(r)
    <2>0. pc[r] = "incr" /\ counter' = Increment(KeyOf(r))
          /\ counted' = [counted EXCEPT ![r] = now] /\ UNCHANGED <<now, window, deadline>>
      BY <1>4 DEF Incr
    <2> DEFINE n == Count(KeyOf(r)) + 1
               x == IF n = 1 THEN "expire" ELSE IF n > Limit THEN "refused" ELSE "admitted"
    <2>1. pc' = [pc EXCEPT ![r] = x]
      BY <1>4 DEF Incr, SetsTTL, Verdict
    <2>2. /\ x \in {"expire", "admitted", "refused"}
          /\ x = "admitted" => n <= Limit
          /\ x = "expire" => Count(KeyOf(r)) = 0
          /\ x = "refused" => Count(KeyOf(r)) >= Limit
          /\ Count(KeyOf(r)) = 0 => x = "expire"
      BY <1>2
    <2> QED
      BY <2>0, <2>1, <2>2, CountMove
  <1> QED
    BY <1>3, <1>4, <1>5

-----------------------------------------------------------------------------
(* Inductive: the invariant holds throughout.                                *)
LEMMA Inductive == Spec => []IInv
PROOF
  <1>1. Init => IInv
    <2> SUFFICES ASSUME Init PROVE IInv
      OBVIOUS
    <2>1. TypeOK
      BY WindowAssumption DEF Init, TypeOK, WindowAssumption
    <2>2. /\ \A k : Count(k) = 0 /\ CountedUnder(k) = {} /\ Passed(k) = {}
          /\ Limit \in Nat
      BY <2>1, Typed DEF Init, Count, CountedUnder, Passed
    <2>3. Stamped /\ Kept
      BY <2>1, Typed DEF Init, Stamped, Kept
    <2>4. NeverMore /\ Exact /\ WithinBudget
      BY <2>2, FS_EmptySet DEF NeverMore, Exact, WithinBudget
    <2>5. Refusals /\ LeakOnlyByFailure
      BY DEF Init, Refusals, LeakOnlyByFailure
    <2> QED
      BY <2>1, <2>3, <2>4, <2>5 DEF IInv
  <1>2. IInv /\ [Next]_vars => IInv'
    <2> SUFFICES ASSUME IInv, [Next]_vars PROVE IInv'
      OBVIOUS
    <2>1. CASE Next
      BY <2>1, TickKept, RequestKept, CountKept DEF Next
    <2>2. CASE UNCHANGED vars
      <3>1. TypeOK' /\ Stamped' /\ Kept'
        BY <2>2 DEF vars, IInv, TypeOK, Stamped, Kept, CurrentWindow
      <3>2. /\ \A k : CountedUnder(k)' = CountedUnder(k) /\ Passed(k)' = Passed(k)
            /\ \A k : Count(k)' = Count(k)
            /\ \A q : Before(q)' = Before(q)
        BY <2>2 DEF vars, CountedUnder, KeyOf, Identifier, Passed, Prompt, Count, Before
      <3>3. NeverMore' /\ Exact' /\ WithinBudget' /\ Refusals' /\ LeakOnlyByFailure'
        BY <2>2, <3>2 DEF vars, IInv, NeverMore, Exact, WithinBudget, Refusals,
           LeakOnlyByFailure, CurrentWindow
      <3> QED
        BY <3>1, <3>3 DEF IInv
    <2> QED
      BY <2>1, <2>2
  <1> QED
    BY <1>1, <1>2, PTL DEF Spec

(* TypeCorrect: TypeOK; counters are positive, and TTLs go with them.        *)
THEOREM TypeCorrect == Spec => []TypeOK
PROOF
  <1>1. IInv => TypeOK
    BY DEF IInv
  <1> QED
    BY <1>1, Inductive, PTL

(* CountersExact: CounterIsExact, of the minute that runs.                   *)
THEOREM CountersExact == Spec => []CounterIsExact
PROOF
  <1>1. IInv => CounterIsExact
    <2> SUFFICES ASSUME IInv, NEW r \in Requests
                 PROVE  Count(<<Identifier(r), CurrentWindow>>)
                           = Cardinality(CountedUnder(<<Identifier(r), CurrentWindow>>))
      BY DEF CounterIsExact
    <2>1. CurrentWindow \in Nat /\ CurrentWindow >= CurrentWindow
      BY Typed DEF IInv
    <2>2. <<Identifier(r), CurrentWindow>> \in CounterKeys
      BY <2>1, RequestsAssumption DEF CounterKeys, Identifier, RequestsAssumption
    <2> QED
      BY <2>1, <2>2 DEF IInv, Exact
  <1> QED
    BY <1>1, Inductive, PTL

(* BudgetKept: MinuteBudget, the limit of the minute in which one is counted.*)
THEOREM BudgetKept == Spec => []MinuteBudget
PROOF
  <1>1. IInv => MinuteBudget
    <2> SUFFICES ASSUME IInv, NEW r \in Requests
                 PROVE  Cardinality({q \in CountedUnder(KeyOf(r)) :
                                        pc[q] = "admitted" /\ Prompt(q)}) <= Limit
      BY DEF MinuteBudget
    <2> DEFINE S == {q \in CountedUnder(KeyOf(r)) : pc[q] = "admitted" /\ Prompt(q)}
    <2>1. TypeOK /\ KeyOf(r) \in CounterKeys /\ S \subseteq Passed(KeyOf(r))
          /\ Passed(KeyOf(r)) \subseteq Requests
      BY Typed DEF IInv, Passed
    <2>2. /\ Cardinality(S) <= Cardinality(Passed(KeyOf(r))) /\ Cardinality(S) \in Nat
          /\ Cardinality(Passed(KeyOf(r))) \in Nat /\ Limit \in Nat
      BY <2>1, Small, Typed
    <2> QED
      BY <2>1, <2>2 DEF IInv, WithinBudget
  <1> QED
    BY <1>1, Inductive, PTL

(* RefusalsDeserved: RefusedOnlyOverBudget, for every refusal.               *)
THEOREM RefusalsDeserved == Spec => []RefusedOnlyOverBudget
PROOF
  <1>1. IInv => RefusedOnlyOverBudget
    BY DEF IInv, Refusals, Before, RefusedOnlyOverBudget
  <1> QED
    BY <1>1, Inductive, PTL

(* TwoBudgets: BurstBound, twice the limit in any sixty seconds: they lie in *)
(* two minutes.                                                              *)
THEOREM TwoBudgets == Spec => []BurstBound
PROOF
  <1>1. IInv => BurstBound
    <2> SUFFICES ASSUME IInv, NEW s \in Requests, NEW t \in 0..MaxTime
                 PROVE  Cardinality(BurstOf(Identifier(s), t)) <= 2 * Limit
      BY DEF BurstBound
    <2> DEFINE m == t \div Window
               first == <<Identifier(s), m>>
               second == <<Identifier(s), m + 1>>
    <2>0. TypeOK /\ t \in Nat /\ m \in Nat /\ t + Window \in Nat /\ Window \in Nat
          /\ Limit \in Nat
      <3>1. t \in Nat /\ Window \in Nat /\ t + Window \in Nat
        BY WindowAssumption DEF WindowAssumption
      <3>2. m \in Nat
        BY <3>1, Minutes
      <3> QED
        BY <3>1, <3>2, Typed DEF IInv
    <2>1. first \in CounterKeys /\ second \in CounterKeys
      BY <2>0, RequestsAssumption DEF CounterKeys, Identifier, RequestsAssumption
    <2>2. BurstOf(Identifier(s), t) \subseteq Passed(first) \cup Passed(second)
      <3> SUFFICES ASSUME NEW r \in BurstOf(Identifier(s), t)
                   PROVE  r \in Passed(first) \cup Passed(second)
        OBVIOUS
      <3>1. /\ r \in Requests /\ Identifier(r) = Identifier(s) /\ pc[r] = "admitted"
            /\ Prompt(r) /\ counted[r] # -1 /\ window[r] = counted[r] \div Window
            /\ t <= counted[r] /\ counted[r] < t + Window /\ counted[r] \in Nat
        BY <2>0 DEF BurstOf, Prompt, TypeOK
      <3>2. m <= window[r] /\ window[r] <= m + 1 /\ window[r] \in Nat
        <4>1. counted[r] <= t + Window /\ (t + Window) \div Window = m + 1
          BY <2>0, <3>1, Minutes
        <4> QED
          BY <2>0, <3>1, <4>1, Minutes
      <3>3. window[r] = m \/ window[r] = m + 1
        BY <2>0, <3>2
      <3> QED
        BY <3>1, <3>3 DEF Passed, CountedUnder, KeyOf
    <2>3. /\ Cardinality(Passed(first)) <= Limit /\ Cardinality(Passed(second)) <= Limit
          /\ Passed(first) \subseteq Requests /\ Passed(second) \subseteq Requests
      BY <2>0, <2>1, Typed DEF IInv, WithinBudget
    <2>4. Cardinality(Passed(first) \cup Passed(second)) <= 2 * Limit
      <3>1. IsFiniteSet(Passed(first)) /\ IsFiniteSet(Passed(second))
            /\ IsFiniteSet(Passed(first) \cap Passed(second))
        BY <2>3, Small, FS_Subset
      <3>2. /\ Cardinality(Passed(first) \cup Passed(second)) =
                  Cardinality(Passed(first)) + Cardinality(Passed(second))
                     - Cardinality(Passed(first) \cap Passed(second))
            /\ Cardinality(Passed(first)) \in Nat /\ Cardinality(Passed(second)) \in Nat
            /\ Cardinality(Passed(first) \cap Passed(second)) \in Nat
        BY <3>1, FS_Union, FS_CardinalityType
      <3> QED
        BY <2>0, <2>3, <3>2
    <2>5. Passed(first) \cup Passed(second) \subseteq Requests
      BY <2>3
    <2>6. /\ Cardinality(BurstOf(Identifier(s), t))
                <= Cardinality(Passed(first) \cup Passed(second))
          /\ Cardinality(BurstOf(Identifier(s), t)) \in Nat
          /\ Cardinality(Passed(first) \cup Passed(second)) \in Nat
      <3>1. BurstOf(Identifier(s), t) \subseteq Requests
        BY DEF BurstOf
      <3> QED
        BY <2>2, <2>5, <3>1, Small
    <2> QED
      BY <2>0, <2>4, <2>6
  <1> QED
    BY <1>1, Inductive, PTL

(* LeaksExplained: LeakOnlyByFailure, for every counter that stays.          *)
THEOREM LeaksExplained == Spec => []LeakOnlyByFailure
PROOF
  <1>1. IInv => LeakOnlyByFailure
    BY DEF IInv
  <1> QED
    BY <1>1, Inductive, PTL
=============================================================================

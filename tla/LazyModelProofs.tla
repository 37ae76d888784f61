-------------------------- MODULE LazyModelProofs --------------------------
(* The safety of the lazy loading, for any number of threads and calls.      *)
EXTENDS LazyModel, TLAPS

(* Only finished models are assigned.                                        *)
Installed ==
    /\ model = None \/ model \in loaded
    /\ \A t \in Threads : pc[t] = "install" => Name(t) \in loaded
    /\ \A t \in Threads : pc[t] = "encode" => model # None

(* Models and warm calls are named by calls that have begun: the present     *)
(* one of a thread is among the models only after its construction, and a    *)
(* warm one finds a model when it looks.                                     *)
Named ==
    /\ \A t \in Threads : pc[t] # "idle" => call[t] # 0
    /\ \A t \in Threads : \A n \in Nat : <<t, n>> \in loaded =>
          n <= call[t] /\ (n = call[t] => pc[t] \notin {"check", "load"})
    /\ \A t \in Threads : \A n \in Nat : <<t, n>> \in warm =>
          /\ n <= call[t]
          /\ n = call[t] => pc[t] \notin {"load", "install"}
          /\ model # None
    /\ WarmCallsReuse

IInv == TypeOK /\ Installed /\ Named

(* The invariant holds at the start.                                         *)
LEMMA InitInv == Init => IInv
<1> SUFFICES ASSUME Init PROVE IInv
  OBVIOUS
<1>1. TypeOK
  BY CallsAssumption DEF Init, TypeOK
<1>2. Installed /\ Named
  BY DEF Init, Installed, Named, WarmCallsReuse
<1> QED BY <1>1, <1>2 DEF IInv

(* A call begins: its name is a new one.                                     *)
LEMMA CallStep == ASSUME IInv, NEW t \in Threads, Call(t) PROVE IInv'
<1>0. /\ TypeOK /\ Installed /\ Named /\ MaxCalls \in Nat
      /\ call[t] \in 0..MaxCalls /\ call[t] < MaxCalls
      /\ UNCHANGED <<model, used, loaded>>
  BY CallsAssumption DEF IInv, TypeOK, Call
<1>1. \A u \in Threads :
        /\ call'[u] = IF u = t THEN call[t] + 1 ELSE call[u]
        /\ pc'[u] = IF u = t THEN "check" ELSE pc[u]
  BY <1>0 DEF Call, TypeOK
<1>2. Name(t)' = <<t, call[t] + 1>> /\ Name(t)' \in Models
  BY <1>0, <1>1 DEF Name, Models
<1>3. warm' = warm \/ (model # None /\ warm' = warm \cup {<<t, call[t] + 1>>})
  BY <1>2 DEF Call
<1>4. TypeOK'
  BY <1>0, <1>2, <1>3 DEF TypeOK, Call
<1>5. Installed'
  BY <1>0, <1>1 DEF Installed, Name
<1>6. <<t, call[t] + 1>> \notin loaded
  BY <1>0 DEF Named
<1>7. \A u \in Threads : call[u] \in Nat
  BY <1>0 DEF TypeOK
<1>8. Named'
  <2>1. ASSUME NEW u \in Threads, NEW n \in Nat, <<u, n>> \in loaded
        PROVE  n <= call'[u] /\ (n = call'[u] => pc'[u] \notin {"check", "load"})
    BY <1>0, <1>1, <1>7, <2>1 DEF Named
  <2>2. ASSUME NEW u \in Threads, NEW n \in Nat, <<u, n>> \in warm'
        PROVE  /\ n <= call'[u]
               /\ n = call'[u] => pc'[u] \notin {"load", "install"}
               /\ model # None
    <3>1. CASE <<u, n>> \in warm
      BY <1>0, <1>1, <1>7, <3>1 DEF Named
    <3>2. CASE <<u, n>> \notin warm
      <4>1. model # None /\ u = t /\ n = call[t] + 1
        BY <1>3, <2>2, <3>2
      <4> QED BY <1>1, <4>1
    <3> QED BY <3>1, <3>2
  <2>3. WarmCallsReuse'
    BY <1>0, <1>3, <1>6 DEF Named, WarmCallsReuse
  <2>4. \A u \in Threads : pc'[u] # "idle" => call'[u] # 0
    BY <1>0, <1>1, <1>7 DEF Named
  <2> QED BY <1>0, <2>1, <2>2, <2>3, <2>4 DEF Named
<1> QED BY <1>4, <1>5, <1>8 DEF IInv

(* A construction ends: the call was no warm one.                            *)
LEMMA BuildStep == ASSUME IInv, NEW t \in Threads, Build(t) PROVE IInv'
<1>0. /\ TypeOK /\ Installed /\ Named
      /\ pc[t] = "load" /\ call[t] \in Nat
      /\ loaded' = loaded \cup {<<t, call[t]>>}
      /\ UNCHANGED <<model, call, used, warm>>
  BY DEF IInv, TypeOK, Build, Name
<1>1. \A u \in Threads : pc'[u] = IF u = t THEN "install" ELSE pc[u]
  BY <1>0 DEF Build, AfterBuild, TypeOK
<1>2. <<t, call[t]>> \in Models
  <2>1. <<t, call[t]>> \notin warm
    BY <1>0 DEF Named
  <2>2. call[t] \in 0..MaxCalls
    BY <1>0 DEF TypeOK
  <2>3. call[t] # 0
    BY <1>0 DEF Named
  <2> QED BY <1>0, <2>2, <2>3, CallsAssumption DEF Models
<1> QED
  <2>1. TypeOK'
    BY <1>0, <1>2 DEF TypeOK, Build, AfterBuild
  <2>2. Installed'
    BY <1>0, <1>1 DEF Installed, Name
  <2>3. Named'
    BY <1>0, <1>1 DEF Named, WarmCallsReuse
  <2> QED BY <2>1, <2>2, <2>3 DEF IInv

(* Steps after which the call is where no warm or named one is misplaced.    *)
LEMMA OtherStep ==
  ASSUME IInv, NEW t \in Threads, Check(t) \/ Install(t) \/ LoadFails(t) \/ Encode(t)
  PROVE  IInv'
<1>0. /\ TypeOK /\ Installed /\ Named
      /\ call[t] \in Nat
      /\ UNCHANGED <<call, loaded, warm>>
  BY DEF IInv, TypeOK, Check, Install, LoadFails, Encode
<1> DEFINE After(p) == \A u \in Threads : pc'[u] = IF u = t THEN p ELSE pc[u]
<1>1. CASE Check(t)
  <2>1. pc[t] = "check" /\ UNCHANGED <<model, used>>
    BY <1>1 DEF Check
  <2>2. \/ model = None /\ After("load") /\ pc' = [pc EXCEPT ![t] = "load"]
        \/ model # None /\ After("encode") /\ pc' = [pc EXCEPT ![t] = "encode"]
    BY <1>0, <1>1 DEF Check, MustLoad, TypeOK
  <2>3. TypeOK'
    BY <1>0, <2>1, <2>2 DEF TypeOK
  <2>4. Installed'
    BY <1>0, <2>1, <2>2 DEF Installed, Name
  <2>5. Named'
    BY <1>0, <2>1, <2>2 DEF Named, WarmCallsReuse
  <2> QED BY <2>3, <2>4, <2>5 DEF IInv
<1>2. CASE Install(t)
  <2>1. pc[t] = "install" /\ model' = <<t, call[t]>> /\ used' = used /\ After("encode")
    BY <1>0, <1>2 DEF Install, Name, TypeOK
  <2>2. model' \in loaded /\ model' \in Models /\ model' # None
    BY <1>0, <2>1, NoneAssumption DEF Installed, Name, TypeOK
  <2>3. TypeOK'
    BY <1>0, <1>2, <2>1, <2>2 DEF TypeOK, Install
  <2>4. Installed'
    BY <1>0, <2>1, <2>2 DEF Installed, Name
  <2>5. Named'
    BY <1>0, <2>1, <2>2 DEF Named, WarmCallsReuse
  <2> QED BY <2>3, <2>4, <2>5 DEF IInv
<1>3. CASE LoadFails(t) \/ Encode(t)
  <2>1. model' = model /\ After("idle")
    BY <1>0, <1>3 DEF LoadFails, Encode, TypeOK
  <2>2. TypeOK'
    BY <1>0, <1>3, <2>1 DEF TypeOK, LoadFails, Encode
  <2>3. Installed'
    BY <1>0, <2>1 DEF Installed, Name
  <2>4. Named'
    BY <1>0, <2>1 DEF Named, WarmCallsReuse
  <2> QED BY <2>2, <2>3, <2>4 DEF IInv
<1> QED BY <1>1, <1>2, <1>3

(* Every step preserves the invariant.                                       *)
LEMMA Inductive == IInv /\ [Next]_vars => IInv'
<1> SUFFICES ASSUME IInv, [Next]_vars PROVE IInv'
  OBVIOUS
<1>1. CASE Next
  BY <1>1, CallStep, BuildStep, OtherStep DEF Next
<1>2. CASE UNCHANGED vars
  BY <1>2 DEF vars, IInv, TypeOK, Installed, Name, Named, WarmCallsReuse
<1> QED BY <1>1, <1>2

(* IInv holds in every reachable state.                                      *)
LEMMA Invariant == Spec => []IInv
<1> QED BY InitInv, Inductive, PTL DEF Spec

(* TypeOK, and every call at a known step, for any callers and bounds.       *)
THEOREM TypeCorrect == Spec => []TypeOK
<1>1. IInv => TypeOK
  BY DEF IInv
<1> QED BY <1>1, Invariant, PTL

(* No call encodes with a model that is not there or not finished.           *)
THEOREM EncodingsHaveAModel == Spec => []EncodesWithAModel
<1>1. IInv => EncodesWithAModel
  BY DEF IInv, Installed, EncodesWithAModel
<1> QED BY <1>1, Invariant, PTL

(* A call that began with a model installed builds none.                     *)
THEOREM WarmCallsLoadNothing == Spec => []WarmCallsReuse
<1>1. IInv => WarmCallsReuse
  BY DEF IInv, Named
<1> QED BY <1>1, Invariant, PTL
=============================================================================

------------------------- MODULE ConnectionsProofs -------------------------
(* The safety of the connection pools, for any workers, jobs, pool sizes and *)
(* numbers of faults.                                                        *)
EXTENDS Connections, FiniteSetTheorems, TLAPS

(* No orphans before the worker serves; a thread for each job that runs; and *)
(* what a health check says, has been so.                                    *)
Quiet == \A w \in Workers : phase[w] # "serving" => orphans[w] = 0

WithinThreads == \A w \in Workers : Cardinality(Running(w)) <= Threads[w]

Unfinished == OnThread \cup {"new", "queued"}

Owing == \A j \in Jobs : pc[j] \in Unfinished => left[j] > 0

Witnessed(j) ==
    /\ pc[j] # "failed"
    /\ "db" \in verdict[j] => {"no db", "full"} \cap during[j] # {}
    /\ "redis" \in verdict[j] => "no redis" \in during[j]
    /\ pc[j] \in {"ping", "done"} /\ "db" \notin verdict[j] => "db" \in during[j]
    /\ pc[j] = "done" /\ "redis" \notin verdict[j] => "redis" \in during[j]

Marks == {"db", "no db", "redis", "no redis", "full"}

HealthInv == \A j \in Jobs : ~Queries(j) => Witnessed(j)

(* A check whose connection an outage broke has met that outage by the time  *)
(* the server is back.                                                       *)
CutSeen ==
    \A j \in Jobs : ~Queries(j) /\ j \in cut =>
        pc[j] # "new" /\ (Active(j) => ~dbUp \/ "no db" \in during[j])

IInv ==
    /\ TypeOK /\ during \in [Jobs -> SUBSET Marks]
    /\ PoolExact /\ WithinThreads /\ Quiet /\ Owing /\ ServesOverTable /\ HealthInv
    /\ CutSeen

-----------------------------------------------------------------------------
(* Finite: the jobs of a worker that hold or run are finitely many.          *)
LEMMA Finite ==
    ASSUME NEW w
    PROVE  /\ IsFiniteSet(Holders(w)) /\ Cardinality(Holders(w)) \in Nat
           /\ IsFiniteSet(Running(w)) /\ Cardinality(Running(w)) \in Nat
PROOF
  <1>1. IsFiniteSet(Jobs)
    BY JobsAssumption DEF JobsAssumption
  <1>2. Holders(w) \subseteq Jobs /\ Running(w) \subseteq Jobs
    BY DEF Holders, Running, JobsOf
  <1> QED
    BY <1>1, <1>2, FS_Subset, FS_CardinalityType

(* HolderCount: how a job's step changes the number of holders.              *)
LEMMA HolderCount ==
    ASSUME TypeOK, NEW j \in Jobs, NEW x, pc' = [pc EXCEPT ![j] = x]
    PROVE  \A w \in Workers :
              /\ w # WorkerOf[j] \/ (x \in Holding <=> pc[j] \in Holding) =>
                    Cardinality(Holders(w)') = Cardinality(Holders(w))
              /\ w = WorkerOf[j] /\ x \in Holding /\ pc[j] \notin Holding =>
                    Cardinality(Holders(w)') = Cardinality(Holders(w)) + 1
              /\ w = WorkerOf[j] /\ x \notin Holding /\ pc[j] \in Holding =>
                    Cardinality(Holders(w)') = Cardinality(Holders(w)) - 1
PROOF
  <1> SUFFICES ASSUME NEW w \in Workers
               PROVE  /\ w # WorkerOf[j] \/ (x \in Holding <=> pc[j] \in Holding) =>
                            Holders(w)' = Holders(w)
                      /\ w = WorkerOf[j] /\ x \in Holding /\ pc[j] \notin Holding =>
                            Cardinality(Holders(w)') = Cardinality(Holders(w)) + 1
                      /\ w = WorkerOf[j] /\ x \notin Holding /\ pc[j] \in Holding =>
                            Cardinality(Holders(w)') = Cardinality(Holders(w)) - 1
    OBVIOUS
  <1>1. \A i \in Jobs : pc'[i] = IF i = j THEN x ELSE pc[i]
    BY DEF TypeOK
  <1>2. w # WorkerOf[j] \/ (x \in Holding <=> pc[j] \in Holding) => Holders(w)' = Holders(w)
    BY <1>1 DEF Holders, JobsOf
  <1>3. ASSUME w = WorkerOf[j], x \in Holding, pc[j] \notin Holding
        PROVE  Cardinality(Holders(w)') = Cardinality(Holders(w)) + 1
    <2>1. Holders(w)' = Holders(w) \cup {j} /\ j \notin Holders(w)
      BY <1>1, <1>3 DEF Holders, JobsOf
    <2> QED
      BY <2>1, Finite, FS_AddElement
  <1>4. ASSUME w = WorkerOf[j], x \notin Holding, pc[j] \in Holding
        PROVE  Cardinality(Holders(w)') = Cardinality(Holders(w)) - 1
    <2>1. Holders(w)' = Holders(w) \ {j} /\ j \in Holders(w)
      BY <1>1, <1>4 DEF Holders, JobsOf
    <2> QED
      BY <2>1, Finite, FS_RemoveElement
  <1> QED
    BY <1>2, <1>3, <1>4

(* RunnerCount: a job's step to a thread takes a free one.                   *)
LEMMA RunnerCount ==
    ASSUME TypeOK, WithinThreads, NEW j \in Jobs, NEW x, pc' = [pc EXCEPT ![j] = x],
           x \in OnThread /\ pc[j] \notin OnThread =>
              Cardinality(Running(WorkerOf[j])) < Threads[WorkerOf[j]]
    PROVE  WithinThreads'
PROOF
  <1> SUFFICES ASSUME NEW w \in Workers PROVE Cardinality(Running(w)') <= Threads[w]
    BY DEF WithinThreads
  <1>0. Threads[w] \in Nat /\ Cardinality(Running(w)) <= Threads[w]
    BY WorkersAssumption DEF WithinThreads, WorkersAssumption
  <1>1. \A i \in Jobs : pc'[i] = IF i = j THEN x ELSE pc[i]
    BY DEF TypeOK
  <1>2. CASE w = WorkerOf[j] /\ x \in OnThread /\ pc[j] \notin OnThread
    <2>1. Running(w)' = Running(w) \cup {j} /\ j \notin Running(w)
      BY <1>1, <1>2 DEF Running, JobsOf
    <2>2. Cardinality(Running(w)') = Cardinality(Running(w)) + 1
      BY <2>1, Finite, FS_AddElement
    <2> QED
      BY <1>0, <1>2, <2>2, Finite
  <1>3. CASE ~(w = WorkerOf[j] /\ x \in OnThread /\ pc[j] \notin OnThread)
    <2>1. Running(w)' \subseteq Running(w)
      BY <1>1, <1>3 DEF Running, JobsOf
    <2>2. Cardinality(Running(w)') <= Cardinality(Running(w)) /\ Cardinality(Running(w)') \in Nat
      BY <2>1, Finite, FS_Subset, FS_CardinalityType
    <2> QED
      BY <1>0, <2>2, Finite
  <1> QED
    BY <1>2, <1>3

-----------------------------------------------------------------------------
(* Observed: a check's history only grows, by the conditions it acts under.  *)
LEMMA Observed ==
    ASSUME IInv, Observe
    PROVE  /\ during' \in [Jobs -> SUBSET Marks]
           /\ \A j \in Jobs : during[j] \subseteq during'[j]
           /\ \A j \in Jobs : Active(j) /\ ~Queries(j) =>
                 /\ dbUp => "db" \in during'[j]
                 /\ ~dbUp => "no db" \in during'[j]
                 /\ redisUp => "redis" \in during'[j]
                 /\ ~redisUp => "no redis" \in during'[j]
                 /\ pc[j] = "checkout" /\ Full(WorkerOf[j]) => "full" \in during'[j]
PROOF
  <1>1. \A j \in Jobs : Conditions(j) \in SUBSET Marks
    BY DEF Conditions, Marks
  <1>2. \A j \in Jobs : during'[j] = IF Active(j) /\ ~Queries(j)
                                     THEN during[j] \cup Conditions(j) ELSE during[j]
    BY DEF Observe
  <1>3. during' \in [Jobs -> SUBSET Marks]
    BY <1>1 DEF Observe, IInv
  <1> QED
    BY <1>2, <1>3 DEF Conditions

(* CutKept: steps that break no connections, and start no job again.         *)
LEMMA CutKept ==
    ASSUME IInv, Observe, cut' \subseteq cut,
           \A j \in Jobs : pc'[j] # pc[j] => pc[j] = "new" \/ (Active(j) /\ pc'[j] # "new")
    PROVE  CutSeen'
PROOF
  <1> SUFFICES ASSUME NEW j \in Jobs, ~Queries(j), j \in cut'
               PROVE  pc'[j] # "new" /\ (Active(j)' => ~dbUp' \/ "no db" \in during'[j])
    BY DEF CutSeen, Queries
  <1>1. pc[j] # "new" /\ (Active(j) => ~dbUp \/ "no db" \in during[j])
    BY DEF IInv, CutSeen
  <1>2. pc'[j] # "new" /\ (Active(j)' => Active(j))
    BY <1>1 DEF Active
  <1>3. Active(j) => "no db" \in during'[j]
    BY <1>1, Observed
  <1> QED
    BY <1>2, <1>3

(* WitnessKept: what a check says stays witnessed while it says nothing new. *)
LEMMA WitnessKept ==
    ASSUME IInv, Observe, NEW j \in Jobs, ~Queries(j), verdict'[j] = verdict[j],
           pc'[j] # "failed",
           pc'[j] \in {"ping", "done"} => pc'[j] = pc[j]
    PROVE  Witnessed(j)'
PROOF
  <1>1. Witnessed(j) /\ during[j] \subseteq during'[j]
    BY Observed DEF IInv, HealthInv
  <1> QED
    BY <1>1 DEF Witnessed

(* WorkerMove: steps that leave the jobs alone.                              *)
LEMMA WorkerMove ==
    ASSUME IInv, Observe, UNCHANGED <<pc, verdict>>
    PROVE  HealthInv' /\ WithinThreads'
           /\ \A w \in Workers : Holders(w)' = Holders(w)
PROOF
  <1>1. ASSUME NEW j \in Jobs, ~Queries(j) PROVE Witnessed(j)'
    <2>1. pc[j] # "failed"
      BY <1>1 DEF IInv, HealthInv, Witnessed
    <2> QED
      BY <1>1, <2>1, WitnessKept
  <1>2. HealthInv'
    BY <1>1 DEF HealthInv, Queries
  <1> QED
    BY <1>2 DEF WithinThreads, Running, Holders, JobsOf, IInv

PCs == OnThread \cup Ended \cup {"new", "queued", "ping"}

Hold(x) == IF x \in Holding THEN 1 ELSE 0

(* JobMove: a job's step keeps the invariant if it keeps the account of its  *)
(* worker's pool, takes a thread only if one is free, and, for a check, says *)
(* only what it has met.                                                     *)
LEMMA JobMove ==
    ASSUME IInv, Observe, NEW j \in Jobs, NEW x \in PCs, x # "new", pc' = [pc EXCEPT ![j] = x],
           pc[j] = "new" \/ Active(j), cut' = cut,
           UNCHANGED workerVars, phase[WorkerOf[j]] = "serving",
           NEW l \in Nat, left' = [left EXCEPT ![j] = l], x \in Unfinished => l > 0,
           verdict' \in [Jobs -> SUBSET {"db", "redis"}],
           dbUp' \in BOOLEAN, redisUp' \in BOOLEAN, faults' \in 0..MaxFaults,
           NEW m \in Nat, NEW n \in Nat,
           out' = [out EXCEPT ![WorkerOf[j]] = m],
           orphans' = [orphans EXCEPT ![WorkerOf[j]] = n],
           m <= Capacity[WorkerOf[j]],
           m - n - Hold(x) = out[WorkerOf[j]] - orphans[WorkerOf[j]] - Hold(pc[j]),
           x \in OnThread /\ pc[j] \notin OnThread => ThreadFree(WorkerOf[j]),
           \A i \in Jobs \ {j} : verdict'[i] = verdict[i],
           ~Queries(j) => Witnessed(j)'
    PROVE  IInv'
PROOF
  <1>0. TypeOK /\ PoolExact /\ WithinThreads /\ WorkerOf[j] \in Workers
        /\ Capacity \in [Workers -> Nat \ {0}]
    BY WorkersAssumption DEF IInv, WorkersAssumption
  <1>1. \A i \in Jobs : pc'[i] = IF i = j THEN x ELSE pc[i]
    BY <1>0 DEF TypeOK
  <1>2. out' \in [Workers -> Nat] /\ orphans' \in [Workers -> Nat]
    BY <1>0 DEF TypeOK
  <1>3. TypeOK'
    <2>1. pc' \in [Jobs -> PCs]
      BY <1>0 DEF TypeOK, PCs
    <2>2. \A i \in Jobs : Active(i)' => phase[WorkerOf[i]] = "serving"
      BY <1>0, <1>1 DEF TypeOK, Active
    <2> QED
      BY <1>0, <1>2, <2>1, <2>2 DEF TypeOK, PCs, workerVars
  <1>4. WithinThreads'
    BY <1>0, RunnerCount DEF ThreadFree
  <1>5. PoolExact'
    <2> SUFFICES ASSUME NEW w \in Workers
                 PROVE  /\ out'[w] = Cardinality(Holders(w)') + orphans'[w]
                                      + (IF Setting(w) THEN 1 ELSE 0)
                        /\ out'[w] <= Capacity[w]
      BY DEF PoolExact, Setting, workerVars
    <2>1. /\ out[w] = Cardinality(Holders(w)) + orphans[w] + (IF Setting(w) THEN 1 ELSE 0)
          /\ out[w] <= Capacity[w] /\ out[w] \in Nat /\ orphans[w] \in Nat
          /\ Cardinality(Holders(w)) \in Nat
      BY <1>0, Finite DEF PoolExact, TypeOK
    <2>2. CASE w # WorkerOf[j]
      <3>1. out'[w] = out[w] /\ orphans'[w] = orphans[w]
        BY <1>0, <2>2 DEF TypeOK
      <3>2. Cardinality(Holders(w)') = Cardinality(Holders(w))
        BY <1>0, <2>2, HolderCount
      <3> QED
        BY <2>1, <3>1, <3>2
    <2>3. CASE w = WorkerOf[j]
      <3>1. out'[w] = m /\ orphans'[w] = n /\ ~Setting(w)
        BY <1>0, <2>3 DEF TypeOK, Setting
      <3>2. Cardinality(Holders(w)') = Cardinality(Holders(w)) + Hold(x) - Hold(pc[j])
        <4>1. CASE x \in Holding <=> pc[j] \in Holding
          <5>1. Cardinality(Holders(w)') = Cardinality(Holders(w))
            BY <1>0, <2>3, <4>1, HolderCount
          <5> QED
            BY <2>1, <4>1, <5>1 DEF Hold
        <4>2. CASE x \in Holding /\ pc[j] \notin Holding
          <5>1. Cardinality(Holders(w)') = Cardinality(Holders(w)) + 1
            BY <1>0, <2>3, <4>2, HolderCount
          <5> QED
            BY <2>1, <4>2, <5>1 DEF Hold
        <4>3. CASE x \notin Holding /\ pc[j] \in Holding
          <5>1. Cardinality(Holders(w)') = Cardinality(Holders(w)) - 1
            BY <1>0, <2>3, <4>3, HolderCount
          <5> QED
            BY <2>1, <4>3, <5>1 DEF Hold
        <4> QED
          BY <4>1, <4>2, <4>3
      <3>3. Hold(x) \in 0..1 /\ Hold(pc[j]) \in 0..1
        BY DEF Hold
      <3>4. m - n - Hold(x) = out[w] - orphans[w] - Hold(pc[j]) /\ m <= Capacity[w]
        BY <2>3
      <3>5. out[w] = Cardinality(Holders(w)) + orphans[w]
        BY <2>1, <3>1
      <3>6. m = Cardinality(Holders(w)') + n
        BY <2>1, <3>2, <3>3, <3>4, <3>5
      <3> QED
        BY <3>1, <3>4, <3>6
    <2> QED
      BY <2>2, <2>3
  <1>6. Quiet' /\ ServesOverTable' /\ Owing'
    <2>1. Quiet' /\ ServesOverTable'
      BY <1>0 DEF IInv, Quiet, ServesOverTable, TypeOK, workerVars
    <2>2. \A i \in Jobs : left'[i] = IF i = j THEN l ELSE left[i]
      BY <1>0 DEF TypeOK
    <2> QED
      BY <1>1, <2>1, <2>2 DEF IInv, Owing
  <1>7. HealthInv'
    <2>1. ASSUME NEW i \in Jobs \ {j}, ~Queries(i) PROVE Witnessed(i)'
      <3>1. pc'[i] = pc[i] /\ pc[i] # "failed"
        BY <1>1, <2>1 DEF IInv, HealthInv, Witnessed
      <3> QED
        BY <2>1, <3>1, WitnessKept
    <2> QED
      BY <2>1 DEF HealthInv, Queries
  <1>8. during' \in [Jobs -> SUBSET Marks]
    BY Observed
  <1>9. CutSeen'
    BY <1>1, CutKept
  <1> QED
    BY <1>3, <1>4, <1>5, <1>6, <1>7, <1>8, <1>9 DEF IInv

-----------------------------------------------------------------------------
Slot(p) == IF p \in {"create", "alter"} THEN 1 ELSE 0

(* Idle: before it serves, a worker's pool counts its setup alone.           *)
LEMMA Idle ==
    ASSUME IInv, NEW w \in Workers, phase[w] # "serving"
    PROVE  out[w] = Slot(phase[w]) /\ orphans[w] = 0
PROOF
  <1>1. Holders(w) = {}
    BY DEF IInv, TypeOK, Holders, JobsOf, Active, Holding, Ended
  <1>2. orphans[w] = 0
    BY DEF IInv, Quiet
  <1>3. out[w] = Cardinality(Holders(w)) + orphans[w] + (IF Setting(w) THEN 1 ELSE 0)
    BY DEF IInv, PoolExact
  <1> QED
    BY <1>1, <1>2, <1>3, FS_EmptySet DEF Slot, Setting

(* PhaseMove: a worker's step keeps the invariant if it keeps the account of *)
(* its pool, does not stop serving, and serves only over a table.            *)
LEMMA PhaseMove ==
    ASSUME IInv, Observe, NEW w \in Workers, NEW x \in Phases,
           phase' = [phase EXCEPT ![w] = x],
           UNCHANGED <<pc, left, verdict, dbUp, redisUp, faults>>, cut' \subseteq cut,
           saw' \in [Workers -> BOOLEAN], table' \in BOOLEAN, table => table',
           locked' = None \/ (locked' \in Workers /\ phase'[locked'] = "alter"),
           NEW m \in Nat, NEW n \in Nat,
           out' = [out EXCEPT ![w] = m], orphans' = [orphans EXCEPT ![w] = n],
           m <= Capacity[w],
           m - n - Slot(x) = out[w] - orphans[w] - Slot(phase[w]),
           phase[w] = "serving" => x = "serving",
           x = "serving" => table', x # "serving" => n = 0
    PROVE  IInv'
PROOF
  <1>0. TypeOK /\ PoolExact
    BY DEF IInv
  <1>1. \A v \in Workers : phase'[v] = IF v = w THEN x ELSE phase[v]
    BY <1>0 DEF TypeOK
  <1>2. HealthInv' /\ WithinThreads' /\ \A v \in Workers : Holders(v)' = Holders(v)
    BY WorkerMove
  <1>3. TypeOK'
    <2>1. \A j \in Jobs : Active(j)' => phase'[WorkerOf[j]] = "serving"
      BY <1>0, <1>1, WorkersAssumption DEF TypeOK, Active, WorkersAssumption
    <2>2. phase' \in [Workers -> Phases] /\ out' \in [Workers -> Nat]
          /\ orphans' \in [Workers -> Nat]
      BY <1>0 DEF TypeOK
    <2> QED
      BY <1>0, <2>1, <2>2 DEF TypeOK
  <1>4. PoolExact'
    <2> SUFFICES ASSUME NEW v \in Workers
                 PROVE  /\ out'[v] = Cardinality(Holders(v)) + orphans'[v] + Slot(phase'[v])
                        /\ out'[v] <= Capacity[v]
      BY <1>2 DEF PoolExact, Setting, Slot
    <2>1. /\ out[v] = Cardinality(Holders(v)) + orphans[v] + Slot(phase[v])
          /\ out[v] <= Capacity[v] /\ out[v] \in Nat /\ orphans[v] \in Nat
          /\ Cardinality(Holders(v)) \in Nat
      BY <1>0, Finite DEF PoolExact, TypeOK, Setting, Slot
    <2>2. Slot(x) \in 0..1 /\ Slot(phase[v]) \in 0..1
      BY DEF Slot
    <2>3. CASE v # w
      BY <1>0, <1>1, <2>1, <2>3 DEF TypeOK
    <2>4. CASE v = w
      <3>1. out'[v] = m /\ orphans'[v] = n /\ phase'[v] = x
        BY <1>0, <1>1, <2>4 DEF TypeOK
      <3> QED
        BY <2>1, <2>2, <2>4, <3>1
    <2> QED
      BY <2>3, <2>4
  <1>5. Quiet' /\ ServesOverTable' /\ Owing'
    BY <1>0, <1>1 DEF IInv, Quiet, ServesOverTable, TypeOK, Owing
  <1> QED
    BY <1>2, <1>3, <1>4, <1>5, Observed, CutKept DEF IInv

(* BootKept, AlterKept, ServeKept and BootFailsKept: the start of a worker.  *)
LEMMA BootKept == ASSUME IInv, Observe, NEW w \in Workers, Boot(w) PROVE IInv'
PROOF
  <1>1. out[w] = 0 /\ orphans[w] = 0
    BY Idle DEF Boot, Slot
  <1>2. phase' = [phase EXCEPT ![w] = "create"] /\ out' = [out EXCEPT ![w] = 1]
        /\ orphans' = [orphans EXCEPT ![w] = 0]
    BY <1>1 DEF Boot, FirstPhase, IInv, TypeOK
  <1>3. phase[w] = "boot" /\ UNCHANGED <<pc, left, verdict, table, locked>>
        /\ UNCHANGED <<dbUp, redisUp, faults>> /\ cut' \subseteq cut
        /\ saw' \in [Workers -> BOOLEAN] /\ table' \in BOOLEAN
    BY DEF Boot, IInv, TypeOK
  <1>4. locked' = None \/ (locked' \in Workers /\ phase'[locked'] = "alter")
    BY <1>2, <1>3 DEF IInv, TypeOK
  <1>5. 1 <= Capacity[w] /\ "create" \in Phases
    BY WorkersAssumption DEF WorkersAssumption, Phases
  <1>6. 1 - 0 - Slot("create") = out[w] - orphans[w] - Slot(phase[w])
    BY <1>1, <1>3 DEF Slot
  <1> QED
    BY <1>2, <1>3, <1>4, <1>5, <1>6, PhaseMove

LEMMA AlterKept == ASSUME IInv, Observe, NEW w \in Workers, Alter(w) PROVE IInv'
PROOF
  <1>1. out[w] = 1 /\ orphans[w] = 0
    BY Idle DEF Alter, Slot
  <1>2. phase' = [phase EXCEPT ![w] = "alter"] /\ out' = [out EXCEPT ![w] = 1]
        /\ orphans' = [orphans EXCEPT ![w] = 0]
    BY <1>1 DEF Alter, IInv, TypeOK, jobVars
  <1>3. phase[w] = "create" /\ UNCHANGED <<pc, left, verdict, table>>
        /\ UNCHANGED <<dbUp, redisUp, faults>> /\ cut' \subseteq cut
        /\ saw' \in [Workers -> BOOLEAN] /\ table' \in BOOLEAN /\ locked' = w
    BY DEF Alter, IInv, TypeOK, jobVars, world
  <1>4. phase'[locked'] = "alter"
    BY <1>2, <1>3 DEF IInv, TypeOK
  <1>5. 1 <= Capacity[w] /\ "alter" \in Phases
    BY WorkersAssumption DEF WorkersAssumption, Phases
  <1>6. 1 - 0 - Slot("alter") = out[w] - orphans[w] - Slot(phase[w])
    BY <1>1, <1>3 DEF Slot
  <1> QED
    BY <1>2, <1>3, <1>4, <1>5, <1>6, PhaseMove

LEMMA ServeKept == ASSUME IInv, Observe, NEW w \in Workers, Serve(w) PROVE IInv'
PROOF
  <1>1. out[w] = 1 /\ orphans[w] = 0
    BY Idle DEF Serve, Slot
  <1>2. phase' = [phase EXCEPT ![w] = "serving"] /\ out' = [out EXCEPT ![w] = 0]
        /\ orphans' = [orphans EXCEPT ![w] = 0]
    BY <1>1 DEF Serve, IInv, TypeOK
  <1>3. phase[w] = "alter" /\ UNCHANGED <<pc, left, verdict>>
        /\ UNCHANGED <<dbUp, redisUp, faults>> /\ cut' \subseteq cut
        /\ saw' \in [Workers -> BOOLEAN] /\ table' = TRUE /\ locked' = None
    BY DEF Serve, LockAfter, IInv, TypeOK, world
  <1>5. 0 <= Capacity[w] /\ "serving" \in Phases
    BY WorkersAssumption DEF WorkersAssumption, Phases
  <1>6. 0 - 0 - Slot("serving") = out[w] - orphans[w] - Slot(phase[w])
    BY <1>1, <1>3 DEF Slot
  <1> QED
    BY <1>2, <1>3, <1>5, <1>6, PhaseMove

LEMMA BootFailsKept == ASSUME IInv, Observe, NEW w \in Workers, BootFails(w) PROVE IInv'
PROOF
  <1>1. out[w] = Slot(phase[w]) /\ orphans[w] = 0
    BY Idle DEF BootFails, Setting
  <1>2. phase' = [phase EXCEPT ![w] = "boot"] /\ out' = [out EXCEPT ![w] = 0]
        /\ orphans' = [orphans EXCEPT ![w] = 0]
    BY <1>1 DEF BootFails, IInv, TypeOK
  <1>3. phase[w] # "serving" /\ UNCHANGED <<pc, left, verdict, table>>
        /\ UNCHANGED <<dbUp, redisUp, faults>> /\ cut' \subseteq cut
        /\ saw' \in [Workers -> BOOLEAN] /\ table' \in BOOLEAN
        /\ locked' = IF locked = w THEN None ELSE locked
    BY DEF BootFails, Setting, IInv, TypeOK, world
  <1>4. locked' = None \/ (locked' \in Workers /\ phase'[locked'] = "alter")
    BY <1>2, <1>3 DEF IInv, TypeOK
  <1>5. 0 <= Capacity[w] /\ "boot" \in Phases
    BY WorkersAssumption DEF WorkersAssumption, Phases
  <1>6. 0 - 0 - Slot("boot") = out[w] - orphans[w] - Slot(phase[w])
    <2>1. Slot("boot") = 0 /\ Slot(phase[w]) \in {0, 1}
      BY DEF Slot
    <2> QED
      BY <1>1, <2>1
  <1> QED
    BY <1>2, <1>3, <1>4, <1>5, <1>6, PhaseMove

(* CollectKept: a connection leaves the orphans and the account together.    *)
LEMMA CollectKept == ASSUME IInv, Observe, NEW w \in Workers, Collect(w) PROVE IInv'
PROOF
  <1>1. /\ out[w] = Cardinality(Holders(w)) + orphans[w] + Slot(phase[w])
        /\ out[w] <= Capacity[w] /\ orphans[w] \in Nat /\ orphans[w] > 0
        /\ Cardinality(Holders(w)) \in Nat /\ Slot(phase[w]) \in 0..1
        /\ Capacity[w] \in Nat
    <2>1. out[w] = Cardinality(Holders(w)) + orphans[w] + Slot(phase[w])
          /\ out[w] <= Capacity[w]
      BY DEF IInv, PoolExact, Setting, Slot
    <2>2. orphans[w] \in Nat /\ orphans[w] > 0
      BY DEF Collect, IInv, TypeOK
    <2>3. Slot(phase[w]) \in 0..1 /\ Capacity[w] \in Nat
      BY WorkersAssumption DEF Slot, WorkersAssumption
    <2> QED
      BY <2>1, <2>2, <2>3, Finite
  <1>2. phase[w] = "serving"
    BY <1>1 DEF IInv, Quiet
  <1>3. phase' = [phase EXCEPT ![w] = "serving"] /\ out' = [out EXCEPT ![w] = out[w] - 1]
        /\ orphans' = [orphans EXCEPT ![w] = orphans[w] - 1]
        /\ UNCHANGED <<pc, left, verdict, table, locked, saw>>
        /\ UNCHANGED <<dbUp, redisUp, faults>> /\ cut' \subseteq cut
    BY <1>2 DEF Collect, IInv, TypeOK, workerVars, world
  <1>4. /\ out[w] - 1 \in Nat /\ orphans[w] - 1 \in Nat /\ out[w] - 1 <= Capacity[w]
        /\ (out[w] - 1) - (orphans[w] - 1) - Slot("serving")
              = out[w] - orphans[w] - Slot(phase[w])
    BY <1>1, <1>2
  <1>5. locked' = None \/ (locked' \in Workers /\ phase'[locked'] = "alter")
    BY <1>2, <1>3 DEF IInv, TypeOK
  <1>6. table /\ table' \in BOOLEAN /\ saw' \in [Workers -> BOOLEAN] /\ "serving" \in Phases
    BY <1>2, <1>3 DEF IInv, ServesOverTable, TypeOK, Phases
  <1> QED
    BY <1>2, <1>3, <1>4, <1>5, <1>6, PhaseMove

(* CrashKept: all of a crashed worker's connections and threads are gone.    *)
LEMMA CrashKept == ASSUME IInv, Observe, NEW w \in Workers, Crash(w) PROVE IInv'
PROOF
  <1>0. TypeOK /\ PoolExact /\ WithinThreads
    BY DEF IInv
  <1>1. /\ \A v \in Workers : phase'[v] = IF v = w THEN "boot" ELSE phase[v]
        /\ \A v \in Workers : out'[v] = IF v = w THEN 0 ELSE out[v]
        /\ \A v \in Workers : orphans'[v] = IF v = w THEN 0 ELSE orphans[v]
        /\ \A j \in Jobs :
              pc'[j] = IF WorkerOf[j] = w /\ Active(j) THEN "lost" ELSE pc[j]
    BY <1>0 DEF Crash, TypeOK, JobsOf
  <1>2. TypeOK'
    <2>1. phase' \in [Workers -> Phases] /\ out' \in [Workers -> Nat]
          /\ orphans' \in [Workers -> Nat] /\ pc' \in [Jobs -> PCs]
      BY <1>0 DEF Crash, TypeOK, Phases, PCs, Ended
    <2>2. \A j \in Jobs : Active(j)' => phase'[WorkerOf[j]] = "serving"
      BY <1>0, <1>1, WorkersAssumption DEF TypeOK, Active, Ended, WorkersAssumption
    <2>3. locked' = None \/ (locked' \in Workers /\ phase'[locked'] = "alter")
      BY <1>0, <1>1 DEF Crash, TypeOK
    <2>4. faults' \in 0..MaxFaults
      BY <1>0, JobsAssumption DEF Crash, Fault, TypeOK, JobsAssumption
    <2> QED
      BY <1>0, <2>1, <2>2, <2>3, <2>4 DEF Crash, TypeOK, PCs
  <1>3. Holders(w)' = {} /\ Running(w)' = {}
    BY <1>1 DEF Holders, Running, JobsOf, Holding, OnThread, Active, Ended
  <1>4. \A v \in Workers \ {w} : Holders(v)' = Holders(v) /\ Running(v)' = Running(v)
    BY <1>1 DEF Holders, Running, JobsOf
  <1>5. PoolExact'
    <2> SUFFICES ASSUME NEW v \in Workers
                 PROVE  /\ out'[v] = Cardinality(Holders(v)') + orphans'[v]
                                      + (IF Setting(v)' THEN 1 ELSE 0)
                        /\ out'[v] <= Capacity[v]
      BY DEF PoolExact
    <2>1. CASE v = w
      <3>1. ~Setting(v)' /\ Cardinality(Holders(v)') = 0
        BY <1>1, <1>3, <2>1, FS_EmptySet DEF Setting
      <3> QED
        BY <1>1, <2>1, <3>1, WorkersAssumption DEF WorkersAssumption
    <2>2. CASE v # w
      BY <1>0, <1>1, <1>4, <2>2 DEF PoolExact, Setting
    <2> QED
      BY <2>1, <2>2
  <1>6. WithinThreads'
    <2> SUFFICES ASSUME NEW v \in Workers PROVE Cardinality(Running(v)') <= Threads[v]
      BY DEF WithinThreads
    <2>1. CASE v = w
      BY <1>3, <2>1, FS_EmptySet, WorkersAssumption DEF WorkersAssumption
    <2>2. CASE v # w
      BY <1>0, <1>4, <2>2 DEF WithinThreads
    <2> QED
      BY <2>1, <2>2
  <1>7. Quiet' /\ ServesOverTable' /\ Owing'
    <2>1. Quiet' /\ ServesOverTable'
      BY <1>1 DEF IInv, Quiet, ServesOverTable, Crash
    <2> QED
      BY <1>1, <2>1 DEF IInv, Owing, Unfinished, OnThread, Crash
  <1>8. HealthInv'
    <2>1. ASSUME NEW j \in Jobs, ~Queries(j) PROVE Witnessed(j)'
      <3>1. pc[j] # "failed"
        BY <2>1 DEF IInv, HealthInv, Witnessed
      <3>2. pc'[j] # "failed" /\ (pc'[j] \in {"ping", "done"} => pc'[j] = pc[j])
        BY <1>1, <3>1
      <3> QED
        BY <2>1, <3>2, WitnessKept DEF Crash
    <2> QED
      BY <2>1 DEF HealthInv, Queries
  <1>9. CutSeen'
    <2>1. cut' \subseteq cut
      BY DEF Crash
    <2> QED
      BY <1>1, <2>1, CutKept
  <1> QED
    BY <1>2, <1>5, <1>6, <1>7, <1>8, <1>9, Observed DEF IInv

(* WorldKept: PostgreSQL and Redis come and go around workers and jobs.      *)
LEMMA WorldKept ==
    ASSUME IInv, Observe, Outage \/ Recovery \/ RedisTurns
    PROVE  IInv'
PROOF
  <1>1. UNCHANGED <<phase, saw, table, jobVars>> /\ locked' \in {locked, None}
    BY DEF Outage, Recovery, RedisTurns, workerVars
  <1>2. dbUp' \in BOOLEAN /\ redisUp' \in BOOLEAN /\ faults' \in 0..MaxFaults
    <2>1. dbUp \in BOOLEAN /\ redisUp \in BOOLEAN /\ faults \in 0..MaxFaults /\ MaxFaults \in Nat
      BY JobsAssumption DEF IInv, TypeOK, JobsAssumption
    <2>2. CASE Outage
      <3>1. faults' \in 0..MaxFaults
        BY <2>1, <2>2 DEF Outage, Fault
      <3> QED
        BY <2>1, <2>2, <3>1 DEF Outage
    <2>3. CASE Recovery
      BY <2>1, <2>3 DEF Recovery
    <2>4. CASE RedisTurns
      <3>1. CASE redisUp
        BY <2>1, <2>4, <3>1 DEF RedisTurns, Fault
      <3>2. CASE ~redisUp
        BY <2>1, <2>4, <3>2 DEF RedisTurns
      <3>3. redisUp' \in BOOLEAN
        BY <2>4 DEF RedisTurns
      <3> QED
        BY <3>1, <3>2
    <2> QED
      BY <2>2, <2>3, <2>4
  <1>3. TypeOK'
    <2>1. cut' \subseteq Jobs \cup Workers
      BY DEF IInv, TypeOK, Outage, Recovery, RedisTurns
    <2> QED
      BY <1>1, <1>2, <2>1 DEF IInv, TypeOK, jobVars, Active
  <1>4. PoolExact' /\ Quiet' /\ ServesOverTable' /\ Owing'
    BY <1>1 DEF IInv, PoolExact, Quiet, ServesOverTable, Owing, Setting, Holders, JobsOf,
                jobVars
  <1>5. HealthInv' /\ WithinThreads'
    BY <1>1, WorkerMove DEF jobVars
  <1>6. CutSeen'
    <2>1. CASE Recovery \/ RedisTurns
      <3>1. cut' = cut
        BY <2>1 DEF Recovery, RedisTurns
      <3> QED
        BY <1>1, <3>1, CutKept DEF jobVars
    <2>2. CASE Outage
      <3>1. ~dbUp' /\ \A j \in Jobs \cap cut' : j \in cut \/ pc[j] \in Holding
        BY <2>2, WorkersAssumption DEF Outage, WorkersAssumption
      <3>2. \A j \in Jobs : j \in cut' /\ ~Queries(j) => pc[j] # "new"
        BY <3>1 DEF IInv, CutSeen, Holding
      <3> QED
        BY <1>1, <3>1, <3>2 DEF CutSeen, Queries, jobVars
    <2> QED
      BY <2>1, <2>2
  <1> QED
    BY <1>3, <1>4, <1>5, <1>6, Observed DEF IInv

-----------------------------------------------------------------------------
(* Account: what an active job knows of its worker's pool.                   *)
LEMMA Account ==
    ASSUME IInv, NEW j \in Jobs
    PROVE  LET w == WorkerOf[j] IN
           /\ w \in Workers /\ Capacity[w] \in Nat \ {0}
           /\ out[w] \in Nat /\ orphans[w] \in Nat /\ out[w] <= Capacity[w]
           /\ pc[j] \in Holding => out[w] > orphans[w]
           /\ Active(j) => phase[w] = "serving"
           /\ dbUp \in BOOLEAN /\ redisUp \in BOOLEAN /\ faults \in 0..MaxFaults
           /\ left[j] \in Nat /\ (pc[j] \in Unfinished => left[j] > 0)
           /\ left = [left EXCEPT ![j] = left[j]]
           /\ verdict \in [Jobs -> SUBSET {"db", "redis"}]
           /\ out = [out EXCEPT ![w] = out[w]]
           /\ orphans = [orphans EXCEPT ![w] = orphans[w]]
           /\ ~Queries(j) => Witnessed(j)
PROOF
  <1> DEFINE w == WorkerOf[j]
  <1>1. w \in Workers /\ Capacity[w] \in Nat \ {0}
    BY WorkersAssumption DEF WorkersAssumption
  <1>2. out[w] \in Nat /\ orphans[w] \in Nat /\ out[w] <= Capacity[w]
    BY <1>1 DEF IInv, TypeOK, PoolExact
  <1>3. ASSUME pc[j] \in Holding PROVE out[w] > orphans[w]
    <2>1. j \in Holders(w)
      BY <1>3 DEF Holders, JobsOf
    <2>2. Cardinality(Holders(w)) > 0
      BY <2>1, Finite, FS_EmptySet
    <2>3. out[w] = Cardinality(Holders(w)) + orphans[w] + (IF Setting(w) THEN 1 ELSE 0)
      BY <1>1 DEF IInv, PoolExact
    <2> QED
      BY <1>2, <2>2, <2>3, Finite
  <1>4. /\ Active(j) => phase[w] = "serving"
        /\ dbUp \in BOOLEAN /\ redisUp \in BOOLEAN /\ faults \in 0..MaxFaults
        /\ left[j] \in Nat /\ (pc[j] \in Unfinished => left[j] > 0)
        /\ left = [left EXCEPT ![j] = left[j]]
        /\ verdict \in [Jobs -> SUBSET {"db", "redis"}]
        /\ out = [out EXCEPT ![w] = out[w]] /\ orphans = [orphans EXCEPT ![w] = orphans[w]]
        /\ ~Queries(j) => Witnessed(j)
    BY DEF IInv, TypeOK, HealthInv, Owing
  <1> QED
    BY <1>1, <1>2, <1>3, <1>4

(* QueueKept: a job's steps to its thread and through the pool to the table. *)
LEMMA QueueKept ==
    ASSUME IInv, Observe, NEW j \in Jobs,
           Submit(j) \/ Begin(j) \/ Checkout(j) \/ Cursor(j) \/ Lock(j)
    PROVE  IInv'
PROOF
  <1> DEFINE w == WorkerOf[j]
             x == IF Submit(j) THEN "queued" ELSE IF Begin(j) THEN "checkout"
                  ELSE IF Checkout(j) THEN "cursor"
                  ELSE IF Cursor(j) THEN (IF Queries(j) THEN "lock" ELSE "exec") ELSE "exec"
             m == IF Checkout(j) THEN out[w] + 1 ELSE out[w]
  <1>1. /\ pc' = [pc EXCEPT ![j] = x] /\ x \in PCs
        /\ UNCHANGED <<workerVars, left, orphans, verdict, world>>
        /\ x \notin {"ping", "done", "failed", "new"} /\ pc[j] \in Unfinished
        /\ pc[j] = "new" \/ Active(j)
    BY DEF Submit, Begin, Checkout, Cursor, Lock, PCs, OnThread, Unfinished, Active, Ended
  <1>2. phase[w] = "serving"
    <2>1. CASE Submit(j)
      BY <2>1 DEF Submit
    <2>2. CASE ~Submit(j)
      BY <2>2, Account DEF Begin, Checkout, Cursor, Lock, Active, Ended
    <2> QED
      BY <2>1, <2>2
  <1>3. /\ m \in Nat /\ out' = [out EXCEPT ![w] = m] /\ m <= Capacity[w]
        /\ m - orphans[w] - Hold(x) = out[w] - orphans[w] - Hold(pc[j])
    <2>1. CASE Checkout(j)
      BY <2>1, Account DEF Submit, Begin, Checkout, Full, Hold, Holding
    <2>2. CASE ~Checkout(j)
      <3>1. m = out[w] /\ out' = out
        BY <2>2 DEF Submit, Begin, Cursor, Lock
      <3>2. Hold(x) = Hold(pc[j])
        BY <2>2 DEF Submit, Begin, Cursor, Lock, Hold, Holding
      <3> QED
        BY <3>1, <3>2, Account
    <2> QED
      BY <2>1, <2>2
  <1>4. x \in OnThread /\ pc[j] \notin OnThread => ThreadFree(w)
    BY DEF Submit, Begin, Checkout, Cursor, Lock, OnThread
  <1>5. ~Queries(j) => Witnessed(j)'
    <2>1. pc'[j] = x /\ verdict' = verdict
      BY <1>1 DEF IInv, TypeOK
    <2> QED
      BY <1>1, <2>1, WitnessKept
  <1> QED
    BY <1>1, <1>2, <1>3, <1>4, <1>5, Account, JobMove DEF world

(* FailureWitnessed: a check that fails without a database, or at an         *)
(* exhausted pool, says no more than it has met.                             *)
LEMMA FailureWitnessed ==
    ASSUME IInv, Observe, NEW j \in Jobs, Active(j), End(j, FALSE),
           ~Queries(j) => Lost(j) \/ (pc[j] = "checkout" /\ Full(WorkerOf[j]))
    PROVE  /\ \E x \in PCs \ Unfinished : Hold(x) = 0 /\ pc' = [pc EXCEPT ![j] = x]
           /\ verdict' \in [Jobs -> SUBSET {"db", "redis"}]
           /\ \A i \in Jobs \ {j} : verdict'[i] = verdict[i]
           /\ ~Queries(j) => Witnessed(j)'
PROOF
  <1>1. /\ pc' = [pc EXCEPT ![j] = IF ~Queries(j) THEN "ping" ELSE "failed"]
        /\ verdict' = [verdict EXCEPT ![j] = @ \cup {"db"}]
    BY DEF End, AfterLast
  <1>2. /\ verdict' \in [Jobs -> SUBSET {"db", "redis"}]
        /\ \A i \in Jobs \ {j} : verdict'[i] = verdict[i]
        /\ verdict'[j] = verdict[j] \cup {"db"}
    BY <1>1, Account
  <1>3. ASSUME ~Queries(j) PROVE Witnessed(j)'
    <2>1. pc'[j] = "ping"
      BY <1>1, <1>3 DEF IInv, TypeOK
    <2>2. j \in cut => ~dbUp \/ "no db" \in during[j]
      BY <1>3 DEF IInv, CutSeen
    <2>3. {"no db", "full"} \cap during'[j] # {} /\ during[j] \subseteq during'[j]
      BY <1>3, <2>2, Observed DEF IInv, Lost
    <2> QED
      BY <1>2, <1>3, <2>1, <2>3, Account DEF Witnessed
  <1>4. \A x \in {"ping", "failed"} : x \in PCs \ Unfinished /\ Hold(x) = 0
    BY DEF PCs, OnThread, Ended, Unfinished, Hold, Holding
  <1> QED
    BY <1>1, <1>2, <1>3, <1>4

(* CheckoutFailsKept, CursorFailsKept, RollbackKept: each way a get_cursor   *)
(* block ends in an exception.                                               *)
LEMMA CheckoutFailsKept ==
    ASSUME IInv, Observe, NEW j \in Jobs, CheckoutFails(j) PROVE IInv'
PROOF
  <1>1. Active(j) /\ End(j, FALSE) /\ Hold(pc[j]) = 0
        /\ (Lost(j) \/ (pc[j] = "checkout" /\ Full(WorkerOf[j])))
        /\ UNCHANGED <<workerVars, left, out, orphans, world>>
    BY DEF CheckoutFails, Lost, Active, Ended, Hold, Holding
  <1>2. PICK x \in PCs \ Unfinished : Hold(x) = 0 /\ pc' = [pc EXCEPT ![j] = x]
    BY <1>1, FailureWitnessed
  <1>9. /\ verdict' \in [Jobs -> SUBSET {"db", "redis"}]
        /\ \A i \in Jobs \ {j} : verdict'[i] = verdict[i]
        /\ ~Queries(j) => Witnessed(j)'
    BY <1>1, FailureWitnessed
  <1> QED
    BY <1>1, <1>2, <1>9, Account, JobMove DEF world, Unfinished

LEMMA CursorFailsKept ==
    ASSUME IInv, Observe, NEW j \in Jobs, CursorFails(j) PROVE IInv'
PROOF
  <1> DEFINE w == WorkerOf[j]
  <1>1. Active(j) /\ End(j, FALSE) /\ Lost(j) /\ Hold(pc[j]) = 1
        /\ UNCHANGED <<workerVars, left, out, world>>
        /\ orphans' = [orphans EXCEPT ![w] = orphans[w] + 1]
    BY DEF CursorFails, Active, Ended, Hold, Holding
  <1>2. PICK x \in PCs \ Unfinished : Hold(x) = 0 /\ pc' = [pc EXCEPT ![j] = x]
    BY <1>1, FailureWitnessed
  <1>3. /\ orphans[w] + 1 \in Nat
        /\ out[w] - (orphans[w] + 1) - Hold(x) = out[w] - orphans[w] - Hold(pc[j])
    <2>1. out[w] \in Nat /\ orphans[w] \in Nat
      BY Account
    <2> QED
      BY <1>1, <1>2, <2>1
  <1>9. /\ verdict' \in [Jobs -> SUBSET {"db", "redis"}]
        /\ \A i \in Jobs \ {j} : verdict'[i] = verdict[i]
        /\ ~Queries(j) => Witnessed(j)'
    BY <1>1, FailureWitnessed
  <1> QED
    BY <1>1, <1>2, <1>3, <1>9, Account, JobMove DEF world, Unfinished

LEMMA RollbackKept ==
    ASSUME IInv, Observe, NEW j \in Jobs, Rollback(j) PROVE IInv'
PROOF
  <1> DEFINE w == WorkerOf[j]
  <1>1. Active(j) /\ End(j, FALSE) /\ (~Queries(j) => Lost(j)) /\ Hold(pc[j]) = 1
        /\ UNCHANGED <<workerVars, left, orphans, dbUp, redisUp, cut>>
        /\ out' = [out EXCEPT ![w] = out[w] - 1] /\ pc[j] \in Holding
    BY DEF Rollback, Returned, Active, Ended, Hold, Holding
  <1>2. PICK x \in PCs \ Unfinished : Hold(x) = 0 /\ pc' = [pc EXCEPT ![j] = x]
    BY <1>1, FailureWitnessed
  <1>3. faults' \in 0..MaxFaults
    BY Account, JobsAssumption DEF Rollback, Fault, JobsAssumption
  <1>4. /\ out[w] - 1 \in Nat /\ out[w] - 1 <= Capacity[w]
        /\ (out[w] - 1) - orphans[w] - Hold(x) = out[w] - orphans[w] - Hold(pc[j])
    <2>1. /\ out[w] \in Nat /\ orphans[w] \in Nat /\ out[w] > orphans[w]
          /\ out[w] <= Capacity[w] /\ Capacity[w] \in Nat
      BY <1>1, Account
    <2> QED
      BY <1>1, <1>2, <2>1
  <1>9. /\ verdict' \in [Jobs -> SUBSET {"db", "redis"}]
        /\ \A i \in Jobs \ {j} : verdict'[i] = verdict[i]
        /\ ~Queries(j) => Witnessed(j)'
    BY <1>1, FailureWitnessed
  <1> QED
    BY <1>1, <1>2, <1>3, <1>4, <1>9, Account, JobMove DEF Unfinished

(* CommitKept: the connection goes back, and the next statement asks again.  *)
LEMMA CommitKept ==
    ASSUME IInv, Observe, NEW j \in Jobs, Commit(j) PROVE IInv'
PROOF
  <1> DEFINE w == WorkerOf[j]
  <1>1. Active(j) /\ dbUp /\ pc[j] \in Holding /\ pc[j] \in OnThread /\ Hold(pc[j]) = 1
        /\ verdict' = verdict /\ UNCHANGED <<workerVars, orphans, world>>
        /\ out' = [out EXCEPT ![w] = out[w] - 1]
        /\ left' = [left EXCEPT ![j] = left[j] - 1]
    BY DEF Commit, Returned, Lost, End, Active, Ended, Hold, Holding, OnThread
  <1>2. left[j] \in Nat /\ left[j] > 0
    BY <1>1, Account DEF Unfinished
  <1>3. PICK x \in PCs \ {"new"} : /\ Hold(x) = 0 /\ pc' = [pc EXCEPT ![j] = x]
                                   /\ x \in Unfinished => left[j] > 1
                                   /\ ~Queries(j) => x \in {"checkout", "ping"}
    <2>1. CASE left[j] > 1
      <3>1. "checkout" \in PCs /\ Hold("checkout") = 0
        BY DEF PCs, OnThread, Hold, Holding
      <3>2. pc' = [pc EXCEPT ![j] = "checkout"]
        BY <2>1 DEF Commit
      <3> QED
        BY <2>1, <3>1, <3>2
    <2>2. CASE ~(left[j] > 1)
      <3>1. pc' = [pc EXCEPT ![j] = IF ~Queries(j) THEN "ping" ELSE "done"]
        BY <2>2 DEF Commit, End, AfterLast
      <3>2. \A x \in {"ping", "done"} : x \in PCs /\ Hold(x) = 0 /\ x \notin Unfinished
        BY DEF PCs, OnThread, Ended, Unfinished, Hold, Holding
      <3> QED
        BY <3>1, <3>2
    <2> QED
      BY <2>1, <2>2
  <1>4. /\ out[w] - 1 \in Nat /\ out[w] - 1 <= Capacity[w]
        /\ (out[w] - 1) - orphans[w] - Hold(x) = out[w] - orphans[w] - Hold(pc[j])
    <2>1. /\ out[w] \in Nat /\ orphans[w] \in Nat /\ out[w] > orphans[w]
          /\ out[w] <= Capacity[w] /\ Capacity[w] \in Nat
      BY <1>1, Account
    <2> QED
      BY <1>1, <1>3, <2>1
  <1>5. ASSUME ~Queries(j) PROVE Witnessed(j)'
    <2>1. pc'[j] = x /\ x \in {"checkout", "ping"}
      BY <1>3, <1>5 DEF IInv, TypeOK
    <2>2. "db" \in during'[j] /\ during[j] \subseteq during'[j]
      BY <1>1, <1>5, Observed
    <2> QED
      BY <1>1, <1>5, <2>1, <2>2, Account DEF Witnessed
  <1>6. left[j] - 1 \in Nat /\ (x \in Unfinished => left[j] - 1 > 0)
    BY <1>2, <1>3
  <1> QED
    BY <1>1, <1>3, <1>4, <1>5, <1>6, Account, JobMove DEF world

(* PingKept: the second half of the health check.                            *)
LEMMA PingKept ==
    ASSUME IInv, Observe, NEW j \in Jobs, Ping(j) PROVE IInv'
PROOF
  <1>1. Active(j) /\ pc[j] = "ping" /\ pc' = [pc EXCEPT ![j] = "done"]
        /\ UNCHANGED <<workerVars, left, out, orphans, world>>
        /\ verdict' = IF redisUp THEN verdict ELSE [verdict EXCEPT ![j] = @ \cup {"redis"}]
    BY DEF Ping, Active, Ended
  <1>2. /\ verdict' \in [Jobs -> SUBSET {"db", "redis"}]
        /\ \A i \in Jobs \ {j} : verdict'[i] = verdict[i]
        /\ verdict'[j] = IF redisUp THEN verdict[j] ELSE verdict[j] \cup {"redis"}
    BY <1>1, Account
  <1>3. Hold("done") = Hold(pc[j]) /\ "done" \in PCs \ Unfinished
    BY <1>1 DEF Hold, Holding, PCs, OnThread, Ended, Unfinished
  <1>4. ASSUME ~Queries(j) PROVE Witnessed(j)'
    <2>1. pc'[j] = "done"
      BY <1>1 DEF IInv, TypeOK
    <2>2. /\ during[j] \subseteq during'[j]
          /\ redisUp => "redis" \in during'[j]
          /\ ~redisUp => "no redis" \in during'[j]
      BY <1>1, <1>4, Observed
    <2> QED
      BY <1>1, <1>2, <1>4, <2>1, <2>2, Account DEF Witnessed
  <1> QED
    BY <1>1, <1>2, <1>3, <1>4, Account, JobMove DEF world, Unfinished

-----------------------------------------------------------------------------
(* Inductive: the invariant holds throughout.                                *)
LEMMA Inductive == Spec => []IInv
PROOF
  <1>1. Init => IInv
    <2> SUFFICES ASSUME Init PROVE IInv
      OBVIOUS
    <2>1. TypeOK /\ during \in [Jobs -> SUBSET Marks]
      BY JobsAssumption DEF Init, TypeOK, Phases, Active, JobsAssumption
    <2>2. \A w \in Workers : Holders(w) = {} /\ Running(w) = {}
      BY DEF Init, Holders, Running, JobsOf, Holding, OnThread
    <2>3. \A w \in Workers : Cardinality(Holders(w)) = 0 /\ Cardinality(Running(w)) = 0
      BY <2>2, FS_EmptySet
    <2>5. \A w \in Workers : out[w] = 0 /\ orphans[w] = 0 /\ ~Setting(w)
      BY DEF Init, Setting
    <2>6. PoolExact
      BY <2>3, <2>5, WorkersAssumption DEF PoolExact, WorkersAssumption
    <2>7. WithinThreads
      BY <2>3, WorkersAssumption DEF WithinThreads, WorkersAssumption
    <2>8. Owing
      BY JobsAssumption DEF Init, Owing, JobsAssumption
    <2>4. Quiet /\ ServesOverTable /\ HealthInv /\ CutSeen
      BY DEF Init, Quiet, ServesOverTable, HealthInv, Witnessed, CutSeen
    <2> QED
      BY <2>1, <2>4, <2>6, <2>7, <2>8 DEF IInv
  <1>2. IInv /\ [Next]_vars => IInv'
    <2> SUFFICES ASSUME IInv, [Next]_vars PROVE IInv'
      OBVIOUS
    <2>1. CASE Next
      BY <2>1, BootKept, AlterKept, ServeKept, BootFailsKept, CrashKept, CollectKept,
         QueueKept, CheckoutFailsKept, CursorFailsKept, RollbackKept, CommitKept,
         PingKept, WorldKept DEF Next, Steps
    <2>2. CASE UNCHANGED vars
      <3>1. TypeOK' /\ during' \in [Jobs -> SUBSET Marks]
        BY <2>2 DEF vars, workerVars, jobVars, world, IInv, TypeOK, Active
      <3>2. PoolExact' /\ WithinThreads' /\ Quiet' /\ ServesOverTable'
        BY <2>2 DEF vars, workerVars, jobVars, IInv, PoolExact, WithinThreads, Quiet,
           ServesOverTable, Setting, Holders, Running, JobsOf
      <3>3. HealthInv' /\ Owing' /\ CutSeen'
        BY <2>2 DEF vars, jobVars, world, IInv, HealthInv, Owing, Witnessed, Queries,
           CutSeen, Active
      <3> QED
        BY <3>1, <3>2, <3>3 DEF IInv
    <2> QED
      BY <2>1, <2>2
  <1> QED
    BY <1>1, <1>2, PTL DEF Spec

(* TypeCorrect: TypeOK; only a worker that alters holds the lock, only one   *)
(* that serves has active jobs.                                              *)
THEOREM TypeCorrect == Spec => []TypeOK
PROOF
  <1>1. IInv => TypeOK
    BY DEF IInv
  <1> QED
    BY <1>1, Inductive, PTL

(* NothingLeaks: PoolExact, through every exception, collection and crash.   *)
THEOREM NothingLeaks == Spec => []PoolExact
PROOF
  <1>1. IInv => PoolExact
    BY DEF IInv
  <1> QED
    BY <1>1, Inductive, PTL

(* ThreadsExhaustPools: WaitsOnlyForThreads; a worker with no more threads   *)
(* than connections, and no orphans, never keeps a statement waiting.        *)
THEOREM ThreadsExhaustPools == Spec => []WaitsOnlyForThreads
PROOF
  <1>1. IInv => WaitsOnlyForThreads
    <2> SUFFICES ASSUME IInv, NEW j \in Jobs, pc[j] = "checkout", Full(WorkerOf[j]),
                        orphans[WorkerOf[j]] <= 0
                 PROVE  Threads[WorkerOf[j]] > Capacity[WorkerOf[j]]
      BY Account DEF WaitsOnlyForThreads
    <2> DEFINE w == WorkerOf[j]
    <2>1. j \in Running(w) \ Holders(w) /\ Holders(w) \subseteq Running(w)
      BY DEF Running, Holders, JobsOf, OnThread, Holding
    <2>2. Cardinality(Holders(w)) < Cardinality(Running(w))
      <3>1. Holders(w) \cup {j} \subseteq Running(w) /\ j \notin Holders(w)
        BY <2>1
      <3>2. Cardinality(Holders(w) \cup {j}) = Cardinality(Holders(w)) + 1
        BY <3>1, Finite, FS_AddElement
      <3>3. Cardinality(Holders(w) \cup {j}) <= Cardinality(Running(w))
        BY <3>1, Finite, FS_Subset
      <3> QED
        BY <3>2, <3>3, Finite
    <2>3. Cardinality(Running(w)) <= Threads[w] /\ Threads[w] \in Nat
      BY Account, WorkersAssumption DEF IInv, WithinThreads, WorkersAssumption
    <2>4. out[w] = Cardinality(Holders(w)) /\ out[w] >= Capacity[w]
      <3>1. ~Setting(w) /\ orphans[w] = 0
        BY Account DEF Setting, Active, Ended
      <3> QED
        BY <3>1, Account, Finite DEF IInv, PoolExact, Full
    <2> QED
      BY <2>2, <2>3, <2>4, Finite, Account
  <1> QED
    BY <1>1, Inductive, PTL

(* TableBeforeService: ServesOverTable, whoever made the table.              *)
THEOREM TableBeforeService == Spec => []ServesOverTable
PROOF
  <1>1. IInv => ServesOverTable
    BY DEF IInv
  <1> QED
    BY <1>1, Inductive, PTL

(* HealthTells: HealthHonest, for any outages and any load on the pool.      *)
THEOREM HealthTells == Spec => []HealthHonest
PROOF
  <1>1. IInv => HealthHonest
    BY DEF IInv, HealthInv, Witnessed, HealthHonest
  <1> QED
    BY <1>1, Inductive, PTL

-----------------------------------------------------------------------------
(* What a job does itself; a crash of its worker is done to it.              *)
StepOf(j) ==
    \/ Submit(j) \/ Begin(j) \/ Checkout(j) \/ CheckoutFails(j) \/ Cursor(j)
    \/ CursorFails(j) \/ Lock(j) \/ Commit(j) \/ Rollback(j) \/ Ping(j)

(* How many steps a job has before it at most: four for each statement, the  *)
(* way to its thread, and a ping.                                            *)
StepsLeft(j) ==
    CASE pc[j] = "new" -> 4 * left[j] + 3
      [] pc[j] = "queued" -> 4 * left[j] + 2
      [] pc[j] = "checkout" -> 4 * left[j] + 1
      [] pc[j] = "cursor" -> 4 * left[j]
      [] pc[j] = "lock" -> 4 * left[j] - 1
      [] pc[j] = "exec" -> 4 * left[j] - 2
      [] pc[j] = "ping" -> 1
      [] OTHER -> 0

Fits == \A j \in Jobs : left[j] <= Statements[j]

Bounded(j) == StepsLeft(j) \in 0..4 * Statements[j] + 3

(* JobFacts: what the invariant says of one job's counters.                  *)
LEMMA JobFacts ==
    ASSUME IInv, NEW j \in Jobs
    PROVE  /\ left[j] \in Nat /\ Statements[j] \in Nat /\ pc[j] \in PCs
           /\ pc[j] \in Unfinished => left[j] >= 1
           /\ StepsLeft(j) \in Nat
PROOF
  <1>1. left[j] \in Nat /\ Statements[j] \in Nat /\ pc[j] \in PCs
    BY JobsAssumption DEF IInv, TypeOK, PCs, JobsAssumption
  <1>2. pc[j] \in Unfinished => left[j] >= 1
    BY <1>1 DEF IInv, Owing
  <1> QED
    BY <1>1, <1>2 DEF StepsLeft, PCs, Unfinished, OnThread, Ended

(* JobsFrame: the step of one job leaves the others where they are.          *)
LEMMA JobsFrame ==
    ASSUME IInv, NEW i \in Jobs, NEW j \in Jobs, i # j, StepOf(i)
    PROVE  pc'[j] = pc[j] /\ left'[j] = left[j]
PROOF
  <1> USE DEF IInv, TypeOK
  <1>1. CASE Submit(i) \/ Begin(i) \/ Checkout(i) \/ Cursor(i) \/ Lock(i) \/ Ping(i)
    BY <1>1 DEF Submit, Begin, Checkout, Cursor, Lock, Ping
  <1>2. CASE CheckoutFails(i) \/ CursorFails(i) \/ Rollback(i)
    BY <1>2 DEF CheckoutFails, CursorFails, Rollback, End
  <1>3. CASE Commit(i)
    BY <1>3 DEF Commit, End
  <1> QED
    BY <1>1, <1>2, <1>3 DEF StepOf

(* JobsFewer: each step of a job is one of those it had before it.           *)
LEMMA JobsFewer ==
    ASSUME IInv, IInv', NEW j \in Jobs, StepOf(j)
    PROVE  StepsLeft(j)' < StepsLeft(j) /\ left'[j] <= left[j]
PROOF
  <1>1. left[j] \in Nat /\ (pc[j] \in Unfinished => left[j] >= 1)
    BY JobFacts
  <1>2. pc \in [Jobs -> PCs] /\ left \in [Jobs -> Nat]
    BY DEF IInv, TypeOK, PCs
  <1> USE DEF StepsLeft
  <1>3. CASE Submit(j) \/ Begin(j) \/ Checkout(j)
    BY <1>1, <1>2, <1>3 DEF Submit, Begin, Checkout
  <1>4. CASE Cursor(j) \/ Lock(j)
    BY <1>1, <1>2, <1>4 DEF Cursor, Lock
  <1>5. CASE CheckoutFails(j) \/ CursorFails(j) \/ Rollback(j)
    <2>1. pc'[j] \in {"ping", "done", "failed"} /\ left' = left
          /\ pc[j] \in {"checkout", "cursor", "lock", "exec"}
      BY <1>2, <1>5 DEF CheckoutFails, CursorFails, Rollback, End, AfterLast
    <2>2. left[j] >= 1
      BY <1>1, <2>1 DEF Unfinished, OnThread
    <2> QED
      BY <1>1, <2>1, <2>2
  <1>6. CASE Commit(j)
    <2>1. /\ pc[j] = "exec" /\ left'[j] = left[j] - 1
          /\ pc'[j] \in {"ping", "done", "failed"} \/ (left[j] > 1 /\ pc'[j] = "checkout")
      BY <1>2, <1>6 DEF Commit, End, AfterLast
    <2>2. left[j] >= 1
      BY <1>1, <2>1 DEF Unfinished, OnThread
    <2> QED
      BY <1>1, <2>1, <2>2
  <1>7. CASE Ping(j)
    BY <1>1, <1>2, <1>7 DEF Ping
  <1> QED
    BY <1>3, <1>4, <1>5, <1>6, <1>7 DEF StepOf

(* NeverMoreSteps: no step of anybody adds to what a job has before it.      *)
LEMMA NeverMoreSteps ==
    ASSUME IInv, IInv', [Next]_vars, NEW j \in Jobs
    PROVE  /\ StepsLeft(j)' <= StepsLeft(j) /\ left'[j] <= left[j]
           /\ StepOf(j) => StepsLeft(j)' < StepsLeft(j)
PROOF
  <1>1. StepsLeft(j) \in Nat /\ StepsLeft(j)' \in Nat /\ left[j] \in Nat
    <2>1. ASSUME IInv PROVE StepsLeft(j) \in Nat /\ left[j] \in Nat
      BY JobFacts
    <2>2. StepsLeft(j)' \in Nat
      <3>1. left'[j] \in Nat /\ pc'[j] \in PCs /\ (pc'[j] \in Unfinished => left'[j] >= 1)
        BY DEF IInv, TypeOK, Owing, PCs
      <3> QED
        BY <3>1 DEF StepsLeft, PCs, Unfinished, OnThread, Ended
    <2> QED
      BY <2>1, <2>2
  <1>2. CASE StepOf(j)
    BY <1>1, <1>2, JobsFewer
  <1>3. ASSUME NEW i \in Jobs, i # j, StepOf(i)
        PROVE  pc'[j] = pc[j] /\ left'[j] = left[j]
    BY <1>3, JobsFrame
  <1>4. ASSUME NEW w \in Workers, Crash(w)
        PROVE  pc'[j] \in {pc[j], "lost"} /\ left'[j] = left[j]
    BY <1>4 DEF Crash
  <1>5. ASSUME NEW w \in Workers,
               Boot(w) \/ Alter(w) \/ Serve(w) \/ BootFails(w) \/ Collect(w)
        PROVE  pc'[j] = pc[j] /\ left'[j] = left[j]
    BY <1>5 DEF Boot, Alter, Serve, BootFails, Collect, jobVars
  <1>6. ASSUME Outage \/ Recovery \/ RedisTurns \/ UNCHANGED vars
        PROVE  pc'[j] = pc[j] /\ left'[j] = left[j]
    BY <1>6 DEF Outage, Recovery, RedisTurns, vars, jobVars
  <1>7. CASE ~StepOf(j)
    <2>1. \/ \E w \in Workers :
                Crash(w) \/ Boot(w) \/ Alter(w) \/ Serve(w) \/ BootFails(w) \/ Collect(w)
          \/ \E i \in Jobs : StepOf(i)
          \/ Outage \/ Recovery \/ RedisTurns \/ UNCHANGED vars
      BY DEF Next, Steps, StepOf
    <2>3. pc'[j] \in {pc[j], "lost"} /\ left'[j] = left[j]
      BY <1>3, <1>4, <1>5, <1>6, <1>7, <2>1
    <2>2. StepsLeft(j)' = StepsLeft(j) \/ StepsLeft(j)' = 0
      BY <2>3 DEF StepsLeft
    <2> QED
      BY <1>1, <1>7, <2>2, <2>3
  <1> QED
    BY <1>1, <1>2, <1>7, JobsFewer

(* JobsAreBounded: whatever fails and whoever contends with it, a job comes  *)
(* to its end in at most 4n + 3 steps for n statements: none is tried again, *)
(* and no step of another sends it back.  So a job that does not end waits   *)
(* for a thread, a lock or the database.                                     *)
THEOREM JobsAreBounded ==
    Spec => /\ [](\A j \in Jobs : Bounded(j))
            /\ [][\A j \in Jobs : /\ StepsLeft(j)' <= StepsLeft(j)
                                  /\ StepOf(j) => StepsLeft(j)' < StepsLeft(j)]_vars
PROOF
  <1> DEFINE Bounds == \A j \in Jobs : Bounded(j)
             Shorter == \A j \in Jobs : /\ StepsLeft(j)' <= StepsLeft(j)
                                        /\ StepOf(j) => StepsLeft(j)' < StepsLeft(j)
  <1>1. Init => Fits
    BY JobsAssumption DEF Init, Fits, JobsAssumption
  <1>2. IInv /\ IInv' /\ Fits /\ [Next]_vars => Fits'
    <2> SUFFICES ASSUME IInv, IInv', Fits, [Next]_vars, NEW j \in Jobs
                 PROVE  left'[j] <= Statements[j]
      BY DEF Fits
    <2>1. left'[j] <= left[j] /\ left[j] <= Statements[j]
      BY NeverMoreSteps DEF Fits
    <2>2. left[j] \in Nat /\ Statements[j] \in Nat /\ left'[j] \in Nat
      BY JobFacts DEF IInv, TypeOK
    <2> QED
      BY <2>1, <2>2
  <1>3. IInv /\ Fits => Bounds
    <2> SUFFICES ASSUME IInv, Fits, NEW j \in Jobs PROVE Bounded(j)
      OBVIOUS
    <2>1. /\ left[j] \in Nat /\ Statements[j] \in Nat /\ left[j] <= Statements[j]
          /\ StepsLeft(j) \in Nat
      BY JobFacts DEF Fits
    <2> QED
      BY <2>1 DEF Bounded, StepsLeft
  <1>4. IInv /\ IInv' /\ [Next]_vars => [Shorter]_vars
    BY NeverMoreSteps
  <1> HIDE DEF Bounds, Shorter
  <1>5. Spec => []Bounds /\ [][Shorter]_vars
    BY <1>1, <1>2, <1>3, <1>4, Inductive, PTL DEF Spec
  <1> QED
    BY <1>5 DEF Bounds, Shorter

-----------------------------------------------------------------------------
(* Where a job has a step of JobStep to take, and a worker one of WorkerStep.*)
CanStep(j) ==
    \/ pc[j] \in {"checkout", "cursor", "exec", "ping"}
    \/ pc[j] = "queued" /\ ThreadFree(WorkerOf[j])
    \/ pc[j] = "lock" /\ (locked = None \/ Lost(j))

CanSetUp(w) ==
    \/ phase[w] = "boot" /\ dbUp
    \/ phase[w] = "create" /\ Lost(w)
    \/ phase[w] = "create" /\ locked = None /\ CreateClashes(w)
    \/ phase[w] = "create" /\ locked = None
       /\ \A j \in Jobs \ cut : pc[j] = "exec" => ~Queries(j)
    \/ phase[w] = "alter"

NobodyStuck ==
    (\E j \in Jobs : Active(j)) \/ (\E w \in Workers : Setting(w)) =>
        (\E j \in Jobs : CanStep(j)) \/ (\E w \in Workers : CanSetUp(w))

(* ThreadsBusy: a job waits for a thread only while another job runs.        *)
LEMMA ThreadsBusy ==
    ASSUME NEW w \in Workers, ~ThreadFree(w)
    PROVE  Running(w) # {}
PROOF
  <1>1. Threads[w] \in Nat \ {0}
    BY WorkersAssumption DEF WorkersAssumption
  <1>2. Cardinality({}) = 0
    BY FS_EmptySet
  <1> QED
    BY <1>1, <1>2 DEF ThreadFree

(* AlwaysAWayOn: of the jobs that have not ended and the workers that set    *)
(* up, one at least can go on.  Who waits for a thread waits for a job that  *)
(* runs; that one, or a worker before its ALTER TABLE, waits at most for the *)
(* holder of the lock or for statements, and these wait for nobody: no       *)
(* deadlock, for any numbers of workers, threads, connections and jobs.      *)
THEOREM AlwaysAWayOn == Spec => []NobodyStuck
PROOF
  <1>1. IInv => NobodyStuck
    <2> SUFFICES ASSUME IInv, ~(\E w \in Workers : CanSetUp(w)),
                        ~(\E j \in Jobs : CanStep(j))
                 PROVE  ~(\E j \in Jobs : Active(j)) /\ ~(\E w \in Workers : Setting(w))
      BY DEF NobodyStuck
    <2>1. locked = None
      BY DEF IInv, TypeOK, CanSetUp
    <2>2. \A j \in Jobs : pc[j] \notin OnThread \cup {"ping"}
      BY <2>1 DEF CanStep, OnThread
    <2>3. \A w \in Workers : Running(w) = {}
      BY <2>2 DEF Running, JobsOf
    <2>4. \A j \in Jobs : WorkerOf[j] \in Workers
      BY WorkersAssumption DEF WorkersAssumption
    <2>5. \A j \in Jobs : pc[j] # "queued"
      BY <2>3, <2>4, ThreadsBusy DEF CanStep
    <2>6. \A j \in Jobs : ~Active(j)
      BY <2>2, <2>5 DEF Active, IInv, TypeOK
    <2>7. \A w \in Workers : ~Setting(w)
      BY <2>1, <2>2 DEF Setting, CanSetUp, OnThread
    <2> QED
      BY <2>6, <2>7
  <1> QED
    BY <1>1, Inductive, PTL
=============================================================================

---------------------------- MODULE Connections ----------------------------
(* The workers' way to PostgreSQL: each has a pool of connections and a pool *)
(* of threads (asyncio.to_thread), and begins with the DDL of                *)
(* ensure_vector_table on the table that the others are using.  The health   *)
(* check is a job like any other, with a ping of Redis after it.             *)
EXTENDS Integers, FiniteSets

CONSTANTS
    Workers,
    Capacity,       \* Capacity[w]: pool_size and max_overflow together
    Threads,        \* Threads[w]: size of the default executor
    Jobs,
    WorkerOf,
    Kind,           \* "search", "upload" or "health"
    Statements,     \* Statements[j]: get_cursor blocks, one after the other
    None,
    MaxFaults       \* bound: crashes, outages and failing statements

ASSUME WorkersAssumption ==
    /\ Capacity \in [Workers -> Nat \ {0}]
    /\ Threads \in [Workers -> Nat \ {0}]
    /\ WorkerOf \in [Jobs -> Workers] /\ None \notin Workers
    /\ Jobs \cap Workers = {}
ASSUME JobsAssumption ==
    /\ IsFiniteSet(Jobs)
    /\ Kind \in [Jobs -> {"search", "upload", "health"}]
    /\ Statements \in [Jobs -> Nat \ {0}]
    /\ MaxFaults \in Nat

VARIABLES
    phase,          \* of a worker: "boot", "create", "alter" or "serving"
    saw,            \* saw[w]: CREATE TABLE IF NOT EXISTS found the table
    table,          \* whether rag_embeddings has been committed
    locked,         \* the worker with the ACCESS EXCLUSIVE lock, or None
    pc,
    left,           \* left[j]: statements still to come
    out,            \* out[w]: connections the pool counts as checked out
    orphans,        \* orphans[w]: of those, left to the garbage collector
    verdict,        \* verdict[j]: what a health check found in error
    dbUp, redisUp,
    cut,            \* whose connection, of a job or a setup, an outage broke
    faults,
    during          \* history: during[j]: conditions a health check j has met

workerVars == <<phase, saw, table, locked>>
jobVars == <<pc, left, out, orphans, verdict>>
world == <<dbUp, redisUp, cut, faults>>
vars == <<workerVars, jobVars, world, during>>

-----------------------------------------------------------------------------
OnThread == {"checkout", "cursor", "lock", "exec"}
Holding == {"cursor", "lock", "exec"}
Ended == {"done", "failed", "lost"}

Active(j) == pc[j] \notin Ended \cup {"new"}
JobsOf(w) == {j \in Jobs : WorkerOf[j] = w}
Holders(w) == {j \in JobsOf(w) : pc[j] \in Holding}
Running(w) == {j \in JobsOf(w) : pc[j] \in OnThread}

ThreadFree(w) == Cardinality(Running(w)) < Threads[w]

Full(w) == out[w] >= Capacity[w]

Queries(j) == Kind[j] # "health"

Setting(w) == phase[w] \in {"create", "alter"}

(* The server is away, or it has been since x connected.                     *)
Lost(x) == ~dbUp \/ x \in cut

(* Slip: the connection is closed where the transaction is rolled back only. *)
ReturnedAfterFailure(w, ok) == IF ok THEN out[w] ELSE out[w] - 1

(* Slip: the connection is closed after the commit only, not in finally.     *)
ReturnedUnlessFailed(w, ok) == IF ok THEN out[w] - 1 ELSE out[w]

(* conn.close() in finally                                                   *)
Returned(w, ok) == out[w] - 1

(* Slip: no except around the store's part of the check.                     *)
AfterLastUncaught(j, ok) ==
    IF ~ok THEN "failed" ELSE IF Queries(j) THEN "done" ELSE "ping"

(* The health check catches what its job raises and goes on.                 *)
AfterLast(j, ok) ==
    IF ~Queries(j) THEN "ping" ELSE IF ok THEN "done" ELSE "failed"

(* The job leaves its thread, with or without an exception.                  *)
End(j, ok) ==
    /\ pc' = [pc EXCEPT ![j] = AfterLast(j, ok)]
    /\ verdict' = IF ok THEN verdict ELSE [verdict EXCEPT ![j] = @ \cup {"db"}]

Fault == faults < MaxFaults /\ faults' = faults + 1

(* Slip: CREATE TABLE without IF NOT EXISTS.                                 *)
CreateClashesAlways(w) == table

(* The table was not there, and another worker has committed it since.       *)
CreateClashes(w) == table /\ ~saw[w]

(* Slip: the transaction of the DDL is left open.                            *)
LockKept(w) == w

LockAfter(w) == None

(* Slip: the application is ready before its setup.                          *)
PhaseEager == "serving"

FirstPhase == "create"

-----------------------------------------------------------------------------
Init ==
    /\ phase = [w \in Workers |-> "boot"]
    /\ saw = [w \in Workers |-> FALSE]
    /\ table \in BOOLEAN
    /\ locked = None
    /\ pc = [j \in Jobs |-> "new"]
    /\ left = Statements
    /\ out = [w \in Workers |-> 0] /\ orphans = [w \in Workers |-> 0]
    /\ verdict = [j \in Jobs |-> {}]
    /\ dbUp = TRUE /\ redisUp = TRUE /\ cut = {} /\ faults = 0
    /\ during = [j \in Jobs |-> {}]

(* setup_dependencies builds the repository: CREATE TABLE IF NOT EXISTS.     *)
(* Without a database the worker exits and is started again, until there is. *)
Boot(w) ==
    /\ phase[w] = "boot" /\ dbUp
    /\ saw' = [saw EXCEPT ![w] = table]
    /\ phase' = [phase EXCEPT ![w] = FirstPhase]
    /\ out' = [out EXCEPT ![w] = @ + 1]
    /\ cut' = cut \ {w}
    /\ UNCHANGED <<table, locked, pc, left, orphans, verdict, dbUp, redisUp, faults>>

(* It has waited for another's table, or ALTER TABLE for its readers: the    *)
(* lock is kept to the end of the transaction.                               *)
Alter(w) ==
    /\ phase[w] = "create" /\ ~Lost(w) /\ locked = None
    /\ ~CreateClashes(w)
    /\ \A j \in Jobs \ cut : pc[j] = "exec" => ~Queries(j)
    /\ phase' = [phase EXCEPT ![w] = "alter"]
    /\ locked' = w
    /\ UNCHANGED <<saw, table, jobVars, world>>

(* The DDL is committed, the rest of the container needs no I/O.             *)
Serve(w) ==
    /\ phase[w] = "alter" /\ ~Lost(w)
    /\ phase' = [phase EXCEPT ![w] = "serving"]
    /\ table' = TRUE /\ locked' = LockAfter(w)
    /\ out' = [out EXCEPT ![w] = @ - 1]
    /\ UNCHANGED <<saw, pc, left, orphans, verdict, world>>

(* The DDL raises: the worker exits in its lifespan and is started again.    *)
BootFails(w) ==
    /\ Setting(w)
    /\ \/ Lost(w)
       \/ phase[w] = "create" /\ locked = None /\ CreateClashes(w)
    /\ phase' = [phase EXCEPT ![w] = "boot"]
    /\ locked' = IF locked = w THEN None ELSE locked
    /\ out' = [out EXCEPT ![w] = 0]
    /\ UNCHANGED <<saw, table, pc, left, orphans, verdict, world>>

(* The process dies; the server ends its transactions.                       *)
Crash(w) ==
    /\ Fault
    /\ phase' = [phase EXCEPT ![w] = "boot"]
    /\ locked' = IF locked = w THEN None ELSE locked
    /\ pc' = [j \in Jobs |->
                IF j \in JobsOf(w) /\ Active(j) THEN "lost" ELSE pc[j]]
    /\ out' = [out EXCEPT ![w] = 0] /\ orphans' = [orphans EXCEPT ![w] = 0]
    /\ UNCHANGED <<saw, table, left, verdict, dbUp, redisUp, cut>>

-----------------------------------------------------------------------------
(* A request reaches await asyncio.to_thread(...).                           *)
Submit(j) ==
    /\ pc[j] = "new" /\ phase[WorkerOf[j]] = "serving"
    /\ pc' = [pc EXCEPT ![j] = "queued"]
    /\ UNCHANGED <<workerVars, left, out, orphans, verdict, world>>

Begin(j) ==
    /\ pc[j] = "queued" /\ ThreadFree(WorkerOf[j])
    /\ pc' = [pc EXCEPT ![j] = "checkout"]
    /\ UNCHANGED <<workerVars, left, out, orphans, verdict, world>>

(* _engine.connect(), with its pre-ping.                                     *)
Checkout(j) ==
    /\ pc[j] = "checkout" /\ ~Full(WorkerOf[j]) /\ dbUp
    /\ pc' = [pc EXCEPT ![j] = "cursor"]
    /\ out' = [out EXCEPT ![WorkerOf[j]] = @ + 1]
    /\ UNCHANGED <<workerVars, left, orphans, verdict, world>>

(* ... raises: thirty seconds in the queue, or no connection to be had.      *)
CheckoutFails(j) ==
    /\ pc[j] = "checkout" /\ (Full(WorkerOf[j]) \/ ~dbUp)
    /\ End(j, FALSE)
    /\ UNCHANGED <<workerVars, left, out, orphans, world>>

Cursor(j) ==
    /\ pc[j] = "cursor"
    /\ pc' = [pc EXCEPT ![j] = IF Queries(j) THEN "lock" ELSE "exec"]
    /\ UNCHANGED <<workerVars, left, out, orphans, verdict, world>>

(* cursor() raises, before the try: nobody closes the connection ...         *)
CursorFails(j) ==
    /\ pc[j] = "cursor" /\ Lost(j)
    /\ orphans' = [orphans EXCEPT ![WorkerOf[j]] = @ + 1]
    /\ End(j, FALSE)
    /\ UNCHANGED <<workerVars, left, out, world>>

(* ... until it is collected and the pool takes it back.                     *)
Collect(w) ==
    /\ orphans[w] > 0
    /\ orphans' = [orphans EXCEPT ![w] = @ - 1]
    /\ out' = [out EXCEPT ![w] = @ - 1]
    /\ UNCHANGED <<workerVars, pc, left, verdict, world>>

(* The statement gets its lock on the table.                                 *)
Lock(j) ==
    /\ pc[j] = "lock" /\ locked = None /\ ~Lost(j)
    /\ pc' = [pc EXCEPT ![j] = "exec"]
    /\ UNCHANGED <<workerVars, left, out, orphans, verdict, world>>

(* The block ends: commit, close; an upload goes on to its next.             *)
Commit(j) ==
    /\ pc[j] = "exec" /\ ~Lost(j)
    /\ left' = [left EXCEPT ![j] = @ - 1]
    /\ out' = [out EXCEPT ![WorkerOf[j]] = Returned(WorkerOf[j], TRUE)]
    /\ IF left[j] > 1
       THEN pc' = [pc EXCEPT ![j] = "checkout"] /\ verdict' = verdict
       ELSE End(j, TRUE)
    /\ UNCHANGED <<workerVars, orphans, world>>

(* A statement raises: rollback, close.                                      *)
Rollback(j) ==
    /\ pc[j] \in {"lock", "exec"}
    /\ IF Lost(j) THEN UNCHANGED faults ELSE Queries(j) /\ Fault
    /\ out' = [out EXCEPT ![WorkerOf[j]] = Returned(WorkerOf[j], FALSE)]
    /\ End(j, FALSE)
    /\ UNCHANGED <<workerVars, left, orphans, dbUp, redisUp, cut>>

(* cache.ping()                                                              *)
Ping(j) ==
    /\ pc[j] = "ping"
    /\ verdict' = IF redisUp THEN verdict ELSE [verdict EXCEPT ![j] = @ \cup {"redis"}]
    /\ pc' = [pc EXCEPT ![j] = "done"]
    /\ UNCHANGED <<workerVars, left, out, orphans, world>>

(* PostgreSQL goes away and comes back, and so does Redis.  It takes every   *)
(* connection with it, and the transactions and locks on them.               *)
Outage ==
    /\ dbUp /\ Fault
    /\ dbUp' = FALSE
    /\ cut' = cut \cup {j \in Jobs : pc[j] \in Holding} \cup {w \in Workers : Setting(w)}
    /\ locked' = None
    /\ UNCHANGED <<phase, saw, table, jobVars, redisUp>>

Recovery ==
    /\ ~dbUp
    /\ dbUp' = TRUE
    /\ UNCHANGED <<workerVars, jobVars, redisUp, cut, faults>>

RedisTurns ==
    /\ IF redisUp THEN Fault ELSE UNCHANGED faults
    /\ redisUp' = ~redisUp
    /\ UNCHANGED <<workerVars, jobVars, dbUp, cut>>

Steps ==
    \/ \E w \in Workers :
          Boot(w) \/ Alter(w) \/ Serve(w) \/ BootFails(w) \/ Crash(w) \/ Collect(w)
    \/ \E j \in Jobs :
          \/ Submit(j) \/ Begin(j) \/ Checkout(j) \/ CheckoutFails(j) \/ Cursor(j)
          \/ CursorFails(j) \/ Lock(j) \/ Commit(j) \/ Rollback(j) \/ Ping(j)
    \/ Outage
    \/ Recovery
    \/ RedisTurns

Conditions(j) ==
    {IF dbUp THEN "db" ELSE "no db", IF redisUp THEN "redis" ELSE "no redis"}
    \cup (IF pc[j] = "checkout" /\ Full(WorkerOf[j]) THEN {"full"} ELSE {})

Observe ==
    during' = [j \in Jobs |->
        IF Active(j) /\ ~Queries(j) THEN during[j] \cup Conditions(j) ELSE during[j]]

Next == Steps /\ Observe

Spec == Init /\ [][Next]_vars

(* The threads and the event loop of a live worker go on, waiting in the     *)
(* pool ends after thirty seconds, statements and locks end as PostgreSQL    *)
(* ends them, what is unreachable is collected, and a dead worker is started *)
(* again.  Neither faults nor their end are taken for granted.               *)
WorkerStep(w) == Boot(w) \/ Alter(w) \/ Serve(w) \/ BootFails(w)

JobStep(j) ==
    \/ Begin(j) \/ Checkout(j) \/ CheckoutFails(j) \/ Cursor(j) \/ Lock(j)
    \/ Commit(j) \/ (Lost(j) /\ Rollback(j)) \/ Ping(j)

Fairness ==
    /\ \A w \in Workers : WF_vars(WorkerStep(w) /\ Observe) /\ WF_vars(Collect(w) /\ Observe)
    /\ \A j \in Jobs : WF_vars(JobStep(j) /\ Observe)

FairSpec == Spec /\ Fairness

-----------------------------------------------------------------------------
Phases == {"boot", "create", "alter", "serving"}

(* TypeOK: the lock is held by a worker that alters the table, jobs run only *)
(* in a worker that serves.                                                  *)
TypeOK ==
    /\ phase \in [Workers -> Phases]
    /\ saw \in [Workers -> BOOLEAN] /\ table \in BOOLEAN
    /\ locked = None \/ (locked \in Workers /\ phase[locked] = "alter")
    /\ pc \in [Jobs -> OnThread \cup Ended \cup {"new", "queued", "ping"}]
    /\ \A j \in Jobs : Active(j) => phase[WorkerOf[j]] = "serving"
    /\ left \in [Jobs -> Nat]
    /\ out \in [Workers -> Nat] /\ orphans \in [Workers -> Nat]
    /\ verdict \in [Jobs -> SUBSET {"db", "redis"}]
    /\ dbUp \in BOOLEAN /\ redisUp \in BOOLEAN
    /\ cut \subseteq Jobs \cup Workers
    /\ faults \in 0..MaxFaults

(* PoolExact: what a pool counts as checked out is held by a statement, by   *)
(* the setup or waits for collection, and never more than its capacity:      *)
(* nothing leaks, whichever step of get_cursor raises.                       *)
PoolExact ==
    \A w \in Workers :
        /\ out[w] = Cardinality(Holders(w)) + orphans[w] + (IF Setting(w) THEN 1 ELSE 0)
        /\ out[w] <= Capacity[w]

(* WaitsOnlyForThreads: a job can find its pool exhausted only in a worker   *)
(* with more threads than connections, or beside an orphaned connection.     *)
WaitsOnlyForThreads ==
    \A j \in Jobs : LET w == WorkerOf[j] IN
        pc[j] = "checkout" /\ Full(w) => Threads[w] > Capacity[w] \/ orphans[w] > 0

(* ServesOverTable: a worker serves only over a committed table, whoever     *)
(* made it and whatever failed.                                              *)
ServesOverTable == \A w \in Workers : phase[w] = "serving" => table

(* HealthHonest: the health check always answers; it blames the store or     *)
(* Redis only if that was unreachable, or the pool exhausted, at some moment *)
(* of the check, and clears each only if it was reachable at some moment.    *)
HealthHonest ==
    \A j \in Jobs : ~Queries(j) =>
        /\ pc[j] # "failed"
        /\ pc[j] = "done" =>
              /\ IF "db" \in verdict[j] THEN {"no db", "full"} \cap during[j] # {}
                                        ELSE "db" \in during[j]
              /\ IF "redis" \in verdict[j] THEN "no redis" \in during[j]
                                           ELSE "redis" \in during[j]

(* EveryJobEnds: no job waits for ever, for a thread, a connection, a lock   *)
(* or the server, though DDL, statements and jobs of all workers contend.    *)
EveryJobEnds == \A j \in Jobs : Active(j) ~> pc[j] \in Ended

(* WorkersServe: once the database stays up, all workers come to serve, also *)
(* those that collided on a fresh database.                                  *)
WorkersServe ==
    (<>[]dbUp) => \A w \in Workers : <>[](phase[w] = "serving")
=============================================================================

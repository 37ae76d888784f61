CONSTANTS
    wa = wa
    wb = wb
    upload = upload
    health = health
    search = search
    None = None
    Workers = {wa, wb}
    Jobs = {search, health, upload}
    Capacity <- Capacities
    Threads <- Executors
    WorkerOf <- Places
    Kind <- Kinds
    Statements <- Lengths
    MaxFaults = 2
SPECIFICATION FairSpec
INVARIANTS
    TypeOK
    PoolExact
    WaitsOnlyForThreads
    ServesOverTable
    HealthHonest
PROPERTIES
    EveryJobEnds
    WorkersServe
CHECK_DEADLOCK FALSE

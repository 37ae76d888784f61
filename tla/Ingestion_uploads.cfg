CONSTANTS
    ra = ra
    rb = rb
    ca = ca
    cb = cb
    Requests = {ra, rb}
    Collections = {ca, cb}
    Services = {s1, s2}
    Job <- JobsUneven
    AgeLabel <- Labels
    BatchSize = 2
SPECIFICATION FairSpec
INVARIANTS
    TypeOK
    VectorBackedByGraph
    ServiceOncePerUpload
    Aligned
    AckedComplete
    FailureLeavesPrefix
    ServiceListing
    SameServiceRelated
    RelatedThroughAnother
PROPERTIES
    RefinesLibrary
    EveryUploadAnswered
CHECK_DEADLOCK FALSE

SPECIFICATION FairAuditSpec
CONSTANTS
    p1 = p1
    p2 = p2
    w1 = w1
    w2 = w2
    Partitions <- OnePartition
    Workers <- TwoWorkers
    FromBeginning = TRUE
    MaxMessages = 4
    MaxFaults = 3
INVARIANTS
    IInv
    AtLeastOnce
    TrailInOrder
PROPERTIES
    CommitsCoverWork
    EverythingRecorded
CHECK_DEADLOCK FALSE

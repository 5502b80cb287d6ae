SPECIFICATION Spec
CONSTANTS
    p1 = p1
    p2 = p2
    w1 = w1
    w2 = w2
    Partitions <- OnePartition
    Workers <- OneWorker
    FromBeginning = FALSE
    MaxMessages = 2
    MaxFaults = 1
INVARIANT
    AtLeastOnce
CHECK_DEADLOCK FALSE

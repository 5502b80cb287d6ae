SPECIFICATION FairSpec
CONSTANTS
    o1 = o1
    o2 = o2
    w1 = w1
    w2 = w2
    Orders <- OneOrder
    Workers <- TwoWorkers
    MaxFaults = 2
    MaxCommands = 4
INVARIANTS
    ChargedAtMostOnce
    RecordTrue
    NoCommandLost
    IInv
PROPERTIES
    ImplementsParticipant
    
CHECK_DEADLOCK FALSE

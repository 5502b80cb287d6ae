SPECIFICATION FairSpec
CONSTANTS
    o1 = o1
    o2 = o2
    w1 = w1
    w2 = w2
    Orders <- OneOrder
    Workers <- TwoWorkers
    Steps <- OrderFulfillmentSteps
    MaxFaults = 0
    MaxDuplicates = 0
PROPERTY
    EveryOrderFinalized
CHECK_DEADLOCK FALSE

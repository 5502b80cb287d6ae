SPECIFICATION FairSpec
CONSTANTS
    o1 = o1
    o2 = o2
    w1 = w1
    w2 = w2
    Orders <- OneOrder
    Workers <- OneWorker
    Steps <- OrderFulfillmentSteps
    MaxFaults = 1
    MaxDuplicates = 0
PROPERTY
    CompletedSagaConfirms
CHECK_DEADLOCK FALSE

SPECIFICATION FairSpec
CONSTANTS
    o1 = o1
    o2 = o2
    w1 = w1
    w2 = w2
    Orders <- TwoOrders
    Workers <- TwoWorkers
    Skus <- TwoSkus
    Lines <- CrossedLines
    QtyAvailable <- CrossedStock
    MaxFaults = 1
    MaxCommands = 3
INVARIANTS NoOversell  OneOutcome IInv
PROPERTIES ImplementsParticipant PartitionDrains
CHECK_DEADLOCK FALSE

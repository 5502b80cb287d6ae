SPECIFICATION Spec
CONSTANTS
    o1 = o1
    o2 = o2
    w1 = w1
    w2 = w2
    Orders <- OneOrder
    Workers <- TwoWorkers
    Skus <- TwoSkus
    Lines <- RepeatedLines
    QtyAvailable <- ScarceStock
    MaxFaults = 0
    MaxCommands = 1
INVARIANT NoOversell
CHECK_DEADLOCK FALSE

SPECIFICATION Spec
CONSTANTS
    o1 = o1
    o2 = o2
    w1 = w1
    w2 = w2
    Orders <- OneOrder
    Workers <- TwoWorkers
    MaxFaults = 1
    MaxCommands = 2
INVARIANT
    RefundedAtMostOnce
CHECK_DEADLOCK FALSE

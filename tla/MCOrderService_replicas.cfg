SPECIFICATION FairServiceSpec
CONSTANTS
    o1 = o1
    o2 = o2
    w1 = w1
    w2 = w2
    r1 = r1
    r2 = r2
    Orders <- OneOrder
    Aggregates <- OneOrder
    Workers <- TwoWorkers
    Relays <- TwoRelays
    BatchSize = 2
    MaxFaults = 1
    MaxCommands = 3
    MaxFailures = 2
INVARIANTS
    IInv
    OutboxIInv
    StampedWasSent
    SentOncePerFailure
    FirstSentInOrder
PROPERTIES
    ImplementsLifecycle
    CommandsAnswered
CHECK_DEADLOCK FALSE

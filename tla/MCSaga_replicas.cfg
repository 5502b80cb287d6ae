SPECIFICATION Spec
CONSTANTS
    o1 = o1
    o2 = o2
    w1 = w1
    w2 = w2
    Orders <- OneOrder
    Workers <- TwoWorkers
    Steps <- ToolkitSteps
    MaxFaults = 2
    MaxDuplicates = 1
SYMMETRY Symmetry
INVARIANTS
    TypeOK
    CommandsFollowAnswers
    VerdictJustified
    OutcomesExclusive
    CompensationsJustified
    IInv
PROPERTY
    ContractKept
CHECK_DEADLOCK FALSE

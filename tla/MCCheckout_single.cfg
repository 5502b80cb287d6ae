SPECIFICATION FairCheckoutSpec
CONSTANTS
    o1 = o1
    w1 = w1
    m1 = m1
    m2 = m2
    Orders <- OneOrder
    Keys <- OneOrder
    Workers <- OneWorker
    Mailers <- TwoMailers
    Steps <- OrderFulfillmentSteps
    MaxFaults = 2
    MaxDuplicates = 1
    MaxMishaps = 1
INVARIANTS
    NotificationTypeOK
    VerdictSentOnce
    MailsTrue
    MailsRepeatedOnlyByMishaps
    NoOrderStranded
PROPERTIES
    RowNeverRegresses
    EverySagaStarts
    EveryOrderFinalized
    
CHECK_DEADLOCK FALSE

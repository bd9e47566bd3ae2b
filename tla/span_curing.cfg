CONSTANTS
    k1 = k1
    k2 = k2
    Keys = {k1, k2}
    Logs <- MCLogs
    Batches <- MCBatches
    Size <- MCSize
    maxMessageBytes = 12
    maxAttributeValueSize = 4
    maxTruncationTries = 2
SPECIFICATION FairSpec
INVARIANTS
    TypeOK
    OversizeOnlyAsReceived
    OneFateEach
    MarkedOnceIfCut
    GentlestCure
PROPERTIES
    MarshalReturns

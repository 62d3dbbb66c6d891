SPECIFICATION MCSpec
CONSTANTS
    Requests = {r1, r2}
    WarmRequests = {r1, r2, r3}
    SpeechRequests = {r1, r2}
    NoOne = NoOne
    None = None
    Keys = {k1, k2}
    Once = Once
    QueueChunks = 2
    MaxChunks = 3
INVARIANTS
    BackendsTypeOK
    KeptByOne
    
    OneModelInMemory
    RendersItsOwnWeights
PROPERTIES
    BackendsKeepTheSlot
    
    WeightsAreReleased
CHECK_DEADLOCK FALSE

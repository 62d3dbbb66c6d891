SPECIFICATION MCSpec
CONSTANTS
    OpIds = {a, b}
    NoOp = NoOp
    Slots = {s1, s2}
    MaxGeneration = 2
    MaxQueue = 2
    MaxCanaries = 2
    Nodes = {worker}
    Leader = leader
    AgentGenerations = 1
    MaxFaults = 2
SYMMETRY Symmetry
INVARIANTS
    TypeOK
    
    OpenMeansReleased
    
    CanaryAuthority
    PausedWhileFenced
    
    JournalTellsTheTruth
PROPERTIES
    FollowsProtocol
    RestoredReleaseIsObserved

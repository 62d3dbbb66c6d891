SPECIFICATION Spec
CONSTANTS
    Requests = {r1, r2, r3}
    Groups = {local}
    NoGroup = NoGroup
    Modes = {}
    MaxQueued = 2
    MaxBackground = 2
    RampInterval = 1
    IdleTime = 1
SYMMETRY Symmetry
PROPERTIES
    ConcurrencyFollowsRamp

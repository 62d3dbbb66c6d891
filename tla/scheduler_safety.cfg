SPECIFICATION Spec
CONSTANTS
    Requests = {r1, r2, r3}
    Groups = {local}
    NoGroup = NoGroup
    Modes = {"adaptive", "off"}
    MaxQueued = 2
    MaxBackground = 2
    RampInterval = 2
    IdleTime = 1
SYMMETRY Symmetry
INVARIANTS
    TypeOK
    RoomIsBounded
    NoLostWakeup
PROPERTIES
    StartsInOrder
    RecoveryIsPaced

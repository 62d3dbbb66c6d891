SPECIFICATION MCSpec
CONSTANTS
    OpIds = {a}
    NoOp = NoOp
    Slots = {s1}
    MaxGeneration = 1
    MaxQueue = 2
    MaxCanaries = 1
    Connections = {r1, r2}
    Groups = {local}
    NoGroup = NoGroup
PROPERTIES
    PendingSettles
    BackgroundResumes

SPECIFICATION FairSpec
CONSTANTS
    Requests = {r1, r2}
    NoOne = NoOne
PROPERTIES
    InterruptedJobFreesTheSlot
CHECK_DEADLOCK FALSE

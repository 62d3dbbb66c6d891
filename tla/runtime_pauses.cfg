SPECIFICATION MCSpec
CONSTANTS
    Foreground = {f}
    Interactive = {i}
    Standard = {s, t}
    Few = {i, s}
    Guarded = {s}
    Concurrencies = {1, 2}
    ReservedSlots = 1
    MaxQueued = 2
    ReservedQueue = 1
INVARIANTS
    PausesTypeOK
    NoEligibleWaits
    MaintenanceSparesRequests
PROPERTIES
    ReserveIsKept
    FourOvertakes
    StandardGetsThrough
    OperationsEnd

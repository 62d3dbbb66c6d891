SPECIFICATION PausesSpec
CONSTANTS
    Foreground = {}
    Interactive = {i}
    Standard = {s}
    Guarded = {}
    Concurrencies = {1}
    ReservedSlots = 0
    MaxQueued = 2
    ReservedQueue = 1
INVARIANTS
    EvictionSparesRequests

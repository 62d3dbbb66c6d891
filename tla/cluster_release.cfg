SPECIFICATION Spec
CONSTANTS
    worker = worker
    leader = leader
    Nodes = {worker, leader}
    Leader = leader
    Order <- FleetOrder
    AgentGenerations = 1
    MaxFaults = 1
INVARIANT RestoredIsReleasable
CHECK_DEADLOCK FALSE

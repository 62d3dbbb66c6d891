SPECIFICATION Spec
CONSTANTS
    worker = worker
    leader = leader
    Nodes = {worker, leader}
    Leader = leader
    Order <- FleetOrder
    AgentGenerations = 2
    MaxFaults = 1
INVARIANT RecoveryIsNotStale
CHECK_DEADLOCK FALSE

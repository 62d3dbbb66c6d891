SPECIFICATION Spec
CONSTANTS
    worker = worker
    leader = leader
    Nodes = {worker, leader}
    Leader = leader
    Order <- FleetOrder
    AgentGenerations = 2
    MaxFaults = 2
INVARIANT RolledBackIsServing
CHECK_DEADLOCK FALSE

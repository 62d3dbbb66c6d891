SPECIFICATION FairSpec
CONSTANTS
    worker = worker
    leader = leader
    Nodes = {worker, leader}
    Leader = leader
    Order <- FleetOrder
    AgentGenerations = 3
    MaxFaults = 2
INVARIANTS
    TypeOK
    
    FinishedIsUniform
    FinishedIsQuiet
    TouchedIsRecorded
PROPERTIES
    
    
    RunSettles
CHECK_DEADLOCK FALSE

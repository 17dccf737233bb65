SPECIFICATION Spec
CONSTANTS
    a1 = a1
    a2 = a2
    Activations <- One
    FaultKinds <- NoFaults
    MaxRequests = 4
    MaxFaults = 0
    MaxStops = 1
    MaxLoads = 2
PROPERTIES
    RestartSucceeds
\* The bounds and a driver that stays down stop the system.
CHECK_DEADLOCK FALSE

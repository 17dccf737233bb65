SPECIFICATION Spec
CONSTANTS
    a1 = a1
    m1 = m1
    c1 = c1
    Activations <- OneActivation
    Messages <- NoMessages
    Commands <- OneCommand
    FaultKinds <- NoFaults
    MaxBinds = 2
    MaxFaults = 0
    MaxStops = 1
    MaxKills = 1
    MaxRefusals = 1
INVARIANTS
    BarriersAreDistinct
PROPERTIES
    RestartSucceeds
\* The bounds and the end of the run stop the system.
CHECK_DEADLOCK FALSE

SPECIFICATION Spec
CONSTANTS
    a1 = a1
    m1 = m1
    c1 = c1
    Activations <- OneActivation
    Messages <- OneMessage
    Commands <- OneCommand
    FaultKinds <- AnyFault
    MaxBinds = 1
    MaxFaults = 1
    MaxStops = 1
    MaxKills = 0
    MaxRefusals = 0
INVARIANTS
    TypeOK
    ReplayAgrees
    NoOrphanPanes
PROPERTIES
    ImplementsInputOnce
    NoneLeftBehind
\* The bounds and the end of the run stop the system.
CHECK_DEADLOCK FALSE

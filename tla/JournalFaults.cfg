SPECIFICATION Spec
CONSTANTS
    a1 = a1
    a2 = a2
    Activations <- Two
    FaultKinds <- AnyFault
    MaxRequests = 4
    MaxFaults = 1
    MaxStops = 1
    MaxLoads = 2
SYMMETRY Symmetry
INVARIANTS
    TypeOK
    SealIsFinal
    TerminalIsSealed
PROPERTIES
    CommittedStays
    OwedFirst
\* The bounds and a driver that stays down stop the system.
CHECK_DEADLOCK FALSE

SPECIFICATION FairSpec
CONSTANTS
    FaultKinds <- AnyFault
    MaxOutput = 2
    MaxPrepares = 3
    MaxCleanups = 2
    MaxFaults = 2
    MaxStops = 1
    PanesEnd = TRUE
INVARIANTS
    TypeOK
    ReleasedIsRecorded
    ScreenIsKept
PROPERTIES
    CompleteIsWhole
    HelpersEnd
    OperationsEnd
\* The bounds stop the driver and the agent.
CHECK_DEADLOCK FALSE

SPECIFICATION LowSpec
CONSTANTS
    Nodes = {"plan", "work", "sum"}
    Artifacts = {"list"}
    BoardKeys = {"go"}
    Effects = {"seen"}
    NoFact = "none"
    Locks = {"k1", "k2"}
    Routes <- FlowRoutes
    Needs <- FlowNeeds
    Modes = {"finite", "continuous", "manual"}
    Limits = {3, 5}
    StopLimit = 2
    DefaultStopLimit = 2
    ActionLimit = 3
    MaxLines = 2
    MaxRequests = 5
    Requests <- AnyRequest
INVARIANTS
    TypeOK
    ActivationsWithinLimit
    PlansAreWhole
    RoutesKeepUp
    RestIsSettled
PROPERTIES
    FiresOnce
    SettledStays
    EndIsFinal
\* The bound on requests stops the system.
CHECK_DEADLOCK FALSE

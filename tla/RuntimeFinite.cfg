SPECIFICATION Spec
CONSTANTS
    Nodes = {"plan", "sum"}
    Artifacts = {"list"}
    BoardKeys = {}
    Effects = {"seen"}
    NoFact = "none"
    Locks = {"k1"}
    Routes <- ChainRoutes
    Needs <- ChainNeeds
    Modes = {"finite"}
    Limits = {2, 3}
    StopLimit = 2
    DefaultStopLimit = 2
    ActionLimit = 2
    MaxLines = 1
    MaxRequests = 6
    Requests <- NoExited
PROPERTIES
    CompletesWhenDone
\* The bound on requests stops the system.
CHECK_DEADLOCK FALSE

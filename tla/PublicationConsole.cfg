SPECIFICATION Spec
CONSTANTS
    Entries <- ConsoleEntries
    MaxRequests = 2
    MaxBatch = 1
    MaxFaults = 1
INVARIANTS
    AppliedIsPersisted
\* The bounds on requests and faults stop the system.
CHECK_DEADLOCK FALSE

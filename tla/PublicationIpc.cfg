SPECIFICATION FairSpec
CONSTANTS
    Entries <- IpcEntries
    MaxRequests = 3
    MaxBatch = 2
    MaxFaults = 3
INVARIANTS
    AppliedIsPersisted
PROPERTIES
    ImplementsCommittedLog
    PendingIsPublished
\* The bounds on requests and faults stop the system.
CHECK_DEADLOCK FALSE

SPECIFICATION Spec
CONSTANTS
    Entries <- AllEntries
    MaxRequests = 3
    MaxBatch = 2
    MaxFaults = 2
INVARIANTS
    TypeOK
    PendingIsReplayable
    TornTailIsCovered
    JournalTellsLog
    LedgerIsHistory
PROPERTIES
    WriteAhead
\* The bounds on requests and faults stop the system.
CHECK_DEADLOCK FALSE

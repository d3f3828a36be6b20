SPECIFICATION FairSpec
CONSTANTS
    Saver = {"barrier", "final"}
    MaxSaveFailures = 1
    MaxQueue = 1
    Conn = {"c1"}
    Requests <- AnyRequests
    MaxJobs = 1
    MaxStarts = 2
INVARIANTS
    SnapshotIsIntact
    FinalHasAllEvidence
CHECK_DEADLOCK FALSE
PROPERTIES
    NotifiedAfterPersist
    SavesNeverGoBack
    ShutdownCompletes
    ClosedIsClearedAway

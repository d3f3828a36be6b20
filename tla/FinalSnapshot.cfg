SPECIFICATION Spec
CONSTANTS
    Saver = {"barrier", "final"}
    MaxSaveFailures = 0
    MaxQueue = 1
    Conn = {"c1"}
    Requests <- OneChange
    MaxJobs = 1
    MaxStarts = 1
INVARIANTS
    AcknowledgedOnDisk
CHECK_DEADLOCK FALSE

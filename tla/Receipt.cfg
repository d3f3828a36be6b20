SPECIFICATION Spec
CONSTANTS
    Saver = {"barrier", "final"}
    MaxSaveFailures = 0
    MaxQueue = 1
    Conn = {"c1"}
    Requests <- OnePromotion
    MaxJobs = 1
    MaxStarts = 1
INVARIANTS
    ReceiptIsReturned
CHECK_DEADLOCK FALSE

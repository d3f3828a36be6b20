SPECIFICATION DataSpec
CONSTANTS
    Fills <- MCFills
    DamagedFills <- MCDamagedFills
    PayloadSizes = {0, 1, 2, 3, 4}
    MaxFrames = 3
    kFrameHeaderBytes = 3
    kMaxFramePayloadBytes = 2
    kAbsoluteMaxFramePayloadBytes = 3
    kReceiveChunkBytes = 6
    Candidate = {1, 2, 3, 4}
    Stored = {1, 2, 3}
    Lineage = {"red", "blue"}
    Reason = {"worse", "duplicate"}
    MaxParents = 2
    MaxRetired = 1
    kMaxLineageDepth = 2
INVARIANTS
    ReadsBackWhatWasWritten
    DamageIsRefused
    CountsAreBacked
    FramesArriveInOrder
    BufferIsBounded
    ValidationDecides
    QueriesAgree
    MadeChildIsAccepted
PROPERTY
    HistoryIsFinal
CHECK_DEADLOCK FALSE

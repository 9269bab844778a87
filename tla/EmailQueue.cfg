CONSTANTS
    MaxJobs = 2
    Names = {"verifyEmail", "unknown"}
    Workers = {w1, w2}
    NoWorker = NoWorker
    Attempts = 2
    MaxStalls = 1
    KeepCompleted = 1
SPECIFICATION FairSpec
CHECK_DEADLOCK FALSE
INVARIANTS
    CompletedWasMailed
    ExtraMailsNeedFaults
    TriesAreBounded
    FirstTriesInOrder
    NoJobIsForgotten
PROPERTIES
    EveryMailSettles
    ImplementsOutbox
    JobsMoveOn

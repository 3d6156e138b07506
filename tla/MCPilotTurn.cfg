SPECIFICATION Spec
CONSTANTS
    None = None
    Streams = {"s1"}
    Tasks = {"t1", "t2"}
    Files <- MCFiles
    Main <- MCMain
    Locked = {"a.rs"}
    Blocks <- MCBlocks
    MaxFixRounds = 1
    MaxMessages = 3
    MaxFaults = 2
    MaxCrashes = 1
INVARIANTS CommittedIsGated FailedApplyChangesNothing AckedMergeIsDurable
PROPERTIES TurnsEnd
CHECK_DEADLOCK FALSE

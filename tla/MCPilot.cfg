SPECIFICATION PilotSpec
CONSTANTS
    None = None
    Streams <- MCStreams
    Tasks = {"t1"}
    Files = {"a.rs"}
    Main <- MCMain
    Locked = {}
    Blocks <- MCBlocks
    MaxFixRounds = 1
    MaxMessages = 2
    MaxFaults = 1
    MaxCrashes = 1
    Upstream <- MCUpstream
    Providers = {"p1"}
    MaxConcurrent <- MCMaxConcurrent
    MaxWaves = 2
INVARIANT UpstreamsMergedFirst
CHECK_DEADLOCK FALSE

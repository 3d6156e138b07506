SPECIFICATION Spec
CONSTANTS
    Paths = {"a.g", "b.g"}
    Contents = {{"f"}, {"f", "g"}, {"g"}}
    Faulty = {{"f", "g"}}
    Endless = {{"g"}}
    ChannelSize = 2
    MaxNotes = 5
INVARIANT QuietIsCurrent
PROPERTY DriverCatchesUp
CHECK_DEADLOCK FALSE

SPECIFICATION FairSpec
CONSTANTS
    Plugins = {p1}
    Capacity = 1
    MaxKept = 1
    DroppedBudget = 0
    FaultBudget = 0
    Attempts = 1
    HelloTimeout = 1
    SilenceTimeout = 1
    SettledAfter = 2
    StopGrace = 1
    RestartDelay <- MCRestartDelay
    PollInterval = 1
    PipeRoom = 1
    MaxLines = 3
INVARIANT HostIsSound
PROPERTIES GivenUpStaysDown NothingWaitsForAPlugin
CHECK_DEADLOCK FALSE

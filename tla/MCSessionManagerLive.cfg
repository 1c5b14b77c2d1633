SPECIFICATION FairSpec
CONSTANTS
    None = None
    Games <- GamesAB
    Launches <- OneWaits
    Pids = {1, 2, 3}
    Directories = {d1}
    RestartGrace = 1
    RecordingRestartDelay = 1
    SuspendGap = 2
    MaxRecordings = 2
PROPERTIES
    DeadSessionEnds
    LiveGameIsRecorded

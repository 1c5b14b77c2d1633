SPECIFICATION Spec
CONSTANTS
    None = None
    Games <- GamesAB
    Launches <- TwoGames
    Pids = {1, 2, 3, 4}
    Directories = {d1, d2}
    RestartGrace = 1
    RecordingRestartDelay = 1
    SuspendGap = 2
    MaxRecordings = 2
INVARIANTS
    ManagerIsSound
    RecordAgrees
    AllAreAccountedFor
PROPERTIES
    StopHolds
    NothingStartsAfterShutDown
    EndsOnlyAfterGrace

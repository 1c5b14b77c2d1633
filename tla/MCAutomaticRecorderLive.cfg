SPECIFICATION FairRecorderSpec
CONSTANTS
    None = None
    Games <- GameA
    Launches <- OneGame
    Pids = {1}
    Directories = {d1}
    RestartGrace = 1
    RecordingRestartDelay = 1
    SuspendGap = 2
    MaxRecordings = 1
    Clients = {c1}
    Manuals = {m1}
CHECK_DEADLOCK FALSE
INVARIANT RecorderIsSound
PROPERTY WhatIsAskedEnds

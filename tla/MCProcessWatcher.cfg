\* MCProcessWatcher
CONSTANTS
    Processes <- MCProcesses
    AlreadyRunning <- MCGame
    QuietPeriod = 2
    MaxLaunchWindow = 3
    ExitSettlePeriod = 1

SPECIFICATION FairSpec
INVARIANT BatchesAreSound
PROPERTIES ReportsAreTrue WhatIsSeenIsReported

SPECIFICATION FairLinkSpec
CONSTANTS
    l1 = l1
    Links <- MCLinks
    MaxProcesses = 4
    Attempts = 2
    None = None
INVARIANTS
    LinkIsSound
    StopIsHeeded
PROPERTIES
    LossIsTold
CHECK_DEADLOCK FALSE

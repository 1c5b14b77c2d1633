SPECIFICATION FairSpec
CONSTANTS
    Recordings = {r1, r2, r3}
    Capacity = 2
    None = None
INVARIANTS QueueIsSound
PROPERTIES PausedWhileRecording RequestsAreKept NobodyWaitsForEver

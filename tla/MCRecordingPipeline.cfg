SPECIFICATION FairSpec
CONSTANTS
  game = game
  microphone = microphone
  Sources <- MCSources
  VideoCapacity = 2
  Headroom = 1
  AudioShare = 2
  Burst = 1
  HeldBack = 2
  Backlog = 1
  MaxPictures = 3
  MaxFaults = 1
INVARIANTS QueueHasRoom FileIsWhole FailureIsTold
PROPERTIES StopFinishes
CHECK_DEADLOCK FALSE

SPECIFICATION DrawnSpec
CONSTANTS
  game = game
  microphone = microphone
  Sources = {}
  VideoCapacity = 2
  Headroom = 1
  AudioShare = 1
  Burst = 1
  HeldBack = 0
  Backlog = 0
  MaxPictures = 3
  MaxFaults = 1
PROPERTY LostWriterEndsRecording
CHECK_DEADLOCK FALSE

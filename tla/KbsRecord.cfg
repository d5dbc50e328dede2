SPECIFICATION FairSpec
CONSTANTS
  Tasks <- MCTasks
  MaxDelay = 1
  NumButtons = 1
  RecordArea = RecordArea
  PlayArea = PlayArea
  Elsewhere = Elsewhere
  TouchEvents <- AllTouches
  KeyWrites = {"volLeft"}
  Cards = {"good"}
  Faults = FALSE
  SongCounts = {1}
  MaxRecording = 2
  PlayEntries = 1
  MaxTicks = 0
  MaxMountTry = 1
  FifoDepth = 1
  MaxSamples = 1
  I2cTicks = 1
  KeyTicks = 1
  PollTicks = 1
INVARIANTS
  PlayingFlagOwned
  NoLeftover
  CodecLeftActive
PROPERTIES
  FinishedRecordingFrozen
  PlaysFinishedRecording
  PlaybackEnds
  FingerLiftReturns

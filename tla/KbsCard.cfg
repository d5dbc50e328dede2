SPECIFICATION FairSpec
CONSTANTS
  Tasks <- MCTasks
  MaxDelay = 1
  NumButtons = 1
  RecordArea = RecordArea
  PlayArea = PlayArea
  Elsewhere = Elsewhere
  TouchEvents <- SongTouches
  KeyWrites = {"none", "volLeft"}
  Cards = {"none", "bad", "good"}
  Faults = TRUE
  FifoDepth = 1
  MaxSamples = 1
  SongCounts = {1}
  MaxRecording = 1
  PlayEntries = 1
  MaxTicks = 0
  MaxMountTry = 2
  I2cTicks = 1
  KeyTicks = 1
  PollTicks = 1
PROPERTIES
  CardBecomesReady

SPECIFICATION FairSpec
CONSTANTS
  Long = Long
  Partial = Partial
  Tiny = Tiny
  Silent = Silent
  Odd = Odd
  Songs = {Long, Partial, Tiny, Silent, Odd}
  offset <- MCOffset
  size <- MCSize
  Buf = 8
  Frame = 4
  ClusterSize = 16
  NoFile = NoFile
  Foreign = Foreign
  File <- MCFile
  Behind = "LIST"
  HeaderBytes = 1
  ChunkBytes = 1
INVARIANTS
  PlaysSamples
  InBuffer
  NothingPastEnd
  FrameToSend
PROPERTIES
  PlaysStream
  SongEnds

SPECIFICATION FairSpec
CONSTANTS
  BPB_BytsPerSec = 2
  BPB_SecPerCluster = 2
  Clusters = {2, 3, 4, 5}
  Files <- MCFiles
  Half = 3
  Eoc = 9
  EntriesPerSecter = 3
  Word = 16
  ReadSizes = {2, 3}
  MaxSeek = 8
  MaxSeq = 2
  NoSecter = NoSecter
  Garbage = Garbage
INVARIANTS
  CacheHonest
PROPERTIES
  ReadsTheFile
  ReadReturns

SPECIFICATION Spec
CONSTANTS
  Pieces = {".wav", "a", "S.WAV", "T", "VOLUME"}
  WavePieces = {".wav", "S.WAV"}
  MaxOrd = 2
  MaxLen = 4
  Directories <- MCDirectories
  MaxHandles = 3
INVARIANTS
  BrowsesAll
  SongsAreWaves
  NoSongMissed
  HandlesAccounted
CHECK_DEADLOCK FALSE

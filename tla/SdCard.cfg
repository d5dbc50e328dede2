SPECIFICATION FairSpec
CONSTANTS
  Cards = {"v1", "sc", "hc"}
  Blocks <- MCBlocks
  BlockSize = 2
  Word = 16
  MaxBusy = 2
  MaxPolls = 2
  NoCard = NoCard
  NoBlock = NoBlock
  Garbage = Garbage
INVARIANTS
  ReadsBlockAsked
PROPERTIES
  InitSetsUp
  CardComesUp

SPECIFICATION Spec
CONSTANTS
  Tasks <- MCTasks
  MaxTimeout = 2
  MaxCnt = 2
  Flags = {"rdy", "timeout"}
  Waits <- MCWaits
INVARIANTS
  ReadyIffFree
  TokensKept
  NobodyWaitsForNothing
  FlagsNotMissed

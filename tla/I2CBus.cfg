SPECIFICATION BusSpec
CONSTANTS
  Tasks = {4, 8}
  Bits = 2
  Device <- MCDevice
  Calls <- MCCalls
INVARIANTS
  CopyIsTrue
PROPERTIES
  SuccessMeansWritten

SPECIFICATION IsrSpec
CHECK_DEADLOCK FALSE
CONSTANTS
  Writers = {w1}
  Readers = {r}
  NonBlocking = {}
  BufLen = 3
  TxFifo = 1
  RxFifo = 1
  Threshold = 0
  Timeout = 2
  MaxCount = 2
  Budgets <- MCBudgets
  Handler = h
  MaxLock = 2
INVARIANT WritingIsSafe

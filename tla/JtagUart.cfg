SPECIFICATION FairSpec
CONSTANTS
  Writers = {w1, w2}
  Readers = {r}
  NonBlocking = {w2}
  BufLen = 3
  TxFifo = 1
  RxFifo = 1
  Threshold = 0
  Timeout = 2
  MaxCount = 2
  Budgets <- MCBudgets
INVARIANTS
  TxKicked
  RxRevived
PROPERTIES
  ImplementsTx
  ImplementsRx
  WriteReturns
  AllSent

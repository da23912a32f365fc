SPECIFICATION FairSpec
CONSTANTS
  NumRequests = 5
  NumBlocks = 5
  NoHash = NoHash
  Hashes <- MCHashes
  Prompt <- MCPrompt
  Answer <- MCAnswer
  Priority <- MCPriority
  ByPriority = FALSE
  BlockSize = 2
  TokenBudget = 3
  MaxRunning = 2
  LongPrefill = 0
  ReserveFull = TRUE
  MaxAborts = 1
  MaxResets = 1
INVARIANTS
  PoolBalance
  CachedIsComputed
  LogTellsPool
  ReuseInOrder
PROPERTIES
  ReasonsRight
  KeepsPromise
CHECK_DEADLOCK FALSE

SPECIFICATION FairSpec
CONSTANTS
  NumRequests = 2
  NumBlocks = 8
  NoHash = NoHash
  Hashes <- LongHashes
  Prompt <- LongPrompt
  Answer <- LongAnswer
  Priority <- LongPriority
  ByPriority = TRUE
  BlockSize = 2
  TokenBudget = 8
  LongPrefill = 4
  MaxRunning = 2
  ReserveFull = TRUE
  MaxAborts = 0
  MaxResets = 0
INVARIANT
  HitsComputed
CHECK_DEADLOCK FALSE

SPECIFICATION Spec
CONSTANTS
  N = 6
  Arrival <- MCArrival
  Input <- MCInput
  Output <- MCOutput
  Hashes <- MCHashes
  Capacity = 5
  BlockSize = 2
  MaxSequences = 3
  TokenBudget = 6
  PrefillChunk = 3
  Overhead = 1
  PrefillTokenCost = 1
  DecodeTokenCost = 1
  SlackPercent = 20
  Epsilon = 4
  None = None
INVARIANTS
  ValidState
  NeverStuck
  BaselineKept

SPECIFICATION Spec
CONSTANTS
  N = 5
  Prompt <- MCPrompt
  Output <- MCOutput
  Arrival <- MCArrival
  KvBlocks = 7
  MaxSequences = 3
  TokenBudget = 3
  PrefillChunk = 2
  OverheadTicks = 1
  PrefillTokenTicks = 1
  DecodeTokenTicks = 1
  SlackPercent = 50
  EpsilonTicks = 4
  None = None
INVARIANTS
  CheckState
  AlwaysServes
  BaselineKept

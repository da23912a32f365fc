SPECIFICATION FairSpec
CONSTANTS
  a = a
  b = b
  c = c
  d = d
  e = e
  k1 = k1
  k2 = k2
  k3 = k3
  k4 = k4
  k5 = k5
  NoKey = NoKey
  Requests = {a, b, c, d}
  InputLen <- MCInputLen
  OutputLen <- MCOutputLen
  PromptKeys <- MCPromptKeys
  Block = 2
  NumBlocks = 4
  TokenBudget = 3
  MaxSeqs = 3
PROPERTY
  KeepsPromise

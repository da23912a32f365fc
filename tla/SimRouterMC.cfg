SPECIFICATION Spec
CONSTANTS
  h1 = h1
  h2 = h2
  h3 = h3
  h4 = h4
  g = g
  x = x
  y = y
  z = z
  hot = hot
  cold = cold
  None = None
  Trace <- MCTrace
  FullKeys <- MCFullKeys
  InputLen <- MCInputLen
  Arrival <- MCArrival
  Class <- MCClass
  Parent <- MCParent
  EstHit <- MCEstHit
  NumInstances = 2
  Block = 2
  ClassBlocks = 1
  WindowMs = 3
  MinCount = 2
  Cap = 2
  TieOffset = 0
  TrimBlocks = 1
  PerToken = 1
  PrefillPair = 2
  SloBase = 12
  SloPerToken = 1
  BalanceAbs = 1
  MaxEvict = 1
INVARIANTS
  BooksBalance
  PendingCounts
  LruRecent
  WindowCounts
  FilteringMeans
PROPERTY
  AvoidsHolders

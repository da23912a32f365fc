SPECIFICATION Spec
CONSTANTS
  p = p
  q = q
  s = s
  x = x
  y = y
  Requests = {p, q, s}
  NumViews = 2
  FullBlocks <- MCFullBlocks
  InputLen <- MCInputLen
  Block = 2
  Leftovers = {}
  MaxEvict = 2
  MaxLost = 0
INVARIANT IndexExact

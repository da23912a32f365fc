SPECIFICATION Spec
CONSTANTS
  p = p
  q = q
  s = s
  x = x
  y = y
  Requests = {p, q}
  NumViews = 2
  FullBlocks <- MCTwoBlocks
  InputLen <- MCTwoInputLen
  Block = 2
  Leftovers <- MCLeftovers
  MaxEvict = 2
  MaxLost = 0
INVARIANT
  IndexCovers

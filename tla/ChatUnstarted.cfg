SPECIFICATION Spec
CONSTANTS
  long = long
  short = short
  None = None
  Sessions = {long, short}
  Turns <- MCTurns
  MaxTokens = 2
  Burst = 1
  MaxInterrupts = 2
INVARIANT
  EveryTurnRecorded

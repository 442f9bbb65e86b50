SPECIFICATION MCSpec
CONSTANTS
  drift = 2
  bits = 5
  hashes = 2
  Word = 16
  Token <- MCToken
  Start = 1
  MaxTime = 7
  MaxBacks = 0
  MaxPackets = 5
  CounterWord = 3
  MaxIncs = 5
  MaxTicks = 0
  MaxRequests = 1
  None = None
INVARIANT ReplaysPrevented
CHECK_DEADLOCK FALSE

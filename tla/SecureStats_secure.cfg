SPECIFICATION MCSpec
CONSTANTS
  drift = 2
  bits = 5
  hashes = 2
  Word = 16
  Token <- MCFewTokens
  Start = 1
  MaxTime = 4
  MaxBacks = 1
  MaxPackets = 3
  CounterWord = 3
  MaxIncs = 3
  MaxTicks = 2
  MaxRequests = 1
  None = None
INVARIANTS
  DuplicatesDropped
  StatsConserved
  DatagramsAccounted
  StatsInOrder
PROPERTIES
  OncePerReset
  DropsAreLocal
  UniqueKeysNeverFall
CHECK_DEADLOCK FALSE

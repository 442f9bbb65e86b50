CONSTANTS
  w1 = w1  w2 = w2
  k1 = k1  k2 = k2
  b1 = b1
  Main = Main
  Internal = Internal
  NULL = NULL
  Worker = {w1, w2}
  Key = {k1, k2, Internal}
  Backend = {b1}
  Shard <- OneBackend
  Amount = {1}
  MaxMessages = 2
SPECIFICATION Spec
INVARIANTS
  QueueLinked
  TableRegistered
  Conservation
  WalkComplete
  UniqueKeysExact
PROPERTIES
  DumpExact
  ImplementsAggregator
SYMMETRY WorkerKeySymmetry

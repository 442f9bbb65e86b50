SPECIFICATION MetricSpec
CONSTANTS
  HISTO_INIT_SIZE = 2
  USHRT_MAX = 5
  Value = {1, 2, 3}
  Freq = {10, 33}
  Unit = 10
  MaxPushes = 6
  Garbage = Garbage
  SignedValue <- MCSignedValue
  WholeFreq = {1, 2}
  MaxRecords = 4
  MaxSamples = 2
INVARIANTS
  InBounds
  CountAccounted
  GaugeFollowsUpdates
  MeterConserves
  CounterTotal
PROPERTY SampleSummarises
CHECK_DEADLOCK FALSE

CONSTANTS
  PICKLE_BUFFER_SIZE = 700
  KeyLength = {1, 230, 255, 300}
  Value <- Values
  LineRest <- LineRests
  Chunk = {200, 320}
  MaxSamples = 7
  MaxLines = 3
  DoubleBits = 7
  MantissaBits = 5
  LongBits = 22
  IntBits = 9
  Tiny = 14
  MaxExp = 23
SPECIFICATION MCSpec
INVARIANTS
  PickleInBounds
  NoStaleSamples
  SamplesAccounted
  StreamFramed
  TextCloseToSample

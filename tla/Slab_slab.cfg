SPECIFICATION Spec
CONSTANTS
  Nobody = Nobody
  Thread = {t1, t2}
  NODE_SIZE = 128
  Request = {1, 32, 33, 64, 100, 129}
  MaxAllocs = 4
INVARIANTS
  BlocksDisjoint
  NoBlockStraddles
CHECK_DEADLOCK FALSE

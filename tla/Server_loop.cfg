SPECIFICATION ServerSpec
CONSTANTS
  Samplers = 1
  Backends = 2
  Garbage = {7}
  Signal = {1, 12, 15}
  MaxSends = 1
  MaxTicks = 1
  MaxReceived = 1
  None = None
  MaxOpens = 2
  MaxRotations = 1
INVARIANTS ReadsNeverBlock FlowAccounted KilledOnlyUnloaded ShardsFixed OneLogOpen
PROPERTIES ShutdownCompletes EventsServed RotationServed
CHECK_DEADLOCK FALSE

CONSTANTS
  Node = {0, 1, 2}
  Command = {c1}
  Noop = Noop
  Nil = Nil
  MaxBatch = 2
  MinTimeout = 2
  MaxTimeout = 3
  HeartbeatInterval = 1
  LuckyTerm = 2
  LuckySpread = 1
  Delays = {1}
  MaxMischief = 1
  Horizon = 8
  MaxChaos = 2
  Impatient = {0}
SPECIFICATION MCSpec
PROPERTIES SimulatesRaft CutOffNodeStalls NothingArrivesMidTick
CHECK_DEADLOCK FALSE

CONSTANTS
  n1 = n1
  n2 = n2
  n3 = n3
  Node = {n1, n2, n3}
  Command = {}
  Noop = Noop
  Nil = Nil
  MaxBatch = 2
  Campaigns <- StaleLeader
  Beating = {}
  Crashers = {}
  Cut <- StaleCut
  Delivered <- AllKinds
  MaxLog = 0
SPECIFICATION MCCheckedSpec
INVARIANTS CheckerLeaderCompleteness
CHECK_DEADLOCK FALSE

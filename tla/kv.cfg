CONSTANTS
  n1 = n1
  n2 = n2
  n3 = n3
  Node = {n1, n2, n3}
  Nil = Nil
  Noop <- NoopCommand
  Command <- SomeCommands
  LenLimit = 4
  MaxBatch = 1
  Campaigns <- FirstTermByOne
  Beating = {n1}
  Crashers = {n2}
  Cut <- IsolatedFirst
  Delivered <- AllKinds
  MaxLog = 3
  Appliers = {n1, n2}
SPECIFICATION MCKvSpec
INVARIANTS CaughtUpStores SameStores
CHECK_DEADLOCK FALSE

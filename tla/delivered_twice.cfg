CONSTANTS
  n1 = n1
  n2 = n2
  n3 = n3
  Node = {n1, n2, n3}
  Command = {c}
  Noop = Noop
  Nil = Nil
  MaxBatch = 1
  Campaigns <- FirstTermByOne
  Beating = {n1}
  Crashers = {}
  Cut <- NoCut
  Delivered <- AllKinds
  MaxLog = 3
  Appliers = {n2}
SPECIFICATION MCApplySpec
INVARIANTS DeliveredOnce
CHECK_DEADLOCK FALSE

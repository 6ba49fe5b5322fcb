CONSTANTS
  n1 = n1
  n2 = n2
  n3 = n3
  Node = {n1, n2, n3}
  Command = {c}
  Noop = Noop
  Nil = Nil
  MaxBatch = 3
  Campaigns <- OneThenTwo
  Beating = {}
  Crashers = {}
  Cut <- IsolatedFirst
  Delivered <- AllKinds
  MaxLog = 2
  Appliers = {n2}
SPECIFICATION MCApplySpec
INVARIANTS AckedIsDurable CursorsInRange DeliveredOnce DeliveredIsAgreed
PROPERTIES LeaderAppendOnly CommitNeverRegresses
CHECK_DEADLOCK FALSE

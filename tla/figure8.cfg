CONSTANTS
  n1 = n1
  n2 = n2
  n3 = n3
  Node = {n1, n2, n3}
  Command = {}
  Noop = Noop
  Nil = Nil
  MaxBatch = 1
  Campaigns <- Figure8Terms
  Beating = {n1}
  Crashers = {n2}
  Cut <- MuteReplies
  Delivered <- AllKinds
  MaxLog = 0
SPECIFICATION ColdSpec
INVARIANTS TypeOK StateMachineSafety Durability LeaderCompleteness LogMatching
PROPERTIES ImplementsLog
CHECK_DEADLOCK FALSE

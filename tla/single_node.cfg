CONSTANTS
  n1 = n1
  n2 = n2
  n3 = n3
  Node = {n1}
  Command = {c}
  Noop = Noop
  Nil = Nil
  MaxBatch = 1
  Campaigns <- ThreeTerms
  Beating = {n1}
  Crashers = {n1}
  Cut <- NoCut
  Delivered <- AllKinds
  MaxLog = 4
SPECIFICATION MCCheckedSpec
INVARIANTS LoneLeaderCommits
CHECK_DEADLOCK FALSE

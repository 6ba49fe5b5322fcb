CONSTANTS
  n1 = n1
  n2 = n2
  n3 = n3
  Node = {n1, n2, n3}
  Command = {}
  Noop = Noop
  Nil = Nil
  MaxBatch = 1
  Campaigns <- TwoRivals
  Beating = {}
  Crashers = {n2, n3}
  Cut <- NoCut
  Delivered <- VoteKinds
  MaxLog = 0
SPECIFICATION MCCheckedSpec
INVARIANTS GrantsAreDurable OneSenderPerTerm OneLeaderPerTerm TermsNeverRegress
PROPERTIES VoteNeverChanges
CHECK_DEADLOCK FALSE

CONSTANTS
  n1 = n1
  n2 = n2
  n3 = n3
  Node = {n1, n2, n3}
  Command = {c}
  Noop = Noop
  Nil = Nil
  MaxBatch = 1
  Campaigns <- OneThenTwo
  Beating = {}
  Crashers = {n1}
  Cut <- IsolatedFirst
  Delivered <- AllKinds
  MaxLog = 1
SPECIFICATION HistorySpec
INVARIANTS NoRivalAppend HintIsElected CommittedOnMajority ElectionInv SeenInv SuccessionInv AgreementInv
CHECK_DEADLOCK FALSE

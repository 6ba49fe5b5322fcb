CONSTANTS
  Node = {0, 1}
  NoVote = 2
  Nil = Nil
  Noop = Noop
  c1 = c1
  c2 = c2
  Command = {c1, c2}
  Terms = {0, 1, 2}
  Batches <- SmallBatches
  Cuts = {0, 1, 2, 3}
  MaxLog = 3
SPECIFICATION MCSpec
INVARIANTS SietchInv
PROPERTIES ImplementsContract

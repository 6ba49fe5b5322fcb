CONSTANTS
  Node = {0, 1, 2}
  Command = {c1, marker}
  Marker = marker
  Noop = Noop
  Nil = Nil
  MaxBatch = 2
  MinTimeout = 3
  MaxTimeout = 5
  HeartbeatInterval = 1
  LuckyTerm = 3
  LuckySpread = 1
  Delays = {1}
  MaxMischief = 1
  HighestTerm = 4
SPECIFICATION MCSpec
INVARIANTS ElectionsEnd
PROPERTIES MarkerCommits LeaderEmerges

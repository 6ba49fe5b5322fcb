CONSTANTS
  Base = 3
  Wide = 2
  Narrow = 1
  LenLimit = 3
  MaxKey = 4
  MaxValue = 3
  Numbers = {1, 8}
  Commands <- SmallCommands
  MaxEntries = 2
  MaxDamage = 2
SPECIFICATION Spec
INVARIANTS RoundTrips DecodesOnlyEncodings MessagesRoundTrip AcceptsOnlyEncodings NoMessageIsAPrefix
CHECK_DEADLOCK FALSE

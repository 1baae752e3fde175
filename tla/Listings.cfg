\* The two lists whose cursor is written to the millisecond.
CONSTANTS
  Ids = {1, 2, 3}
  Kinds = {"auth_events", "dead_letters"}
  MaxTime = 3
  MaxWrites = 4
  MaxLimit = 2
  Milli = 2
SPECIFICATION ListSpec
INVARIANT WalkComplete

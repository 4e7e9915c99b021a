\* Backoffs of 3, 6, 7 and one that does not fit in five bits, by two clocks.
CONSTANTS
  p1 = p1
  p2 = p2
  Messages = {1, 2}
  Processes = {p1, p2}
  Base = 3
  MaxDelay = 7
  MaxRetries = 4
  Batch = 1
  UnitsPerMs = 2
  Width = 5
  MaxSkew = 1
  LastFailure = 17
SPECIFICATION FairSpec
CHECK_DEADLOCK FALSE
INVARIANTS TypeOK DelayDoubles
PROPERTIES NeverEarly RetryComes

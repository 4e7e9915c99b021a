\* Three jobs and two workers; two things go wrong.
CONSTANTS
  w1 = w1
  w2 = w2
  Jobs = {1, 2, 3}
  MaxSent = 1
  MaxRetries = 1
  Workers = {w1, w2}
  BufferSize = 1
  RetryMoveBatch = 2
  MaxUpsets = 2
SPECIFICATION FairSpec
INVARIANTS TypeOK AtMostOnePlace NothingLost RetryLimit
PROPERTIES MessageSpec EveryMessageSettles StopReturns

\* One upload, a worker process and its recovery loop; one thing goes wrong.
CONSTANTS
  w1 = w1
  w2 = w2
  s1 = s1
  Jobs = {1}
  MaxSent = 3
  MaxRetries = 1
  Workers = {w1, w2}
  BufferSize = 1
  RetryMoveBatch = 2
  Sweepers = {s1}
  Home = s1
  BatchSize = 1
  Connections = 1
  MaxAged = 1
  MaxUpsets = 1
SPECIFICATION FairSpec
INVARIANTS TypeOK FailedIsRetried AttemptsBounded
PROPERTIES RecoverySpec LifecycleSpec MessageSpec JobIsConcluded

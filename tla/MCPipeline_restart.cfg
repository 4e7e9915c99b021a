\* What TODO.md:53 promises of a restart.
CONSTANTS
  w1 = w1
  w2 = w2
  s1 = s1
  Jobs = {1}
  MaxSent = 1
  MaxRetries = 1
  Workers = {w1}
  BufferSize = 1
  RetryMoveBatch = 1
  Sweepers = {s1}
  Home = s1
  BatchSize = 1
  Connections = 1
  MaxAged = 0
  MaxUpsets = 1
SPECIFICATION Spec
INVARIANT RestartKeepsJobs

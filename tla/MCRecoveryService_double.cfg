\* What TODO.md:142 promises, with recovery.
CONSTANTS
  s1 = s1
  s2 = s2
  Jobs = {1}
  Sweepers = {s1}
  BatchSize = 1
  Connections = 1
  RetryMoveBatch = 2
  MaxAged = 1
  MaxUpsets = 0
  MaxLoad = 1
SPECIFICATION Spec
INVARIANT NoDoubleProcessing

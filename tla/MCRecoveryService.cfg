\* Two sweeps over one row or one sweep over two, with a batch of one.
CONSTANTS
  s1 = s1
  s2 = s2
  Jobs = {1, 2}
  Sweepers = {s1, s2}
  BatchSize = 1
  Connections = 1
  RetryMoveBatch = 2
  MaxAged = 1
  MaxUpsets = 1
  MaxLoad = 2
SPECIFICATION FairSpec
INVARIANTS TypeOK ReenqueueBounded HoldersBounded
PROPERTIES LifecycleSpec OrphanIsRecovered

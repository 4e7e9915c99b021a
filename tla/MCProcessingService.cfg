\* Three workers of two processes compete for one job that recovery resets once.
CONSTANTS
  w1 = w1
  w2 = w2
  w3 = w3
  Jobs = {1}
  Workers = {w1, w2, w3}
  Processes <- TwoProcesses
  NumQualities = 2
  MaxResets = 1
SPECIFICATION Spec
SYMMETRY Symmetry
CHECK_DEADLOCK TRUE
INVARIANTS TypeOK ActiveBounded CompletedIsPlayable DoneIsCompleted
PROPERTIES CompletedIsFinal LifecycleSpec

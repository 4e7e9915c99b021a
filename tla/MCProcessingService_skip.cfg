\* What the comment of TryMarkJobProcessing says of a skipped call.
CONSTANTS
  w1 = w1
  w2 = w2
  w3 = w3
  Jobs = {1}
  Workers = {w1, w2, w3}
  Processes <- TwoProcesses
  NumQualities = 1
  MaxResets = 0
SPECIFICATION Spec
PROPERTY SkipOnlyWhenHandled

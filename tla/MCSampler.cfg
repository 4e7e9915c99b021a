\* What the help of the gauge says it shows.
CONSTANTS
  Statuses = {"pending", "completed"}
  MaxCount = 1
  MaxFaults = 1
SPECIFICATION Spec
INVARIANT GaugesAreSampled

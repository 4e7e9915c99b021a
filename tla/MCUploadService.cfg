\* Two requests at once; the server stops when both have ended.
CONSTANTS
  Jobs = {1, 2}
SPECIFICATION Spec
CHECK_DEADLOCK FALSE
INVARIANTS TypeOK RowHasInput AcceptedIsReady RejectedLeavesNoRow

CONSTANTS
  d1 = d1
  d2 = d2
  Devices <- MCDevices
  MaxEdits = 2
  MaxUploads = 3
  Overlap = FALSE
SPECIFICATION Spec
SYMMETRY Symmetry
CHECK_DEADLOCK FALSE
INVARIANTS WholeRecord PartialPushLeavesTrace
PROPERTY NewerNeverLost

CONSTANTS
  d1 = d1
  d2 = d2
  Devices <- MCDevices
  MaxEdits = 2
  MaxUploads = 2
  Overlap = TRUE
SPECIFICATION Spec
SYMMETRY Symmetry
CHECK_DEADLOCK FALSE
INVARIANT PullReadsOnePush

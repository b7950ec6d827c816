SPECIFICATION Spec
CONSTANTS
  w1 = w1
  w2 = w2
  Workers = {w1, w2}
  Timeout = 2
  Soft = 3
  Hard = 5
  Delays = {0, 2}
  MaxCalls = 1
  Urls = {image, reference}
  Image = image
  image = image
  reference = reference
  Settings <- MCSettings
  MaxChanges = 1
SYMMETRY Symmetry
INVARIANTS TypeOK LeavesNothing UsedAfterCheck ReportedWhole
CHECK_DEADLOCK FALSE

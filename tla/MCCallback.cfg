SPECIFICATION Spec
CONSTANTS
  None = None
  MaxAttempts = 5
  Soft = 540
  Hard = 600
  Ends <- MCEnds
  Durations <- MCDurations
  Saving = {1}
INVARIANTS TypeOK HookHonest Undisturbed
PROPERTIES ReportsKept
CHECK_DEADLOCK FALSE

SPECIFICATION Spec
CONSTANTS
  c1 = c1 c2 = c2 None = None
  Dark = Dark Ended = Ended Looping = Looping Local = Local
  Controllers = {c1, c2}
  MaxRuns = 2
  Lead = 2
  Late = 1
  Cutoff = 0
  Spare = 2
  MaxCommand = 2
  MaxFaults = 1
CHECK_DEADLOCK FALSE
INVARIANTS
  Together
PROPERTIES
  ErrorsNameTheArmed
  OperationsEnd

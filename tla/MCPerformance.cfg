SPECIFICATION Spec
CONSTANTS
  None = None
  MaxActs = 3
  MaxTouches = 2
  MaxFaults = 2
CHECK_DEADLOCK FALSE
INVARIANTS
  OffIsDark
  OutputPlaysTheLog
  PreviewPlaysTheLog
PROPERTIES
  PreviewCatchesUp
  StopsEnd
  OutputComesBack

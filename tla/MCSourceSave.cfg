SPECIFICATION MCSpec
CONSTANTS
  old = old new = new None = None
  N = 3
  Contents = {old, new}
  Moved <- MCMoved
INVARIANTS
  SavedMeansWritten
  FailedMeansRestored
  CrashLeavesAPrefix
  ChangeIsWhole
  NewTextNeedsTheMove

SPECIFICATION Spec
CONSTANTS
  f1 = f1 f2 = f2 printed = printed typed = typed other = other broken = broken
  M1 = M1 M2 = M2 None = None
  Files = {f1, f2}
  Root = f1
  Texts <- TwoTexts
  InitialTexts = {printed}
  Meanings = {M1, M2}
  Meaning <- MCMeaning
  Canonical <- MCCanonical
  Operations = {"edit", "external", "delete", "readFails", "writeFails", "open", "renameFails", "settings", "settingsFail", "path"}
  HistoryLimit = 2
  MaxRevision = 3
  MaxToggles = 1
  MaxExternal = 2
INVARIANTS
  SavedIsSaved
PROPERTIES
  NothingLostInBackground
  ConflictNeedsDecision

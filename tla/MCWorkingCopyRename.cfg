SPECIFICATION Spec
CONSTANTS
  f1 = f1 f2 = f2 printed = printed typed = typed other = other broken = broken
  M1 = M1 M2 = M2 None = None
  Files = {f1, f2}
  Root = f1
  Texts <- TwoTexts
  InitialTexts = {printed}
  Meanings = {M1, M2}
  Meaning <- MCMeaning
  Canonical <- MCCanonical
  Operations = {"external", "delete", "renameFails"}
  HistoryLimit = 2
  MaxRevision = 2
  MaxToggles = 0
  MaxExternal = 1
INVARIANTS
  SessionIsCurrent


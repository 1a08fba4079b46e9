SPECIFICATION Spec
CONSTANTS
  f1 = f1 f2 = f2 printed = printed typed = typed other = other broken = broken
  M1 = M1 M2 = M2 None = None
  Files = {f1, f2}
  Root = f1
  Texts <- GoodTexts
  InitialTexts = {typed, None}
  Meanings = {M1, M2}
  Meaning <- MCMeaning
  Canonical <- MCCanonical
  Operations = {"gui", "rename", "draft", "settings", "path"}
  HistoryLimit = 2
  MaxRevision = 3
  MaxToggles = 1
  MaxExternal = 0
INVARIANTS
  SessionIsCurrent
  HistoryIsAPath
PROPERTIES
  EditsWhatItSaw

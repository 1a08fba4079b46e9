SPECIFICATION FairSpec
CONSTANTS
  f1 = f1 f2 = f2 printed = printed typed = typed other = other broken = broken
  M1 = M1 M2 = M2 None = None
  Files = {f1, f2}
  Root = f1
  Texts <- FewTexts
  InitialTexts = {printed}
  Meanings = {M1, M2}
  Meaning <- MCMeaning
  Canonical <- MCCanonical
  Operations = {"edit", "external", "delete", "settings"}
  HistoryLimit = 2
  MaxRevision = 2
  MaxToggles = 2
  MaxExternal = 2
INVARIANTS
  ConflictBlocksGui
PROPERTIES
  CheckingEnds
  AutosaveSaves

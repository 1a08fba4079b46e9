SPECIFICATION FairSpec
CONSTANTS
  Tasks = {main, w1, w2}
  Main = main
  Shows = {s1, s2}
  None = None
  Generations = 4
INVARIANTS
  FlashAlone
  PlayingIsSaved
  OneShowInMemory
PROPERTIES
  OnlyCommitReplaces
  FramesResume
  RequestsEnd

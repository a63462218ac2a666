SPECIFICATION FairSpec
CONSTANTS
  c1 = c1
  c2 = c2
  s1 = s1
  s2 = s2
  Cells = {c1, c2}
  Scores = {s1, s2}
  Missing = Missing
  Bad = Bad
  None = None
  BatchSize = 1
  MaxEdits = 2
  MaxFailures = 1
  MaxOthers = 1
  MaxLoads = 1
  MaxFills = 0
  MaxOfflines = 1
  MaxClosings = 0
  MaxOrphans = 0
PROPERTY EveryDraftSettles
INVARIANT ConflictsAreReal

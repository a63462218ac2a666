SPECIFICATION Spec
CONSTANTS
  c1 = c1
  c2 = c2
  s1 = s1
  s2 = s2
  Cells = {c1, c2}
  Scores = {s1, s2}
  Missing = Missing
  Bad = Bad
  None = None
  BatchSize = 2
  MaxEdits = 2
  MaxFailures = 1
  MaxOthers = 0
  MaxLoads = 2
  MaxFills = 1
  MaxOfflines = 1
  MaxClosings = 1
  MaxOrphans = 1
INVARIANTS
  NothingTypedIsLost
  DiskAgrees
SYMMETRY Both

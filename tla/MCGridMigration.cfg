\* Three courses of two classes, two overlapping duplications, one edit.
SPECIFICATION Spec
CONSTANTS
  a = a
  b = b
  cA = cA
  cB = cB
  n1 = n1
  n2 = n2
  y1 = y1
  y2 = y2
  p1 = p1
  p2 = p2
  p3 = p3
  t1 = t1
  k1 = k1
  k2 = k2
  Calls = {k1, k2}
  Years = {y1, y2}
  Levels = {n1, n2}
  Periods = {p1, p2, p3}
  YearOf <- MCYearOf
  Catalog = {1, 2, 3}
  Scales = {1, 20}
  NoKey = NoKey
  MaxEdits = 1
  Classes = {cA, cB}
  Codes = {a, b}
  Teachers = {t1}
  OldYear = y1
  Legacies <- MCLegacies
  NoClass = NoClass
INVARIANTS
  TypeOK
  RowsKeepSubject
  CoursesStayGradable
  ScoresStayValid
  RoundTrip
  CopiesComplete
SYMMETRY Callers
CHECK_DEADLOCK FALSE

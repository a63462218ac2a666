\* Three requests of Direction for one class, two teachers, one line.
SPECIFICATION Spec
CONSTANTS
  k1 = k1
  k2 = k2
  k3 = k3
  t1 = t1
  t2 = t2
  l1 = l1
  Calls = {k1, k2, k3}
  Teachers = {t1, t2}
  Lines = {l1}
  Nobody = Nobody
  Open = Open
  MaxTime = 1
INVARIANTS
  NoGap
  InSyncUnlessOverlapped
  AttributionsAnswered
SYMMETRY Requests
CHECK_DEADLOCK FALSE

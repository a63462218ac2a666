\* Two requests that write grades while two directors make the period advance.
SPECIFICATION Spec
CONSTANTS
  r1 = r1
  r2 = r2
  k1 = k1
  k2 = k2
  c1 = c1
  c2 = c2
  s1 = s1
  p1 = p1
  admitted = admitted
  reason1 = reason1
  Requests = {r1, r2}
  Cells = {c1, c2}
  Scores = {s1}
  Statut = Statut
  Absent = Absent
  Malformed = Malformed
  Null = Null
  Free = Free
  Earlier = Earlier
  MaxBatch = 2
  Accepted <- MCAccepted
  Scope <- MCScope
  Batches <- MCBatches
  Calls = {k1, k2}
  Role <- MCRole
  Pupils = {p1}
  Kinds = {admitted}
  Reasons = {reason1}
  TooShort = {}
  NoDecision = NoDecision
  Nobody = Nobody
INVARIANTS
  SubmittedComplete
PROPERTIES
  LateRequestsRefused
  RoutesAsAssumed
SYMMETRY Interchangeable

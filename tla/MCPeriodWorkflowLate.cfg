\* A manual decision that overlaps a publication.
SPECIFICATION Spec
CONSTANTS
  k1 = k1
  k2 = k2
  k3 = k3
  k4 = k4
  p1 = p1
  admitted = admitted
  deferred = deferred
  reason1 = reason1
  reason2 = reason2
  short = short
  Calls = {k1, k2}
  Role <- MCDirectors
  Pupils = {p1}
  Kinds = {admitted, deferred}
  Reasons = {reason1}
  TooShort = {}
  NoDecision = NoDecision
  Nobody = Nobody
INVARIANT NoDecisionAfterPublication

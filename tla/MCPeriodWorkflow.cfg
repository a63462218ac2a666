\* Overlapping calls of three directors and the titulaire.
SPECIFICATION Spec
CONSTANTS
  k1 = k1
  k2 = k2
  k3 = k3
  k4 = k4
  p1 = p1
  admitted = admitted
  deferred = deferred
  reason1 = reason1
  reason2 = reason2
  short = short
  Calls = {k1, k2, k3, k4}
  Role <- MCSchool
  Pupils = {p1}
  Kinds = {admitted, deferred}
  Reasons = {reason1, reason2, short}
  TooShort = {short}
  NoDecision = NoDecision
  Nobody = Nobody
INVARIANTS
  StepsInOrder
  OneSubmission
  VersionMarksPublication
  ColumnsLogged
PROPERTY CycleSpec
SYMMETRY Directors

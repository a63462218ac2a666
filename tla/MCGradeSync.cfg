\* Two overlapping requests over every initial content of two cells, with fair workers.
SPECIFICATION FairSpec
CONSTANTS
  r1 = r1
  r2 = r2
  c1 = c1
  c2 = c2
  s1 = s1
  s2 = s2
  Requests = {r1, r2}
  Cells = {c1, c2}
  Scores = {s1, s2}
  Statut = Statut
  Absent = Absent
  Malformed = Malformed
  Null = Null
  Free = Free
  Earlier = Earlier
  MaxBatch = 2
  Accepted <- MCAccepted
  Scope <- MCScope
  Batches <- MCBatches
INVARIANTS
  AuditChain
  AnswersMatchAudit
  NoHoldAndWait
PROPERTIES
  NoLostUpdate
  LedgerSpec
  EveryBatchEnds

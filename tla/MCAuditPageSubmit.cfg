\* A submission is in the log.
SPECIFICATION Spec
CONSTANTS
  UPDATE = UPDATE
  PUBLISH = PUBLISH
  SUBMIT = SUBMIT
  ada = ada
  bea = bea
  GradeActions = {UPDATE}
  DeliberationActions = {PUBLISH, SUBMIT}
  Labelled = {UPDATE, PUBLISH}
  Subjects = {ada, bea}
  Any = Any
  PerPage = 1
  Day = 2
  MaxTime = 2
  MaxEntries = 3
  Filters <- MCFilters
INVARIANTS
  LogReadable
CHECK_DEADLOCK FALSE

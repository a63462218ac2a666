\* Up to three entries appended while pages of one entry are read.
SPECIFICATION Spec
CONSTANTS
  UPDATE = UPDATE
  PUBLISH = PUBLISH
  SUBMIT = SUBMIT
  ada = ada
  bea = bea
  GradeActions = {UPDATE}
  DeliberationActions = {PUBLISH, SUBMIT}
  Labelled = {UPDATE, PUBLISH}
  Subjects = {ada, bea}
  Any = Any
  PerPage = 1
  Day = 2
  MaxTime = 2
  MaxEntries = 3
  Filters <- MCFilters
INVARIANTS
  ForwardNeverSkips
  QuietReadingExact
CHECK_DEADLOCK FALSE

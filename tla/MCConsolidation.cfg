\* The pages of a class, for every way to fill the grid.
SPECIFICATION PagesSpec
CONSTANTS
  p1 = p1
  p2 = p2
  p3 = p3
  None = None
  Statut = Statut
  Appreciation = Appreciation
  Absent = Absent
  Pupils <- MCPupils
  Grille <- MCGrille
  Threshold = 5000
  Eliminatory = {"EPS"}
  MaxFailures = 1
  Scores <- MCScores
  FirstGrades <- MCFirstGrades
INVARIANTS
  PagesTyped
  CompetitionRanks
  SubtotalsAddUp
  RankFollowsDecision
  PagesOrderAlike
PROPERTIES
  HigherScoreNeverHurts

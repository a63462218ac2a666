-------------------------- MODULE MCConsolidation --------------------------
(***************************************************************************)
(* Three pupils and four lines: the first and the last count, in the same  *)
(* group; one belongs to a group outside the general total and is          *)
(* eliminatory; one is marked by appreciation.                             *)
(***************************************************************************)
EXTENDS Consolidation

CONSTANTS p1, p2, p3

MCPupils == <<p1, p2, p3>>

Line(code, groupe, ponderation, maximum, counts, appreciation) ==
  [code |-> code, groupe |-> groupe, ponderation |-> ponderation, maximum |-> maximum,
   entre_dans_total_general |-> TRUE, groupe_entre_dans_total_general |-> counts,
   note_par_appreciation |-> appreciation]

MCGrille ==
  << Line("MATH", "sciences", 10, 2000, TRUE, FALSE),
     Line("EPS", "sport", 3, 2000, FALSE, FALSE),
     Line("CONDUITE", "conduite", 1, 2000, TRUE, TRUE),
     Line("LABO", "sciences", 1, 1000, TRUE, FALSE) >>

(* 499 against 500 in LABO moves the total by less than the rounding.    *)
MCScores == <<{1000}, {200}, {1500}, {0, 499, 500, 1000, 1001}>>

Blank == [l \in Lines |-> IF l = 3 THEN Appreciation ELSE Absent]

MCFirstGrades == {[p \in Enrolled |-> IF p = p1 THEN [Blank EXCEPT ![1] = Statut] ELSE Blank]}
=============================================================================

----------------------------- MODULE MCGradeGrid -----------------------------
(***************************************************************************)
(* Small instances of GradeGrid.                                           *)
(***************************************************************************)
EXTENDS GradeGrid, TLC

CONSTANTS c1, c2, s1, s2

(* The two scores are interchangeable, and so are the two cells. *)
Both == Permutations({s1, s2}) \cup Permutations({c1, c2})
=============================================================================

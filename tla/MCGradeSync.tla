---------------------------- MODULE MCGradeSync ----------------------------
(***************************************************************************)
(* Small instances of GradeSync: two cells, two scores.  Line 2 has a      *)
(* lower maximum, so s2 is acceptable in c1 only.                          *)
(***************************************************************************)
EXTENDS GradeSync, TLC

CONSTANTS r1, r2, c1, c2, s1, s2

MCAccepted == c1 :> {s1, s2} @@ c2 :> {s1}

(* Both users may write both cells. *)
MCScope == [r \in Requests |-> {c1, c2}]

Edit(c, before, after) == [cell |-> c, value |-> after, base |-> before]

(* First entries, corrections, a repeated post (r1 and r2 may both send    *)
(* the same batch), two batches over the same cells in opposite orders, an *)
(* entry over a statut, values that are refused, a repeated cell and an    *)
(* empty list.                                                             *)
MCBatches ==
  { <<Edit(c1, Absent, s1), Edit(c2, Absent, s1)>>,
    <<Edit(c2, Absent, s1), Edit(c1, Absent, s2)>>,
    <<Edit(c1, s1, s2)>>,
    <<Edit(c2, Statut, s2), Edit(c1, Statut, s1)>>,
    <<Edit(c1, Absent, s1), Edit(c1, s1, s2)>>,
    <<Edit(c1, Absent, Malformed)>>,
    <<>> }

(* Every change of these batches can be answered. *)
ASSUME MCAnswerable ==
  \A changes \in Batches : \A i \in DOMAIN changes : Error(changes[i]) \in Result
=============================================================================

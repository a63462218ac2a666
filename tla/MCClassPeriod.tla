---------------------------- MODULE MCClassPeriod ----------------------------
(***************************************************************************)
(* A small class: two cells, two teachers who write while two directors    *)
(* make the period advance.                                                *)
(***************************************************************************)
EXTENDS ClassPeriod, TLC

CONSTANTS r1, r2, k1, k2, c1, c2, s1, p1, admitted, reason1

MCAccepted == [c \in Cells |-> Scores]
MCScope == [r \in Requests |-> Cells]
MCRole == [k \in Calls |-> "direction"]

(* Both entries of an empty grid, and an entry over a statut. *)
Edit(c, before, after) == [cell |-> c, value |-> after, base |-> before]
MCBatches ==
  { <<Edit(c1, Absent, s1), Edit(c2, Absent, s1)>>,
    <<Edit(c2, Statut, s1)>> }

(* The requests differ in nothing but their names, nor do the directors.   *)
Interchangeable == Permutations({r1, r2}) \cup Permutations({k1, k2})
=============================================================================

-------------------------- MODULE MCPeriodWorkflow --------------------------
(***************************************************************************)
(* Small instances of PeriodWorkflow.  Directors may ask for anything; of  *)
(* what the titulaire asks for only a submission is let in.                *)
(***************************************************************************)
EXTENDS PeriodWorkflow, TLC

CONSTANTS k1, k2, k3, k4, p1, admitted, deferred, reason1, reason2, short

(* Overlapping calls: up to three directors, so that a decision taken by   *)
(* one can be replaced by the two others at once, and the titulaire.       *)
MCDirectors == [k \in Calls |-> "direction"]
MCSchool == [k \in Calls |-> IF k = k4 THEN "titulaire" ELSE "direction"]

(* The directors differ in nothing but their names. *)
Directors == Permutations({k1, k2, k3})
=============================================================================

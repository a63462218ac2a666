---------------------------- MODULE MCTitulariat ----------------------------
(***************************************************************************)
(* A small instance of Titulariat: three requests, enough for two to       *)
(* overlap and a third to meet the rows they leave.                        *)
(***************************************************************************)
EXTENDS Titulariat, TLC

CONSTANTS k1, k2, k3, t1, t2, l1

Requests == Permutations({k1, k2, k3})
=============================================================================

------------------------------ MODULE MCTenancy ------------------------------
(***************************************************************************)
(* Two requests in two threads over two connections, two commands.         *)
(***************************************************************************)
EXTENDS Tenancy, TLC

CONSTANTS r1, r2, c1, c2, k1, k2, h1, h2, admin, s1, s2

Interchangeable ==
  UNION {Permutations(s) : s \in {Requests, Connections, Commands, Hosts, ShortCodes}}
=============================================================================

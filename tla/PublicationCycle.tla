--------------------------- MODULE PublicationCycle ---------------------------
(***************************************************************************)
(* What the workflow promises for one class and period when its calls      *)
(* overlap.  Every step leaves a state the period has been in for the next *)
(* one of the path: a step may be repeated, and a slow one may set the     *)
(* status back, but none is skipped.  The first one is made once, as only  *)
(* one call can create the publication row.  Only publications change the  *)
(* version, which never exceeds their number.                              *)
(***************************************************************************)
EXTENDS Naturals

VARIABLES
  status,      \* where the period is
  reached,     \* where it has been
  published,   \* how often it was published
  version      \* the number of the current publication

vars == <<status, reached, published, version>>

Path == <<"DRAFT", "SUBMITTED", "CONSOLIDATED", "VALIDATED", "PUBLISHED">>

Init ==
  \E n \in 1..5 :
    /\ status = Path[n]
    /\ reached = {Path[m] : m \in 1..n}
    /\ published = IF n = 5 THEN 1 ELSE 0
    /\ version = published

Advance(n) ==
  /\ Path[n] \in reached
  /\ n = 1 => status = "DRAFT"
  /\ status' = Path[n + 1]
  /\ reached' = reached \cup {Path[n + 1]}
  /\ IF n = 4 THEN published' = published + 1 /\ version' \in 1..published'
              ELSE UNCHANGED <<published, version>>

Next == \E n \in 1..4 : Advance(n)

Spec == Init /\ [][Next]_vars
=============================================================================

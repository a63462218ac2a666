------------------------------- MODULE Grades -------------------------------
(***************************************************************************)
(* The vocabulary shared by the modules about grade entry: the cells of a  *)
(* class's grade grid for one period, what a cell can hold, and what a     *)
(* teacher's browser sends to change it.                                   *)
(*                                                                         *)
(* A cell is one (enrollment, grid line) pair; the database allows at most *)
(* one grade row per cell and period (models/grading.py, unique constraint *)
(* on enrollment, line and period).  The content of a row is either a      *)
(* score or a statut that explains why there is none; a missing row has    *)
(* content Absent.  The portal compares contents as text: str(grade.score) *)
(* is a distinct text for each score, "None" for a statut and "" for a     *)
(* missing row, so a content stands for its own text.                      *)
(***************************************************************************)
EXTENDS Naturals, Sequences

CONSTANTS
  Requests,   \* HTTP requests to the sync route, each handled once
  Cells,      \* (enrollment, grid line) pairs of one class and period
  Scores,     \* numeric scores, two decimals
  Statut,     \* content of a row that has a statut and no score
  Absent,     \* no row for the cell, the text "" of an empty input
  Malformed,  \* any submitted text that does not parse to a score
  Null,       \* SQL NULL in an audit column
  Accepted,   \* Accepted[c]: scores within the maximum of c's line
  Batches     \* the lists of changes a browser may post

Contents == Scores \cup {Statut}
Texts == Contents \cup {Absent}

(* One entry of the posted JSON list. *)
Change == [cell : Cells, value : Scores \cup {Malformed}, base : Texts]

(* One entry of the rendered answer, data-key/-value/-base/-state. *)
Result == [cell : Cells, value : Scores \cup {Malformed}, base : Texts,
           state : {"saved", "error"}]

(* The line of an appreciation column has no maximum and accepts no score  *)
(* at all, so its cells have Accepted[c] = {}.                             *)
ASSUME GradesAssumption ==
  /\ Statut \notin Scores /\ Absent \notin Scores /\ Null \notin Scores
  /\ Malformed \notin Scores
  /\ Statut # Absent
  /\ Accepted \in [Cells -> SUBSET Scores]
  /\ Batches \subseteq Seq(Change)

(* What the NUMERIC columns old_value and new_value of the audit keep of a *)
(* content: the score, or NULL when there is none.                         *)
AuditValue(text) == IF text \in Scores THEN text ELSE Null

Saved(change) ==
  [cell |-> change.cell, value |-> change.value, base |-> change.value, state |-> "saved"]

Error(change) ==
  [cell |-> change.cell, value |-> change.value, base |-> change.base, state |-> "error"]
=============================================================================

----------------------------- MODULE GradeLedger -----------------------------
(***************************************************************************)
(* What the sync route promises a teacher, without transactions, row locks *)
(* or savepoints: every cell is an atomic register, and each change of a   *)
(* batch is answered, in order, by one indivisible compare-and-set.  A     *)
(* change is saved only when the cell holds the value its author saw (or   *)
(* already holds the submitted one, so that a repeated post is harmless);  *)
(* it is refused only when the value is not acceptable, the cell is        *)
(* frozen, or the cell holds neither value.  The one exception is a grade  *)
(* the author saw missing: the loser of two overlapping first entries is   *)
(* refused even when both entered the same score.                          *)
(***************************************************************************)
EXTENDS Grades

VARIABLES
  value,     \* value[c]: content of cell c
  frozen,    \* frozen[c]: validated or archived, closed to the portal
  asked,     \* asked[r]: the batch of request r, <<>> before it arrives
  answered   \* answered[r]: results given so far

vars == <<value, frozen, asked, answered>>

Init ==
  /\ value \in [Cells -> Texts]
  /\ frozen \in [Cells -> BOOLEAN]
  /\ asked = [r \in Requests |-> <<>>]
  /\ answered = [r \in Requests |-> <<>>]

(* The change of request r that has no answer yet. *)
Pending(r) == Len(answered[r]) < Len(asked[r])
Change1(r) == asked[r][Len(answered[r]) + 1]

Ask(r, batch) ==
  /\ asked[r] = <<>>
  /\ asked' = [asked EXCEPT ![r] = batch]
  /\ UNCHANGED <<value, frozen, answered>>

Apply(r) ==
  LET change == Change1(r) IN
  /\ Pending(r)
  /\ change.value \in Accepted[change.cell]
  /\ ~frozen[change.cell]
  /\ value[change.cell] \in {change.base, change.value}
  /\ value' = [value EXCEPT ![change.cell] = change.value]
  /\ answered' = [answered EXCEPT ![r] = Append(@, Saved(change))]
  /\ UNCHANGED <<frozen, asked>>

Refuse(r) ==
  LET change == Change1(r) IN
  /\ Pending(r)
  /\ \/ change.value \notin Accepted[change.cell]
     \/ frozen[change.cell]
     \/ /\ value[change.cell] # change.base
        /\ value[change.cell] # change.value \/ change.base = Absent
  /\ answered' = [answered EXCEPT ![r] = Append(@, Error(change))]
  /\ UNCHANGED <<value, frozen, asked>>

Freeze(c) ==
  /\ value[c] # Absent
  /\ frozen' = [frozen EXCEPT ![c] = TRUE]
  /\ UNCHANGED <<value, asked, answered>>

Next ==
  \/ \E r \in Requests :
       \/ \E batch \in Batches : Ask(r, batch)
       \/ Apply(r)
       \/ Refuse(r)
  \/ \E c \in Cells : Freeze(c)

Spec == Init /\ [][Next]_vars
=============================================================================

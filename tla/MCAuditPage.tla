----------------------------- MODULE MCAuditPage -----------------------------
(***************************************************************************)
(* Three entries on pages of one, a day of two instants and the next.      *)
(***************************************************************************)
EXTENDS AuditPage

CONSTANTS UPDATE, PUBLISH, SUBMIT, ada, bea

(* Everything, one pupil, one action of a table, a day. *)
Unset == [action |-> Any, subject |-> Any, from |-> Any, to |-> Any]
MCFilters == {Unset, [Unset EXCEPT !.subject = ada], [Unset EXCEPT !.action = PUBLISH],
              [Unset EXCEPT !.from = 0, !.to = 0]}
=============================================================================

------------------------------ MODULE ClassPeriod ------------------------------
(***************************************************************************)
(* One class and period as a whole: the sync route (GradeSync) and the     *)
(* transition route (PeriodWorkflow) over the same database.  Each module  *)
(* sees the other through one variable that its environment changes.  Here *)
(* both variables are what the code computes from the other's tables:      *)
(*   - a grade may be written while the publication row says DRAFT, or     *)
(*     there is none (authorization_service, _periode_verrouillee);        *)
(*   - a period may be submitted when no cell of the grid lacks its grade  *)
(*     (deliberation_service, blocking_items).                             *)
(*                                                                         *)
(* Manual decisions touch neither the grades nor the status and are left   *)
(* to PeriodWorkflow.  No code validates or archives a grade, so the rows  *)
(* locked here are those that were validated from the start.               *)
(***************************************************************************)
EXTENDS Naturals, Sequences, FiniteSets

CONSTANTS
  Requests, Cells, Scores, Statut, Absent, Malformed, Null, Accepted, Batches,
  Free, Earlier, Scope, MaxBatch,       \* as in GradeSync
  Calls, Role, Pupils, Kinds, Reasons, TooShort, NoDecision, Nobody
                                        \* as in PeriodWorkflow

VARIABLES
  stored, locked, audit, holder, pc, batch, seen, results,   \* of GradeSync
  status, version, creator, transitions, decision, overrides,
  at, action, wish, read                                     \* of PeriodWorkflow

grading == <<stored, locked, audit, holder, pc, batch, seen, results>>
publishing == <<status, version, creator, transitions, decision, overrides,
                at, action, wish, read>>
vars == <<stored, locked, audit, holder, pc, batch, seen, results,
          status, version, creator, transitions, decision, overrides,
          at, action, wish, read>>

(* The period is not locked. *)
Writable == status = "DRAFT"

(* Every line has as many encoded grades as the class has pupils. *)
Encoded == \A c \in Cells : stored[c] # Absent

Sync == INSTANCE GradeSync WITH open <- Writable
Flow == INSTANCE PeriodWorkflow WITH complete <- Encoded

(* What GradeSync and PeriodWorkflow assume, as far as it matters here. *)
ASSUME ClassPeriodAssumption ==
  /\ Absent \notin Scores /\ Statut # Absent
  /\ Accepted \in [Cells -> SUBSET Scores]
  /\ Batches \subseteq Seq(Sync!Change)
  /\ Nobody \notin Calls

(* A period in DRAFT, with grades of every kind already there. *)
Init ==
  /\ status = "DRAFT"
  /\ Sync!Init
  /\ Flow!Init

(* A request to the sync route arrives or goes on. *)
SyncStep(r) ==
  /\ UNCHANGED publishing
  /\ \/ \E changes \in Batches : Sync!Receive(r, changes) \/ Sync!RefuseBatch(r, changes)
     \/ Sync!Step(r)
     \/ Sync!Crash(r)

(* A request to the transition route arrives or goes on. *)
TransitionStep(k) ==
  /\ UNCHANGED grading
  /\ Flow!Transition(k) \/ Flow!Crash(k)

Finished ==
  /\ \A r \in Requests : pc[r] \in {"answered", "refused", "crashed"}
  /\ \A k \in Calls : at[k] \in {"done", "denied", "failed"}
  /\ UNCHANGED vars

Next ==
  \/ \E r \in Requests : SyncStep(r)
  \/ \E k \in Calls : TransitionStep(k)
  \/ Finished

Spec == Init /\ [][Next]_vars

-----------------------------------------------------------------------------
(* A period that has left DRAFT has every grade, although the grades are   *)
(* counted before the status is read and other requests write meanwhile:   *)
(* no step of either route takes a grade away, and a step that is not a    *)
(* submission finds one already made (routes.py, transition: blocking      *)
(* items first, apply_transition afterwards).                              *)
SubmittedComplete == ~Writable => Encoded

(* "Un appel direct à l'API de synchronisation après soumission est        *)
(* refusé": a request that arrives once the period was submitted is never  *)
(* let in, however transitions overlap and set the status back             *)
(* (PERMISSIONS.md, "Verrouillage d'écriture").                            *)
Outside(r) == pc[r] \in {"idle", "refused"}
LateRequestsRefused ==
  [][\A r \in Requests : ~Writable /\ Outside(r) => ~Writable' /\ Outside(r)']_vars

(* What each module takes for granted of the other: the period closes once *)
(* and stays closed, and the last grade is encoded once and for all.  Each *)
(* route, with the other as its environment, does what its module allows.  *)
GradingAsAssumed == Sync!Spec
WorkflowAsAssumed == Flow!Spec
RoutesAsAssumed == GradingAsAssumed /\ WorkflowAsAssumed

-----------------------------------------------------------------------------
(* What makes these inductive: a score is in hand from the SELECT to the   *)
(* COMMIT, and a submission under way has found the grid complete.         *)
GradingTyped ==
  /\ stored \in [Cells -> Sync!Texts]
  /\ pc \in [Requests -> Sync!Places]
  /\ batch \in [Requests -> Seq(Sync!Change)]
  /\ results \in [Requests -> Seq(Sync!Result)]

WorkflowTyped ==
  /\ status \in Flow!Status
  /\ at \in [Calls -> Flow!Places]
  /\ action \in [Calls -> Flow!Actions]

ScoresInHand ==
  \A r \in Requests : pc[r] \in {"update", "insert", "flushed"} =>
    Sync!Remaining(r) /\ Sync!Current(r).value \in Scores

SubmissionsFounded ==
  \A k \in Calls :
    /\ at[k] \in {"read", "create", "commit"} /\ action[k] = "submit" => Encoded
    /\ at[k] = "create" => action[k] = "submit"
    /\ at[k] = "commit" /\ action[k] # "submit" => ~Writable

ClassInv ==
  /\ GradingTyped /\ WorkflowTyped
  /\ ScoresInHand /\ SubmissionsFounded /\ SubmittedComplete
=============================================================================

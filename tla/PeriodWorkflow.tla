---------------------------- MODULE PeriodWorkflow ----------------------------
(***************************************************************************)
(* The publication workflow of one class and period, and the manual        *)
(* deliberation decisions taken in it: the routes transition and           *)
(* override_decision of the portal and the services they call.             *)
(*                                                                         *)
(* Calls run at once, each in its own database session (READ COMMITTED).   *)
(* Unlike the sync route these services take no row lock: they read the    *)
(* publication row or the decision, decide in Python, and write at the     *)
(* commit.  The ORM writes only the columns that differ from what it read, *)
(* in its flush at the commit; that flush and the COMMIT are one step here *)
(* because a flushed row makes other writers of it wait for the COMMIT.    *)
(* The publication row is created by the first transition and leaves DRAFT *)
(* in the same transaction, so status DRAFT also stands for "no row".      *)
(***************************************************************************)
EXTENDS Naturals, Sequences, FiniteSets

CONSTANTS
  Calls,       \* HTTP requests to the two routes, each handled once
  Role,        \* Role[k]: what k's user is to this class
  Pupils,      \* enrollments of the class
  Kinds,       \* ADMITTED, DEFERRED
  Reasons,     \* texts of a motive
  TooShort,    \* the reasons of fewer than ten characters
  NoDecision,  \* no override row for the pupil
  Nobody       \* no session has an uncommitted publication row

VARIABLES
  complete,    \* every cell of the grid is encoded (no blocking item)
  status,      \* committed PeriodPublication.status
  version,     \* committed PeriodPublication.version
  creator,     \* the call whose INSERT of the publication row is uncommitted
  decision,    \* decision[p]: committed override of pupil p
  transitions, \* transition rows of deliberation_audit_logs, in commit order
  overrides,   \* override rows of deliberation_audit_logs, in commit order
  at,          \* at[k]: where call k is
  action,      \* action[k]: the action k asks for
  wish,        \* wish[k]: the override k asks for
  read         \* read[k]: what k read before it writes

workflow == <<status, version, creator, transitions>>
deliberation == <<decision, overrides>>
call == <<at, action, wish, read>>
vars == <<complete, status, version, creator, decision, transitions, overrides,
          at, action, wish, read>>

Status == {"DRAFT", "SUBMITTED", "CONSOLIDATED", "VALIDATED", "PUBLISHED"}
Decisions == [kind : Kinds, reason : Reasons]
Wishes == [pupil : Pupils, kind : Kinds, reason : Reasons]

(* NEXT_STATUS and TRANSITION_ACTION_FOR_STATUS, keyed by action. *)
Actions == {"submit", "consolidate", "validate", "publish"}
From == [submit |-> "DRAFT", consolidate |-> "SUBMITTED",
         validate |-> "CONSOLIDATED", publish |-> "VALIDATED"]
(* Slip: a class that is not consolidated goes back to its teachers. *)
ToReopening == [submit |-> "SUBMITTED", consolidate |-> "DRAFT",
                validate |-> "VALIDATED", publish |-> "PUBLISHED"]

To == [submit |-> "SUBMITTED", consolidate |-> "CONSOLIDATED",
       validate |-> "VALIDATED", publish |-> "PUBLISHED"]

ASSUME WorkflowAssumption ==
  /\ Role \in [Calls -> {"direction", "titulaire", "enseignant"}]
  /\ TooShort \subseteq Reasons
  /\ Pupils # {} /\ Kinds # {} /\ Reasons # {}
  /\ NoDecision \notin Decisions
  /\ Nobody \notin Calls

Places == {"idle", "check", "read", "create", "commit", "guard", "lookup", "store",
           "done", "denied", "failed"}
Active == Places \ {"idle", "done", "denied", "failed"}

TransitionRow == [action : Actions, old : Status, new : Status]
OverrideRow == [pupil : Pupils, old : Decisions \cup {NoDecision}, new : Decisions,
                late : BOOLEAN]

TypeOK ==
  /\ complete \in BOOLEAN
  /\ status \in Status
  /\ version \in Nat
  /\ creator \in Calls \cup {Nobody}
  /\ decision \in [Pupils -> Decisions \cup {NoDecision}]
  /\ transitions \in Seq(TransitionRow)
  /\ overrides \in Seq(OverrideRow)
  /\ at \in [Calls -> Places]
  /\ action \in [Calls -> Actions]
  /\ wish \in [Calls -> Wishes]
  /\ read \in [Calls -> [version : Nat, decision : Decisions \cup {NoDecision}]]

(* The rows left by transitions made one after the other. *)
Row(act) == [action |-> act, old |-> From[act], new |-> To[act]]
Cycle == <<Row("submit"), Row("consolidate"), Row("validate"), Row("publish")>>

(* The period starts anywhere in its cycle, n steps after DRAFT; no manual *)
(* decision has been taken yet.                                            *)
Init ==
  /\ complete \in BOOLEAN
  /\ \E n \in 0..4 :
       /\ status = IF n = 0 THEN "DRAFT" ELSE Cycle[n].new
       /\ version = IF n = 4 THEN 1 ELSE 0
       /\ transitions = SubSeq(Cycle, 1, n)
  /\ creator = Nobody
  /\ decision = [p \in Pupils |-> NoDecision]
  /\ overrides = <<>>
  /\ at = [k \in Calls |-> "idle"]
  /\ action = [k \in Calls |-> "submit"]
  /\ wish = [k \in Calls |-> CHOOSE w \in Wishes : TRUE]
  /\ read = [k \in Calls |-> [version |-> 0, decision |-> NoDecision]]

Go(k, from, to) == at[k] = from /\ at' = [at EXCEPT ![k] = to]

-----------------------------------------------------------------------------
(* POST .../consolidation/<action>. Submitting belongs to the effective    *)
(* titulaire or, in the route, to Direction; the rest to Direction only.   *)
MayAct(k, act) ==
  \/ Role[k] = "direction"
  \/ act = "submit" /\ Role[k] = "titulaire"

AskTransition(k, act) ==
  /\ MayAct(k, act)
  /\ Go(k, "idle", IF act = "submit" THEN "check" ELSE "read")
  /\ action' = [action EXCEPT ![k] = act]
  /\ UNCHANGED <<complete, workflow, deliberation, wish, read>>

(* 404 *)
DenyTransition(k, act) ==
  /\ ~MayAct(k, act)
  /\ Go(k, "idle", "denied")
  /\ UNCHANGED <<complete, workflow, deliberation, action, wish, read>>

(* Slip: the blocking items are shown but do not block. *)
CheckCompleteShown(k) ==
  /\ Go(k, "check", "read")
  /\ UNCHANGED <<complete, workflow, deliberation, action, wish, read>>

(* A submission first computes the consolidation payload: 409 when a line  *)
(* still lacks grades.                                                     *)
CheckComplete(k) ==
  /\ Go(k, "check", IF complete THEN "read" ELSE "denied")
  /\ UNCHANGED <<complete, workflow, deliberation, action, wish, read>>

(* Slip: the action is not checked against the current status. *)
ReadStatusUnchecked(k) ==
  /\ Go(k, "read", IF status = "DRAFT" THEN "create" ELSE "commit")
  /\ read' = [read EXCEPT ![k].version = version]
  /\ UNCHANGED <<complete, workflow, deliberation, action, wish>>

(* apply_transition reads the publication row without a lock. *)
ReadStatus(k) ==
  /\ status = From[action[k]]
  /\ Go(k, "read", IF status = "DRAFT" THEN "create" ELSE "commit")
  /\ read' = [read EXCEPT ![k].version = version]
  /\ UNCHANGED <<complete, workflow, deliberation, action, wish>>

(* TransitionError: 409. *)
RejectTransition(k) ==
  /\ status # From[action[k]]
  /\ Go(k, "read", "denied")
  /\ UNCHANGED <<complete, workflow, deliberation, action, wish, read>>

(* Slip: no unique constraint on (class, period). *)
CreateRowTwice(k) ==
  /\ Go(k, "create", "commit")
  /\ creator' = k
  /\ UNCHANGED <<complete, status, version, transitions, deliberation, action, wish, read>>

(* The first transition flushes the INSERT of the row; it waits while      *)
(* another session has inserted the same key and not finished.             *)
CreateRow(k) ==
  /\ Go(k, "create", "commit")
  /\ status = "DRAFT"
  /\ creator = Nobody
  /\ creator' = k
  /\ UNCHANGED <<complete, status, version, transitions, deliberation, action, wish, read>>

(* IntegrityError, not caught: 500. *)
CreateCollision(k) ==
  /\ Go(k, "create", "failed")
  /\ status # "DRAFT"
  /\ UNCHANGED <<complete, workflow, deliberation, action, wish, read>>

(* Slip: every transition counts as a new version. *)
CommitTransitionCounting(k) ==
  /\ Go(k, "commit", "done")
  /\ status' = To[action[k]]
  /\ version' = read[k].version + 1
  /\ transitions' = Append(transitions, Row(action[k]))
  /\ creator' = IF creator = k THEN Nobody ELSE creator
  /\ UNCHANGED <<complete, deliberation, action, wish, read>>

(* The commit writes the new status over whatever the row holds by now,    *)
(* the version only when publishing, and the audit row.                    *)
CommitTransition(k) ==
  /\ Go(k, "commit", "done")
  /\ status' = To[action[k]]
  /\ version' = IF action[k] = "publish" THEN read[k].version + 1 ELSE version
  /\ transitions' = Append(transitions, Row(action[k]))
  /\ creator' = IF creator = k THEN Nobody ELSE creator
  /\ UNCHANGED <<complete, deliberation, action, wish, read>>

-----------------------------------------------------------------------------
(* POST .../deliberation/<enrollment>/override, Direction only. *)
AskOverride(k, w) ==
  /\ Role[k] = "direction"
  /\ w.reason \notin TooShort
  /\ Go(k, "idle", "guard")
  /\ wish' = [wish EXCEPT ![k] = w]
  /\ UNCHANGED <<complete, workflow, deliberation, action, read>>

(* Another role is turned away; a motive that is too short is a 422, and   *)
(* so is a decision that does not parse, which no state can tell apart.    *)
DenyOverride(k, w) ==
  /\ Role[k] # "direction" \/ w.reason \in TooShort
  /\ Go(k, "idle", "denied")
  /\ UNCHANGED <<complete, workflow, deliberation, action, wish, read>>

(* Refused once the period is published: 422. *)
CheckUnpublished(k) ==
  /\ Go(k, "guard", IF status = "PUBLISHED" THEN "denied" ELSE "lookup")
  /\ UNCHANGED <<complete, workflow, deliberation, action, wish, read>>

ReadDecision(k) ==
  /\ Go(k, "lookup", "store")
  /\ read' = [read EXCEPT ![k].decision = decision[wish[k].pupil]]
  /\ UNCHANGED <<complete, workflow, deliberation, action, wish>>

Wanted(k) == [kind |-> wish[k].kind, reason |-> wish[k].reason]

(* The row after the ORM's UPDATE: a column the call did not change with   *)
(* respect to what it had read is not written.                             *)
Written(k, row) ==
  IF read[k].decision = NoDecision THEN Wanted(k)
  ELSE [kind |-> IF wish[k].kind = read[k].decision.kind THEN row.kind ELSE wish[k].kind,
        reason |-> IF wish[k].reason = read[k].decision.reason THEN row.reason
                   ELSE wish[k].reason]

(* Slip: only first decisions are logged. *)
StoreDecisionUnlogged(k) ==
  LET p == wish[k].pupil IN
  /\ Go(k, "store", "done")
  /\ read[k].decision = NoDecision => decision[p] = NoDecision
  /\ decision' = [decision EXCEPT ![p] = Written(k, decision[p])]
  /\ overrides' = IF read[k].decision = NoDecision
                  THEN Append(overrides, [pupil |-> p, old |-> NoDecision, new |-> Wanted(k),
                                          late |-> status = "PUBLISHED"])
                  ELSE overrides
  /\ UNCHANGED <<complete, workflow, action, wish, read>>

StoreDecision(k) ==
  LET p == wish[k].pupil IN
  /\ Go(k, "store", "done")
  /\ read[k].decision = NoDecision => decision[p] = NoDecision
  /\ decision' = [decision EXCEPT ![p] = Written(k, decision[p])]
  /\ overrides' = Append(overrides,
       [pupil |-> p, old |-> read[k].decision, new |-> Wanted(k), late |-> status = "PUBLISHED"])
  /\ UNCHANGED <<complete, workflow, action, wish, read>>

(* Two first decisions for the same pupil: IntegrityError, not caught.     *)
StoreCollision(k) ==
  /\ Go(k, "store", "failed")
  /\ read[k].decision = NoDecision
  /\ decision[wish[k].pupil] # NoDecision
  /\ UNCHANGED <<complete, workflow, deliberation, action, wish, read>>

-----------------------------------------------------------------------------
(* A worker dies: its transaction is rolled back. *)
Crash(k) ==
  /\ at[k] \in Active
  /\ at' = [at EXCEPT ![k] = "failed"]
  /\ creator' = IF creator = k THEN Nobody ELSE creator
  /\ UNCHANGED <<complete, status, version, transitions, deliberation, action, wish, read>>

(* The teachers encode the last missing grade (GradeSync). *)
LastGradeEncoded ==
  /\ ~complete
  /\ complete' = TRUE
  /\ UNCHANGED <<workflow, deliberation, call>>

Transition(k) ==
  \/ \E act \in Actions : AskTransition(k, act) \/ DenyTransition(k, act)
  \/ CheckComplete(k)
  \/ ReadStatus(k) \/ RejectTransition(k)
  \/ CreateRow(k) \/ CreateCollision(k) \/ CommitTransition(k)

Override(k) ==
  \/ \E w \in Wishes : AskOverride(k, w) \/ DenyOverride(k, w)
  \/ CheckUnpublished(k)
  \/ ReadDecision(k) \/ StoreDecision(k) \/ StoreCollision(k)

Finished ==
  /\ \A k \in Calls : at[k] \in {"done", "denied", "failed"}
  /\ UNCHANGED vars

Next ==
  \/ \E k \in Calls : Transition(k) \/ Override(k) \/ Crash(k)
  \/ LastGradeEncoded
  \/ Finished

Spec == Init /\ [][Next]_vars

-----------------------------------------------------------------------------
(* No step is ever skipped, whatever the interleaving: the state a logged  *)
(* transition starts from was reached by an earlier logged transition      *)
(* (deliberation_workflow.py, NEXT_STATUS: "in this fixed order").         *)
StepsInOrder ==
  \A n \in DOMAIN transitions :
    transitions[n].old # "DRAFT" => \E m \in 1..(n - 1) : transitions[m].new = transitions[n].old

(* Of several titulaires or directors who submit at once, one succeeds:    *)
(* the unique index on the publication row turns the others away.          *)
OneSubmission ==
  \A m, n \in DOMAIN transitions :
    transitions[m].action = "submit" /\ transitions[n].action = "submit" => m = n

(* The version is set by publications only: it is positive as soon as one  *)
(* is logged, and never exceeds their number.                              *)
Publications == {n \in DOMAIN transitions : transitions[n].action = "publish"}
VersionMarksPublication ==
  /\ Publications # {} <=> version > 0
  /\ version <= Cardinality(Publications)

(* Whatever the interleaving, each column of a stored decision is one that *)
(* the audit log holds for this pupil.                                     *)
ColumnsLogged ==
  \A p \in Pupils : decision[p] # NoDecision =>
    \E i, j \in DOMAIN overrides :
      /\ overrides[i].pupil = p /\ overrides[i].new.kind = decision[p].kind
      /\ overrides[j].pupil = p /\ overrides[j].new.reason = decision[p].reason

(* What a call under way relies on: the state a transition leaves was      *)
(* reached through the log, the call that creates the row is alone in      *)
(* doing so while the period is in DRAFT, and a decision that was read is  *)
(* still there to be updated.  The properties above follow from it.        *)
Reached(s) == s = "DRAFT" \/ \E n \in DOMAIN transitions : transitions[n].new = s

WriterInv ==
  /\ status = "DRAFT" <=> transitions = <<>>
  /\ Reached(status)
  /\ \A k \in Calls :
       /\ at[k] = "create" => action[k] = "submit"
       /\ at[k] = "commit" => Reached(From[action[k]])
       /\ at[k] = "commit" /\ action[k] = "submit" => creator = k /\ status = "DRAFT"
       /\ creator = k => at[k] = "commit" /\ action[k] = "submit"
       /\ at[k] = "store" /\ read[k].decision # NoDecision =>
            decision[wish[k].pupil] # NoDecision

(* A call never holds a version above the number of publications: what    *)
(* makes VersionMarksPublication inductive.                                *)
VersionInv ==
  /\ VersionMarksPublication
  /\ \A k \in Calls : at[k] \in {"create", "commit"} =>
       read[k].version <= Cardinality(Publications)

-----------------------------------------------------------------------------
(* However the calls overlap, they implement the publication cycle.        *)
PublishedCycle == INSTANCE PublicationCycle WITH
  reached <- {s \in Status : Reached(s)},
  published <- Cardinality(Publications)

CycleSpec == PublishedCycle!Spec

(* "Refused once the period is published": no manual decision is stored    *)
(* after the bulletins went out (deliberation_service.py, apply_override). *)
(* It holds unless a publication overlaps the decision.                    *)
NoDecisionAfterPublication == \A i \in DOMAIN overrides : ~overrides[i].late
=============================================================================

------------------------ MODULE PeriodWorkflow_proofs ------------------------
(***************************************************************************)
(* Proofs about PeriodWorkflow: overlapping transitions may repeat a step  *)
(* or go back, but they never skip one, and a period is submitted once.    *)
(***************************************************************************)
EXTENDS PeriodWorkflow, FiniteSetTheorems, TLAPS

(* The rows of an undisturbed cycle. *)
LEMMA CycleRows ==
  /\ Cycle \in Seq(TransitionRow)
  /\ Len(Cycle) = 4
  /\ \A n \in 1..4 : Cycle[n] \in TransitionRow
  /\ \A n \in 1..4 : Cycle[n].old = IF n = 1 THEN "DRAFT" ELSE Cycle[n - 1].new
  /\ \A n \in 1..4 : Cycle[n].new # "DRAFT"
  /\ \A n \in 1..4 : Cycle[n].action = "submit" <=> n = 1
<1>1. /\ Cycle[1] = Row("submit") /\ Cycle[2] = Row("consolidate")
      /\ Cycle[3] = Row("validate") /\ Cycle[4] = Row("publish")
      /\ Len(Cycle) = 4
  BY DEF Cycle
<1>2. \A act \in Actions : Row(act) \in TransitionRow
  BY DEF Row, TransitionRow, Actions, From, To, Status
<1>3. Cycle \in Seq(TransitionRow)
  BY <1>2 DEF Cycle, Actions
<1>4. \A n \in 1..4 : n = 1 \/ n = 2 \/ n = 3 \/ n = 4
  OBVIOUS
<1>5. \A n \in 1..4 : Cycle[n] \in TransitionRow
  BY <1>1, <1>2, <1>4 DEF Actions
<1>6. \A n \in 1..4 : /\ Cycle[n].old = IF n = 1 THEN "DRAFT" ELSE Cycle[n - 1].new
                      /\ Cycle[n].new # "DRAFT"
                      /\ Cycle[n].action = "submit" <=> n = 1
  BY <1>1, <1>4 DEF Row, From, To
<1> QED
  BY <1>1, <1>3, <1>5, <1>6

(* Taking the first n rows of the cycle. *)
LEMMA CyclePrefix ==
  ASSUME NEW n \in 0..4
  PROVE  /\ SubSeq(Cycle, 1, n) \in Seq(TransitionRow)
         /\ Len(SubSeq(Cycle, 1, n)) = n
         /\ DOMAIN SubSeq(Cycle, 1, n) = 1..n
         /\ \A m \in 1..n : SubSeq(Cycle, 1, n)[m] = Cycle[m]
<1>1. \A m \in 1..n : m \in 1..4
  OBVIOUS
<1> QED
  BY <1>1, CycleRows

LEMMA InitTypeOK == Init => TypeOK
<1> SUFFICES ASSUME Init PROVE TypeOK
  OBVIOUS
<1>1. PICK n \in 0..4 : /\ status = IF n = 0 THEN "DRAFT" ELSE Cycle[n].new
                        /\ version = IF n = 4 THEN 1 ELSE 0
                        /\ transitions = SubSeq(Cycle, 1, n)
  BY DEF Init
<1>2. status \in Status /\ version \in Nat /\ transitions \in Seq(TransitionRow)
  <2>1. n # 0 => n \in 1..4
    OBVIOUS
  <2>2. status \in Status
    BY <1>1, <2>1, CycleRows DEF TransitionRow, Status
  <2> QED
    BY <1>1, <2>2, CyclePrefix
<1>3. (CHOOSE w \in Wishes : TRUE) \in Wishes
  <2>1. PICK p \in Pupils, d \in Kinds, x \in Reasons : TRUE
    BY WorkflowAssumption
  <2>2. [pupil |-> p, kind |-> d, reason |-> x] \in Wishes
    BY DEF Wishes
  <2> QED
    BY <2>2
<1>4. wish \in [Calls -> Wishes]
  BY <1>3 DEF Init
<1>5. overrides \in Seq(OverrideRow)
  BY DEF Init
<1>6. at \in [Calls -> Places] /\ action \in [Calls -> Actions]
  BY DEF Init, Places, Actions
<1>7. read \in [Calls -> [version : Nat, decision : Decisions \cup {NoDecision}]]
  BY DEF Init
<1> QED
  BY <1>2, <1>4, <1>5, <1>6, <1>7 DEF Init, TypeOK

LEMMA RowTyped == \A act \in Actions : Row(act) \in TransitionRow
BY DEF Row, TransitionRow, Actions, From, To, Status

(* A decision as the ORM writes it is a decision. *)
LEMMA WrittenTyped ==
  ASSUME TypeOK, NEW k \in Calls, NEW row \in Decisions \cup {NoDecision},
         read[k].decision = NoDecision \/ row # NoDecision
  PROVE  Wanted(k) \in Decisions /\ Written(k, row) \in Decisions
<1>1. wish[k] \in Wishes
  BY DEF TypeOK
<1>2. Wanted(k) \in Decisions
  BY <1>1 DEF Wanted, Wishes, Decisions
<1>3. CASE read[k].decision = NoDecision
  BY <1>2, <1>3 DEF Written
<1>4. CASE read[k].decision # NoDecision
  <2>1. row \in Decisions
    BY <1>4
  <2> QED
    BY <1>1, <1>2, <1>4, <2>1 DEF Written, Wishes, Decisions
<1> QED
  BY <1>3, <1>4

LEMMA CallTypeOK ==
  ASSUME TypeOK, WriterInv, NEW k \in Calls, Transition(k) \/ Override(k) \/ Crash(k)
  PROVE  TypeOK'
<1> USE DEF TypeOK, Go, workflow, deliberation
<1>1. CASE \E act \in Actions : AskTransition(k, act) \/ DenyTransition(k, act)
  <2>1. PICK act \in Actions : AskTransition(k, act) \/ DenyTransition(k, act)
    BY <1>1
  <2>2. at' \in [Calls -> Places] /\ action' \in [Calls -> Actions]
    BY <2>1 DEF AskTransition, DenyTransition, Places
  <2> QED
    BY <2>1, <2>2 DEF AskTransition, DenyTransition
<1>2. CASE CheckComplete(k)
  BY <1>2 DEF CheckComplete, Places
<1>3. CASE ReadStatus(k)
  BY <1>3 DEF ReadStatus, Places
<1>4. CASE RejectTransition(k)
  BY <1>4 DEF RejectTransition, Places
<1>5. CASE CreateRow(k)
  BY <1>5 DEF CreateRow, Places
<1>6. CASE CreateCollision(k)
  BY <1>6 DEF CreateCollision, Places
<1>7. CASE CommitTransition(k)
  <2>1. action[k] \in Actions /\ To[action[k]] \in Status /\ read[k].version \in Nat
    BY DEF Actions, To, Status
  <2>2. Row(action[k]) \in TransitionRow
    BY <2>1, RowTyped
  <2> QED
    BY <1>7, <2>1, <2>2 DEF CommitTransition, Places
<1>8. CASE \E w \in Wishes : AskOverride(k, w) \/ DenyOverride(k, w)
  <2>1. PICK w \in Wishes : AskOverride(k, w) \/ DenyOverride(k, w)
    BY <1>8
  <2>2. at' \in [Calls -> Places] /\ wish' \in [Calls -> Wishes]
    BY <2>1 DEF AskOverride, DenyOverride, Places
  <2> QED
    BY <2>1, <2>2 DEF AskOverride, DenyOverride
<1>9. CASE CheckUnpublished(k)
  BY <1>9 DEF CheckUnpublished, Places
<1>10. CASE ReadDecision(k)
  <2>1. wish[k].pupil \in Pupils
    BY DEF Wishes
  <2> QED
    BY <1>10, <2>1 DEF ReadDecision, Places
<1>11. CASE StoreDecision(k)
  <2> DEFINE p == wish[k].pupil
  <2>1. p \in Pupils /\ decision[p] \in Decisions \cup {NoDecision}
    BY DEF Wishes
  <2>2. read[k].decision = NoDecision \/ decision[p] # NoDecision
    BY <1>11 DEF StoreDecision, WriterInv
  <2>3. Wanted(k) \in Decisions /\ Written(k, decision[p]) \in Decisions
    BY <2>1, <2>2, WrittenTyped
  <2>4. [pupil |-> p, old |-> read[k].decision, new |-> Wanted(k),
         late |-> status = "PUBLISHED"] \in OverrideRow
    BY <2>1, <2>3 DEF OverrideRow
  <2>5. /\ decision' \in [Pupils -> Decisions \cup {NoDecision}]
        /\ overrides' \in Seq(OverrideRow)
    BY <1>11, <2>1, <2>3, <2>4 DEF StoreDecision
  <2> QED
    BY <1>11, <2>5 DEF StoreDecision, Places
<1>12. CASE StoreCollision(k)
  BY <1>12 DEF StoreCollision, Places
<1>13. CASE Crash(k)
  BY <1>13 DEF Crash, Places
<1> QED
  BY <1>1, <1>2, <1>3, <1>4, <1>5, <1>6, <1>7, <1>8, <1>9, <1>10, <1>11, <1>12, <1>13
  DEF Transition, Override

LEMMA NextTypeOK == TypeOK /\ WriterInv /\ [Next]_vars => TypeOK'
<1> SUFFICES ASSUME TypeOK, WriterInv, [Next]_vars PROVE TypeOK'
  OBVIOUS
<1>1. CASE \E k \in Calls : Transition(k) \/ Override(k) \/ Crash(k)
  BY <1>1, CallTypeOK
<1>2. CASE LastGradeEncoded
  BY <1>2 DEF LastGradeEncoded, TypeOK, workflow, deliberation, call
<1>3. CASE Finished \/ UNCHANGED vars
  BY <1>3 DEF Finished, vars, TypeOK
<1> QED
  BY <1>1, <1>2, <1>3 DEF Next

LEMMA InitWriterInv == Init => WriterInv
<1> SUFFICES ASSUME Init PROVE WriterInv
  OBVIOUS
<1>1. PICK n \in 0..4 : /\ status = IF n = 0 THEN "DRAFT" ELSE Cycle[n].new
                        /\ transitions = SubSeq(Cycle, 1, n)
  BY DEF Init
<1>2. \A k \in Calls : at[k] = "idle" /\ creator # k
  BY WorkflowAssumption DEF Init
<1>3. CASE n = 0
  <2>1. transitions = <<>> /\ status = "DRAFT"
    BY <1>1, <1>3, CyclePrefix
  <2> QED
    BY <1>2, <2>1 DEF WriterInv, Reached
<1>4. CASE n # 0
  <2>1. n \in 1..4 /\ n \in 1..n
    BY <1>4
  <2>2. n \in DOMAIN transitions /\ transitions[n].new = status /\ status # "DRAFT"
    BY <1>1, <2>1, CyclePrefix, CycleRows
  <2>3. transitions # <<>>
    BY <2>2
  <2> QED
    BY <1>2, <2>2, <2>3 DEF WriterInv, Reached
<1> QED
  BY <1>3, <1>4

(* Reached in the state after a step. *)
ReachedThen(s) == s = "DRAFT" \/ \E n \in DOMAIN transitions' : transitions'[n].new = s

(* The log only grows, so what was reached stays reached. *)
LEMMA LogGrows ==
  ASSUME TypeOK, NEW row \in TransitionRow, transitions' = Append(transitions, row)
  PROVE  /\ Len(transitions) \in Nat
         /\ DOMAIN transitions = 1..Len(transitions)
         /\ DOMAIN transitions' = 1..(Len(transitions) + 1)
         /\ transitions' # <<>>
         /\ transitions'[Len(transitions) + 1] = row
         /\ \A n \in DOMAIN transitions : transitions'[n] = transitions[n]
         /\ \A s : Reached(s) => ReachedThen(s)
         /\ ReachedThen(row.new)
<1>1. transitions \in Seq(TransitionRow)
  BY DEF TypeOK
<1>2. /\ Len(transitions) \in Nat
      /\ DOMAIN transitions = 1..Len(transitions)
      /\ DOMAIN transitions' = 1..(Len(transitions) + 1)
      /\ transitions'[Len(transitions) + 1] = row
      /\ \A n \in DOMAIN transitions : transitions'[n] = transitions[n]
  BY <1>1
<1>3. transitions' # <<>>
  BY <1>2
<1>4. DOMAIN transitions \subseteq DOMAIN transitions' /\ Len(transitions) + 1 \in DOMAIN transitions'
  BY <1>2
<1>5. \A s : Reached(s) => ReachedThen(s)
  BY <1>2, <1>4 DEF Reached, ReachedThen
<1>6. ReachedThen(row.new)
  BY <1>2, <1>4 DEF ReachedThen
<1> QED
  BY <1>2, <1>3, <1>5, <1>6

LEMMA CommitKeepsWriterInv ==
  ASSUME TypeOK, WriterInv, NEW k \in Calls, CommitTransition(k)
  PROVE  WriterInv'
<1> DEFINE row == Row(action[k])
<1>1. /\ action[k] \in Actions /\ row \in TransitionRow
      /\ row.new = To[action[k]] /\ row.new # "DRAFT"
  BY RowTyped DEF TypeOK, Row, To, From, Actions
<1>2. /\ at[k] = "commit" /\ at' = [at EXCEPT ![k] = "done"]
      /\ status' = To[action[k]]
      /\ transitions' = Append(transitions, row)
      /\ creator' = IF creator = k THEN Nobody ELSE creator
      /\ UNCHANGED <<decision, action, wish, read>>
  BY DEF CommitTransition, Go, deliberation
<1>3. /\ transitions' # <<>> /\ \A s : Reached(s) => ReachedThen(s)
      /\ ReachedThen(row.new)
  BY <1>1, <1>2, LogGrows
<1>4. status' # "DRAFT" /\ transitions' # <<>> /\ ReachedThen(status')
  BY <1>1, <1>2, <1>3
<1>5. ASSUME NEW j \in Calls
      PROVE  /\ at'[j] = "create" => action'[j] = "submit"
             /\ at'[j] = "commit" => ReachedThen(From[action'[j]])
             /\ at'[j] = "store" /\ read'[j].decision # NoDecision =>
                  decision'[wish'[j].pupil] # NoDecision
  BY <1>2, <1>3 DEF WriterInv, TypeOK
(* Another call that creates the row would still own it: only a submission *)
(* leaves DRAFT, and this one is not it.                                   *)
<1>6. ASSUME NEW j \in Calls, at'[j] = "commit", action'[j] = "submit"
      PROVE  creator' = j /\ status' = "DRAFT"
  <2>1. j # k /\ at[j] = "commit" /\ action[j] = "submit"
    BY <1>2, <1>6 DEF TypeOK
  <2>2. creator = j /\ status = "DRAFT"
    BY <2>1 DEF WriterInv
  <2>3. action[k] # "submit"
    BY <1>2, <2>1, <2>2 DEF WriterInv
  <2>4. From[action[k]] # "DRAFT" /\ Reached(From[action[k]])
    BY <1>1, <1>2, <2>3 DEF WriterInv, From, Actions
  <2>5. transitions # <<>>
    BY <2>4 DEF Reached, TypeOK
  <2> QED
    BY <2>2, <2>5 DEF WriterInv
<1>7. ASSUME NEW j \in Calls, creator' = j
      PROVE  at'[j] = "commit" /\ action'[j] = "submit"
  <2>1. j # k /\ creator = j
    BY <1>2, <1>7, WorkflowAssumption
  <2> QED
    BY <1>2, <2>1 DEF WriterInv, TypeOK
<1> QED
  BY <1>4, <1>5, <1>6, <1>7 DEF WriterInv, Reached, ReachedThen

LEMMA CallKeepsWriterInv ==
  ASSUME TypeOK, WriterInv, NEW k \in Calls, Transition(k) \/ Override(k) \/ Crash(k)
  PROVE  WriterInv'
<1> USE DEF TypeOK, WriterInv, Reached, Go, workflow, deliberation
<1>1. CASE \E act \in Actions : AskTransition(k, act) \/ DenyTransition(k, act)
  <2>1. PICK act \in Actions : AskTransition(k, act) \/ DenyTransition(k, act)
    BY <1>1
  <2>2. /\ at[k] = "idle" /\ at'[k] \in {"check", "read", "denied"}
        /\ \A j \in Calls : j # k => at'[j] = at[j] /\ action'[j] = action[j]
    BY <2>1 DEF AskTransition, DenyTransition
  <2>3. /\ UNCHANGED <<workflow, decision, wish, read>>
        /\ creator # k
    BY <2>1, <2>2 DEF AskTransition, DenyTransition
  <2> QED
    BY <2>2, <2>3
<1>2. CASE CheckComplete(k)
  BY <1>2 DEF CheckComplete
<1>3. CASE ReadStatus(k)
  <2>1. status = "DRAFT" => action[k] = "submit"
    BY <1>3 DEF ReadStatus, From, Actions
  <2>2. status # "DRAFT" => action[k] # "submit"
    BY <1>3 DEF ReadStatus, From, Actions
  <2> QED
    BY <1>3, <2>1, <2>2 DEF ReadStatus
<1>4. CASE RejectTransition(k)
  BY <1>4 DEF RejectTransition
<1>5. CASE CreateRow(k)
  <2>1. \A j \in Calls : j # k /\ at[j] = "commit" => action[j] # "submit"
    BY <1>5, WorkflowAssumption DEF CreateRow
  <2>2. action[k] = "submit" /\ From["submit"] = "DRAFT"
    BY <1>5 DEF CreateRow, From
  <2> QED
    BY <1>5, <2>1, <2>2 DEF CreateRow
<1>6. CASE CreateCollision(k)
  BY <1>6 DEF CreateCollision
<1>7. CASE CommitTransition(k)
  BY <1>7, CommitKeepsWriterInv
<1>8. CASE \E w \in Wishes : AskOverride(k, w) \/ DenyOverride(k, w)
  <2>1. PICK w \in Wishes : AskOverride(k, w) \/ DenyOverride(k, w)
    BY <1>8
  <2>2. /\ at[k] = "idle" /\ at'[k] \in {"guard", "denied"}
        /\ \A j \in Calls : j # k => at'[j] = at[j] /\ wish'[j] = wish[j]
    BY <2>1 DEF AskOverride, DenyOverride
  <2>3. /\ UNCHANGED <<workflow, decision, action, read>>
        /\ creator # k
    BY <2>1, <2>2 DEF AskOverride, DenyOverride
  <2> QED
    BY <2>2, <2>3
<1>9. CASE CheckUnpublished(k)
  BY <1>9 DEF CheckUnpublished
<1>10. CASE ReadDecision(k)
  BY <1>10 DEF ReadDecision, Wishes
<1>11. CASE StoreDecision(k)
  <2> DEFINE p == wish[k].pupil
  <2>1. p \in Pupils /\ decision[p] \in Decisions \cup {NoDecision}
    BY DEF Wishes
  <2>2. Written(k, decision[p]) # NoDecision
    BY <1>11, <2>1, WrittenTyped, WorkflowAssumption DEF StoreDecision
  <2>3. \A q \in Pupils : decision[q] # NoDecision => decision'[q] # NoDecision
    BY <1>11, <2>1, <2>2 DEF StoreDecision
  <2>4. \A j \in Calls : wish[j].pupil \in Pupils
    BY DEF Wishes
  <2> QED
    BY <1>11, <2>3, <2>4 DEF StoreDecision
<1>12. CASE StoreCollision(k)
  BY <1>12 DEF StoreCollision
<1>13. CASE Crash(k)
  BY <1>13, WorkflowAssumption DEF Crash, Active, Places
<1> QED
  BY <1>1, <1>2, <1>3, <1>4, <1>5, <1>6, <1>7, <1>8, <1>9, <1>10, <1>11, <1>12, <1>13
  DEF Transition, Override

LEMMA NextWriterInv == TypeOK /\ WriterInv /\ [Next]_vars => WriterInv'
<1> SUFFICES ASSUME TypeOK, WriterInv, [Next]_vars PROVE WriterInv'
  OBVIOUS
<1>1. CASE \E k \in Calls : Transition(k) \/ Override(k) \/ Crash(k)
  BY <1>1, CallKeepsWriterInv
<1>2. CASE LastGradeEncoded
  BY <1>2 DEF LastGradeEncoded, WriterInv, Reached, workflow, deliberation, call
<1>3. CASE Finished \/ UNCHANGED vars
  BY <1>3 DEF Finished, vars, WriterInv, Reached
<1> QED
  BY <1>1, <1>2, <1>3 DEF Next

LEMMA Inductive == Spec => [](TypeOK /\ WriterInv)
<1>1. Init => TypeOK /\ WriterInv
  BY InitTypeOK, InitWriterInv
<1>2. TypeOK /\ WriterInv /\ [Next]_vars => (TypeOK /\ WriterInv)'
  BY NextTypeOK, NextWriterInv
<1> QED
  BY <1>1, <1>2, PTL DEF Spec

-----------------------------------------------------------------------------
(* The variables keep their types. *)
THEOREM TypeCorrect == Spec => []TypeOK
BY Inductive, PTL

(* A call under way can rely on what it read, as far as WriterInv goes. *)
THEOREM WritersUndisturbed == Spec => []WriterInv
BY Inductive, PTL

(* Only a commit of a transition touches the log of transitions.          *)
LEMMA LogStep ==
  ASSUME TypeOK, WriterInv, [Next]_vars, transitions' # transitions
  PROVE  \E k \in Calls : CommitTransition(k)
BY DEF Next, Transition, Override, vars, workflow, deliberation, call,
   AskTransition, DenyTransition, CheckComplete, ReadStatus, RejectTransition, CreateRow,
   CreateCollision, AskOverride, DenyOverride, CheckUnpublished, ReadDecision,
   StoreDecision, StoreCollision, Crash, LastGradeEncoded, Finished

(* Overlapping transitions never skip a step.  The log only grows, and a   *)
(* row is appended by a call whose starting state the log already reached. *)
THEOREM NoStepSkipped == Spec => []StepsInOrder
<1>1. Init => StepsInOrder
  <2> SUFFICES ASSUME Init PROVE StepsInOrder
    OBVIOUS
  <2>1. PICK n \in 0..4 : transitions = SubSeq(Cycle, 1, n)
    BY DEF Init
  <2>2. ASSUME NEW m \in DOMAIN transitions, transitions[m].old # "DRAFT"
        PROVE  \E i \in 1..(m - 1) : transitions[i].new = transitions[m].old
    <3>1. m \in 1..n /\ m \in 1..4 /\ transitions[m] = Cycle[m]
      BY <2>1, CyclePrefix
    <3>2. m # 1 /\ m - 1 \in 1..4 /\ m - 1 \in 1..n /\ m - 1 \in 1..(m - 1)
      BY <2>2, <3>1, CycleRows
    <3>3. transitions[m - 1] = Cycle[m - 1] /\ transitions[m].old = Cycle[m - 1].new
      BY <2>1, <3>1, <3>2, CyclePrefix, CycleRows
    <3> QED
      BY <3>2, <3>3
  <2> QED
    BY <2>2 DEF StepsInOrder
<1>2. TypeOK /\ WriterInv /\ StepsInOrder /\ [Next]_vars => StepsInOrder'
  <2> SUFFICES ASSUME TypeOK, WriterInv, StepsInOrder, [Next]_vars PROVE StepsInOrder'
    OBVIOUS
  <2>1. CASE transitions' = transitions
    BY <2>1 DEF StepsInOrder
  <2>2. CASE transitions' # transitions
    <3>1. PICK k \in Calls : CommitTransition(k)
      BY <2>2, LogStep
    <3> DEFINE row == Row(action[k])
    <3>2. /\ row \in TransitionRow /\ row.old = From[action[k]]
          /\ transitions' = Append(transitions, row)
          /\ Reached(row.old)
      BY <3>1, RowTyped DEF CommitTransition, Go, Row, TypeOK, WriterInv
    <3> HIDE DEF row
    <3>3. ASSUME NEW m \in DOMAIN transitions', transitions'[m].old # "DRAFT"
          PROVE  \E i \in 1..(m - 1) : transitions'[i].new = transitions'[m].old
      <4>1. /\ Len(transitions) \in Nat /\ DOMAIN transitions = 1..Len(transitions)
            /\ DOMAIN transitions' = 1..(Len(transitions) + 1)
            /\ transitions'[Len(transitions) + 1] = row
            /\ \A n \in DOMAIN transitions : transitions'[n] = transitions[n]
        BY <3>2, LogGrows
      <4>2. CASE m \in DOMAIN transitions
        <5>1. PICK i \in 1..(m - 1) : transitions[i].new = transitions[m].old
          BY <3>3, <4>1, <4>2 DEF StepsInOrder
        <5>2. i \in DOMAIN transitions
          BY <4>1, <4>2
        <5> QED
          BY <4>1, <4>2, <5>1, <5>2
      <4>3. CASE m = Len(transitions) + 1
        <5>1. PICK i \in DOMAIN transitions : transitions[i].new = row.old
          BY <3>2, <3>3, <4>1, <4>3 DEF Reached
        <5>2. i \in 1..(m - 1)
          BY <4>1, <4>3
        <5> QED
          BY <4>1, <4>3, <5>1, <5>2
      <4> QED
        BY <4>1, <4>2, <4>3
    <3> QED
      BY <3>3 DEF StepsInOrder
  <2> QED
    BY <2>1, <2>2
<1> QED
  BY <1>1, <1>2, Inductive, PTL DEF Spec

(* A period is submitted at most once: the row is created by one call, and *)
(* while it is being created the log is empty.                             *)
THEOREM SubmittedOnce == Spec => []OneSubmission
<1>1. Init => OneSubmission
  <2> SUFFICES ASSUME Init PROVE OneSubmission
    OBVIOUS
  <2>1. PICK n \in 0..4 : transitions = SubSeq(Cycle, 1, n)
    BY DEF Init
  <2>2. ASSUME NEW m \in DOMAIN transitions, transitions[m].action = "submit" PROVE m = 1
    <3>1. m \in 1..n /\ m \in 1..4 /\ transitions[m] = Cycle[m]
      BY <2>1, CyclePrefix
    <3> QED
      BY <2>2, <3>1, CycleRows
  <2> QED
    BY <2>2 DEF OneSubmission
<1>2. TypeOK /\ WriterInv /\ OneSubmission /\ [Next]_vars => OneSubmission'
  <2> SUFFICES ASSUME TypeOK, WriterInv, OneSubmission, [Next]_vars PROVE OneSubmission'
    OBVIOUS
  <2>1. CASE transitions' = transitions
    BY <2>1 DEF OneSubmission
  <2>2. CASE transitions' # transitions
    <3>1. PICK k \in Calls : CommitTransition(k)
      BY <2>2, LogStep
    <3> DEFINE row == Row(action[k])
    <3>2. /\ row \in TransitionRow /\ row.action = action[k]
          /\ transitions' = Append(transitions, row)
      BY <3>1, RowTyped DEF CommitTransition, Go, Row, TypeOK
    <3>3. action[k] = "submit" => transitions = <<>>
      BY <3>1 DEF CommitTransition, Go, WriterInv
    <3> HIDE DEF row
    <3>4. /\ Len(transitions) \in Nat /\ DOMAIN transitions = 1..Len(transitions)
          /\ DOMAIN transitions' = 1..(Len(transitions) + 1)
          /\ transitions'[Len(transitions) + 1] = row
          /\ \A n \in DOMAIN transitions : transitions'[n] = transitions[n]
      BY <3>2, LogGrows
    <3>5. CASE action[k] = "submit"
      <4>1. Len(transitions) = 0
        BY <3>3, <3>5
      <4>2. DOMAIN transitions' = {1}
        BY <3>4, <4>1
      <4> QED
        BY <4>2 DEF OneSubmission
    <3>6. CASE action[k] # "submit"
      <4>1. \A n \in DOMAIN transitions' :
              transitions'[n].action = "submit" => n \in DOMAIN transitions
        BY <3>2, <3>4, <3>6
      <4> QED
        BY <3>4, <4>1 DEF OneSubmission
    <3> QED
      BY <3>5, <3>6
  <2> QED
    BY <2>1, <2>2
<1> QED
  BY <1>1, <1>2, Inductive, PTL DEF Spec

(* The publications in the log are finitely many. *)
LEMMA PublicationsFinite ==
  TypeOK => IsFiniteSet(Publications) /\ Cardinality(Publications) \in Nat
<1> SUFFICES ASSUME TypeOK PROVE IsFiniteSet(Publications) /\ Cardinality(Publications) \in Nat
  OBVIOUS
<1>1. /\ Len(transitions) \in Nat /\ DOMAIN transitions = 1..Len(transitions)
      /\ Publications \subseteq 1..Len(transitions)
  BY DEF TypeOK, Publications
<1>2. IsFiniteSet(1..Len(transitions))
  BY <1>1, FS_Interval
<1>3. IsFiniteSet(Publications)
  BY <1>1, <1>2, FS_Subset
<1> QED
  BY <1>3, FS_CardinalityType

(* Only a publication adds one to the publications. *)
LEMMA CommitPublications ==
  ASSUME TypeOK, NEW k \in Calls, CommitTransition(k)
  PROVE  /\ action[k] = "publish" => /\ Cardinality(Publications') = Cardinality(Publications) + 1
                                     /\ Publications' # {}
         /\ action[k] # "publish" => Publications' = Publications
<1> DEFINE row == Row(action[k])
           m == Len(transitions) + 1
<1>1. /\ row \in TransitionRow /\ row.action = action[k]
      /\ transitions' = Append(transitions, row)
  BY RowTyped DEF CommitTransition, Row, TypeOK
<1> HIDE DEF row
<1>2. /\ Len(transitions) \in Nat /\ DOMAIN transitions = 1..Len(transitions)
      /\ DOMAIN transitions' = 1..(Len(transitions) + 1)
      /\ transitions'[Len(transitions) + 1] = row
      /\ \A n \in DOMAIN transitions : transitions'[n] = transitions[n]
  BY <1>1, LogGrows
<1>3. CASE action[k] = "publish"
  <2>1. m \notin Publications /\ Publications' = Publications \cup {m}
    BY <1>1, <1>2, <1>3 DEF Publications
  <2> HIDE DEF m
  <2>2. Cardinality(Publications \cup {m}) = Cardinality(Publications) + 1
    BY <2>1, PublicationsFinite, FS_AddElement
  <2> QED
    BY <1>3, <2>1, <2>2
<1>4. CASE action[k] # "publish"
  BY <1>1, <1>2, <1>4 DEF Publications
<1> QED
  BY <1>3, <1>4

(* A transition that is not a publication leaves the publications and the  *)
(* version alone; a publication adds one and counts on from what it read.  *)
LEMMA CommitKeepsVersionInv ==
  ASSUME TypeOK, WriterInv, VersionInv, NEW k \in Calls, CommitTransition(k)
  PROVE  VersionInv'
<1> DEFINE count == Cardinality(Publications)
<1>1. /\ version' = IF action[k] = "publish" THEN read[k].version + 1 ELSE version
      /\ at[k] = "commit" /\ at' = [at EXCEPT ![k] = "done"] /\ read' = read
  BY DEF CommitTransition, Go
<1>2. count \in Nat
  BY PublicationsFinite
<1>3. \A j \in Calls : at'[j] \in {"create", "commit"} =>
        at[j] \in {"create", "commit"} /\ read[j].version \in Nat /\ read[j].version <= count
  BY <1>1 DEF TypeOK, VersionInv
<1>4. CASE action[k] = "publish"
  <2>1. Cardinality(Publications') = count + 1 /\ Publications' # {}
    BY <1>4, CommitPublications
  <2>2. version' = read[k].version + 1 /\ read[k].version \in Nat /\ read[k].version <= count
    BY <1>1, <1>4 DEF TypeOK, VersionInv
  <2> HIDE DEF count
  <2>3. version' > 0 /\ version' <= count + 1
    BY <1>2, <2>2
  <2>4. \A j \in Calls : at'[j] \in {"create", "commit"} => read'[j].version <= count + 1
    BY <1>1, <1>2, <1>3
  <2> QED
    BY <2>1, <2>3, <2>4 DEF VersionInv, VersionMarksPublication
<1>5. CASE action[k] # "publish"
  <2>1. Publications' = Publications /\ version' = version
    BY <1>1, <1>5, CommitPublications
  <2> QED
    BY <1>1, <1>3, <2>1 DEF VersionInv, VersionMarksPublication
<1> QED
  BY <1>4, <1>5

LEMMA NextVersionInv == TypeOK /\ WriterInv /\ VersionInv /\ [Next]_vars => VersionInv'
<1> SUFFICES ASSUME TypeOK, WriterInv, VersionInv, [Next]_vars PROVE VersionInv'
  OBVIOUS
<1>1. CASE \E k \in Calls : CommitTransition(k)
  BY <1>1, CommitKeepsVersionInv
<1>2. CASE \E k \in Calls : ReadStatus(k)
  <2>1. PICK k \in Calls : ReadStatus(k)
    BY <1>2
  <2>2. /\ version' = version /\ transitions' = transitions
        /\ read' = [read EXCEPT ![k].version = version]
        /\ \A j \in Calls : j # k => at'[j] = at[j]
    BY <2>1 DEF ReadStatus, Go, workflow, TypeOK
  <2>3. Publications' = Publications
    BY <2>2 DEF Publications
  <2>4. \A j \in Calls : at'[j] \in {"create", "commit"} =>
          read'[j].version <= Cardinality(Publications)
    BY <2>2 DEF VersionInv, VersionMarksPublication, TypeOK
  <2> QED
    BY <2>2, <2>3, <2>4 DEF VersionInv, VersionMarksPublication
<1>3. CASE /\ ~\E k \in Calls : CommitTransition(k)
           /\ ~\E k \in Calls : ReadStatus(k)
  <2>1. /\ version' = version /\ transitions' = transitions
        /\ \A j \in Calls : at'[j] \in {"create", "commit"} =>
             at[j] \in {"create", "commit"} /\ read'[j].version = read[j].version
    BY <1>3
    DEF TypeOK, Next, Transition, Override, vars, workflow, deliberation, call, Go,
        AskTransition, DenyTransition, CheckComplete, RejectTransition, CreateRow,
        CreateCollision, AskOverride, DenyOverride, CheckUnpublished, ReadDecision,
        StoreDecision, StoreCollision, Crash, LastGradeEncoded, Finished
  <2>2. Publications' = Publications
    BY <2>1 DEF Publications
  <2> QED
    BY <2>1, <2>2 DEF VersionInv, VersionMarksPublication
<1> QED
  BY <1>1, <1>2, <1>3

(* A period whose cycle went n steps was published if n is 4. *)
LEMMA CyclePublications ==
  ASSUME NEW n \in 0..4, transitions = SubSeq(Cycle, 1, n)
  PROVE  /\ Publications = IF n = 4 THEN {4} ELSE {}
         /\ Cardinality(Publications) = IF n = 4 THEN 1 ELSE 0
<1>1. \A m \in 1..4 : Cycle[m].action = "publish" <=> m = 4
  <2>1. /\ Cycle[1] = Row("submit") /\ Cycle[2] = Row("consolidate")
        /\ Cycle[3] = Row("validate") /\ Cycle[4] = Row("publish")
    BY DEF Cycle
  <2>2. \A m \in 1..4 : m = 1 \/ m = 2 \/ m = 3 \/ m = 4
    OBVIOUS
  <2> QED
    BY <2>1, <2>2 DEF Row
<1>2. /\ DOMAIN transitions = 1..n /\ 1..n \subseteq 1..4
      /\ \A m \in 1..n : transitions[m] = Cycle[m]
  BY CyclePrefix
<1>3. Publications = IF n = 4 THEN {4} ELSE {}
  BY <1>1, <1>2 DEF Publications
<1> QED
  BY <1>3, FS_EmptySet, FS_Singleton

LEMMA InitVersionInv == Init => VersionInv
<1> SUFFICES ASSUME Init PROVE VersionInv
  OBVIOUS
<1>1. PICK n \in 0..4 : /\ version = IF n = 4 THEN 1 ELSE 0
                        /\ transitions = SubSeq(Cycle, 1, n)
  BY DEF Init
<1>2. /\ Publications = IF n = 4 THEN {4} ELSE {}
      /\ Cardinality(Publications) = IF n = 4 THEN 1 ELSE 0
  BY <1>1, CyclePublications
<1>3. \A k \in Calls : at[k] = "idle"
  BY DEF Init
<1> QED
  BY <1>1, <1>2, <1>3 DEF VersionInv, VersionMarksPublication

LEMMA VersionInductive == Spec => []VersionInv
BY InitVersionInv, NextVersionInv, Inductive, PTL DEF Spec

(* The version is set by publications only and never runs ahead of them.   *)
THEOREM VersionCounts == Spec => []VersionMarksPublication
<1>1. VersionInv => VersionMarksPublication
  BY DEF VersionInv
<1> QED
  BY <1>1, VersionInductive, PTL

-----------------------------------------------------------------------------
(* The states the log has reached, as the publication cycle counts them.   *)
LEMMA InitImplements == Init => PublishedCycle!Init
<1> SUFFICES ASSUME Init PROVE PublishedCycle!Init
  OBVIOUS
<1> DEFINE reached == {s \in Status : Reached(s)}
           P == PublishedCycle!Path
<1>1. PICK n \in 0..4 : /\ status = IF n = 0 THEN "DRAFT" ELSE Cycle[n].new
                        /\ version = IF n = 4 THEN 1 ELSE 0
                        /\ transitions = SubSeq(Cycle, 1, n)
  BY DEF Init
<1>2. /\ P[1] = "DRAFT" /\ P[2] = "SUBMITTED" /\ P[3] = "CONSOLIDATED"
      /\ P[4] = "VALIDATED" /\ P[5] = "PUBLISHED"
  BY DEF PublishedCycle!Path
<1>3. \A m \in 1..4 : Cycle[m].new = P[m + 1]
  <2>1. /\ Cycle[1] = Row("submit") /\ Cycle[2] = Row("consolidate")
        /\ Cycle[3] = Row("validate") /\ Cycle[4] = Row("publish")
    BY DEF Cycle
  <2>2. \A m \in 1..4 : m = 1 \/ m = 2 \/ m = 3 \/ m = 4
    OBVIOUS
  <2> QED
    BY <1>2, <2>1, <2>2 DEF Row, To
<1>4. \A m \in 1..5 : P[m] \in Status
  BY <1>2 DEF Status
<1> HIDE DEF P
<1>5. /\ DOMAIN transitions = 1..n
      /\ \A m \in 1..n : m \in 1..4 /\ transitions[m].new = P[m + 1]
  BY <1>1, <1>3, CyclePrefix
<1>6. reached = {P[m] : m \in 1..(n + 1)}
  <2>1. ASSUME NEW s \in reached PROVE \E m \in 1..(n + 1) : s = P[m]
    <3>1. CASE s = "DRAFT"
      BY <1>2, <3>1
    <3>2. CASE s # "DRAFT"
      <4>1. PICK m \in 1..n : s = P[m + 1]
        BY <1>5, <3>2 DEF Reached
      <4>2. m + 1 \in 1..(n + 1)
        OBVIOUS
      <4> QED
        BY <4>1, <4>2
    <3> QED
      BY <3>1, <3>2
  <2>2. ASSUME NEW m \in 1..(n + 1) PROVE P[m] \in reached
    <3>1. CASE m = 1
      BY <1>2, <1>4, <3>1 DEF Reached
    <3>2. CASE m # 1
      <4>1. m - 1 \in 1..n /\ (m - 1) + 1 = m /\ m \in 1..5
        BY <3>2
      <4>2. transitions[m - 1].new = P[m]
        BY <1>5, <4>1
      <4> QED
        BY <1>4, <1>5, <4>1, <4>2 DEF Reached
    <3> QED
      BY <3>1, <3>2
  <2> QED
    BY <2>1, <2>2
<1>7. status = P[n + 1]
  <2>1. n # 0 => n \in 1..4
    OBVIOUS
  <2> QED
    BY <1>1, <1>2, <1>3, <2>1
<1>8. Cardinality(Publications) = IF n = 4 THEN 1 ELSE 0
  BY <1>1, CyclePublications
<1>9. n + 1 \in 1..5 /\ (n + 1 = 5 <=> n = 4)
  OBVIOUS
<1> HIDE DEF reached
<1> QED
  BY <1>1, <1>6, <1>7, <1>8, <1>9 DEF PublishedCycle!Init, reached, P

(* A commit is a step of the cycle from a state the log has reached.       *)
LEMMA CommitImplements ==
  ASSUME TypeOK, WriterInv, VersionInv, NEW k \in Calls, CommitTransition(k)
  PROVE  PublishedCycle!Next
<1> DEFINE reached == {s \in Status : Reached(s)}
           P == PublishedCycle!Path
           row == Row(action[k])
           count == Cardinality(Publications)
<1>1. /\ P[1] = "DRAFT" /\ P[2] = "SUBMITTED" /\ P[3] = "CONSOLIDATED"
      /\ P[4] = "VALIDATED" /\ P[5] = "PUBLISHED"
  BY DEF PublishedCycle!Path
<1>2. /\ at[k] = "commit" /\ action[k] \in Actions
      /\ status' = To[action[k]]
      /\ version' = IF action[k] = "publish" THEN read[k].version + 1 ELSE version
      /\ transitions' = Append(transitions, row)
      /\ row \in TransitionRow /\ row.new = To[action[k]]
  BY RowTyped DEF CommitTransition, Go, TypeOK, Row
<1>3. PICK n \in 1..4 : /\ From[action[k]] = P[n] /\ To[action[k]] = P[n + 1]
                        /\ n = 1 <=> action[k] = "submit"
                        /\ n = 4 <=> action[k] = "publish"
  BY <1>1, <1>2 DEF Actions, From, To
<1>4. P[n] \in Status /\ P[n + 1] \in Status
  BY <1>1 DEF Status
<1> HIDE DEF P, row
<1>5. P[n] \in reached
  BY <1>2, <1>3, <1>4 DEF WriterInv
<1>6. n = 1 => status = "DRAFT"
  BY <1>2, <1>3 DEF WriterInv
<1>7. reached' = reached \cup {P[n + 1]}
  <2>1. /\ DOMAIN transitions = 1..Len(transitions) /\ Len(transitions) \in Nat
        /\ DOMAIN transitions' = 1..(Len(transitions) + 1)
        /\ transitions'[Len(transitions) + 1].new = P[n + 1]
        /\ \A m \in DOMAIN transitions : transitions'[m] = transitions[m]
    BY <1>2, <1>3, LogGrows
  <2>2. \A s : Reached(s)' <=> Reached(s) \/ s = P[n + 1]
    BY <2>1 DEF Reached
  <2> QED
    BY <1>4, <2>2
<1>8. CASE action[k] = "publish"
  <2>1. Cardinality(Publications)' = count + 1
    BY <1>8, CommitPublications
  <2>2. /\ version' = read[k].version + 1 /\ read[k].version \in Nat
        /\ read[k].version <= count /\ count \in Nat
    BY <1>2, <1>8, PublicationsFinite DEF TypeOK, VersionInv
  <2> HIDE DEF count
  <2>3. version' \in 1..(count + 1)
    BY <2>2
  <2> HIDE DEF reached
  <2> QED
    BY <1>2, <1>3, <1>5, <1>6, <1>7, <1>8, <2>1, <2>3
    DEF PublishedCycle!Next, PublishedCycle!Advance, P, reached, count
<1>9. CASE action[k] # "publish"
  <2>1. Cardinality(Publications)' = count /\ version' = version
    BY <1>2, <1>9, CommitPublications
  <2> HIDE DEF reached, count
  <2> QED
    BY <1>2, <1>3, <1>5, <1>6, <1>7, <1>9, <2>1
    DEF PublishedCycle!Next, PublishedCycle!Advance, P, reached, count
<1> QED
  BY <1>8, <1>9

(* However calls overlap, they implement the publication cycle.            *)
THEOREM WorkflowImplementsCycle == Spec => CycleSpec
<1>1. TypeOK /\ WriterInv /\ VersionInv /\ [Next]_vars
      => [PublishedCycle!Next]_(PublishedCycle!vars)
  <2> SUFFICES ASSUME TypeOK, WriterInv, VersionInv, [Next]_vars
               PROVE  PublishedCycle!Next \/ UNCHANGED PublishedCycle!vars
    OBVIOUS
  <2>1. CASE \E k \in Calls : CommitTransition(k)
    BY <2>1, CommitImplements
  <2>2. CASE ~\E k \in Calls : CommitTransition(k)
    <3>1. status' = status /\ version' = version /\ transitions' = transitions
      BY <2>2
      DEF Next, Transition, Override, vars, workflow, deliberation, call,
          AskTransition, DenyTransition, CheckComplete, ReadStatus, RejectTransition, CreateRow,
          CreateCollision, AskOverride, DenyOverride, CheckUnpublished, ReadDecision,
          StoreDecision, StoreCollision, Crash, LastGradeEncoded, Finished
    <3>2. Publications' = Publications /\ \A s : Reached(s)' <=> Reached(s)
      BY <3>1 DEF Publications, Reached
    <3> QED
      BY <3>1, <3>2 DEF PublishedCycle!vars
  <2> QED
    BY <2>1, <2>2
<1> QED
  BY <1>1, InitImplements, Inductive, VersionInductive, PTL
  DEF Spec, CycleSpec, PublishedCycle!Spec

-----------------------------------------------------------------------------
(* Only a stored decision touches the decisions and their log.            *)
LEMMA DecisionStep ==
  ASSUME TypeOK, WriterInv, [Next]_vars, <<decision, overrides>>' # <<decision, overrides>>
  PROVE  \E k \in Calls : StoreDecision(k)
BY DEF Next, Transition, Override, vars, workflow, deliberation, call,
   AskTransition, DenyTransition, CheckComplete, ReadStatus, RejectTransition, CreateRow,
   CreateCollision, AskOverride, DenyOverride, CheckUnpublished, ReadDecision,
   CommitTransition, StoreCollision, Crash, LastGradeEncoded, Finished

(* Every column of a stored decision comes from the audit log: a call that *)
(* leaves a column alone leaves one that was logged before.                *)
THEOREM DecisionColumnsLogged == Spec => []ColumnsLogged
<1>1. Init => ColumnsLogged
  BY DEF Init, ColumnsLogged
<1>2. TypeOK /\ WriterInv /\ ColumnsLogged /\ [Next]_vars => ColumnsLogged'
  <2> SUFFICES ASSUME TypeOK, WriterInv, ColumnsLogged, [Next]_vars PROVE ColumnsLogged'
    OBVIOUS
  <2>1. CASE <<decision, overrides>>' = <<decision, overrides>>
    BY <2>1 DEF ColumnsLogged
  <2>2. CASE <<decision, overrides>>' # <<decision, overrides>>
    <3>1. PICK k \in Calls : StoreDecision(k)
      BY <2>2, DecisionStep
    <3> DEFINE p == wish[k].pupil
               row == [pupil |-> p, old |-> read[k].decision, new |-> Wanted(k),
                       late |-> status = "PUBLISHED"]
    <3>2. /\ at[k] = "store" /\ p \in Pupils /\ decision[p] \in Decisions \cup {NoDecision}
          /\ read[k].decision # NoDecision => decision[p] # NoDecision
          /\ decision' = [decision EXCEPT ![p] = Written(k, decision[p])]
          /\ overrides' = Append(overrides, row)
          /\ decision \in [Pupils -> Decisions \cup {NoDecision}]
          /\ overrides \in Seq(OverrideRow)
      BY <3>1 DEF StoreDecision, Go, TypeOK, WriterInv, Wishes
    <3>3. Wanted(k) \in Decisions /\ Written(k, decision[p]) \in Decisions
      BY <3>2, WrittenTyped
    <3>4. row \in OverrideRow
      BY <3>2, <3>3 DEF OverrideRow, TypeOK
    <3>5. row.pupil = p /\ row.new = Wanted(k)
      OBVIOUS
    <3> HIDE DEF row
    <3>6. /\ Len(overrides) \in Nat /\ DOMAIN overrides = 1..Len(overrides)
          /\ DOMAIN overrides' = 1..(Len(overrides) + 1)
          /\ overrides'[Len(overrides) + 1] = row
          /\ \A n \in DOMAIN overrides : overrides'[n] = overrides[n]
      BY <3>2, <3>4
    <3>7. Len(overrides) + 1 \in DOMAIN overrides' /\ DOMAIN overrides \subseteq DOMAIN overrides'
      BY <3>6
    <3> DEFINE KindLogged(q, d) ==
                 \E i \in DOMAIN overrides' :
                   overrides'[i].pupil = q /\ overrides'[i].new.kind = d.kind
               ReasonLogged(q, d) ==
                 \E i \in DOMAIN overrides' :
                   overrides'[i].pupil = q /\ overrides'[i].new.reason = d.reason
    <3>8. ASSUME NEW q \in Pupils, decision[q] # NoDecision
          PROVE  KindLogged(q, decision[q]) /\ ReasonLogged(q, decision[q])
      BY <3>6, <3>7, <3>8 DEF ColumnsLogged
    <3>9. KindLogged(p, Wanted(k)) /\ ReasonLogged(p, Wanted(k))
      BY <3>5, <3>6, <3>7
    <3>10. KindLogged(p, Written(k, decision[p])) /\ ReasonLogged(p, Written(k, decision[p]))
      <4>1. CASE read[k].decision = NoDecision
        BY <3>9, <4>1 DEF Written
      <4>2. CASE read[k].decision # NoDecision
        <5>1. KindLogged(p, decision[p]) /\ ReasonLogged(p, decision[p])
          BY <3>2, <3>8, <4>2
        <5>2. /\ Wanted(k).kind = wish[k].kind /\ Wanted(k).reason = wish[k].reason
          BY DEF Wanted
        <5>3. /\ Written(k, decision[p]).kind \in {decision[p].kind, Wanted(k).kind}
              /\ Written(k, decision[p]).reason \in {decision[p].reason, Wanted(k).reason}
          BY <4>2, <5>2 DEF Written
        <5> QED
          BY <3>9, <5>1, <5>3
      <4> QED
        BY <4>1, <4>2
    <3>11. ASSUME NEW q \in Pupils, decision'[q] # NoDecision
           PROVE  KindLogged(q, decision'[q]) /\ ReasonLogged(q, decision'[q])
      <4>1. CASE q = p
        BY <3>2, <3>10, <4>1
      <4>2. CASE q # p
        BY <3>2, <3>8, <3>11, <4>2
      <4> QED
        BY <4>1, <4>2
    <3> QED
      BY <3>11 DEF ColumnsLogged
  <2> QED
    BY <2>1, <2>2
<1> QED
  BY <1>1, <1>2, Inductive, PTL DEF Spec
=============================================================================

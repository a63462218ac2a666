-------------------------- MODULE ClassPeriod_proofs --------------------------
(***************************************************************************)
(* Proofs about ClassPeriod: what GradeSync and PeriodWorkflow take for    *)
(* granted of each other is what the other does, and a period that was     *)
(* submitted is complete.                                                  *)
(***************************************************************************)
EXTENDS ClassPeriod, TLAPS

LEMMA InitClassInv == Init => ClassInv
<1> SUFFICES ASSUME Init PROVE ClassInv
  OBVIOUS
<1>1. /\ stored \in [Cells -> Sync!Texts] /\ status = "DRAFT"
      /\ pc = [r \in Requests |-> "idle"]
      /\ batch = [r \in Requests |-> <<>>] /\ results = [r \in Requests |-> <<>>]
      /\ at = [k \in Calls |-> "idle"] /\ action = [k \in Calls |-> "submit"]
  BY DEF Init, Sync!Init, Flow!Init
<1>2. GradingTyped
  BY <1>1 DEF GradingTyped, Sync!Places
<1>3. ScoresInHand
  BY <1>1 DEF ScoresInHand
<1>4. WorkflowTyped
  BY <1>1 DEF WorkflowTyped, Flow!Status, Flow!Places, Flow!Actions
<1>5. SubmissionsFounded /\ SubmittedComplete
  BY <1>1 DEF SubmissionsFounded, SubmittedComplete, Writable
<1> QED
  BY <1>2, <1>3, <1>4, <1>5 DEF ClassInv

-----------------------------------------------------------------------------
(* The change in hand is one of the batch, and its answer is a result.     *)
LEMMA ChangeInHand ==
  ASSUME GradingTyped, NEW r \in Requests, Sync!Remaining(r)
  PROVE  /\ Sync!Current(r) \in Sync!Change
         /\ Sync!Error(Sync!Current(r)) \in Sync!Result
         /\ Sync!Current(r).value \in Scores => Sync!Saved(Sync!Current(r)) \in Sync!Result
<1>1. batch[r] \in Seq(Sync!Change) /\ results[r] \in Seq(Sync!Result)
  BY DEF GradingTyped
<1>2. Len(results[r]) + 1 \in 1..Len(batch[r])
  BY <1>1 DEF Sync!Remaining
<1>3. Sync!Current(r) \in Sync!Change
  BY <1>1, <1>2 DEF Sync!Current
<1> QED
  BY <1>3 DEF Sync!Change, Sync!Result, Sync!Error, Sync!Saved, Sync!Texts, Sync!Contents

(* A row is written with an acceptable score only. *)
LEMMA SelectedScore ==
  ASSUME GradingTyped, NEW r \in Requests, Sync!Selected(r)
  PROVE  /\ Sync!Remaining(r) /\ Sync!Current(r).cell \in Cells
         /\ Sync!Current(r).value \in Scores
BY ChangeInHand, ClassPeriodAssumption DEF Sync!Selected, Sync!Change

(* What a step of the sync route keeps. *)
LEMMA SyncStepKeeps ==
  ASSUME GradingTyped, ScoresInHand, NEW r \in Requests, SyncStep(r)
  PROVE  GradingTyped' /\ ScoresInHand' /\ (Encoded => Encoded')
<1> USE DEF GradingTyped, ScoresInHand, Sync!tables
<1>1. CASE \E changes \in Batches : Sync!Receive(r, changes) \/ Sync!RefuseBatch(r, changes)
  <2>1. PICK changes \in Batches : Sync!Receive(r, changes) \/ Sync!RefuseBatch(r, changes)
    BY <1>1
  <2>2. /\ stored' = stored /\ results' = results
        /\ batch' \in [Requests -> Seq(Sync!Change)] /\ pc' \in [Requests -> Sync!Places]
    BY <2>1, ClassPeriodAssumption DEF Sync!Receive, Sync!RefuseBatch, Sync!Places
  <2>3. pc'[r] \in {"change", "refused"}
        /\ \A q \in Requests : q # r => pc'[q] = pc[q] /\ batch'[q] = batch[q]
    BY <2>1 DEF Sync!Receive, Sync!RefuseBatch
  <2> QED
    BY <2>2, <2>3 DEF Sync!Remaining, Sync!Current, Encoded
<1>2. CASE Sync!RejectValue(r) \/ Sync!Conflict(r) \/ Sync!Unchanged(r) \/ Sync!InsertCollision(r)
  <2> DEFINE change == Sync!Current(r)
  <2>1. Sync!Remaining(r) /\ Sync!Error(change) \in Sync!Result
    BY <1>2, ChangeInHand
    DEF Sync!RejectValue, Sync!Conflict, Sync!Unchanged, Sync!InsertCollision, Sync!Selected
  <2>2. Sync!Unchanged(r) => Sync!Saved(change) \in Sync!Result
    BY ChangeInHand, SelectedScore DEF Sync!Unchanged
  <2>3. PICK result \in Sync!Result : results' = [results EXCEPT ![r] = Append(@, result)]
    BY <1>2, <2>1, <2>2
    DEF Sync!RejectValue, Sync!Conflict, Sync!Unchanged, Sync!InsertCollision, Sync!Put
  <2>4. /\ stored' = stored /\ batch' = batch /\ pc' \in [Requests -> Sync!Places]
        /\ pc'[r] = "change" /\ \A q \in Requests : q # r => pc'[q] = pc[q]
    BY <1>2
    DEF Sync!RejectValue, Sync!Conflict, Sync!Unchanged, Sync!InsertCollision, Sync!Selected,
        Sync!Places
  <2>5. results' \in [Requests -> Seq(Sync!Result)]
        /\ \A q \in Requests : q # r => results'[q] = results[q]
    BY <2>3
  <2> QED
    BY <2>4, <2>5 DEF Sync!Remaining, Sync!Current, Encoded
<1>3. CASE Sync!SelectRow(r) \/ Sync!SelectMissing(r)
  <2>1. Sync!Remaining(r) /\ Sync!Current(r).cell \in Cells /\ Sync!Current(r).value \in Scores
    BY <1>3, SelectedScore DEF Sync!SelectRow, Sync!SelectMissing
  <2>2. /\ stored' = stored /\ batch' = batch /\ results' = results
        /\ pc' \in [Requests -> Sync!Places]
        /\ \A q \in Requests : q # r => pc'[q] = pc[q]
    BY <1>3 DEF Sync!SelectRow, Sync!SelectMissing, Sync!Places
  <2> QED
    BY <2>1, <2>2 DEF Sync!Remaining, Sync!Current, Encoded
<1>4. CASE Sync!CommitUpdate(r) \/ Sync!CommitInsert(r)
  <2> DEFINE change == Sync!Current(r)
  <2>1. /\ pc[r] \in {"update", "flushed"} /\ Sync!Remaining(r)
        /\ change.cell \in Cells /\ change.value \in Scores
    BY <1>4, ChangeInHand DEF Sync!CommitUpdate, Sync!CommitInsert, Sync!Change
  <2>2. /\ stored' = [stored EXCEPT ![change.cell] = change.value] /\ batch' = batch
        /\ results' = [results EXCEPT ![r] = Append(@, Sync!Saved(change))]
        /\ pc' = [pc EXCEPT ![r] = "change"]
    BY <1>4 DEF Sync!CommitUpdate, Sync!CommitInsert, Sync!Put
  <2>3. Sync!Saved(change) \in Sync!Result
    BY <2>1, ChangeInHand
  <2> HIDE DEF change
  <2>4. results' \in [Requests -> Seq(Sync!Result)]
        /\ \A q \in Requests : q # r => results'[q] = results[q]
    BY <2>2, <2>3
  <2>5. stored' \in [Cells -> Sync!Texts] /\ \A c \in Cells : stored'[c] \in {stored[c]} \cup Scores
    BY <2>1, <2>2 DEF Sync!Texts, Sync!Contents
  <2>6. /\ pc' \in [Requests -> Sync!Places] /\ pc'[r] = "change"
        /\ \A q \in Requests : q # r => pc'[q] = pc[q]
    BY <2>2 DEF Sync!Places
  <2>7. Encoded => Encoded'
    BY <2>5, ClassPeriodAssumption DEF Encoded
  <2> QED
    BY <2>2, <2>4, <2>5, <2>6, <2>7 DEF Sync!Remaining, Sync!Current
<1>5. CASE Sync!FlushInsert(r) \/ Sync!Respond(r) \/ Sync!Crash(r)
  <2>1. /\ stored' = stored /\ batch' = batch /\ results' = results
        /\ pc' \in [Requests -> Sync!Places]
        /\ \A q \in Requests : q # r => pc'[q] = pc[q]
    BY <1>5 DEF Sync!FlushInsert, Sync!Respond, Sync!Crash, Sync!Places
  <2>2. pc'[r] \in {"update", "insert", "flushed"} => pc[r] = "insert"
    BY <1>5 DEF Sync!FlushInsert, Sync!Respond, Sync!Crash
  <2> QED
    BY <2>1, <2>2 DEF Sync!Remaining, Sync!Current, Encoded
<1> QED
  BY <1>1, <1>2, <1>3, <1>4, <1>5 DEF SyncStep, Sync!Step

(* What a step of the transition route keeps: the period never returns to  *)
(* DRAFT, and leaves it with a complete grid only.                         *)
LEMMA TransitionStepKeeps ==
  ASSUME ClassInv, NEW k \in Calls, TransitionStep(k)
  PROVE  /\ WorkflowTyped' /\ SubmissionsFounded' /\ SubmittedComplete'
         /\ (~Writable => ~Writable')
<1> USE DEF WorkflowTyped, SubmissionsFounded, SubmittedComplete, Writable,
            Flow!Go, Flow!workflow, Flow!deliberation
<1>1. Encoded' = Encoded
  BY DEF TransitionStep, grading, Encoded
<1>2. WorkflowTyped /\ SubmissionsFounded /\ SubmittedComplete
  BY DEF ClassInv
<1>3. CASE status' = status
  <2>1. WorkflowTyped' /\ SubmissionsFounded'
    <3>1. CASE \E act \in Flow!Actions : Flow!AskTransition(k, act) \/ Flow!DenyTransition(k, act)
      <4>1. PICK act \in Flow!Actions : Flow!AskTransition(k, act) \/ Flow!DenyTransition(k, act)
        BY <3>1
      <4>2. /\ at' \in [Calls -> Flow!Places] /\ action' \in [Calls -> Flow!Actions]
            /\ at'[k] \in {"check", "read", "denied"}
            /\ at'[k] = "read" => action'[k] # "submit"
            /\ \A j \in Calls : j # k => at'[j] = at[j] /\ action'[j] = action[j]
        BY <1>2, <4>1 DEF Flow!AskTransition, Flow!DenyTransition, Flow!Places
      <4> QED
        BY <1>1, <1>2, <1>3, <4>2
    <3>2. CASE Flow!CheckComplete(k)
      BY <1>1, <1>2, <1>3, <3>2 DEF Flow!CheckComplete, Flow!Places
    <3>3. CASE Flow!ReadStatus(k)
      <4>1. status = "DRAFT" <=> action[k] = "submit"
        BY <1>2, <3>3 DEF Flow!ReadStatus, Flow!From, Flow!Actions
      <4> QED
        BY <1>1, <1>2, <1>3, <3>3, <4>1 DEF Flow!ReadStatus, Flow!Places
    <3>4. CASE Flow!RejectTransition(k)
      BY <1>1, <1>2, <1>3, <3>4 DEF Flow!RejectTransition, Flow!Places
    <3>5. CASE Flow!CreateRow(k)
      BY <1>1, <1>2, <1>3, <3>5 DEF Flow!CreateRow, Flow!Places
    <3>6. CASE Flow!CreateCollision(k)
      BY <1>1, <1>2, <1>3, <3>6 DEF Flow!CreateCollision, Flow!Places
    <3>7. CASE Flow!CommitTransition(k)
      BY <1>1, <1>2, <1>3, <3>7 DEF Flow!CommitTransition, Flow!Places
    <3>8. CASE Flow!Crash(k)
      BY <1>1, <1>2, <1>3, <3>8 DEF Flow!Crash, Flow!Places
    <3> QED
      BY <3>1, <3>2, <3>3, <3>4, <3>5, <3>6, <3>7, <3>8 DEF TransitionStep, Flow!Transition
  <2> QED
    BY <1>1, <1>2, <1>3, <2>1
<1>4. CASE status' # status
  <2>1. Flow!CommitTransition(k)
    BY <1>4
    DEF TransitionStep, Flow!Transition, Flow!AskTransition, Flow!DenyTransition,
        Flow!CheckComplete, Flow!ReadStatus, Flow!RejectTransition, Flow!CreateRow,
        Flow!CreateCollision, Flow!Crash
  <2>2. /\ at[k] = "commit" /\ at' = [at EXCEPT ![k] = "done"] /\ action' = action
        /\ status' = Flow!To[action[k]] /\ action[k] \in Flow!Actions
    BY <1>2, <2>1 DEF Flow!CommitTransition
  <2>3. status' \in Flow!Status /\ status' # "DRAFT"
    BY <2>2 DEF Flow!To, Flow!Actions, Flow!Status
  <2>4. Encoded
    BY <1>2, <2>2
  <2>5. WorkflowTyped' /\ SubmissionsFounded'
    BY <1>1, <1>2, <2>2, <2>3, <2>4 DEF Flow!Places
  <2> QED
    BY <1>1, <2>3, <2>4, <2>5
<1> QED
  BY <1>3, <1>4

LEMMA NextClassInv == ClassInv /\ [Next]_vars => ClassInv'
<1> SUFFICES ASSUME ClassInv, [Next]_vars PROVE ClassInv'
  OBVIOUS
<1>1. ASSUME NEW r \in Requests, SyncStep(r) PROVE ClassInv'
  <2>1. GradingTyped' /\ ScoresInHand' /\ (Encoded => Encoded')
    BY <1>1, SyncStepKeeps DEF ClassInv
  <2>2. UNCHANGED <<status, at, action>>
    BY <1>1 DEF SyncStep, publishing
  <2>3. WorkflowTyped' /\ SubmissionsFounded' /\ SubmittedComplete'
    BY <2>1, <2>2 DEF ClassInv, WorkflowTyped, SubmissionsFounded, SubmittedComplete, Writable
  <2> QED
    BY <2>1, <2>3 DEF ClassInv
<1>2. ASSUME NEW k \in Calls, TransitionStep(k) PROVE ClassInv'
  <2>1. UNCHANGED <<stored, pc, batch, results>>
    BY <1>2 DEF TransitionStep, grading
  <2>2. GradingTyped' /\ ScoresInHand'
    BY <2>1 DEF ClassInv, GradingTyped, ScoresInHand, Sync!Remaining, Sync!Current
  <2> QED
    BY <1>2, <2>2, TransitionStepKeeps DEF ClassInv
<1>3. CASE UNCHANGED vars
  BY <1>3
  DEF vars, ClassInv, GradingTyped, ScoresInHand, WorkflowTyped, SubmissionsFounded,
      SubmittedComplete, Writable, Encoded, Sync!Remaining, Sync!Current
<1> QED
  BY <1>1, <1>2, <1>3 DEF Next, Finished

LEMMA InductiveInv == Spec => []ClassInv
  BY InitClassInv, NextClassInv, PTL DEF Spec

-----------------------------------------------------------------------------
(* A period that was submitted has every grade, however the two routes     *)
(* overlap (routes.py, transition).                                        *)
THEOREM SubmittedIsComplete == Spec => []SubmittedComplete
<1>1. ClassInv => SubmittedComplete
  BY DEF ClassInv
<1> QED
  BY <1>1, InductiveInv, PTL

(* Who comes after the submission is refused for good.                     *)
THEOREM ShutForGood == Spec => LateRequestsRefused
<1>1. ClassInv /\ [Next]_vars =>
        [\A r \in Requests : ~Writable /\ Outside(r) => ~Writable' /\ Outside(r)']_vars
  <2> SUFFICES ASSUME ClassInv, Next, NEW r \in Requests, ~Writable, Outside(r)
               PROVE  ~Writable' /\ Outside(r)'
    OBVIOUS
  <2>1. ASSUME NEW q \in Requests, SyncStep(q) PROVE ~Writable' /\ Outside(r)'
    <3>1. status' = status
      BY <2>1 DEF SyncStep, publishing
    <3>2. CASE pc'[r] = pc[r]
      BY <3>1, <3>2 DEF Writable, Outside
    <3>3. CASE pc'[r] # pc[r]
      <4>1. q = r
        BY <2>1, <3>3
        DEF ClassInv, GradingTyped, SyncStep, Sync!Receive, Sync!RefuseBatch, Sync!Step, Sync!RejectValue,
            Sync!Conflict, Sync!Unchanged, Sync!SelectRow, Sync!SelectMissing,
            Sync!CommitUpdate, Sync!FlushInsert, Sync!InsertCollision, Sync!CommitInsert,
            Sync!Respond, Sync!Crash
      <4>2. PICK changes \in Batches : Sync!Receive(r, changes) \/ Sync!RefuseBatch(r, changes)
        BY <2>1, <4>1
        DEF Outside, SyncStep, Sync!Step, Sync!RejectValue, Sync!Conflict, Sync!Unchanged,
            Sync!SelectRow, Sync!SelectMissing, Sync!Selected, Sync!CommitUpdate,
            Sync!FlushInsert, Sync!InsertCollision, Sync!CommitInsert, Sync!Respond,
            Sync!Crash, Sync!Active
      <4>3. ~Sync!Receive(r, changes)
        <5>1. 1 \in 1..1 /\ Sync!Editable(r) = {}
          BY DEF Sync!Editable
        <5>2. changes \in Seq(Sync!Change)
          BY ClassPeriodAssumption
        <5>3. Sync!WellFormed(changes) => 1 \in DOMAIN changes
          BY <5>2 DEF Sync!WellFormed
        <5> QED
          BY <5>1, <5>3 DEF Sync!Receive, Sync!Admissible
      <4> QED
        BY <3>1, <4>2, <4>3 DEF Sync!RefuseBatch, Writable, Outside, ClassInv, GradingTyped
    <3> QED
      BY <3>2, <3>3
  <2>2. ASSUME NEW k \in Calls, TransitionStep(k) PROVE ~Writable' /\ Outside(r)'
    BY <2>2, TransitionStepKeeps DEF TransitionStep, grading, Outside
  <2>3. CASE UNCHANGED vars
    BY <2>3 DEF vars, Writable, Outside
  <2> QED
    BY <2>1, <2>2, <2>3 DEF Next, Finished
<1> QED
  BY <1>1, InductiveInv, PTL DEF Spec, LateRequestsRefused

(* The environment GradeSync assumes is the one it has: the period closes  *)
(* once, and never opens again.                                            *)
THEOREM GradingComposes == Spec => GradingAsAssumed
<1>1. Init => Sync!Init
  BY DEF Init
<1>2. ClassInv /\ [Next]_vars => [Sync!Next]_(Sync!vars)
  <2> SUFFICES ASSUME ClassInv, [Next]_vars PROVE Sync!Next \/ UNCHANGED Sync!vars
    OBVIOUS
  <2>1. ASSUME NEW r \in Requests, SyncStep(r) PROVE Sync!Next
    BY <2>1 DEF SyncStep, Sync!Next
  <2>2. ASSUME NEW k \in Calls, TransitionStep(k) PROVE Sync!Next \/ UNCHANGED Sync!vars
    <3>1. UNCHANGED grading /\ (~Writable => ~Writable')
      BY <2>2, TransitionStepKeeps DEF TransitionStep
    <3>2. CASE Writable /\ ~Writable'
      BY <3>1, <3>2 DEF Sync!Next, Sync!ClosePeriod, Sync!tables, Sync!request, grading
    <3>3. CASE ~(Writable /\ ~Writable')
      <4>1. Writable' = Writable
        BY <3>1, <3>3 DEF Writable
      <4> QED
        BY <3>1, <4>1 DEF Sync!vars, grading
    <3> QED
      BY <3>2, <3>3
  <2>3. CASE UNCHANGED vars
    BY <2>3 DEF vars, Sync!vars, Writable
  <2> QED
    BY <2>1, <2>2, <2>3 DEF Next, Finished
<1> QED
  BY <1>1, <1>2, InductiveInv, PTL DEF Spec, GradingAsAssumed, Sync!Spec

(* The environment PeriodWorkflow assumes is the one it has: the grid gets *)
(* complete at most once, and stays so.                                    *)
THEOREM WorkflowComposes == Spec => WorkflowAsAssumed
<1>1. Init => Flow!Init
  BY DEF Init
<1>2. ClassInv /\ [Next]_vars => [Flow!Next]_(Flow!vars)
  <2> SUFFICES ASSUME ClassInv, [Next]_vars PROVE Flow!Next \/ UNCHANGED Flow!vars
    OBVIOUS
  <2>1. ASSUME NEW r \in Requests, SyncStep(r) PROVE Flow!Next \/ UNCHANGED Flow!vars
    <3>1. UNCHANGED publishing /\ (Encoded => Encoded')
      BY <2>1, SyncStepKeeps DEF SyncStep, ClassInv
    <3>2. CASE ~Encoded /\ Encoded'
      BY <3>1, <3>2
      DEF Flow!Next, Flow!LastGradeEncoded, Flow!workflow, Flow!deliberation, Flow!call, publishing
    <3>3. CASE ~(~Encoded /\ Encoded')
      <4>1. Encoded' = Encoded
        BY <3>1, <3>3 DEF Encoded
      <4> QED
        BY <3>1, <4>1 DEF Flow!vars, publishing
    <3> QED
      BY <3>2, <3>3
  <2>2. ASSUME NEW k \in Calls, TransitionStep(k) PROVE Flow!Next
    BY <2>2 DEF TransitionStep, Flow!Next
  <2>3. CASE UNCHANGED vars
    BY <2>3 DEF vars, Flow!vars, Encoded
  <2> QED
    BY <2>1, <2>2, <2>3 DEF Next, Finished
<1> QED
  BY <1>1, <1>2, InductiveInv, PTL DEF Spec, WorkflowAsAssumed, Flow!Spec

(* What holds of each component alone, in its environment, holds of the    *)
(* two together.                                                           *)
THEOREM RoutesCompose == Spec => RoutesAsAssumed
BY GradingComposes, WorkflowComposes, PTL DEF RoutesAsAssumed
=============================================================================

--------------------------- MODULE GradeSync_proofs ---------------------------
(***************************************************************************)
(* Proofs about GradeSync, for any number of requests, cells and scores.   *)
(***************************************************************************)
EXTENDS GradeSync, TLAPS

(* The change a worker has in hand is one of the posted changes, and so    *)
(* are both answers it may get.                                            *)
LEMMA ChangeInHand ==
  ASSUME TypeOK, NEW r \in Requests, Remaining(r)
  PROVE  /\ Current(r) \in Change
         /\ Error(Current(r)) \in Result
         /\ Current(r).value \in Scores => Saved(Current(r)) \in Result
<1>1. batch[r] \in Seq(Change) /\ results[r] \in Seq(Result)
  BY DEF TypeOK
<1>2. Len(results[r]) + 1 \in 1..Len(batch[r])
  BY <1>1 DEF Remaining
<1>3. Current(r) \in Change
  BY <1>1, <1>2 DEF Current
<1> QED
  BY <1>3 DEF Change, Result, Error, Saved, Texts, Contents

(* Inside a transaction the change in hand carries an acceptable score.    *)
LEMMA ScoreInHand ==
  ASSUME TypeOK, TransactionInv, NEW r \in Requests,
         pc[r] \in {"update", "insert", "flushed"}
  PROVE  /\ Remaining(r)
         /\ Current(r) \in Change
         /\ Current(r).cell \in Cells
         /\ Current(r).value \in Scores
<1>1. Remaining(r) /\ Current(r).value \in Accepted[Current(r).cell]
  BY DEF TransactionInv, WorkerInv, Undisturbed, InTransaction
<1>2. Current(r) \in Change
  BY <1>1, ChangeInHand
<1> QED
  BY <1>1, <1>2, GradesAssumption DEF Change

LEMMA InitTypeOK == Init => TypeOK
<1> USE GradesAssumption, GradeSyncAssumption
<1> SUFFICES ASSUME Init PROVE TypeOK
  OBVIOUS
<1>1. audit \in [Cells -> Seq(AuditEntry)]
  <2> SUFFICES ASSUME NEW c \in Cells PROVE audit[c] \in Seq(AuditEntry)
    BY DEF Init
  <2>1. [action |-> "CREATE", old |-> Null, new |-> AuditValue(stored[c]),
         by |-> Earlier] \in AuditEntry
    BY DEF AuditEntry, AuditValue
  <2> QED
    BY <2>1 DEF Init
<1> QED
  BY <1>1 DEF Init, TypeOK, Places, Texts

LEMMA StepTypeOK ==
  ASSUME TypeOK, TransactionInv, NEW r \in Requests, Step(r)
  PROVE  TypeOK'
<1> USE GradesAssumption, GradeSyncAssumption
<1>1. CASE Respond(r)
  BY <1>1 DEF Respond, TypeOK, Places, tables
<1>2. CASE RejectValue(r)
  BY <1>2, ChangeInHand DEF RejectValue, Put, TypeOK, tables
<1>3. CASE Conflict(r) \/ Unchanged(r)
  <2>1. Remaining(r) /\ Current(r) \in Change
    BY <1>3, ChangeInHand DEF Conflict, Unchanged, Selected
  <2>2. Current(r).cell \in Cells /\ stored[Current(r).cell] \in Texts
    BY <2>1 DEF Change, TypeOK
  <2>3. Current(r).value \in Scores
    BY <1>3, <2>2 DEF Conflict, Unchanged, Selected
  <2>4. Error(Current(r)) \in Result /\ Saved(Current(r)) \in Result
    BY <2>1, <2>3, ChangeInHand
  <2>5. CASE Conflict(r)
    BY <2>5, <2>2, <2>4 DEF Conflict, Put, TypeOK, tables
  <2>6. CASE Unchanged(r)
    BY <2>6, <2>2, <2>4 DEF Unchanged, Put, TypeOK, tables
  <2> QED
    BY <1>3, <2>5, <2>6
<1>5. CASE SelectRow(r)
  BY <1>5, ChangeInHand DEF SelectRow, Selected, Change, Put, TypeOK, tables, Places
<1>6. CASE SelectMissing(r)
  BY <1>6, ChangeInHand DEF SelectMissing, Selected, Change, Put, TypeOK, tables, Places, Texts
<1>7. CASE CommitUpdate(r)
  <2>1. Entry(r, "UPDATE") \in AuditEntry
    BY <1>7, ScoreInHand DEF CommitUpdate, Entry, AuditEntry, AuditValue, TypeOK
  <2> QED
    BY <1>7, <2>1, ScoreInHand, ChangeInHand
    DEF CommitUpdate, Put, TypeOK, Places, Texts, Contents
<1>8. CASE FlushInsert(r)
  BY <1>8, ScoreInHand DEF FlushInsert, TypeOK, Places, tables
<1>9. CASE InsertCollision(r)
  BY <1>9, ScoreInHand, ChangeInHand DEF InsertCollision, Put, TypeOK, Places, tables
<1>10. CASE CommitInsert(r)
  <2>1. Entry(r, "CREATE") \in AuditEntry
    BY <1>10, ScoreInHand DEF CommitInsert, Entry, AuditEntry, AuditValue, TypeOK
  <2> QED
    BY <1>10, <2>1, ScoreInHand, ChangeInHand
    DEF CommitInsert, Put, TypeOK, Places, Texts, Contents
<1> QED
  BY <1>1, <1>2, <1>3, <1>5, <1>6, <1>7, <1>8, <1>9, <1>10 DEF Step

LEMMA NextTypeOK ==
  ASSUME TypeOK, TransactionInv, [Next]_vars
  PROVE  TypeOK'
<1> USE GradesAssumption, GradeSyncAssumption
<1>1. ASSUME NEW r \in Requests, NEW changes \in Batches,
             Receive(r, changes) \/ RefuseBatch(r, changes)
      PROVE  TypeOK'
  BY <1>1 DEF Receive, RefuseBatch, TypeOK, Places, tables
<1>2. ASSUME NEW r \in Requests, Step(r)
      PROVE  TypeOK'
  BY <1>2, StepTypeOK
<1>3. ASSUME NEW r \in Requests, Crash(r)
      PROVE  TypeOK'
  BY <1>3 DEF Crash, TypeOK, Places, tables
<1>4. CASE ClosePeriod
  BY <1>4 DEF ClosePeriod, TypeOK, tables, request
<1>5. ASSUME NEW c \in Cells, LockRow(c)
      PROVE  TypeOK'
  BY <1>5 DEF LockRow, TypeOK, request
<1>6. CASE UNCHANGED vars
  BY <1>6 DEF vars, TypeOK
<1> QED
  BY <1>1, <1>2, <1>3, <1>4, <1>5, <1>6 DEF Next, Finished

-----------------------------------------------------------------------------
LEMMA InitTransactionInv == Init => TransactionInv
  BY GradeSyncAssumption
  DEF Init, TransactionInv, WorkerInv, Undisturbed

(* A step of one worker leaves every other worker's transaction alone: it  *)
(* may only write to a cell it holds, and it may only take a free one.     *)
LEMMA OthersUndisturbed ==
  ASSUME TypeOK, TransactionInv, NEW r \in Requests, Step(r),
         NEW q \in Requests, q # r
  PROVE  WorkerInv(q)'
<1> USE GradeSyncAssumption DEF TypeOK
<1>1. /\ pc'[q] = pc[q] /\ batch'[q] = batch[q]
      /\ seen'[q] = seen[q] /\ results'[q] = results[q]
      /\ locked' = locked
  BY DEF Step, RejectValue, Conflict, Unchanged, SelectRow, SelectMissing,
         CommitUpdate, FlushInsert, InsertCollision, CommitInsert, Respond, Put, tables
<1>2. Current(q)' = Current(q) /\ Remaining(q)' = Remaining(q)
  BY <1>1 DEF Current, Remaining
<1>3. ASSUME NEW c \in Cells
      PROVE  /\ holder[c] = q => holder'[c] = q /\ stored'[c] = stored[c]
             /\ holder'[c] = q => holder[c] = q
  <2>1. Remaining(r) => Current(r).cell \in Cells
    BY ChangeInHand DEF Change
  <2>2. pc[r] \in {"update", "flushed"} => holder[Current(r).cell] = r
    BY DEF TransactionInv, WorkerInv, Undisturbed
  <2>3. CASE CommitUpdate(r)
    BY <2>2, <2>3, ScoreInHand DEF CommitUpdate
  <2>4. CASE CommitInsert(r)
    BY <2>2, <2>4, ScoreInHand DEF CommitInsert
  <2>5. CASE SelectRow(r)
    BY <2>1, <2>5 DEF SelectRow, Selected, tables
  <2>6. CASE FlushInsert(r)
    BY <2>6, ScoreInHand DEF FlushInsert, tables
  <2>7. CASE UNCHANGED <<holder, stored>>
    BY <2>7
  <2> QED
    BY <2>3, <2>4, <2>5, <2>6, <2>7
    DEF Step, RejectValue, Conflict, Unchanged, SelectMissing, InsertCollision, Respond, tables
<1>4. WorkerInv(q)
  BY DEF TransactionInv
<1>5. pc[q] \in {"update", "flushed"} => Current(q).cell \in Cells
  BY ScoreInHand
<1> QED
  BY <1>1, <1>2, <1>3, <1>4, <1>5 DEF WorkerInv, Undisturbed, InTransaction

(* A worker's own step keeps its transaction consistent with the tables.   *)
LEMMA OwnTransaction ==
  ASSUME TypeOK, TransactionInv, NEW r \in Requests, Step(r)
  PROVE  WorkerInv(r)'
<1> USE GradeSyncAssumption DEF TypeOK
<1>1. WorkerInv(r)
  BY DEF TransactionInv
<1>2. \A c \in Cells : holder[c] = r => pc[r] \in {"update", "flushed"}
  BY <1>1 DEF WorkerInv
<1>3. CASE RejectValue(r) \/ Conflict(r) \/ Unchanged(r) \/ InsertCollision(r) \/ Respond(r)
  <2>1. holder' = holder /\ pc[r] \in {"change", "insert"}
    BY <1>3 DEF RejectValue, Conflict, Unchanged, Selected, InsertCollision, Respond
  <2>2. pc'[r] \in {"change", "answered"}
    BY <1>3 DEF RejectValue, Conflict, Unchanged, Selected, InsertCollision, Respond
  <2> QED
    BY <1>2, <2>1, <2>2 DEF WorkerInv, Undisturbed
<1>4. CASE SelectRow(r)
  <2>1. Current(r) \in Change
    BY <1>4, ChangeInHand DEF SelectRow, Selected
  <2>2. Current(r)' = Current(r) /\ Remaining(r)'
    BY <1>4 DEF SelectRow, Selected, Current, Remaining
  <2> QED
    BY <1>2, <1>4, <2>1, <2>2
    DEF SelectRow, Selected, WorkerInv, Undisturbed, InTransaction, Change, tables
<1>5. CASE SelectMissing(r)
  <2>1. Current(r)' = Current(r) /\ Remaining(r)'
    BY <1>5 DEF SelectMissing, Selected, Current, Remaining
  <2> QED
    BY <1>2, <1>5, <2>1
    DEF SelectMissing, Selected, WorkerInv, Undisturbed, InTransaction
<1>6. CASE FlushInsert(r)
  <2>1. Current(r)' = Current(r) /\ Remaining(r)' /\ InTransaction(r)' /\ Current(r).cell \in Cells
    BY <1>1, <1>6, ScoreInHand
    DEF FlushInsert, Current, Remaining, InTransaction, WorkerInv, Undisturbed
  <2>2. seen[r] = Absent /\ ~locked[Current(r).cell]
    BY <1>1, <1>6, <2>1 DEF FlushInsert, WorkerInv, Undisturbed, TransactionInv
  <2> QED
    BY <1>2, <1>6, <2>1, <2>2 DEF FlushInsert, WorkerInv, Undisturbed, tables
<1>7. CASE CommitUpdate(r) \/ CommitInsert(r)
  <2>1. \A c \in Cells : holder'[c] # r
    BY <1>1, <1>7, ScoreInHand DEF CommitUpdate, CommitInsert, WorkerInv
  <2> QED
    BY <1>7, <2>1 DEF CommitUpdate, CommitInsert, WorkerInv, Undisturbed
<1> QED
  BY <1>3, <1>4, <1>5, <1>6, <1>7 DEF Step

LEMMA NextTransactionInv ==
  ASSUME TypeOK, TransactionInv, [Next]_vars
  PROVE  TransactionInv'
<1> USE GradeSyncAssumption
<1>1. ASSUME NEW r \in Requests, NEW changes \in Batches,
             Receive(r, changes) \/ RefuseBatch(r, changes)
      PROVE  TransactionInv'
  <2>1. /\ \A q \in Requests : q # r => pc'[q] = pc[q] /\ batch'[q] = batch[q]
        /\ pc[r] = "idle" /\ pc'[r] \in {"change", "refused"}
        /\ results' = results /\ seen' = seen /\ holder' = holder
        /\ stored' = stored /\ locked' = locked
    BY <1>1 DEF Receive, RefuseBatch, TypeOK, tables
  <2> QED
    BY <2>1 DEF TransactionInv, WorkerInv, Undisturbed, InTransaction, Current, Remaining
<1>2. ASSUME NEW r \in Requests, Step(r)
      PROVE  TransactionInv'
  <2>1. \A c \in Cells : locked'[c] => stored'[c] # Absent
    <3>1. /\ locked' = locked
          /\ \A c \in Cells : stored'[c] # stored[c] => stored'[c] \in Scores
      BY <1>2, ScoreInHand
      DEF Step, RejectValue, Conflict, Unchanged, SelectRow, SelectMissing, CommitUpdate,
          FlushInsert, InsertCollision, CommitInsert, Respond, tables, TypeOK
    <3> QED
      BY <3>1, GradesAssumption DEF TransactionInv
  <2>2. \A q \in Requests : WorkerInv(q)'
    BY <1>2, OthersUndisturbed, OwnTransaction
  <2> QED
    BY <2>1, <2>2 DEF TransactionInv
<1>3. ASSUME NEW r \in Requests, Crash(r)
      PROVE  TransactionInv'
  <2>1. /\ \A q \in Requests : q # r => pc'[q] = pc[q]
        /\ pc'[r] = "crashed"
        /\ \A c \in Cells : holder'[c] # r
        /\ \A c \in Cells, q \in Requests : q # r => (holder'[c] = q <=> holder[c] = q)
        /\ batch' = batch /\ results' = results /\ seen' = seen
        /\ stored' = stored /\ locked' = locked
    BY <1>3 DEF Crash, TypeOK, tables
  <2>2. ASSUME NEW q \in Requests, q # r
        PROVE  WorkerInv(q)'
    <3>1. pc[q] \in {"update", "flushed"} => Current(q).cell \in Cells
      BY ScoreInHand
    <3> QED
      BY <2>1, <2>2, <3>1
      DEF TransactionInv, WorkerInv, Undisturbed, InTransaction, Current, Remaining
  <2>3. WorkerInv(r)'
    BY <2>1 DEF WorkerInv, Undisturbed
  <2> QED
    BY <2>1, <2>2, <2>3 DEF TransactionInv
<1>4. CASE ClosePeriod \/ UNCHANGED vars
  BY <1>4
  DEF ClosePeriod, vars, tables, request, TransactionInv, WorkerInv, Undisturbed,
      InTransaction, Current, Remaining
<1>5. ASSUME NEW c \in Cells, LockRow(c)
      PROVE  TransactionInv'
  <2>1. /\ stored' = stored /\ holder' = holder /\ UNCHANGED request
        /\ stored[c] # Absent /\ holder[c] = Free
        /\ \A d \in Cells : d # c => locked'[d] = locked[d]
    BY <1>5 DEF LockRow, TypeOK
  <2>2. \A q \in Requests : pc[q] \in {"update", "flushed"} =>
          Current(q).cell \in Cells /\ Current(q).cell # c
    BY <2>1, ScoreInHand DEF TransactionInv, WorkerInv, Undisturbed
  <2> QED
    BY <2>1, <2>2
    DEF request, TransactionInv, WorkerInv, Undisturbed, InTransaction, Current, Remaining
<1> QED
  BY <1>1, <1>2, <1>3, <1>4, <1>5 DEF Next, Finished

LEMMA InductiveInv == Spec => [](TypeOK /\ TransactionInv)
<1>1. Init => TypeOK /\ TransactionInv
  BY InitTypeOK, InitTransactionInv
<1>2. TypeOK /\ TransactionInv /\ [Next]_vars => (TypeOK /\ TransactionInv)'
  BY NextTypeOK, NextTransactionInv
<1> QED
  BY <1>1, <1>2, PTL DEF Spec

(* Every variable keeps its type. The type of the audit trail depends on   *)
(* the transactions: only an acceptable score is ever written.             *)
THEOREM TypeCorrect == Spec => []TypeOK
  BY InductiveInv, PTL

(* What a worker selected stays true until its transaction ends.           *)
THEOREM TransactionsUndisturbed == Spec => []TransactionInv
  BY InductiveInv, PTL

(* No change is lost: whatever replaces a stored value was written by      *)
(* someone who saw that value, in a row that is not locked (routes.py,     *)
(* sync).                                                                  *)
THEOREM NothingLost == Spec => NoLostUpdate
<1>1. TypeOK /\ TransactionInv /\ [Next]_vars =>
        [\A c \in Cells : stored'[c] # stored[c] => ReplacesWhatWasSeen(c)]_vars
  <2> SUFFICES ASSUME TypeOK, TransactionInv, Next, NEW c \in Cells, stored'[c] # stored[c]
               PROVE  ReplacesWhatWasSeen(c)
    OBVIOUS
  <2>1. PICK r \in Requests : CommitUpdate(r) \/ CommitInsert(r)
    BY DEF Next, Step, Receive, RefuseBatch, RejectValue, Conflict, Unchanged, SelectRow,
           SelectMissing, FlushInsert, InsertCollision, Respond, Crash, ClosePeriod,
           LockRow, Finished, vars, tables
  <2>2. pc[r] \in {"update", "flushed"}
    BY <2>1 DEF CommitUpdate, CommitInsert
  <2>3. Current(r).cell = c /\ stored'[c] = Current(r).value
    BY <2>1, <2>2, ScoreInHand DEF CommitUpdate, CommitInsert, TypeOK
  <2>4. Current(r).base = stored[c] /\ ~locked[c]
    BY <2>2, <2>3 DEF TransactionInv, WorkerInv, Undisturbed, InTransaction
  <2> QED
    BY <2>2, <2>3, <2>4 DEF ReplacesWhatWasSeen
<1> QED
  BY <1>1, InductiveInv, PTL DEF Spec, NoLostUpdate

(* A waiting request holds nothing, so requests never wait for each other  *)
(* in a circle.                                                            *)
THEOREM NobodyHoldsAndWaits == Spec => []NoHoldAndWait
<1>1. TransactionInv => NoHoldAndWait
  BY DEF TransactionInv, WorkerInv, NoHoldAndWait
<1> QED
  BY <1>1, InductiveInv, PTL

-----------------------------------------------------------------------------
(* Appending to a chain a row that starts where the chain ends and changes *)
(* something.                                                              *)
LEMMA ChainExtended ==
  ASSUME NEW trail \in Seq(AuditEntry), NEW entry \in AuditEntry,
         IF trail = <<>>
         THEN entry.action = "CREATE" /\ entry.old = Null
         ELSE /\ Chained(trail)
              /\ entry.action = "UPDATE" /\ entry.old = trail[Len(trail)].new
              /\ entry.new # entry.old
  PROVE  Chained(Append(trail, entry)) /\ Append(trail, entry) # <<>>
<1> DEFINE longer == Append(trail, entry)
<1>1. /\ longer \in Seq(AuditEntry) /\ Len(trail) \in Nat
      /\ Len(longer) = Len(trail) + 1
      /\ longer[Len(trail) + 1] = entry
      /\ \A k \in 1..Len(trail) : longer[k] = trail[k]
  OBVIOUS
<1> HIDE DEF longer
<1>2. longer # <<>>
  BY <1>1
<1>3. CASE trail = <<>>
  BY <1>1, <1>2, <1>3 DEF Chained
<1>4. CASE trail # <<>>
  <2>1. Len(trail) \in Nat \ {0}
    BY <1>4
  <2>2. ASSUME NEW k \in 2..Len(longer)
        PROVE  /\ longer[k].action = "UPDATE" /\ longer[k].old = longer[k - 1].new
               /\ longer[k].new # longer[k].old
    <3>1. CASE k = Len(longer)
      BY <1>1, <1>4, <2>1, <3>1
    <3>2. CASE k # Len(longer)
      <4>1. k \in 2..Len(trail) /\ k \in 1..Len(trail) /\ k - 1 \in 1..Len(trail)
        BY <1>1, <2>1, <3>2
      <4>2. longer[k] = trail[k] /\ longer[k - 1] = trail[k - 1]
        BY <1>1, <4>1
      <4>3. /\ trail[k].action = "UPDATE" /\ trail[k].old = trail[k - 1].new
            /\ trail[k].new # trail[k].old
        BY <1>4, <4>1 DEF Chained
      <4> QED
        BY <4>2, <4>3
    <3> QED
      BY <3>1, <3>2
  <2>3. longer[1] = trail[1]
    BY <1>1, <2>1
  <2> QED
    BY <1>2, <1>4, <2>2, <2>3 DEF Chained
<1> QED
  BY <1>3, <1>4 DEF longer

(* The history of every cell, as the audit view shows it, is unbroken and  *)
(* ends at the value in the grid, under any interleaving of sessions       *)
(* (audit_service.py, create_grade and update_grade_content).              *)
THEOREM HistoryUnbroken == Spec => []AuditChain
<1> USE GradesAssumption, GradeSyncAssumption
<1>1. Init => AuditChain
  <2> SUFFICES ASSUME Init, NEW c \in Cells
               PROVE  /\ stored[c] = Absent <=> audit[c] = <<>>
                      /\ audit[c] # <<>> =>
                           Chained(audit[c]) /\ audit[c][Len(audit[c])].new = AuditValue(stored[c])
    BY DEF AuditChain
  <2> QED
    BY DEF Init, Chained
<1>2. TypeOK /\ TransactionInv /\ AuditChain /\ [Next]_vars => AuditChain'
  <2> SUFFICES ASSUME TypeOK, TransactionInv, AuditChain, [Next]_vars
               PROVE  AuditChain'
    OBVIOUS
  <2>1. CASE UNCHANGED <<stored, audit>>
    BY <2>1 DEF AuditChain, Chained
  <2>2. ASSUME NEW r \in Requests, CommitUpdate(r) \/ CommitInsert(r)
        PROVE  AuditChain'
    <3> DEFINE c == Current(r).cell
               action == IF pc[r] = "update" THEN "UPDATE" ELSE "CREATE"
               entry == Entry(r, action)
    <3>1. pc[r] \in {"update", "flushed"}
      BY <2>2 DEF CommitUpdate, CommitInsert
    <3>2. c \in Cells /\ Current(r).value \in Scores
      BY <3>1, ScoreInHand
    <3>3. /\ audit' = [audit EXCEPT ![c] = Append(@, entry)]
          /\ stored' = [stored EXCEPT ![c] = Current(r).value]
      BY <2>2 DEF CommitUpdate, CommitInsert
    <3>4. entry \in AuditEntry
      BY <3>2 DEF Entry, AuditEntry, AuditValue, TypeOK
    <3>5. stored[c] = seen[r] /\ (pc[r] = "flushed" <=> seen[r] = Absent)
      BY <3>1 DEF TransactionInv, WorkerInv, Undisturbed
    <3>6. IF audit[c] = <<>>
          THEN entry.action = "CREATE" /\ entry.old = Null
          ELSE /\ Chained(audit[c])
               /\ entry.action = "UPDATE" /\ entry.old = audit[c][Len(audit[c])].new
               /\ entry.new # entry.old
      <4>1. pc[r] = "update" => seen[r] # Current(r).value
        BY DEF TransactionInv, WorkerInv, Undisturbed
      <4> QED
        BY <3>1, <3>2, <3>5, <4>1 DEF AuditChain, Entry, AuditValue
    <3>7. audit[c] \in Seq(AuditEntry)
      BY <3>2 DEF TypeOK
    <3>8. Chained(Append(audit[c], entry)) /\ Append(audit[c], entry) # <<>>
      BY <3>4, <3>6, <3>7, ChainExtended
    <3>9. /\ Len(Append(audit[c], entry)) = Len(audit[c]) + 1
          /\ Append(audit[c], entry)[Len(audit[c]) + 1] = entry
      BY <3>4, <3>7
    <3>10. audit'[c] = Append(audit[c], entry) /\ stored'[c] = Current(r).value
      BY <3>2, <3>3 DEF TypeOK
    <3>11. entry.new = AuditValue(Current(r).value)
      BY <3>2 DEF Entry, AuditValue
    <3>12. \A d \in Cells : d # c => audit'[d] = audit[d] /\ stored'[d] = stored[d]
      BY <3>3 DEF TypeOK
    <3> HIDE DEF entry, c
    <3>13. /\ audit'[c] # <<>> /\ Chained(audit'[c])
           /\ audit'[c][Len(audit'[c])].new = AuditValue(stored'[c])
           /\ stored'[c] # Absent
      BY <3>2, <3>8, <3>9, <3>10, <3>11
    <3> QED
      BY <3>12, <3>13 DEF AuditChain, Chained, AuditValue
  <2> QED
    BY <2>1, <2>2
    DEF Next, Step, Receive, RefuseBatch, RejectValue, Conflict, Unchanged, SelectRow,
        SelectMissing, FlushInsert, InsertCollision, Respond, Crash, ClosePeriod,
        LockRow, Finished, vars, tables
<1> QED
  BY <1>1, <1>2, InductiveInv, PTL DEF Spec

-----------------------------------------------------------------------------
(* A change is answered while the trails at most grow by a row of its own. *)
LEMMA AnswerGiven ==
  ASSUME TypeOK, TypeOK', AnswerInv, NEW r \in Requests, Remaining(r), batch' = batch,
         NEW answer \in {Saved(Current(r)), Error(Current(r))},
         results' = [results EXCEPT ![r] = Append(@, answer)],
         \A c \in Cells : \A k \in DOMAIN audit[c] :
           k \in DOMAIN audit'[c] /\ audit'[c][k] = audit[c][k],
         \A c \in Cells : \A k \in DOMAIN audit'[c] : k \notin DOMAIN audit[c] =>
           audit'[c][k].by = r /\ c = Current(r).cell /\ answer = Saved(Current(r)),
         answer = Saved(Current(r)) =>
           \E k \in DOMAIN audit'[Current(r).cell] :
             audit'[Current(r).cell][k].new = Current(r).value
  PROVE  AnswerInv'
<1> DEFINE n == Len(results[r]) + 1
<1>0. \A q \in Requests : \A i \in DOMAIN results[q] :
        LET trail == audit[results[q][i].cell] IN
        IF results[q][i].state = "saved"
        THEN \E k \in DOMAIN trail : trail[k].new = results[q][i].value
        ELSE \A k \in DOMAIN trail : trail[k].by # q
  BY Zenon DEF AnswerInv, AnswersMatchAudit
<1>1. /\ results[r] \in Seq(Result) /\ batch[r] \in Seq(Change)
      /\ Len(results[r]) \in Nat /\ Len(batch[r]) \in Nat
      /\ DOMAIN results[r] = 1..(n - 1) /\ DOMAIN batch[r] = 1..Len(batch[r])
  BY DEF TypeOK
<1>2. n \in Nat /\ n \in 1..Len(batch[r]) /\ Current(r) = batch[r][n] /\ Current(r) \in Change
  BY <1>1, ChangeInHand DEF Remaining, Current
<1>3. answer.cell = Current(r).cell /\ answer.value = Current(r).value
      /\ answer.state \in {"saved", "error"}
      /\ (answer.state = "saved" <=> answer = Saved(Current(r)))
  BY DEF Saved, Error
<1>4. answer \in Result => /\ Len(results'[r]) = n /\ DOMAIN results'[r] = 1..n
                           /\ results'[r][n] = answer
                           /\ \A i \in 1..(n - 1) : results'[r][i] = results[r][i]
  BY <1>1, <1>2 DEF TypeOK
<1>5. answer \in Result
  <2>1. results'[r] = Append(results[r], answer) /\ results'[r] \in Seq(Result)
    BY DEF TypeOK
  <2>2. Len(Append(results[r], answer)) = n /\ Append(results[r], answer)[n] = answer
    BY <1>1, <2>1
  <2> QED
    BY <1>2, <2>1, <2>2
<1>6. \A q \in Requests : q # r => results'[q] = results[q]
  BY DEF TypeOK
<1>7. \A q \in Requests : \A i \in DOMAIN results[q] :
        /\ i \in DOMAIN results'[q] /\ results'[q][i] = results[q][i]
        /\ results[q][i].cell \in Cells
  <2> TAKE q \in Requests
  <2> TAKE i \in DOMAIN results[q]
  <2>1. results[q] \in Seq(Result)
    BY DEF TypeOK
  <2>2. results[q][i].cell \in Cells
    <3>1. results[q][i] \in Result
      BY <2>1
    <3> QED
      BY <3>1 DEF Result
  <2>3. CASE q = r
    BY <1>1, <1>2, <1>4, <1>5, <2>2, <2>3
  <2>4. CASE q # r
    BY <1>6, <2>2, <2>4
  <2> QED
    BY <2>3, <2>4
<1>8. \A q \in Requests : \A i \in DOMAIN results'[q] :
        i \in DOMAIN results[q] \/ (q = r /\ i = n)
  BY <1>1, <1>2, <1>4, <1>5, <1>6
<1> HIDE DEF n
<1>9. ASSUME NEW q \in Requests
      PROVE  /\ Len(results'[q]) <= Len(batch'[q])
             /\ \A i \in DOMAIN results'[q] :
                  results'[q][i] \in {Saved(batch'[q][i]), Error(batch'[q][i])}
             /\ \A i, j \in DOMAIN batch'[q] : batch'[q][i].cell = batch'[q][j].cell => i = j
  <2>1. Len(results'[q]) <= Len(batch'[q])
    BY <1>1, <1>2, <1>4, <1>5, <1>6 DEF AnswerInv
  <2>2. \A i \in DOMAIN results'[q] :
          results'[q][i] \in {Saved(batch'[q][i]), Error(batch'[q][i])}
    BY <1>2, <1>4, <1>5, <1>7, <1>8 DEF AnswerInv
  <2> QED
    BY <2>1, <2>2 DEF AnswerInv
(* No answer given before is about the cell in hand, and r wrote no row in *)
(* its trail.                                                              *)
<1>10. \A i \in DOMAIN results[r] : batch[r][i].cell # Current(r).cell
                                    /\ results[r][i].cell # Current(r).cell
  <2> TAKE i \in DOMAIN results[r]
  <2>1. i \in DOMAIN batch[r] /\ i # n /\ n \in DOMAIN batch[r]
    BY <1>1, <1>2 DEF n
  <2>2. batch[r][i].cell # Current(r).cell
    BY <1>2, <2>1 DEF AnswerInv
  <2>3. results[r][i].cell = batch[r][i].cell
    BY DEF AnswerInv, Saved, Error
  <2> QED
    BY <2>2, <2>3
<1>11. Current(r).cell \in Cells
  BY <1>2 DEF Change
<1>12. \A k \in DOMAIN audit[Current(r).cell] : audit[Current(r).cell][k].by # r
  BY <1>10, <1>11 DEF AnswerInv, AnswersMatchAudit
<1>13. ASSUME NEW q \in Requests, NEW i \in DOMAIN results'[q]
       PROVE  IF results'[q][i].state = "saved"
              THEN \E k \in DOMAIN audit'[results'[q][i].cell] :
                     audit'[results'[q][i].cell][k].new = results'[q][i].value
              ELSE \A k \in DOMAIN audit'[results'[q][i].cell] :
                     audit'[results'[q][i].cell][k].by # q
  <2>1. CASE i \in DOMAIN results[q]
    <3> DEFINE c == results[q][i].cell
    <3>1. results'[q][i] = results[q][i] /\ c \in Cells
      BY <1>7, <2>1
    <3>2. CASE results[q][i].state = "saved"
      <4>1. PICK k \in DOMAIN audit[c] : audit[c][k].new = results[q][i].value
        BY <1>0, <2>1, <3>2
      <4> QED
        BY <3>1, <3>2, <4>1
    <3>3. CASE results[q][i].state # "saved"
      <4>1. \A k \in DOMAIN audit[c] : audit[c][k].by # q
        BY <1>0, <2>1, <3>3
      <4>2. ASSUME NEW k \in DOMAIN audit'[c], k \notin DOMAIN audit[c]
            PROVE  audit'[c][k].by # q
        BY <1>10, <2>1, <3>1, <4>2
      <4>3. \A k \in DOMAIN audit'[c] : audit'[c][k].by # q
        BY <3>1, <4>1, <4>2
      <4> QED
        BY <3>1, <3>3, <4>3
    <3> QED
      BY <3>2, <3>3
  <2>2. CASE q = r /\ i = n
    <3>1. results'[q][i] = answer
      BY <1>4, <1>5, <2>2
    <3>2. CASE answer.state = "saved"
      BY <1>3, <3>1, <3>2
    <3>3. CASE answer.state # "saved"
      BY <1>3, <1>11, <1>12, <2>2, <3>1, <3>3
    <3> QED
      BY <3>2, <3>3
  <2> QED
    BY <1>8, <2>1, <2>2
<1>14. ASSUME NEW q \in Requests, NEW c \in Cells, NEW k \in DOMAIN audit'[c],
              audit'[c][k].by = q
       PROVE  \E i \in DOMAIN results'[q] :
                results'[q][i] = Saved(batch'[q][i]) /\ batch'[q][i].cell = c
  <2>1. CASE k \in DOMAIN audit[c]
    <3>1. PICK i \in DOMAIN results[q] : results[q][i] = Saved(batch[q][i]) /\ batch[q][i].cell = c
      BY <1>14, <2>1 DEF AnswerInv, AnswersMatchAudit
    <3> QED
      BY <1>7, <3>1
  <2>2. CASE k \notin DOMAIN audit[c]
    <3>1. q = r /\ c = Current(r).cell /\ answer = Saved(Current(r))
      BY <1>14, <2>2
    <3>2. n \in DOMAIN results'[q] /\ results'[q][n] = answer
      BY <1>2, <1>4, <1>5, <3>1
    <3> QED
      BY <1>2, <3>1, <3>2
  <2> QED
    BY <2>1, <2>2
<1> QED
  BY <1>9, <1>13, <1>14 DEF AnswerInv, AnswersMatchAudit

LEMMA NextAnswerInv ==
  ASSUME TypeOK, TypeOK', TransactionInv, AuditChain, AnswerInv, [Next]_vars
  PROVE  AnswerInv'
<1> USE GradesAssumption, GradeSyncAssumption
<1>1. CASE UNCHANGED <<audit, batch, results>>
  BY <1>1 DEF AnswerInv, AnswersMatchAudit
<1>2. ASSUME NEW r \in Requests, NEW changes \in Batches, Receive(r, changes)
      PROVE  AnswerInv'
  <2>1. /\ results' = results /\ audit' = audit /\ results[r] = <<>>
        /\ batch' = [batch EXCEPT ![r] = changes]
    BY <1>2 DEF Receive, TransactionInv, WorkerInv, tables
  <2>2. /\ batch'[r] = changes
        /\ \A q \in Requests : q # r => batch'[q] = batch[q]
    BY <2>1 DEF TypeOK
  <2>3. /\ \A i, j \in DOMAIN changes : changes[i].cell = changes[j].cell => i = j
        /\ Len(changes) \in Nat
    BY <1>2, <2>2 DEF Receive, Admissible, WellFormed, TypeOK
  <2>4. Len(results[r]) = 0 /\ DOMAIN results[r] = {}
    BY <2>1
  <2>5. \A c \in Cells : \A k \in DOMAIN audit[c] : audit[c][k].by # r
    BY <2>4 DEF AnswerInv, AnswersMatchAudit
  <2>6. ASSUME NEW q \in Requests
        PROVE  /\ Len(results'[q]) <= Len(batch'[q])
               /\ \A i \in DOMAIN results'[q] :
                    results'[q][i] \in {Saved(batch'[q][i]), Error(batch'[q][i])}
               /\ \A i, j \in DOMAIN batch'[q] : batch'[q][i].cell = batch'[q][j].cell => i = j
    <3>1. CASE q = r
      BY <2>1, <2>2, <2>3, <2>4, <3>1
    <3>2. CASE q # r
      BY <2>1, <2>2, <3>2 DEF AnswerInv
    <3> QED
      BY <3>1, <3>2
  <2>7. AnswersMatchAudit'
    <3>1. ASSUME NEW q \in Requests, NEW c \in Cells, NEW k \in DOMAIN audit[c],
                 audit[c][k].by = q
          PROVE  \E i \in DOMAIN results[q] :
                   results[q][i] = Saved(batch'[q][i]) /\ batch'[q][i].cell = c
      <4>1. q # r
        BY <2>5, <3>1
      <4> QED
        BY <2>2, <3>1, <4>1 DEF AnswerInv, AnswersMatchAudit
    <3>2. \A q \in Requests : \A i \in DOMAIN results[q] :
            LET trail == audit[results[q][i].cell] IN
            IF results[q][i].state = "saved"
            THEN \E k \in DOMAIN trail : trail[k].new = results[q][i].value
            ELSE \A k \in DOMAIN trail : trail[k].by # q
      BY Zenon DEF AnswerInv, AnswersMatchAudit
    <3>3. results' = results /\ audit' = audit
      BY <2>1
    <3> QED
      BY <3>1, <3>2, <3>3 DEF AnswersMatchAudit
  <2> QED
    BY <2>6, <2>7 DEF AnswerInv
<1>3. ASSUME NEW r \in Requests, RejectValue(r) \/ Conflict(r) \/ InsertCollision(r)
      PROVE  AnswerInv'
  <2>1. /\ Remaining(r) /\ batch' = batch /\ audit' = audit
        /\ results' = [results EXCEPT ![r] = Append(@, Error(Current(r)))]
    BY <1>3, ScoreInHand DEF RejectValue, Conflict, Selected, InsertCollision, Put, tables
  <2>2. Error(Current(r)) # Saved(Current(r))
    BY DEF Error, Saved
  <2> QED
    BY <2>1, <2>2, AnswerGiven
<1>4. ASSUME NEW r \in Requests, Unchanged(r)
      PROVE  AnswerInv'
  <2> DEFINE c == Current(r).cell
  <2>1. /\ Remaining(r) /\ batch' = batch /\ audit' = audit
        /\ results' = [results EXCEPT ![r] = Append(@, Saved(Current(r)))]
        /\ stored[c] = Current(r).value /\ Current(r).value \in Accepted[c]
    BY <1>4 DEF Unchanged, Selected, Put, tables
  <2>2. c \in Cells /\ Current(r).value \in Scores
    BY <2>1, ChangeInHand DEF Change
  <2>3. audit[c] # <<>> /\ audit[c][Len(audit[c])].new = Current(r).value
    BY <2>1, <2>2 DEF AuditChain, AuditValue
  <2>4. audit[c] \in Seq(AuditEntry)
    BY <2>2 DEF TypeOK
  <2>5. Len(audit[c]) \in DOMAIN audit[c]
    BY <2>3, <2>4
  <2> QED
    BY <2>1, <2>3, <2>5, AnswerGiven
<1>5. ASSUME NEW r \in Requests, CommitUpdate(r) \/ CommitInsert(r)
      PROVE  AnswerInv'
  <2> DEFINE c == Current(r).cell
             entry == Entry(r, IF pc[r] = "update" THEN "UPDATE" ELSE "CREATE")
  <2>1. /\ Remaining(r) /\ c \in Cells /\ batch' = batch
        /\ results' = [results EXCEPT ![r] = Append(@, Saved(Current(r)))]
        /\ audit' = [audit EXCEPT ![c] = Append(@, entry)]
    BY <1>5, ScoreInHand DEF CommitUpdate, CommitInsert, Put
  <2>2. entry.by = r /\ entry.new = Current(r).value
    BY DEF Entry
  <2> HIDE DEF entry
  <2>3. /\ audit[c] \in Seq(AuditEntry) /\ audit'[c] = Append(audit[c], entry)
        /\ \A d \in Cells : d # c => audit'[d] = audit[d]
    BY <2>1 DEF TypeOK
  <2>4. /\ Len(audit[c]) \in Nat /\ DOMAIN audit[c] = 1..Len(audit[c])
        /\ DOMAIN audit'[c] = 1..(Len(audit[c]) + 1)
        /\ audit'[c][Len(audit[c]) + 1] = entry
        /\ \A k \in 1..Len(audit[c]) : audit'[c][k] = audit[c][k]
    BY <2>3
  <2>5. Len(audit[c]) + 1 \in DOMAIN audit'[c]
    BY <2>4
  <2>6. \A d \in Cells : \A k \in DOMAIN audit[d] :
          k \in DOMAIN audit'[d] /\ audit'[d][k] = audit[d][k]
    BY <2>3, <2>4
  <2>7. \A d \in Cells : \A k \in DOMAIN audit'[d] : k \notin DOMAIN audit[d] =>
          audit'[d][k].by = r /\ d = c /\ Saved(Current(r)) = Saved(Current(r))
    BY <2>2, <2>3, <2>4
  <2>8. \E k \in DOMAIN audit'[c] : audit'[c][k].new = Current(r).value
    BY <2>2, <2>4, <2>5
  <2> QED
    BY <2>1, <2>6, <2>7, <2>8, AnswerGiven
<1> QED
  BY <1>1, <1>2, <1>3, <1>4, <1>5
  DEF Next, Step, RefuseBatch, SelectRow, SelectMissing, FlushInsert, Respond, Crash,
      ClosePeriod, LockRow, Finished, vars, tables, request

(* The answer of every change tells what became of it: "saved" is in the   *)
(* trail, "error" left no row, and no row was written unanswered           *)
(* (routes.py, sync; the grid deletes drafts on the strength of it).       *)
THEOREM AnswersTrue == Spec => []AnswersMatchAudit
<1>1. Init => AnswerInv
  <2> SUFFICES ASSUME Init PROVE AnswerInv
    OBVIOUS
  <2>1. \A r \in Requests : results[r] = <<>> /\ batch[r] = <<>>
    BY DEF Init
  <2>2. \A c \in Cells : \A k \in DOMAIN audit[c] : audit[c][k].by = Earlier
    BY DEF Init
  <2>3. \A r \in Requests : \A c \in Cells : \A k \in DOMAIN audit[c] : audit[c][k].by # r
    BY <2>2, GradeSyncAssumption
  <2> QED
    BY <2>1, <2>3 DEF AnswerInv, AnswersMatchAudit
<1>2. TypeOK /\ TransactionInv /\ AuditChain /\ AnswerInv /\ [Next]_vars => AnswerInv'
  BY NextTypeOK, NextAnswerInv
<1>3. AnswerInv => AnswersMatchAudit
  BY DEF AnswerInv
<1> QED
  BY <1>1, <1>2, <1>3, InductiveInv, HistoryUnbroken, PTL DEF Spec

-----------------------------------------------------------------------------
(* Each worker step is one step of the ledger or invisible to it.          *)
LEMMA WorkerStepRefines ==
  ASSUME TypeOK, TransactionInv, NEW r \in Requests, Step(r)
  PROVE  Ledger!Apply(r) \/ Ledger!Refuse(r) \/ UNCHANGED Ledger!vars
<1>1. Current(r) = Ledger!Change1(r) /\ (Remaining(r) <=> Ledger!Pending(r))
  BY DEF Current, Ledger!Change1, Remaining, Ledger!Pending
<1>2. CASE RejectValue(r)
  BY <1>1, <1>2 DEF RejectValue, Put, tables, Ledger!Refuse, Error, Ledger!Error
<1>3. CASE Conflict(r)
  BY <1>1, <1>3 DEF Conflict, Selected, Put, tables, Ledger!Refuse, Error, Ledger!Error
<1>4. CASE InsertCollision(r)
  <2>1. InTransaction(r) /\ seen[r] = Absent
    BY <1>4 DEF InsertCollision, TransactionInv, WorkerInv, Undisturbed
  <2> QED
    BY <1>1, <1>4, <2>1 DEF InsertCollision, InTransaction, Put, tables, Ledger!Refuse, Error, Ledger!Error
<1>5. CASE Unchanged(r)
  <2>1. stored' = [stored EXCEPT ![Current(r).cell] = Current(r).value]
    BY <1>5 DEF Unchanged, tables, TypeOK
  <2> QED
    BY <1>1, <1>5, <2>1 DEF Unchanged, Selected, Put, tables, Ledger!Apply, Saved, Ledger!Saved
<1>6. CASE CommitUpdate(r) \/ CommitInsert(r)
  <2>1. /\ InTransaction(r) /\ stored[Current(r).cell] = seen[r]
        /\ ~locked[Current(r).cell]
    BY <1>6 DEF CommitUpdate, CommitInsert, TransactionInv, WorkerInv, Undisturbed
  <2> QED
    BY <1>1, <1>6, <2>1 DEF CommitUpdate, CommitInsert, InTransaction, Put, Ledger!Apply, Saved, Ledger!Saved
<1>7. CASE SelectRow(r) \/ SelectMissing(r) \/ FlushInsert(r) \/ Respond(r)
  BY <1>7 DEF SelectRow, SelectMissing, FlushInsert, Respond, tables, Ledger!vars
<1> QED
  BY <1>2, <1>3, <1>4, <1>5, <1>6, <1>7 DEF Step

(* Savepoints, row locks and unique-index collisions amount to one atomic  *)
(* compare-and-set per change, answered in the order of the batch: the     *)
(* route implements GradeLedger.                                           *)
THEOREM SyncImplementsLedger == Spec => LedgerSpec
<1>1. Init => Ledger!Init
  BY DEF Init, Ledger!Init, Texts, Contents, Ledger!Texts, Ledger!Contents
<1>2. TypeOK /\ TransactionInv /\ [Next]_vars => [Ledger!Next]_(Ledger!vars)
  <2> SUFFICES ASSUME TypeOK, TransactionInv, [Next]_vars
               PROVE  Ledger!Next \/ UNCHANGED Ledger!vars
    OBVIOUS
  <2>1. ASSUME NEW r \in Requests, NEW changes \in Batches, Receive(r, changes)
        PROVE  Ledger!Ask(r, changes)
    BY <2>1 DEF Receive, TransactionInv, WorkerInv, tables, Ledger!Ask
  <2>2. ASSUME NEW r \in Requests, NEW changes \in Batches, RefuseBatch(r, changes)
        PROVE  UNCHANGED Ledger!vars
    BY <2>2 DEF RefuseBatch, tables, Ledger!vars
  <2>3. ASSUME NEW r \in Requests, Crash(r)
        PROVE  UNCHANGED Ledger!vars
    BY <2>3 DEF Crash, tables, Ledger!vars
  <2>4. CASE ClosePeriod \/ UNCHANGED vars
    BY <2>4 DEF ClosePeriod, vars, tables, request, Ledger!vars
  <2>5. ASSUME NEW c \in Cells, LockRow(c)
        PROVE  Ledger!Freeze(c)
    BY <2>5 DEF LockRow, request, Ledger!Freeze
  <2> QED
    BY <2>1, <2>2, <2>3, <2>4, <2>5, WorkerStepRefines DEF Next, Finished, Ledger!Next
<1> QED
  BY <1>1, <1>2, InductiveInv, PTL DEF Spec, LedgerSpec, Ledger!Spec
===============================================================================

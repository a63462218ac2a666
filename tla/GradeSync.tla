------------------------------ MODULE GradeSync ------------------------------
(***************************************************************************)
(* The sync route of the portal: POST .../classes/<id>/periods/<id>/sync.  *)
(*                                                                         *)
(* Several requests run at once, each in its own worker with its own       *)
(* database session (PostgreSQL, READ COMMITTED).  A request reads its     *)
(* permissions and the grid once, validates the whole batch, then handles  *)
(* the changes one by one: a savepoint, SELECT ... FOR UPDATE of the grade *)
(* row, the comparison with the base the browser sent, the write with its  *)
(* audit row, and one COMMIT per change.                                   *)
(*                                                                         *)
(* A step below is a maximal piece of that work with at most one access    *)
(* to shared rows.  Uncommitted writes are not in the tables; what other   *)
(* sessions feel of them is in holder: the lock of a selected row, or the  *)
(* unique index entry of a row inserted but not committed yet.             *)
(***************************************************************************)
EXTENDS Grades

CONSTANTS
  Free,       \* nobody holds the cell
  Earlier,    \* author of the grades that exist before the model starts
  Scope,      \* Scope[r]: cells of the lines r's user may write
  MaxBatch    \* 30 in the code

VARIABLES
  stored,     \* stored[c]: committed content of the grade row, or Absent
  locked,     \* locked[c]: the row is validated or archived
  audit,      \* audit[c]: committed grade_audit_logs rows of the cell
  holder,     \* holder[c]: the request whose open transaction blocks c
  open,       \* the class has not submitted this period
  pc,         \* pc[r]: where request r is
  batch,      \* batch[r]: the posted changes
  seen,       \* seen[r]: content read by the SELECT of the current change
  results     \* results[r]: results of the changes handled so far

tables == <<stored, locked, audit>>
request == <<pc, batch, seen, results>>
vars == <<stored, locked, audit, holder, open, pc, batch, seen, results>>

Places == {"idle", "change", "update", "insert", "flushed",
           "answered", "refused", "crashed"}
Active == {"change", "update", "insert", "flushed"}

(* A row of grade_audit_logs. *)
AuditEntry ==
  [action : {"CREATE", "UPDATE"}, old : Scores \cup {Null}, new : Scores \cup {Null},
   by : Requests \cup {Earlier}]

ASSUME GradeSyncAssumption ==
  /\ Free \notin Requests /\ Earlier \notin Requests
  /\ Scope \in [Requests -> SUBSET Cells]
  /\ MaxBatch \in Nat

TypeOK ==
  /\ stored \in [Cells -> Texts]
  /\ locked \in [Cells -> BOOLEAN]
  /\ audit \in [Cells -> Seq(AuditEntry)]
  /\ holder \in [Cells -> Requests \cup {Free}]
  /\ open \in BOOLEAN
  /\ pc \in [Requests -> Places]
  /\ batch \in [Requests -> Seq(Change)]
  /\ seen \in [Requests -> Texts]
  /\ results \in [Requests -> Seq(Result)]

Init ==
  /\ stored \in [Cells -> Texts]
  /\ locked \in [Cells -> BOOLEAN]
  /\ \A c \in Cells : locked[c] => stored[c] # Absent
  /\ audit = [c \in Cells |->
       IF stored[c] = Absent THEN <<>>
       ELSE <<[action |-> "CREATE", old |-> Null, new |-> AuditValue(stored[c]),
               by |-> Earlier]>>]
  /\ holder = [c \in Cells |-> Free]
  /\ open = TRUE
  /\ pc = [r \in Requests |-> "idle"]
  /\ batch = [r \in Requests |-> <<>>]
  /\ seen = [r \in Requests |-> Absent]
  /\ results = [r \in Requests |-> <<>>]

-----------------------------------------------------------------------------
(* Permissions are computed once, when the request arrives: nothing is     *)
(* editable once the period is submitted, for anyone.                      *)
Editable(r) == IF open THEN Scope[r] ELSE {}

(* The checks made on the whole batch before the first change is handled.  *)
WellFormed(changes) ==
  /\ Len(changes) \in 1..MaxBatch
  /\ \A i, j \in DOMAIN changes : changes[i].cell = changes[j].cell => i = j

Admissible(r, changes) ==
  /\ WellFormed(changes)
  /\ \A i \in DOMAIN changes : changes[i].cell \in Editable(r)

Remaining(r) == Len(results[r]) < Len(batch[r])
Current(r) == batch[r][Len(results[r]) + 1]

Receive(r, changes) ==
  /\ pc[r] = "idle"
  /\ Admissible(r, changes)
  /\ pc' = [pc EXCEPT ![r] = "change"]
  /\ batch' = [batch EXCEPT ![r] = changes]
  /\ UNCHANGED <<tables, holder, open, seen, results>>

(* 400 for a malformed list, 404 for a cell outside the editable scope;    *)
(* no change of the list is applied.                                       *)
RefuseBatch(r, changes) ==
  /\ pc[r] = "idle"
  /\ ~Admissible(r, changes)
  /\ pc' = [pc EXCEPT ![r] = "refused"]
  /\ UNCHANGED <<tables, holder, open, batch, seen, results>>

-----------------------------------------------------------------------------
Put(r, result) == results' = [results EXCEPT ![r] = Append(@, result)]

(* The value does not parse, exceeds the maximum, or the column takes an   *)
(* appreciation: the change is answered without touching the database.     *)
RejectValue(r) ==
  /\ pc[r] = "change" /\ Remaining(r)
  /\ Current(r).value \notin Accepted[Current(r).cell]
  /\ Put(r, Error(Current(r)))
  /\ UNCHANGED <<tables, holder, open, pc, batch, seen>>

(* SELECT ... FOR UPDATE of the current cell can return: a missing row is  *)
(* reported at once, an existing one waits for the session that holds it.  *)
Selected(r) ==
  /\ pc[r] = "change" /\ Remaining(r)
  /\ Current(r).value \in Accepted[Current(r).cell]
  /\ stored[Current(r).cell] # Absent => holder[Current(r).cell] = Free

(* The row is validated or archived, or holds neither the base nor the     *)
(* submitted value; the commit that follows has nothing to write.          *)
Conflict(r) ==
  LET change == Current(r) IN
  /\ Selected(r)
  /\ \/ locked[change.cell]
     \/ stored[change.cell] \notin {change.base, change.value}
  /\ Put(r, Error(change))
  /\ seen' = [seen EXCEPT ![r] = stored[change.cell]]
  /\ UNCHANGED <<tables, holder, open, pc, batch>>

(* The row already holds the submitted score: saved without a write.       *)
Unchanged(r) ==
  LET change == Current(r) IN
  /\ Selected(r)
  /\ ~locked[change.cell]
  /\ stored[change.cell] = change.value
  /\ Put(r, Saved(change))
  /\ seen' = [seen EXCEPT ![r] = stored[change.cell]]
  /\ UNCHANGED <<tables, holder, open, pc, batch>>

(* Slip: the row is selected without FOR UPDATE. *)
SelectRowUnlocked(r) ==
  LET change == Current(r) IN
  /\ Selected(r)
  /\ stored[change.cell] # Absent
  /\ ~locked[change.cell]
  /\ stored[change.cell] = change.base
  /\ stored[change.cell] # change.value
  /\ seen' = [seen EXCEPT ![r] = stored[change.cell]]
  /\ pc' = [pc EXCEPT ![r] = "update"]
  /\ UNCHANGED <<tables, holder, open, batch, results>>

(* Slip: a row to be replaced is deleted first and inserted again. *)
SelectRowDeleting(r) ==
  LET change == Current(r) IN
  /\ Selected(r)
  /\ stored[change.cell] # Absent
  /\ ~locked[change.cell]
  /\ stored[change.cell] = change.base
  /\ stored[change.cell] # change.value
  /\ stored' = [stored EXCEPT ![change.cell] = Absent]
  /\ seen' = [seen EXCEPT ![r] = stored[change.cell]]
  /\ pc' = [pc EXCEPT ![r] = "insert"]
  /\ UNCHANGED <<locked, audit, holder, open, batch, results>>

(* Slip: the base sent by the browser is not compared with the row. *)
SelectRowBlind(r) ==
  LET change == Current(r) IN
  /\ Selected(r)
  /\ stored[change.cell] # Absent
  /\ ~locked[change.cell]
  /\ stored[change.cell] # change.value
  /\ holder' = [holder EXCEPT ![change.cell] = r]
  /\ seen' = [seen EXCEPT ![r] = stored[change.cell]]
  /\ pc' = [pc EXCEPT ![r] = "update"]
  /\ UNCHANGED <<tables, open, batch, results>>

(* The row holds the base: it stays locked until the commit. *)
SelectRow(r) ==
  LET change == Current(r) IN
  /\ Selected(r)
  /\ stored[change.cell] # Absent
  /\ ~locked[change.cell]
  /\ stored[change.cell] = change.base
  /\ stored[change.cell] # change.value
  /\ holder' = [holder EXCEPT ![change.cell] = r]
  /\ seen' = [seen EXCEPT ![r] = stored[change.cell]]
  /\ pc' = [pc EXCEPT ![r] = "update"]
  /\ UNCHANGED <<tables, open, batch, results>>

SelectMissing(r) ==
  LET change == Current(r) IN
  /\ Selected(r)
  /\ stored[change.cell] = Absent
  /\ change.base = Absent
  /\ seen' = [seen EXCEPT ![r] = Absent]
  /\ pc' = [pc EXCEPT ![r] = "insert"]
  /\ UNCHANGED <<tables, holder, open, batch, results>>

-----------------------------------------------------------------------------

(* Slip: the old value is read after the new one was assigned. *)
EntryAfterWrite(r, action) ==
  [action |-> action, old |-> IF action = "CREATE" THEN Null ELSE Current(r).value,
   new |-> Current(r).value, by |-> r]

Entry(r, action) ==
  [action |-> action, old |-> AuditValue(seen[r]), new |-> Current(r).value,
   by |-> r]

(* Slip: one commit for the whole batch, so the row stays locked. *)
CommitUpdateLater(r) ==
  LET c == Current(r).cell IN
  /\ pc[r] = "update"
  /\ stored' = [stored EXCEPT ![c] = Current(r).value]
  /\ audit' = [audit EXCEPT ![c] = Append(@, Entry(r, "UPDATE"))]
  /\ Put(r, Saved(Current(r)))
  /\ pc' = [pc EXCEPT ![r] = "change"]
  /\ UNCHANGED <<locked, holder, open, batch, seen>>

(* update_grade_content and the commit: the score and its audit row become *)
(* visible together and the row lock is released.                          *)
CommitUpdate(r) ==
  LET c == Current(r).cell IN
  /\ pc[r] = "update"
  /\ stored' = [stored EXCEPT ![c] = Current(r).value]
  /\ audit' = [audit EXCEPT ![c] = Append(@, Entry(r, "UPDATE"))]
  /\ holder' = [holder EXCEPT ![c] = Free]
  /\ Put(r, Saved(Current(r)))
  /\ pc' = [pc EXCEPT ![r] = "change"]
  /\ UNCHANGED <<locked, open, batch, seen>>

(* create_grade flushes the INSERT.  It waits for a session that inserted  *)
(* the same key and has not finished.                                      *)
FlushInsert(r) ==
  LET c == Current(r).cell IN
  /\ pc[r] = "insert"
  /\ stored[c] = Absent
  /\ holder[c] = Free
  /\ holder' = [holder EXCEPT ![c] = r]
  /\ pc' = [pc EXCEPT ![r] = "flushed"]
  /\ UNCHANGED <<tables, open, batch, seen, results>>

(* Slip: the IntegrityError is swallowed and the change answered as saved. *)
InsertCollisionSwallowed(r) ==
  /\ pc[r] = "insert"
  /\ stored[Current(r).cell] # Absent
  /\ Put(r, Saved(Current(r)))
  /\ pc' = [pc EXCEPT ![r] = "change"]
  /\ UNCHANGED <<tables, holder, open, batch, seen>>

(* Another session committed the row first: IntegrityError, rollback.      *)
InsertCollision(r) ==
  /\ pc[r] = "insert"
  /\ stored[Current(r).cell] # Absent
  /\ Put(r, Error(Current(r)))
  /\ pc' = [pc EXCEPT ![r] = "change"]
  /\ UNCHANGED <<tables, holder, open, batch, seen>>

(* Slip: as CommitUpdateLater, after an insertion. *)
CommitInsertLater(r) ==
  LET c == Current(r).cell IN
  /\ pc[r] = "flushed"
  /\ stored' = [stored EXCEPT ![c] = Current(r).value]
  /\ audit' = [audit EXCEPT ![c] = Append(@, Entry(r, "CREATE"))]
  /\ Put(r, Saved(Current(r)))
  /\ pc' = [pc EXCEPT ![r] = "change"]
  /\ UNCHANGED <<locked, holder, open, batch, seen>>

CommitInsert(r) ==
  LET c == Current(r).cell IN
  /\ pc[r] = "flushed"
  /\ stored' = [stored EXCEPT ![c] = Current(r).value]
  /\ audit' = [audit EXCEPT ![c] = Append(@, Entry(r, "CREATE"))]
  /\ holder' = [holder EXCEPT ![c] = Free]
  /\ Put(r, Saved(Current(r)))
  /\ pc' = [pc EXCEPT ![r] = "change"]
  /\ UNCHANGED <<locked, open, batch, seen>>

(* 200, or 422 when a result is an error, with the X-Grade-Sync header.    *)
Respond(r) ==
  /\ pc[r] = "change"
  /\ ~Remaining(r)
  /\ pc' = [pc EXCEPT ![r] = "answered"]
  /\ UNCHANGED <<tables, holder, open, batch, seen, results>>

(* The worker dies: its open transaction is rolled back, what it committed *)
(* for earlier changes stays, and no answer is sent.                       *)
Crash(r) ==
  /\ pc[r] \in Active
  /\ pc' = [pc EXCEPT ![r] = "crashed"]
  /\ holder' = [c \in Cells |-> IF holder[c] = r THEN Free ELSE holder[c]]
  /\ UNCHANGED <<tables, open, batch, seen, results>>

-----------------------------------------------------------------------------
(* The class submits the period: a publication row beyond DRAFT appears.   *)
ClosePeriod ==
  /\ open
  /\ open' = FALSE
  /\ UNCHANGED <<tables, holder, request>>

(* A grade is validated or archived.  No route does it; the route guards   *)
(* against it.  An UPDATE of the row waits for the session that holds it.  *)
LockRow(c) ==
  /\ stored[c] # Absent
  /\ ~locked[c]
  /\ holder[c] = Free
  /\ locked' = [locked EXCEPT ![c] = TRUE]
  /\ UNCHANGED <<stored, audit, holder, open, request>>

Step(r) ==
  \/ RejectValue(r)
  \/ Conflict(r) \/ Unchanged(r) \/ SelectRow(r) \/ SelectMissing(r)
  \/ CommitUpdate(r)
  \/ FlushInsert(r) \/ InsertCollision(r) \/ CommitInsert(r)
  \/ Respond(r)

(* Nothing is left to do: the only way this model may stop. *)
Finished ==
  /\ \A r \in Requests : pc[r] \in {"answered", "refused", "crashed"}
  /\ UNCHANGED vars

Next ==
  \/ \E r \in Requests :
       \/ \E changes \in Batches : Receive(r, changes) \/ RefuseBatch(r, changes)
       \/ Step(r)
       \/ Crash(r)
  \/ ClosePeriod
  \/ \E c \in Cells : LockRow(c)
  \/ Finished

Spec == Init /\ [][Next]_vars

(* A worker that has accepted a batch keeps running until it answers or    *)
(* dies; the database grants a lock once its holder is gone.               *)
Fairness == \A r \in Requests : WF_vars(Step(r))

FairSpec == Spec /\ Fairness

-----------------------------------------------------------------------------
(* A grade changes only by a change whose author saw exactly the value     *)
(* being replaced, and never once the row is validated or archived: of two *)
(* concurrent authors the second is told, not overwritten (routes.py sync, *)
(* FOR UPDATE with populate_existing and the base comparison).             *)
ReplacesWhatWasSeen(c) ==
  \E r \in Requests :
    /\ pc[r] \in {"update", "flushed"}
    /\ Current(r).cell = c
    /\ Current(r).base = stored[c]
    /\ stored'[c] = Current(r).value
    /\ ~locked[c]

NoLostUpdate == [][\A c \in Cells : stored'[c] # stored[c] => ReplacesWhatWasSeen(c)]_vars

(* The audit trail of a cell is one unbroken chain, whatever the           *)
(* interleaving: it begins with the creation, each later row starts from   *)
(* what the previous one left and changes it, and the last one ends at the *)
(* stored value.  A batch posted again after a lost answer therefore adds  *)
(* no row (audit_service: every mutation goes through the same guarantee). *)
Chained(trail) ==
  /\ trail[1].action = "CREATE" /\ trail[1].old = Null
  /\ \A k \in 2..Len(trail) :
       /\ trail[k].action = "UPDATE"
       /\ trail[k].old = trail[k - 1].new
       /\ trail[k].new # trail[k].old

AuditChain ==
  \A c \in Cells :
    /\ stored[c] = Absent <=> audit[c] = <<>>
    /\ audit[c] # <<>> =>
         Chained(audit[c]) /\ audit[c][Len(audit[c])].new = AuditValue(stored[c])

(* An answer tells the truth: a change answered "saved" is in the audit    *)
(* trail, by its author or by someone who stored the same score; a change  *)
(* answered "error" left no row in it; and every row a request wrote is    *)
(* answered "saved".  The grid deletes drafts on the strength of this.     *)
AnswersMatchAudit ==
  \A r \in Requests :
    /\ \A i \in DOMAIN results[r] :
         LET trail == audit[results[r][i].cell] IN
         IF results[r][i].state = "saved"
         THEN \E k \in DOMAIN trail : trail[k].new = results[r][i].value
         ELSE \A k \in DOMAIN trail : trail[k].by # r
    /\ \A c \in Cells : \A k \in DOMAIN audit[c] :
         audit[c][k].by = r =>
           \E i \in DOMAIN results[r] : results[r][i] = Saved(batch[r][i]) /\ batch[r][i].cell = c

(* A request that may have to wait for a row holds none: the commit after  *)
(* each change is what keeps two batches that name the same cells in       *)
(* opposite orders from waiting for each other.                            *)
NoHoldAndWait ==
  \A r \in Requests : pc[r] \notin {"update", "flushed"} => \A c \in Cells : holder[c] # r

(* A request whose batch was accepted is eventually answered, unless its   *)
(* worker dies; waiting for rows never lasts forever.                      *)
EveryBatchEnds ==
  \A r \in Requests : pc[r] = "change" ~> pc[r] \in {"answered", "crashed"}

-----------------------------------------------------------------------------
(* What a worker relies on between its SELECT and its COMMIT: the row it   *)
(* selected is still the row in the table, nobody else holds it, and a     *)
(* flushed INSERT is the only one for its key.  This is the strengthening  *)
(* that makes the properties above inductive.                              *)
InTransaction(r) ==
  /\ Remaining(r)
  /\ Current(r).value \in Accepted[Current(r).cell]
  /\ Current(r).base = seen[r]

Undisturbed(r) ==
  LET c == Current(r).cell IN
  /\ pc[r] \in {"update", "insert", "flushed"} => InTransaction(r)
  /\ pc[r] \in {"insert", "flushed"} => seen[r] = Absent
  /\ pc[r] = "update" => seen[r] # Absent /\ seen[r] # Current(r).value
  /\ pc[r] \in {"update", "flushed"} =>
       holder[c] = r /\ stored[c] = seen[r] /\ ~locked[c]

WorkerInv(r) ==
  /\ Undisturbed(r)
  /\ pc[r] = "idle" => batch[r] = <<>> /\ results[r] = <<>>
  /\ \A c \in Cells : holder[c] = r => pc[r] \in {"update", "flushed"} /\ Current(r).cell = c

TransactionInv ==
  /\ \A c \in Cells : locked[c] => stored[c] # Absent
  /\ \A r \in Requests : WorkerInv(r)

(* The answers follow the batch, one per change, and the changes of a      *)
(* batch name different cells: what makes AnswersMatchAudit inductive.     *)
AnswerInv ==
  /\ \A r \in Requests :
       /\ Len(results[r]) <= Len(batch[r])
       /\ \A i \in DOMAIN results[r] : results[r][i] \in {Saved(batch[r][i]), Error(batch[r][i])}
       /\ \A i, j \in DOMAIN batch[r] : batch[r][i].cell = batch[r][j].cell => i = j
  /\ AnswersMatchAudit

-----------------------------------------------------------------------------
(* The route implements the ledger: savepoints, locks and retries of the   *)
(* unique index amount to one compare-and-set per change.                  *)
Ledger == INSTANCE GradeLedger WITH
  value <- stored, frozen <- locked, asked <- batch, answered <- results

LedgerSpec == Ledger!Spec
=============================================================================

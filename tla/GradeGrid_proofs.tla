-------------------------- MODULE GradeGrid_proofs --------------------------
(***************************************************************************)
(* Theorems about GradeGrid, for every grid, batch size and bound.         *)
(***************************************************************************)
EXTENDS GradeGrid, TLAPS

(* What is inductive.  A batch in flight belongs to an open page, and none *)
(* of its drafts can have been discarded; what it calls saved the server   *)
(* has acknowledged; and as long as no write has failed, the disk has the  *)
(* values of the page, so that closing the page loses nothing.             *)
SameValue(d, e) == (d = None <=> e = None) /\ (d # None => d.value = e.value)

InFlight ==
  awaited # None =>
    /\ page # "closed"
    /\ \A c \in Sent : pending[c] # None
    /\ \A c \in Sent : awaited.results[c] = "saved" => awaited.drafts[c].value \in kept[c]

OnDisk ==
  /\ page = "closed" => \A c \in Cells : pending[c] = None
  /\ page # "closed" /\ storageOK =>
       /\ \A c \in Cells : SameValue(pending[c], store[c])
       /\ page = "editable" => store = pending

DraftInv == InFlight /\ OnDisk /\ NothingTypedIsLost

Safe == TypeOK /\ DraftInv

-----------------------------------------------------------------------------
(* What a call of persist() leaves on the disk. *)
LEMMA Persisted ==
  ASSUME NEW S \in SUBSET Cells, TypeOK,
         pending' \in [Cells -> Drafts \cup {None}], Persist(S)
  PROVE  /\ store' \in [Cells -> Drafts \cup {None}]
         /\ storageOK' \in BOOLEAN
         /\ storageOK' => storageOK /\ \A c \in S : store'[c] = pending'[c]
         /\ \A c \in Cells \ S : store'[c] = store[c]
<1>1. store' \in [Cells -> Drafts \cup {None}]
  BY DEF Persist, TypeOK
<1>2. storageOK' \in BOOLEAN
  BY DEF Persist
<1>3. ASSUME storageOK' PROVE storageOK /\ \A c \in S : store'[c] = pending'[c]
  BY <1>3 DEF Persist
<1>4. \A c \in Cells \ S : store'[c] = store[c]
  BY DEF Persist
<1> QED
  BY <1>1, <1>2, <1>3, <1>4

LEMMA SameDrafts ==
  ASSUME NEW f \in [Cells -> Drafts \cup {None}], NEW g \in [Cells -> Drafts \cup {None}],
         \A c \in Cells : f[c] = g[c]
  PROVE  f = g
OBVIOUS

LEMMA CountTyped ==
  ASSUME NEW what \in Counted, NEW bound, TypeOK, Count(what, bound)
  PROVE  count' \in [Counted -> Nat]
<1>1. count \in [Counted -> Nat]
  BY DEF TypeOK
<1>2. count[what] \in Nat
  BY <1>1
<1>3. count' = [count EXCEPT ![what] = count[what] + 1]
  BY DEF Count
<1> QED
  BY <1>1, <1>2, <1>3

LEMMA InitTypeOK == Init => TypeOK
<1> SUFFICES ASSUME Init PROVE TypeOK
  OBVIOUS
<1>1. /\ stored \in [Cells -> Contents] /\ base \in [Cells -> Contents]
      /\ orphans \in [Slots -> Requests \cup {None}]
      /\ pending \in [Cells -> Drafts \cup {None}] /\ store \in [Cells -> Drafts \cup {None}]
      /\ typed \in [Cells -> Inputs \cup {None}]
      /\ kept \in [Cells -> SUBSET Scores]
  BY DEF Init
<1>2. told \in [Cells -> {"", "draft", "restored", "locked", "refused"} \cup Outcomes]
  BY DEF Init
<1>3. count \in [Counted -> Nat]
  BY DEF Init
<1>5. closed \in BOOLEAN /\ due \in BOOLEAN /\ paused \in BOOLEAN /\ online \in BOOLEAN
  BY DEF Init
<1>6. storageOK \in BOOLEAN /\ full \in BOOLEAN
  BY DEF Init
<1>7. /\ page \in {"closed", "editable", "readonly"} /\ awaited \in Requests \cup {None}
      /\ foreign \subseteq Cells /\ unanswered \subseteq Cells
  BY DEF Init
<1> QED
  BY <1>1, <1>2, <1>3, <1>5, <1>6, <1>7 DEF TypeOK

LEMMA InitSafe == Init => DraftInv
<1> SUFFICES ASSUME Init PROVE DraftInv
  OBVIOUS
<1>1. InFlight
  BY DEF Init, InFlight
<1>2. page = "closed"
  BY DEF Init
<1>3. OnDisk
  BY <1>2 DEF Init, OnDisk
<1>4. NothingTypedIsLost
  BY DEF Init, NothingTypedIsLost
<1> QED
  BY <1>1, <1>3, <1>4 DEF DraftInv

(* A request on its way stays one. *)
LEMMA RequestTyped ==
  ASSUME NEW r \in Requests, NEW c \in Cells
  PROVE  Received(r) \in Requests /\ Handled(r, c) \in Requests
<1>1. Outcome(r, c) \in Outcomes
  BY DEF Outcome, Outcomes
<1> QED
  BY <1>1 DEF Received, Handled, Requests

(* A restored draft is a draft. *)
LEMMA RestoredTyped ==
  ASSUME TypeOK, NEW c \in Cells
  PROVE  Restored(c) \in Drafts \cup {None}
<1>1. CASE store[c] = None
  BY <1>1 DEF Restored
<1>2. CASE store[c] # None
  <2> DEFINE d == store[c]
             e == d.error \/ closed
  <2>1. d \in Drafts
    BY <1>2 DEF TypeOK
  <2>2. e \in BOOLEAN
    OBVIOUS
  <2>3. Restored(c) = [d EXCEPT !.error = e]
    BY <1>2 DEF Restored
  <2> HIDE DEF d, e
  <2>4. [d EXCEPT !.error = e] \in Drafts
    BY <2>1, <2>2 DEF Drafts
  <2> QED
    BY <2>3, <2>4
<1> QED
  BY <1>1, <1>2

LEMMA HandleTyped ==
  ASSUME TypeOK, NEW r \in Requests, NEW c \in Cells, Handle(r, c)
  PROVE  /\ stored' \in [Cells -> Contents]
         /\ kept' \in [Cells -> SUBSET Scores]
<1>1. r.drafts[c] \in Drafts
  BY DEF Handle, Requests
<1>2. CASE Outcome(r, c) = "saved"
  <2>1. r.drafts[c].value \in Scores /\ r.drafts[c].edit \in Nat
    BY <1>1, <1>2 DEF Outcome, Drafts, Inputs
  <2>2. /\ stored' = [stored EXCEPT ![c] = r.drafts[c].value]
        /\ kept' = [kept EXCEPT ![c] = @ \cup {r.drafts[c].value}]
    BY <1>2 DEF Handle
  <2>3. stored' \in [Cells -> Contents]
    BY <2>1, <2>2 DEF TypeOK, Contents
  <2>4. kept[c] \cup {r.drafts[c].value} \in SUBSET Scores
    BY <2>1 DEF TypeOK
  <2>5. kept' \in [Cells -> SUBSET Scores]
    BY <2>2, <2>4 DEF TypeOK
  <2> QED
    BY <2>3, <2>5
<1>3. CASE Outcome(r, c) # "saved"
  BY <1>3 DEF Handle, TypeOK
<1> QED
  BY <1>2, <1>3

-----------------------------------------------------------------------------
LEMMA TypeStep == Safe /\ [Next]_vars => TypeOK'
<1> SUFFICES ASSUME TypeOK, DraftInv, [Next]_vars PROVE TypeOK'
  BY DEF Safe
<1> USE DEF server, tab, disk, history
<1>1. CASE Load
  <2>1. count' \in [Counted -> Nat]
    BY <1>1, CountTyped DEF Load, Counted
  <2>2. pending' \in [Cells -> Drafts \cup {None}]
    <3>1. ASSUME NEW c \in Cells PROVE Restored(c) \in Drafts \cup {None}
      BY RestoredTyped
    <3>2. pending' = [c \in Cells |-> Restored(c)]
      BY <1>1 DEF Load
    <3> QED
      BY <3>1, <3>2
  <2> QED
    BY <1>1, <2>1, <2>2 DEF Load, TypeOK
<1>2. CASE Close
  <2>1. typed' \in [Cells -> Inputs \cup {None}]
    BY <1>2 DEF Close, TypeOK, Drafts
  <2>2. CASE awaited = None
    BY <1>2, <2>1, <2>2 DEF Close, TypeOK
  <2>3. CASE awaited # None
    <3>1. awaited' = None /\ orphans' \in [Slots -> Requests \cup {None}] /\ unanswered' \subseteq Cells
      BY <1>2, <2>3 DEF Close, Abandon, Sent, TypeOK
    <3> QED
      BY <1>2, <2>1, <3>1 DEF Close, TypeOK
  <2> QED
    BY <2>2, <2>3
<1>3. ASSUME NEW c \in Cells, NEW v \in Inputs, Type(c, v) PROVE TypeOK'
  <2>1. count' \in [Counted -> Nat]
    BY <1>3, CountTyped DEF Type, Counted
  <2>2. pending' \in [Cells -> Drafts \cup {None}]
    <3>1. count'["edit"] \in Nat
      BY <2>1 DEF Counted
    <3>2. (IF pending[c] = None THEN base[c] ELSE pending[c].base) \in Contents
      BY DEF TypeOK, Drafts
    <3> DEFINE d == [value |-> v, base |-> IF pending[c] = None THEN base[c] ELSE pending[c].base,
                     error |-> FALSE, edit |-> count'["edit"]]
    <3>3. d \in Drafts
      BY <3>1, <3>2 DEF Drafts
    <3>4. pending' = [pending EXCEPT ![c] = d]
      BY <1>3 DEF Type
    <3> HIDE DEF d
    <3> QED
      BY <3>3, <3>4 DEF TypeOK
  <2>3. store' \in [Cells -> Drafts \cup {None}] /\ storageOK' \in BOOLEAN
    BY <1>3, <2>2, Persisted DEF Type
  <2> QED
    BY <1>3, <2>1, <2>2, <2>3 DEF Type, TypeOK
<1>4. ASSUME NEW c \in Cells, Discard(c) PROVE TypeOK'
  <2>1. pending' \in [Cells -> Drafts \cup {None}]
    BY <1>4 DEF Discard, TypeOK
  <2>2. store' \in [Cells -> Drafts \cup {None}] /\ storageOK' \in BOOLEAN
    BY <1>4, <2>1, Persisted DEF Discard
  <2> QED
    BY <1>4, <2>1, <2>2 DEF Discard, TypeOK
<1>5. CASE Retry
  <2>1. count' \in [Counted -> Nat]
    BY <1>5, CountTyped DEF Retry, Counted
  <2>2. pending' \in [Cells -> Drafts \cup {None}]
    <3>1. \A d \in Drafts : [d EXCEPT !.error = FALSE] \in Drafts
      BY DEF Drafts
    <3> QED
      BY <1>5, <3>1 DEF Retry, TypeOK
  <2>3. store' \in [Cells -> Drafts \cup {None}] /\ storageOK' \in BOOLEAN
    BY <1>5, <2>2, Persisted DEF Retry
  <2>4. due' \in BOOLEAN
    BY <1>5 DEF Retry
  <2> QED
    BY <1>5, <2>1, <2>2, <2>3, <2>4 DEF Retry, TypeOK
<1>6. CASE Flush
  <2>1. awaited' \in Requests
    <3>1. PICK S \in SUBSET Sendable :
            awaited' = [at |-> "sent",
                        drafts |-> [c \in Cells |-> IF c \in S THEN pending[c] ELSE None],
                        results |-> [c \in Cells |-> None]]
      BY <1>6 DEF Flush
    <3>2. [c \in Cells |-> IF c \in S THEN pending[c] ELSE None] \in [Cells -> Drafts \cup {None}]
      BY DEF TypeOK
    <3>3. [c \in Cells |-> None] \in [Cells -> Outcomes \cup {None}]
      OBVIOUS
    <3> QED
      BY <3>1, <3>2, <3>3 DEF Requests
  <2> QED
    BY <1>6, <2>1 DEF Flush, TypeOK
<1>7. CASE FlushNothing
  BY <1>7 DEF FlushNothing, TypeOK
<1>8. CASE ServeAwaited
  <2>1. awaited \in Requests
    BY <1>8 DEF ServeAwaited, TypeOK
  <2>2. CASE awaited' = Received(awaited) /\ UNCHANGED <<stored, kept>>
    BY <1>8, <2>1, <2>2, RequestTyped DEF ServeAwaited, TypeOK, Received, Requests
  <2>3. ASSUME NEW c \in Cells, Handle(awaited, c), awaited' = Handled(awaited, c) PROVE TypeOK'
    BY <1>8, <2>1, <2>3, RequestTyped, HandleTyped DEF ServeAwaited, TypeOK
  <2> QED
    BY <1>8, <2>2, <2>3 DEF ServeAwaited
<1>9. ASSUME NEW n \in Slots, ServeOrphan(n) PROVE TypeOK'
  <2>1. orphans[n] \in Requests
    BY <1>9 DEF ServeOrphan, TypeOK
  <2>2. CASE orphans' = [orphans EXCEPT ![n] = Received(@)] /\ UNCHANGED <<stored, kept>>
    <3>1. Received(orphans[n]) \in Requests
      BY <2>1 DEF Received, Requests
    <3> QED
      BY <1>9, <2>2, <3>1 DEF ServeOrphan, TypeOK
  <2>3. ASSUME NEW c \in Cells, Handle(orphans[n], c),
               orphans' = [orphans EXCEPT ![n] = Handled(@, c)]
        PROVE  TypeOK'
    <3>1. Handled(orphans[n], c) \in Requests
      BY <2>1, RequestTyped
    <3> QED
      BY <1>9, <2>1, <2>3, <3>1, HandleTyped DEF ServeOrphan, TypeOK
  <2>4. CASE orphans' = [orphans EXCEPT ![n] = None] /\ UNCHANGED <<stored, kept>>
    BY <1>9, <2>4 DEF ServeOrphan, TypeOK
  <2> QED
    BY <1>9, <2>2, <2>3, <2>4 DEF ServeOrphan
<1>10. ASSUME NEW c \in Cells, NEW v \in Scores, OtherWrites(c, v) PROVE TypeOK'
  <2>1. count' \in [Counted -> Nat]
    BY <1>10, CountTyped DEF OtherWrites, Counted
  <2> QED
    BY <1>10, <2>1 DEF OtherWrites, TypeOK, Contents
<1>11. CASE ClosePeriod
  BY <1>11 DEF ClosePeriod, TypeOK
<1>12. CASE DiskFills
  <2>1. count' \in [Counted -> Nat]
    BY <1>12, CountTyped DEF DiskFills, Counted
  <2> QED
    BY <1>12, <2>1 DEF DiskFills, TypeOK
<1>13. CASE Acknowledge
  <2>1. awaited \in Requests /\ \A c \in Sent : pending[c] \in Drafts /\ awaited.drafts[c] \in Drafts
    BY <1>13 DEF Acknowledge, TypeOK, DraftInv, InFlight, Sent, Requests
  <2>2. \A c \in Cells : BaseAfter(c) \in Contents
    <3>1. ASSUME NEW c \in Sent, Saved(c) PROVE awaited.drafts[c].value \in Contents
      BY <1>13, <2>1, <3>1 DEF Acknowledge, DraftInv, InFlight, Saved, TypeOK, Contents, Sent
    <3> QED
      BY <3>1 DEF BaseAfter, TypeOK
  <2>3. \A c \in Cells : DraftAfter(c) \in Drafts \cup {None}
    BY <2>1, <2>2 DEF DraftAfter, TypeOK, Drafts
  <2>4. pending' \in [Cells -> Drafts \cup {None}] /\ base' \in [Cells -> Contents]
    BY <1>13, <2>2, <2>3 DEF Acknowledge
  <2>5. store' \in [Cells -> Drafts \cup {None}] /\ storageOK' \in BOOLEAN
    BY <1>13, <2>4, Persisted DEF Acknowledge
  <2>6. told' \in [Cells -> {"", "draft", "restored", "locked", "refused"} \cup Outcomes]
    BY <1>13, <2>1 DEF Acknowledge, TypeOK, Concerned, Sent, Requests
  <2> QED
    BY <1>13, <2>4, <2>5, <2>6 DEF Acknowledge, TypeOK
<1>14. CASE Lose
  <2>1. count' \in [Counted -> Nat]
    BY <1>14, CountTyped DEF Lose, Counted
  <2>2. awaited' = None /\ orphans' \in [Slots -> Requests \cup {None}] /\ unanswered' \subseteq Cells
    BY <1>14 DEF Lose, Abandon, Sent, TypeOK
  <2> QED
    BY <1>14, <2>1, <2>2 DEF Lose, TypeOK
<1>15. CASE NotFound
  BY <1>15 DEF NotFound, TypeOK
<1>16. CASE Refuse
  <2>1. count' \in [Counted -> Nat]
    BY <1>16, CountTyped DEF Refuse, Counted
  <2> QED
    BY <1>16, <2>1 DEF Refuse, TypeOK
<1>17. CASE GoOffline
  <2>1. count' \in [Counted -> Nat]
    BY <1>17, CountTyped DEF GoOffline, Counted
  <2> QED
    BY <1>17, <2>1 DEF GoOffline, TypeOK
<1>18. CASE GoOnline
  BY <1>18 DEF GoOnline, TypeOK
<1>19. CASE UNCHANGED vars
  BY <1>19 DEF vars, TypeOK
<1> QED
  BY <1>1, <1>2, <1>3, <1>4, <1>5, <1>6, <1>7, <1>8, <1>9, <1>10, <1>11, <1>12, <1>13,
     <1>14, <1>15, <1>16, <1>17, <1>18, <1>19 DEF Next, Finished

-----------------------------------------------------------------------------
(* Steps that leave the page, its drafts and the disk as they are. *)
LEMMA DraftStill ==
  ASSUME DraftInv, UNCHANGED <<page, pending, storageOK, store, typed>>,
         \A c \in Cells : kept[c] \subseteq kept'[c],
         InFlight'
  PROVE  DraftInv'
<1>1. OnDisk'
  BY DEF DraftInv, OnDisk, SameValue
<1>2. NothingTypedIsLost'
  BY DEF DraftInv, NothingTypedIsLost, HeldByPage, HeldByDisk
<1> QED
  BY <1>1, <1>2 DEF DraftInv

LEMMA HandleKept ==
  ASSUME TypeOK, NEW r \in Requests, NEW c \in Cells, Handle(r, c)
  PROVE  /\ \A x \in Cells : kept[x] \subseteq kept'[x]
         /\ Outcome(r, c) = "saved" => r.drafts[c].value \in kept'[c]
<1>1. CASE Outcome(r, c) = "saved"
  <2>1. kept' = [kept EXCEPT ![c] = @ \cup {r.drafts[c].value}]
    BY <1>1 DEF Handle
  <2> QED
    BY <2>1 DEF TypeOK
<1>2. CASE Outcome(r, c) # "saved"
  BY <1>2 DEF Handle
<1> QED
  BY <1>1, <1>2

LEMMA DraftStep == Safe /\ [Next]_vars => DraftInv'
<1> SUFFICES ASSUME TypeOK, DraftInv, [Next]_vars PROVE DraftInv'
  BY DEF Safe
<1> USE DEF server, tab, disk, history
<1>1. CASE Load
  <2>1. awaited' = None
    BY <1>1 DEF Load, DraftInv, InFlight
  <2>2. ASSUME NEW c \in Cells PROVE SameValue(Restored(c), store[c])
    BY NoneAssumption DEF SameValue, Restored, TypeOK, Drafts
  <2>3. pending' = [c \in Cells |-> Restored(c)] /\ store' = store
    BY <1>1 DEF Load
  <2>4. page' = "editable" => store' = pending'
    <3>1. ASSUME page' = "editable", NEW c \in Cells PROVE Restored(c) = store[c]
      BY <1>1, <3>1 DEF Load, Restored, TypeOK, Drafts
    <3> QED
      BY <2>3, <3>1 DEF TypeOK
  <2>5. OnDisk'
    BY <1>1, <2>2, <2>3, <2>4 DEF Load, OnDisk, SameValue
  <2>6. NothingTypedIsLost'
    BY <1>1, <2>2, <2>3 DEF Load, DraftInv, NothingTypedIsLost, HeldByPage, HeldByDisk, SameValue
  <2> QED
    BY <2>1, <2>5, <2>6 DEF DraftInv, InFlight
<1>2. CASE Close
  <2>1. awaited' = None /\ page' = "closed" /\ page # "closed" /\ store' = store /\ kept' = kept
    BY <1>2 DEF Close, Abandon
  <2>2. NothingTypedIsLost'
    <3>1. CASE storageOK
      <4>1. typed' = typed
        BY <1>2, <3>1 DEF Close
      <4> QED
        BY <2>1, <3>1, <4>1 DEF DraftInv, OnDisk, NothingTypedIsLost, HeldByPage, HeldByDisk, SameValue
    <3>2. CASE ~storageOK
      <4>1. typed' = [c \in Cells |-> IF store[c] = None THEN None ELSE store[c].value]
        BY <1>2, <3>2 DEF Close
      <4> QED
        BY <2>1, <4>1 DEF NothingTypedIsLost, HeldByDisk
    <3> QED
      BY <3>1, <3>2
  <2>3. \A c \in Cells : pending'[c] = None
    BY <1>2 DEF Close
  <2> QED
    BY <2>1, <2>2, <2>3 DEF DraftInv, InFlight, OnDisk
<1>3. ASSUME NEW c \in Cells, NEW v \in Inputs, Type(c, v) PROVE DraftInv'
  <2>1. /\ pending' \in [Cells -> Drafts \cup {None}]
        /\ store' \in [Cells -> Drafts \cup {None}]
    <3>1. TypeOK'
      BY TypeStep DEF Safe
    <3> QED
      BY <3>1 DEF TypeOK
  <2>0. /\ \A x \in Cells \ {c} : store'[x] = store[x]
        /\ storageOK' => storageOK /\ store'[c] = pending'[c]
    <3>1. Persist({c})
      BY <1>3 DEF Type
    <3> QED
      BY <2>1, <3>1, Persisted
  <2>2. \A x \in Cells \ {c} : pending'[x] = pending[x] /\ typed'[x] = typed[x] /\ store'[x] = store[x]
    BY <1>3, <2>0 DEF Type, TypeOK
  <2>3. pending'[c] \in Drafts /\ pending'[c].value = v /\ typed'[c] = v
    <3>1. pending'[c].value = v /\ typed'[c] = v
      BY <1>3 DEF Type, TypeOK
    <3>2. pending'[c] # None
      <4> DEFINE d == [value |-> v, base |-> IF pending[c] = None THEN base[c] ELSE pending[c].base,
                       error |-> FALSE, edit |-> count'["edit"]]
      <4>1. pending'[c] = d
        BY <1>3 DEF Type, TypeOK
      <4>2. (IF pending[c] = None THEN base[c] ELSE pending[c].base) \in Contents
        BY DEF TypeOK, Drafts
      <4>3. count'["edit"] \in Nat
        BY <1>3, CountTyped DEF Type, Counted
      <4>4. d \in Drafts
        BY <4>2, <4>3 DEF Drafts
      <4> QED
        BY <4>1, <4>4, NoneAssumption
    <3> QED
      BY <2>1, <3>1, <3>2 DEF TypeOK
  <2>4. storageOK' => storageOK /\ store'[c] = pending'[c]
    BY <2>0
  <2>5. page' = page /\ page = "editable" /\ awaited' = awaited /\ kept' = kept
    BY <1>3 DEF Type
  <2>6. InFlight'
    BY <2>2, <2>3, <2>5, NoneAssumption DEF DraftInv, InFlight, Sent
  <2>7. OnDisk'
    <3>1. ASSUME storageOK' PROVE store' = pending'
      <4>1. store = pending
        BY <2>4, <2>5, <3>1 DEF DraftInv, OnDisk
      <4>2. \A x \in Cells : store'[x] = pending'[x]
        BY <2>2, <2>4, <3>1, <4>1
      <4> QED
        BY <2>1, <4>2, SameDrafts
    <3> QED
      BY <2>5, <3>1 DEF OnDisk, SameValue
  <2>8. NothingTypedIsLost'
    BY <2>2, <2>3, <2>5, NoneAssumption DEF DraftInv, NothingTypedIsLost, HeldByPage, HeldByDisk
  <2> QED
    BY <2>6, <2>7, <2>8 DEF DraftInv
<1>4. ASSUME NEW c \in Cells, Discard(c) PROVE DraftInv'
  <2>1. /\ pending' \in [Cells -> Drafts \cup {None}]
        /\ store' \in [Cells -> Drafts \cup {None}]
    <3>1. TypeOK'
      BY TypeStep DEF Safe
    <3> QED
      BY <3>1 DEF TypeOK
  <2>0. /\ \A x \in Cells \ {c} : store'[x] = store[x]
        /\ storageOK' => storageOK /\ store'[c] = pending'[c]
    <3>1. Persist({c})
      BY <1>4 DEF Discard
    <3> QED
      BY <2>1, <3>1, Persisted
  <2>2. \A x \in Cells \ {c} : pending'[x] = pending[x] /\ typed'[x] = typed[x] /\ store'[x] = store[x]
    BY <1>4, <2>0 DEF Discard, TypeOK
  <2>3. pending'[c] = None /\ typed'[c] = None
    BY <1>4 DEF Discard, TypeOK
  <2>4. storageOK' => storageOK /\ store'[c] = pending'[c]
    BY <2>0
  <2>5. page' = page /\ page # "closed" /\ awaited' = None /\ kept' = kept
    BY <1>4 DEF Discard
  <2>6. OnDisk'
    <3>1. ASSUME storageOK' PROVE \A x \in Cells : SameValue(pending'[x], store'[x])
      BY <2>2, <2>3, <2>4, <2>5, <3>1 DEF DraftInv, OnDisk, SameValue
    <3>2. ASSUME storageOK', page = "editable" PROVE store' = pending'
      <4>1. store = pending
        BY <2>4, <2>5, <3>2 DEF DraftInv, OnDisk
      <4>2. \A x \in Cells : store'[x] = pending'[x]
        BY <2>2, <2>4, <3>2, <4>1
      <4> QED
        BY <2>1, <4>2, SameDrafts
    <3> QED
      BY <2>5, <3>1, <3>2 DEF OnDisk, SameValue
  <2>7. NothingTypedIsLost'
    BY <2>2, <2>3, <2>5 DEF DraftInv, NothingTypedIsLost, HeldByPage, HeldByDisk
  <2> QED
    BY <2>5, <2>6, <2>7 DEF DraftInv, InFlight
<1>5. CASE Retry
  <2>1. /\ pending' \in [Cells -> Drafts \cup {None}]
        /\ store' \in [Cells -> Drafts \cup {None}]
    <3>1. TypeOK'
      BY TypeStep DEF Safe
    <3> QED
      BY <3>1 DEF TypeOK
  <2>2. \A c \in Cells : SameValue(pending'[c], pending[c])
    BY <1>5, NoneAssumption DEF Retry, SameValue, TypeOK, Drafts
  <2>0. Persist({c \in Cells : pending[c] # None})
    BY <1>5 DEF Retry
  <2>3. \A c \in Cells : store'[c] = pending'[c] \/ (pending[c] = None /\ store'[c] = store[c]) \/ ~storageOK'
    BY <2>0, <2>1, Persisted
  <2>4. storageOK' => storageOK
    BY <2>0, <2>1, Persisted
  <2>5. page' = page /\ page = "editable" /\ awaited' = awaited /\ kept' = kept /\ typed' = typed
    BY <1>5 DEF Retry
  <2>6. InFlight'
    BY <2>2, <2>5 DEF DraftInv, InFlight, Sent, SameValue
  <2>7. OnDisk'
    <3>1. ASSUME storageOK' PROVE store' = pending'
      <4>1. store = pending
        BY <2>4, <2>5, <3>1 DEF DraftInv, OnDisk
      <4>2. \A c \in Cells : store'[c] = pending'[c]
        BY <2>2, <2>3, <3>1, <4>1 DEF SameValue
      <4> QED
        BY <2>1, <4>2, SameDrafts
    <3> QED
      BY <2>5, <3>1 DEF OnDisk, SameValue
  <2>8. NothingTypedIsLost'
    BY <2>2, <2>5 DEF DraftInv, NothingTypedIsLost, HeldByPage, HeldByDisk, SameValue
  <2> QED
    BY <2>6, <2>7, <2>8 DEF DraftInv
<1>6. CASE Flush
  <2>1. PICK S \in SUBSET Sendable :
          awaited' = [at |-> "sent",
                      drafts |-> [c \in Cells |-> IF c \in S THEN pending[c] ELSE None],
                      results |-> [c \in Cells |-> None]]
    BY <1>6 DEF Flush
  <2>2. \A c \in Cells : awaited'.drafts[c] # None => pending[c] # None
    BY <2>1 DEF Sendable
  <2>3. \A c \in Cells : awaited'.results[c] # "saved"
    <3>1. \A c \in Cells : awaited'.results[c] = None
      BY <2>1
    <3> QED
      BY <3>1, NoneAssumption DEF Outcomes
  <2>4. page # "closed" /\ page' = page /\ pending' = pending
    <3>1. \E c \in Cells : pending[c] # None
      BY <1>6 DEF Flush, Sendable
    <3> QED
      BY <1>6, <3>1 DEF Flush, DraftInv, OnDisk
  <2>5. InFlight'
    BY <2>2, <2>3, <2>4 DEF InFlight, Sent
  <2> QED
    BY <1>6, <2>5, DraftStill DEF Flush
<1>7. CASE FlushNothing
  <2>1. InFlight'
    BY <1>7 DEF FlushNothing, DraftInv, InFlight, Sent
  <2> QED
    BY <1>7, <2>1, DraftStill DEF FlushNothing
<1>8. CASE ServeAwaited
  <2>1. awaited \in Requests
    BY <1>8 DEF ServeAwaited, TypeOK
  <2>2. CASE awaited' = Received(awaited) /\ UNCHANGED <<stored, kept>>
    <3>1. awaited'.drafts = awaited.drafts /\ awaited'.results = awaited.results
      BY <2>1, <2>2 DEF Received, Requests
    <3>2. InFlight'
      BY <1>8, <2>2, <3>1 DEF ServeAwaited, DraftInv, InFlight, Sent
    <3> QED
      BY <1>8, <2>2, <3>2, DraftStill DEF ServeAwaited
  <2>3. ASSUME NEW c \in Cells, Handle(awaited, c), awaited' = Handled(awaited, c)
        PROVE  DraftInv'
    <3>1. /\ awaited'.drafts = awaited.drafts
          /\ awaited'.results[c] = Outcome(awaited, c)
          /\ \A x \in Cells \ {c} : awaited'.results[x] = awaited.results[x]
      BY <2>1, <2>3 DEF Handled, Requests
    <3>2. /\ \A x \in Cells : kept[x] \subseteq kept'[x]
          /\ Outcome(awaited, c) = "saved" => awaited.drafts[c].value \in kept'[c]
      BY <2>1, <2>3, HandleKept
    <3>3. InFlight'
      BY <1>8, <3>1, <3>2 DEF ServeAwaited, DraftInv, InFlight, Sent
    <3> QED
      BY <1>8, <3>2, <3>3, DraftStill DEF ServeAwaited
  <2> QED
    BY <1>8, <2>2, <2>3 DEF ServeAwaited
<1>9. ASSUME NEW n \in Slots, ServeOrphan(n) PROVE DraftInv'
  <2>1. orphans[n] \in Requests
    BY <1>9 DEF ServeOrphan, TypeOK
  <2>2. \A c \in Cells : kept[c] \subseteq kept'[c]
    <3>1. CASE UNCHANGED <<stored, kept>>
      BY <3>1
    <3>2. ASSUME NEW c \in Cells, Handle(orphans[n], c)
          PROVE  \A x \in Cells : kept[x] \subseteq kept'[x]
      BY <2>1, <3>2, HandleKept
    <3> QED
      BY <1>9, <3>1, <3>2 DEF ServeOrphan
  <2>3. InFlight'
    BY <1>9, <2>2 DEF ServeOrphan, DraftInv, InFlight, Sent
  <2> QED
    BY <1>9, <2>2, <2>3, DraftStill DEF ServeOrphan
<1>10. ASSUME NEW c \in Cells, NEW v \in Scores, OtherWrites(c, v) PROVE DraftInv'
  <2>1. InFlight'
    BY <1>10 DEF OtherWrites, DraftInv, InFlight, Sent
  <2> QED
    BY <1>10, <2>1, DraftStill DEF OtherWrites
<1>11. CASE ClosePeriod
  <2>1. InFlight'
    BY <1>11 DEF ClosePeriod, DraftInv, InFlight, Sent
  <2> QED
    BY <1>11, <2>1, DraftStill DEF ClosePeriod
<1>12. CASE DiskFills
  <2>1. InFlight'
    BY <1>12 DEF DiskFills, DraftInv, InFlight, Sent
  <2> QED
    BY <1>12, <2>1, DraftStill DEF DiskFills
<1>13. CASE Acknowledge
  <2>1. /\ pending' \in [Cells -> Drafts \cup {None}]
        /\ store' \in [Cells -> Drafts \cup {None}]
    <3>1. TypeOK'
      BY TypeStep DEF Safe
    <3> QED
      BY <3>1 DEF TypeOK
  <2>2. awaited # None /\ page # "closed" /\ \A c \in Sent : pending[c] \in Drafts /\ pending[c] # None
    BY <1>13 DEF Acknowledge, TypeOK, DraftInv, InFlight, Sent
  <2>3. /\ pending' = [c \in Cells |-> DraftAfter(c)]
        /\ awaited' = None /\ page' = page /\ kept' = kept /\ typed' = typed
    BY <1>13 DEF Acknowledge
  <2>4. ASSUME NEW c \in Cells
        PROVE  \/ SameValue(pending'[c], pending[c])
               \/ pending'[c] = None /\ c \in Sent /\ pending[c].value \in kept[c]
    <3>1. CASE c \in Sent /\ Saved(c) /\ Untouched(c)
      BY <2>2, <2>3, <3>1 DEF DraftAfter, DraftInv, InFlight, Saved, Untouched
    <3>2. CASE c \in Sent /\ ~(Saved(c) /\ Untouched(c))
      <4>1. \A d \in Drafts : \A b \in Contents :
              /\ [d EXCEPT !.base = b] \in Drafts /\ [d EXCEPT !.base = b].value = d.value
              /\ [d EXCEPT !.error = TRUE] \in Drafts /\ [d EXCEPT !.error = TRUE].value = d.value
        BY DEF Drafts
      <4>2. BaseAfter(c) \in Contents
        <5>1. base' = [x \in Cells |-> BaseAfter(x)]
          BY <1>13 DEF Acknowledge
        <5>2. TypeOK'
          BY TypeStep DEF Safe
        <5>3. base' \in [Cells -> Contents]
          BY <5>2 DEF TypeOK
        <5> QED
          BY <5>1, <5>3
      <4>3. /\ pending'[c] \in {pending[c], [pending[c] EXCEPT !.base = BaseAfter(c)],
                               [pending[c] EXCEPT !.error = TRUE]}
        BY <2>3, <3>2 DEF DraftAfter
      <4>4. pending[c] \in Drafts /\ pending[c] # None
        BY <2>2, <3>2
      <4>5. pending'[c] \in Drafts /\ pending'[c].value = pending[c].value
        BY <4>1, <4>2, <4>3, <4>4
      <4>6. pending'[c] # None
        BY <4>5, NoneAssumption
      <4> QED
        BY <4>4, <4>5, <4>6 DEF SameValue
    <3>3. CASE c \notin Sent
      BY <2>3, <3>3 DEF DraftAfter, SameValue
    <3> QED
      BY <3>1, <3>2, <3>3
  <2>0. Persist({c \in Cells : Concerned(c)})
    BY <1>13 DEF Acknowledge
  <2>5. \A c \in Cells : ~Concerned(c) => pending'[c] = pending[c] /\ store'[c] = store[c]
    <3>1. \A c \in Cells : ~Concerned(c) => pending'[c] = pending[c]
      BY <2>3 DEF Concerned, DraftAfter
    <3>2. \A c \in Cells : ~Concerned(c) => store'[c] = store[c]
      BY <2>0, <2>1, Persisted
    <3> QED
      BY <3>1, <3>2
  <2>6. storageOK' => storageOK /\ \A c \in Cells : Concerned(c) => store'[c] = pending'[c]
    BY <2>0, <2>1, Persisted
  <2>7. OnDisk'
    <3>1. ASSUME storageOK' PROVE \A c \in Cells : SameValue(pending'[c], store'[c])
      BY <2>2, <2>5, <2>6, <3>1 DEF DraftInv, OnDisk, SameValue
    <3>2. ASSUME storageOK', page = "editable" PROVE store' = pending'
      <4>1. store = pending
        BY <2>2, <2>6, <3>2 DEF DraftInv, OnDisk
      <4>2. \A c \in Cells : store'[c] = pending'[c]
        BY <2>5, <2>6, <3>2, <4>1
      <4> QED
        BY <2>1, <4>2, SameDrafts
    <3> QED
      BY <2>2, <2>3, <3>1, <3>2 DEF OnDisk, SameValue
  <2>8. NothingTypedIsLost'
    <3>1. ASSUME NEW c \in Cells
          PROVE  typed[c] = None \/ typed[c] \in kept[c]
                 \/ (pending'[c] # None /\ pending'[c].value = typed[c])
      BY <2>2, <2>4 DEF DraftInv, NothingTypedIsLost, HeldByPage, HeldByDisk, SameValue
    <3> QED
      BY <2>2, <2>3, <3>1 DEF NothingTypedIsLost, HeldByPage, HeldByDisk
  <2> QED
    BY <2>3, <2>7, <2>8 DEF DraftInv, InFlight
<1>14. CASE Lose
  <2>1. InFlight'
    BY <1>14 DEF Lose, Abandon, InFlight
  <2> QED
    BY <1>14, <2>1, DraftStill DEF Lose, Abandon
<1>15. CASE NotFound
  <2>1. InFlight'
    BY <1>15 DEF NotFound, InFlight
  <2> QED
    BY <1>15, <2>1, DraftStill DEF NotFound
<1>16. CASE Refuse
  <2>1. InFlight'
    BY <1>16 DEF Refuse, InFlight
  <2> QED
    BY <1>16, <2>1, DraftStill DEF Refuse
<1>17. CASE GoOffline \/ GoOnline
  <2>1. InFlight'
    BY <1>17 DEF GoOffline, GoOnline, DraftInv, InFlight, Sent
  <2> QED
    BY <1>17, <2>1, DraftStill DEF GoOffline, GoOnline
<1>18. CASE UNCHANGED vars
  <2>1. InFlight'
    BY <1>18 DEF vars, DraftInv, InFlight, Sent
  <2> QED
    BY <1>18, <2>1, DraftStill DEF vars
<1> QED
  BY <1>1, <1>2, <1>3, <1>4, <1>5, <1>6, <1>7, <1>8, <1>9, <1>10, <1>11, <1>12, <1>13,
     <1>14, <1>15, <1>16, <1>17, <1>18 DEF Next, Finished

-----------------------------------------------------------------------------
LEMMA AlwaysSafe == Spec => []Safe
<1>1. Init => Safe
  BY InitTypeOK, InitSafe DEF Safe
<1>2. Safe /\ [Next]_vars => Safe'
  BY TypeStep, DraftStep DEF Safe
<1> QED
  BY <1>1, <1>2, PTL DEF Spec

(* The page, the disk, the server and the requests on their way are well   *)
(* formed; in particular a base sent back by the server is a real grade.   *)
THEOREM GridTyped == Spec => []TypeOK
<1>1. Safe => TypeOK
  BY DEF Safe
<1> QED
  BY <1>1, AlwaysSafe, PTL

(* Whatever a teacher types, in a grid of any size and however often the   *)
(* network, the server, the disk or the page fails, her last word on a     *)
(* cell is acknowledged or still in a draft.                               *)
THEOREM DraftsKept == Spec => []NothingTypedIsLost
<1>1. Safe => NothingTypedIsLost
  BY DEF Safe, DraftInv
<1> QED
  BY <1>1, AlwaysSafe, PTL

(* localStorage mirrors the drafts of an editable page that has not warned *)
(* of a failed write.                                                      *)
THEOREM DiskMirrorsPage == Spec => []DiskAgrees
<1>1. Safe => DiskAgrees
  BY DEF Safe, DraftInv, OnDisk, DiskAgrees
<1> QED
  BY <1>1, AlwaysSafe, PTL
-----------------------------------------------------------------------------
(* Why a conflict is never her own doing.  Alone(c): nobody else wrote c,  *)
(* no answer about c was lost, and the disk took every write.  Then every  *)
(* draft of c is based on what the server holds, or, from the moment the   *)
(* batch in flight has saved c until it is acknowledged, on what the       *)
(* server held before; and a request that no page waits for carries no     *)
(* draft of c, since abandoning it lost the answer.                        *)
NoFill == count["fill"] = 0
Alone(c) == NoFill /\ c \notin foreign \cup unanswered

DiskWorks == NoFill => ~full
NothingHandledYet ==
  awaited # None /\ awaited.at # "handling" => \A c \in Cells : awaited.results[c] = None
OrphansUnanswered ==
  \A n \in Slots : orphans[n] # None =>
    \A c \in Cells : orphans[n].drafts[c] # None => c \in unanswered

SameBase(d, e) == (d = None <=> e = None) /\ (d # None => d.base = e.base)
BaseOnDisk(c) ==
  /\ page # "closed" => SameBase(pending[c], store[c])
  /\ page = "closed" /\ store[c] # None => store[c].base = stored[c]
Idle(c) == awaited = None \/ c \notin Sent
BaseOnPage(c) ==
  page # "closed" /\ Idle(c) =>
    base[c] = stored[c] /\ (pending[c] # None => pending[c].base = stored[c])
BaseInFlight(c) ==
  awaited # None /\ c \in Sent =>
    /\ awaited.results[c] # "conflict"
    /\ awaited.results[c] = "saved" => stored[c] = awaited.drafts[c].value
    /\ awaited.results[c] # "saved" =>
         stored[c] = base[c] /\ awaited.drafts[c].base = base[c] /\ pending[c].base = base[c]

Undisputed(c) ==
  BaseOnDisk(c) /\ BaseOnPage(c) /\ BaseInFlight(c) /\ told[c] # "conflict"

ConflictInv ==
  /\ DiskWorks /\ NothingHandledYet /\ OrphansUnanswered
  /\ \A c \in Cells : Alone(c) => Undisputed(c)

LEMMA InitConflict == Init => ConflictInv
<1> SUFFICES ASSUME Init PROVE ConflictInv
  OBVIOUS
<1>1. DiskWorks /\ NothingHandledYet
  BY DEF Init, DiskWorks, NothingHandledYet
<1>2. OrphansUnanswered
  BY DEF Init, OrphansUnanswered
<1>3. ASSUME NEW c \in Cells PROVE Undisputed(c)
  BY DEF Init, Undisputed, BaseOnDisk, BaseOnPage, BaseInFlight
<1> QED
  BY <1>1, <1>2, <1>3 DEF ConflictInv

(* Once another author, a lost answer or a refused write has touched a     *)
(* cell, it stays touched.                                                 *)
LEMMA CountGrows ==
  ASSUME TypeOK, [Next]_vars, NoFill'
  PROVE  NoFill /\ ~DiskFills
<1> USE DEF server, tab, disk, history
<1>1. ASSUME NEW what \in Counted, NEW bound, Count(what, bound)
      PROVE  NoFill /\ what # "fill"
  <2>1. count[what] \in Nat /\ count["fill"] \in Nat
    BY DEF TypeOK, Counted
  <2>2. count'["fill"] = IF what = "fill" THEN count["fill"] + 1 ELSE count["fill"]
    BY <1>1 DEF Count, TypeOK, Counted
  <2>3. count'["fill"] = 0
    BY DEF NoFill
  <2> QED
    BY <2>1, <2>2, <2>3 DEF NoFill
<1>2. ASSUME count' = count PROVE NoFill
  BY <1>2 DEF NoFill
<1>3. ~DiskFills
  BY <1>1 DEF DiskFills, Counted
<1>5. CASE \E what \in Counted, bound \in {MaxLoads, MaxEdits, MaxFailures, MaxOthers, MaxFills,
                                        MaxOfflines} :
             Count(what, bound)
  BY <1>1, <1>3, <1>5
<1>6. CASE count' = count
  BY <1>2, <1>3, <1>6
<1>7. \/ \E what \in Counted, bound \in {MaxLoads, MaxEdits, MaxFailures, MaxOthers, MaxFills,
                                        MaxOfflines} :
           Count(what, bound)
      \/ count' = count
  <2>1. {"edit", "failure", "other", "load", "fill", "offline"} \subseteq Counted
    BY DEF Counted
  <2>2. ASSUME NEW c \in Cells, NEW v \in Inputs, Type(c, v) PROVE <1>7!1
    BY <2>1, <2>2 DEF Type
  <2>3. ASSUME NEW c \in Cells, NEW v \in Scores, OtherWrites(c, v) PROVE <1>7!1
    BY <2>1, <2>3 DEF OtherWrites
  <2>4. CASE Load \/ Retry \/ Lose \/ Refuse \/ DiskFills \/ GoOffline
    BY <2>1, <2>4 DEF Load, Retry, Lose, Refuse, DiskFills, GoOffline
  <2>5. CASE Close \/ Flush \/ FlushNothing \/ (\E c \in Cells : Discard(c)) \/ ServeAwaited
             \/ (\E n \in Slots : ServeOrphan(n)) \/ ClosePeriod \/ Acknowledge \/ NotFound
             \/ GoOnline \/ Finished \/ UNCHANGED vars
    BY <2>5 DEF Close, Flush, FlushNothing, Discard, ServeAwaited, ServeOrphan, ClosePeriod,
                Acknowledge, NotFound, GoOnline, Finished, vars
  <2> QED
    BY <2>2, <2>3, <2>4, <2>5 DEF Next
<1> QED
  BY <1>5, <1>6, <1>7

LEMMA AloneBefore ==
  ASSUME TypeOK, [Next]_vars, NEW c \in Cells, Alone(c)'
  PROVE  Alone(c)
<1> USE DEF server, tab, disk, history
<1>1. NoFill
  BY CountGrows DEF Alone
<1>2. foreign \subseteq foreign'
  BY DEF Next, Load, Close, Type, Discard, Retry, Flush, FlushNothing, ServeAwaited, ServeOrphan,
         OtherWrites, ClosePeriod, DiskFills, Acknowledge, Lose, NotFound, Refuse, GoOffline, GoOnline, Finished, vars
<1>3. unanswered \subseteq unanswered'
  BY DEF Next, Load, Close, Abandon, Type, Discard, Retry, Flush, FlushNothing, ServeAwaited,
         ServeOrphan, OtherWrites, ClosePeriod, DiskFills, Acknowledge, Lose, NotFound, Refuse,
         GoOffline, GoOnline, Finished, vars
<1> QED
  BY <1>1, <1>2, <1>3 DEF Alone

(* A disk that works takes exactly what the page persists. *)
LEMMA PersistedExactly ==
  ASSUME NEW S, ~full, Persist(S), NEW c \in Cells
  PROVE  store'[c] = IF c \in S THEN pending'[c] ELSE store[c]
BY DEF Persist

(* Steps that leave a cell, its draft and the batch in flight as they are. *)
LEMMA UndisputedStill ==
  ASSUME NEW c \in Cells, Undisputed(c),
         UNCHANGED <<page, pending, store, base, awaited, told>>, stored'[c] = stored[c]
  PROVE  Undisputed(c)'
BY DEF Undisputed, BaseOnDisk, SameBase, BaseOnPage, Idle, BaseInFlight, Sent

(* A draft typed over another one keeps the base of the first. *)
LEMMA TypedDraft ==
  ASSUME TypeOK, NEW c \in Cells, NEW v \in Inputs, Type(c, v)
  PROVE  /\ pending'[c] # None
         /\ pending'[c].base = IF pending[c] = None THEN base[c] ELSE pending[c].base
         /\ \A x \in Cells \ {c} : pending'[x] = pending[x]
<1> DEFINE b == IF pending[c] = None THEN base[c] ELSE pending[c].base
           d == [value |-> v, base |-> b, error |-> FALSE, edit |-> count'["edit"]]
<1>1. /\ pending'[c] = d
      /\ \A x \in Cells \ {c} : pending'[x] = pending[x]
  BY DEF Type, TypeOK
<1>2. b \in Contents
  BY DEF TypeOK, Drafts
<1>3. count'["edit"] \in Nat
  BY CountTyped DEF Type, Counted
<1>4. d \in Drafts
  BY <1>2, <1>3 DEF Drafts
<1>5. d.base = b
  OBVIOUS
<1> QED
  BY <1>1, <1>4, <1>5, NoneAssumption

(* What the server does to a cell that no other request carries. *)
LEMMA HandledCell ==
  ASSUME TypeOK, NEW r \in Requests, NEW x \in Cells, Handle(r, x)
  PROVE  /\ \A c \in Cells \ {x} : stored'[c] = stored[c]
         /\ Outcome(r, x) = "saved" => stored'[x] = r.drafts[x].value
         /\ Outcome(r, x) # "saved" => stored'[x] = stored[x]
         /\ stored[x] = r.drafts[x].base => Outcome(r, x) # "conflict"
<1>1. CASE Outcome(r, x) = "saved"
  <2>1. stored' = [stored EXCEPT ![x] = r.drafts[x].value]
    BY <1>1 DEF Handle
  <2> QED
    BY <1>1, <2>1 DEF TypeOK
<1>2. CASE Outcome(r, x) # "saved"
  <2>1. stored' = stored
    BY <1>2 DEF Handle
  <2> QED
    BY <1>2, <2>1 DEF Outcome
<1> QED
  BY <1>1, <1>2

LEMMA ServingStep ==
  ASSUME TypeOK, NothingHandledYet, OrphansUnanswered,
         ServeAwaited \/ \E n \in Slots : ServeOrphan(n)
  PROVE  NothingHandledYet' /\ OrphansUnanswered'
<1> USE DEF tab, disk
<1>1. CASE ServeAwaited
  <2>1. awaited \in Requests
    BY <1>1 DEF ServeAwaited, TypeOK
  <2>2. NothingHandledYet'
    BY <1>1, <2>1 DEF ServeAwaited, NothingHandledYet, Received, Handle, Handled, Requests
  <2>3. OrphansUnanswered'
    BY <1>1 DEF ServeAwaited, OrphansUnanswered
  <2> QED
    BY <2>2, <2>3
<1>2. ASSUME NEW n \in Slots, ServeOrphan(n) PROVE NothingHandledYet' /\ OrphansUnanswered'
  <2>1. orphans[n] \in Requests
    BY <1>2 DEF ServeOrphan, TypeOK
  <2>2. orphans'[n] # None => orphans'[n].drafts = orphans[n].drafts
    <3>1. \A c \in Cells : Handled(orphans[n], c).drafts = orphans[n].drafts
      BY <2>1 DEF Handled, Requests
    <3>2. Received(orphans[n]).drafts = orphans[n].drafts
      BY <2>1 DEF Received, Requests
    <3>3. \/ orphans'[n] = None \/ orphans'[n] = Received(orphans[n])
          \/ \E c \in Cells : orphans'[n] = Handled(orphans[n], c)
      BY <1>2 DEF ServeOrphan, TypeOK
    <3> QED
      BY <3>1, <3>2, <3>3
  <2>3. \A m \in Slots \ {n} : orphans'[m] = orphans[m]
    BY <1>2 DEF ServeOrphan, TypeOK
  <2>4. unanswered' = unanswered /\ awaited' = awaited /\ orphans[n] # None
    BY <1>2 DEF ServeOrphan
  <2>5. OrphansUnanswered'
    BY <2>2, <2>3, <2>4 DEF OrphansUnanswered
  <2> QED
    BY <2>4, <2>5 DEF NothingHandledYet
<1> QED
  BY <1>1, <1>2

LEMMA AbandonStep ==
  ASSUME TypeOK, awaited # None, OrphansUnanswered, Abandon
  PROVE  NothingHandledYet' /\ OrphansUnanswered'
<1>1. CASE orphans' = orphans
  BY <1>1 DEF Abandon, NothingHandledYet, OrphansUnanswered
<1>2. ASSUME NEW n \in Slots, orphans' = [orphans EXCEPT ![n] = awaited]
      PROVE  OrphansUnanswered'
  <2>1. \A m \in Slots : orphans'[m] = IF m = n THEN awaited ELSE orphans[m]
    BY <1>2 DEF TypeOK
  <2> QED
    BY <2>1 DEF Abandon, OrphansUnanswered, Sent
<1> QED
  BY <1>1, <1>2 DEF Abandon, NothingHandledYet

LEMMA ConflictStep == Safe /\ Safe' /\ ConflictInv /\ [Next]_vars => ConflictInv'
<1> SUFFICES ASSUME TypeOK, TypeOK', DraftInv, ConflictInv, [Next]_vars PROVE ConflictInv'
  BY DEF Safe
<1> USE DEF server, tab, disk, history
<1>0. DiskWorks /\ NothingHandledYet /\ OrphansUnanswered
  BY DEF ConflictInv
<1>a. DiskWorks'
  <2>1. ASSUME NoFill' PROVE ~full'
    <3>1. NoFill /\ ~DiskFills
      BY <2>1, CountGrows
    <3>2. full' = full
      BY <3>1 DEF Next, Load, Close, Type, Discard, Retry, Flush, FlushNothing, ServeAwaited,
             ServeOrphan, OtherWrites, ClosePeriod, Acknowledge, Lose, NotFound, Refuse,
             GoOffline, GoOnline, Finished, vars
    <3> QED
      BY <1>0, <3>1, <3>2 DEF DiskWorks
  <2> QED
    BY <2>1 DEF DiskWorks
<1> SUFFICES /\ NothingHandledYet' /\ OrphansUnanswered'
             /\ \A c \in Cells : Alone(c) /\ Alone(c)' /\ Undisputed(c) /\ ~full => Undisputed(c)'
  BY <1>0, <1>a, AloneBefore DEF ConflictInv, DiskWorks, Alone
<1>still. ASSUME UNCHANGED <<awaited, orphans, unanswered>>
          PROVE  NothingHandledYet' /\ OrphansUnanswered'
  BY <1>0, <1>still DEF NothingHandledYet, OrphansUnanswered
<1>1. CASE Load
  <2>1. awaited = None /\ page = "closed"
    BY <1>1 DEF Load, DraftInv, InFlight
  <2>2. ASSUME NEW c \in Cells, Undisputed(c) PROVE Undisputed(c)'
    <3>1. SameBase(Restored(c), store[c])
      BY NoneAssumption DEF SameBase, Restored, TypeOK, Drafts
    <3>2. /\ pending'[c] = Restored(c) /\ store'[c] = store[c] /\ base'[c] = stored[c]
          /\ stored' = stored /\ page' # "closed" /\ awaited' = None /\ told'[c] # "conflict"
      BY <1>1, <2>1 DEF Load
    <3> QED
      BY <2>1, <2>2, <3>1, <3>2
      DEF Undisputed, BaseOnDisk, BaseOnPage, BaseInFlight, SameBase
  <2> QED
    BY <1>1, <1>still, <2>2 DEF Load
<1>2. CASE Close
  <2>1. NothingHandledYet' /\ OrphansUnanswered'
    BY <1>0, <1>2, <1>still, AbandonStep DEF Close
  <2>2. ASSUME NEW c \in Cells, Alone(c)', Undisputed(c) PROVE Undisputed(c)'
    <3>1. Idle(c)
      BY <1>2, <2>2 DEF Close, Abandon, Idle, Alone
    <3>2. /\ page # "closed" /\ page' = "closed" /\ awaited' = None /\ told'[c] = ""
          /\ store' = store /\ stored' = stored
      BY <1>2 DEF Close, Abandon
    <3> QED
      BY <2>2, <3>1, <3>2 DEF Undisputed, BaseOnDisk, BaseOnPage, BaseInFlight, SameBase
  <2> QED
    BY <2>1, <2>2
<1>3. ASSUME NEW x \in Cells, NEW v \in Inputs, Type(x, v)
      PROVE  /\ NothingHandledYet' /\ OrphansUnanswered'
             /\ \A c \in Cells : Undisputed(c) /\ ~full => Undisputed(c)'
  <2>1. ASSUME NEW c \in Cells, Undisputed(c), ~full PROVE Undisputed(c)'
    <3>1. store'[c] = IF c = x THEN pending'[c] ELSE store[c]
      BY <1>3, <2>1, PersistedExactly DEF Type
    <3>2. /\ UNCHANGED <<page, base, stored, awaited>> /\ page = "editable"
          /\ told'[c] = "draft" \/ told'[c] = told[c]
      BY <1>3 DEF Type, TypeOK
    <3>3. CASE c = x
      <4>1. /\ pending'[c] # None
            /\ pending'[c].base = IF pending[c] = None THEN base[c] ELSE pending[c].base
        BY <1>3, <3>3, TypedDraft
      <4>2. awaited # None /\ c \in Sent => pending[c] # None
        BY DEF DraftInv, InFlight
      <4> QED
        BY <2>1, <3>1, <3>2, <3>3, <4>1, <4>2
        DEF Undisputed, BaseOnDisk, BaseOnPage, Idle, BaseInFlight, SameBase, Sent
    <3>4. CASE c # x
      <4>1. pending'[c] = pending[c]
        BY <1>3, <3>4, TypedDraft
      <4> QED
        BY <2>1, <3>1, <3>2, <3>4, <4>1
        DEF Undisputed, BaseOnDisk, BaseOnPage, Idle, BaseInFlight, SameBase, Sent
    <3> QED
      BY <3>3, <3>4
  <2> QED
    BY <1>3, <1>still, <2>1 DEF Type
<1>4. ASSUME NEW x \in Cells, Discard(x)
      PROVE  /\ NothingHandledYet' /\ OrphansUnanswered'
             /\ \A c \in Cells : Undisputed(c) /\ ~full => Undisputed(c)'
  <2>1. ASSUME NEW c \in Cells, Undisputed(c), ~full PROVE Undisputed(c)'
    <3>1. store'[c] = IF c = x THEN pending'[c] ELSE store[c]
      BY <1>4, <2>1, PersistedExactly DEF Discard
    <3>2. /\ UNCHANGED <<page, base, stored, awaited>> /\ awaited = None /\ page # "closed"
          /\ told'[c] # "conflict"
          /\ pending'[c] = IF c = x THEN None ELSE pending[c]
      BY <1>4, <2>1 DEF Discard, TypeOK, Undisputed
    <3> QED
      BY <2>1, <3>1, <3>2
      DEF Undisputed, BaseOnDisk, BaseOnPage, Idle, BaseInFlight, SameBase
  <2> QED
    BY <1>4, <1>still, <2>1 DEF Discard
<1>5. CASE Retry
  <2>1. ASSUME NEW c \in Cells, Undisputed(c), ~full PROVE Undisputed(c)'
    <3>1. store'[c] = IF pending[c] # None THEN pending'[c] ELSE store[c]
      BY <1>5, <2>1, PersistedExactly DEF Retry
    <3>2. SameBase(pending'[c], pending[c])
      <4>1. \A d \in Drafts : /\ [d EXCEPT !.error = FALSE] \in Drafts
                            /\ [d EXCEPT !.error = FALSE].base = d.base
        BY DEF Drafts
      <4>2. pending'[c] = IF pending[c] = None THEN None ELSE [pending[c] EXCEPT !.error = FALSE]
        BY <1>5 DEF Retry
      <4>3. pending[c] \in Drafts \cup {None}
        BY DEF TypeOK
      <4> QED
        BY <4>1, <4>2, <4>3, NoneAssumption DEF SameBase
    <3>3. /\ UNCHANGED <<page, base, stored, awaited, told>> /\ page = "editable"
      BY <1>5 DEF Retry
    <3>4. awaited # None /\ c \in Sent => pending[c] # None
      BY DEF DraftInv, InFlight
    <3> QED
      BY <2>1, <3>1, <3>2, <3>3, <3>4
      DEF Undisputed, BaseOnDisk, BaseOnPage, Idle, BaseInFlight, SameBase, Sent
  <2> QED
    BY <1>5, <1>still, <2>1 DEF Retry
<1>6. CASE Flush
  <2>1. PICK S \in SUBSET Sendable :
          awaited' = [at |-> "sent",
                      drafts |-> [c \in Cells |-> IF c \in S THEN pending[c] ELSE None],
                      results |-> [c \in Cells |-> None]]
    BY <1>6 DEF Flush
  <2>2. /\ \A c \in Cells : awaited'.drafts[c] = IF c \in S THEN pending[c] ELSE None
        /\ \A c \in Cells : awaited'.results[c] = None
    BY <2>1
  <2>3. NothingHandledYet' /\ OrphansUnanswered'
    BY <1>0, <1>6, <2>2 DEF Flush, NothingHandledYet, OrphansUnanswered
  <2>4. page # "closed" /\ awaited = None /\ UNCHANGED <<page, pending, base, stored, store, told>>
    <3>1. \E c \in Cells : pending[c] # None
      BY <1>6 DEF Flush, Sendable
    <3> QED
      BY <1>6, <3>1 DEF Flush, DraftInv, OnDisk
  <2>5. ASSUME NEW c \in Cells, Undisputed(c) PROVE Undisputed(c)'
    <3>1. base[c] = stored[c] /\ (pending[c] # None => pending[c].base = stored[c])
      BY <2>4, <2>5 DEF Undisputed, BaseOnPage, Idle
    <3>2. None \notin {"saved", "conflict"}
      BY NoneAssumption DEF Outcomes
    <3> QED
      BY <2>2, <2>4, <2>5, <3>1, <3>2
      DEF Undisputed, BaseOnDisk, BaseOnPage, Idle, BaseInFlight, Sent, SameBase
  <2> QED
    BY <2>3, <2>5
<1>7. CASE FlushNothing
  BY <1>7, <1>still, UndisputedStill DEF FlushNothing
<1>8. CASE ServeAwaited
  <2>1. awaited \in Requests
    BY <1>8 DEF ServeAwaited, TypeOK
  <2>2. NothingHandledYet' /\ OrphansUnanswered'
    BY <1>0, <1>8, ServingStep
  <2>3. UNCHANGED <<page, pending, base, store, told>>
    BY <1>8 DEF ServeAwaited
  <2>4. ASSUME NEW c \in Cells, Undisputed(c), awaited' = Received(awaited), stored' = stored
        PROVE  Undisputed(c)'
    <3>1. awaited'.drafts = awaited.drafts /\ awaited'.results = awaited.results
      BY <2>1, <2>4 DEF Received, Requests
    <3>2. awaited # None /\ awaited' # None
      BY <1>8, <2>1, <2>4, RequestTyped, NoneAssumption DEF ServeAwaited, Received, Requests
    <3> QED
      BY <2>3, <2>4, <3>1, <3>2
      DEF Undisputed, BaseOnDisk, BaseOnPage, Idle, BaseInFlight, Sent, SameBase
  <2>5. ASSUME NEW x \in Cells, Handle(awaited, x), awaited' = Handled(awaited, x),
               NEW c \in Cells, Undisputed(c)
        PROVE  Undisputed(c)'
    <3>1. /\ awaited'.drafts = awaited.drafts
          /\ awaited'.results[x] = Outcome(awaited, x)
          /\ \A y \in Cells \ {x} : awaited'.results[y] = awaited.results[y]
      BY <2>1, <2>5 DEF Handled, Requests
    <3>2. awaited # None /\ awaited' # None
      BY <1>8, <2>1, <2>5, RequestTyped, NoneAssumption DEF ServeAwaited
    <3>3. awaited.drafts[x] # None /\ awaited.results[x] # "saved"
      BY <2>5, NoneAssumption DEF Handle, Outcomes
    <3>4. /\ \A y \in Cells \ {x} : stored'[y] = stored[y]
          /\ Outcome(awaited, x) = "saved" => stored'[x] = awaited.drafts[x].value
          /\ Outcome(awaited, x) # "saved" => stored'[x] = stored[x]
          /\ stored[x] = awaited.drafts[x].base => Outcome(awaited, x) # "conflict"
      BY <2>1, <2>5, HandledCell
    <3>5. CASE c = x
      BY <2>3, <2>5, <3>1, <3>2, <3>3, <3>4, <3>5, <1>8
      DEF Undisputed, BaseOnDisk, BaseOnPage, Idle, BaseInFlight, Sent, SameBase,
          DraftInv, InFlight
    <3>6. CASE c # x
      BY <2>3, <2>5, <3>1, <3>2, <3>4, <3>6
      DEF Undisputed, BaseOnDisk, BaseOnPage, Idle, BaseInFlight, Sent, SameBase
    <3> QED
      BY <3>5, <3>6
  <2> QED
    BY <1>8, <2>2, <2>4, <2>5 DEF ServeAwaited
<1>9. ASSUME NEW n \in Slots, ServeOrphan(n)
      PROVE  /\ NothingHandledYet' /\ OrphansUnanswered'
             /\ \A c \in Cells : Alone(c) /\ Undisputed(c) => Undisputed(c)'
  <2>1. orphans[n] \in Requests /\ orphans[n] # None
    BY <1>9 DEF ServeOrphan, TypeOK
  <2>2. NothingHandledYet' /\ OrphansUnanswered'
    BY <1>0, <1>9, ServingStep
  <2>3. ASSUME NEW c \in Cells, Alone(c) PROVE stored'[c] = stored[c]
    <3>1. orphans[n].drafts[c] = None
      BY <1>0, <2>1, <2>3 DEF OrphansUnanswered, Alone
    <3>2. ASSUME NEW x \in Cells, Handle(orphans[n], x) PROVE stored'[c] = stored[c]
      <4>1. c # x
        BY <3>1, <3>2 DEF Handle
      <4> QED
        BY <2>1, <3>2, <4>1, HandledCell
    <3> QED
      BY <1>9, <3>2 DEF ServeOrphan
  <2> QED
    BY <1>9, <2>2, <2>3, UndisputedStill DEF ServeOrphan
<1>10. ASSUME NEW x \in Cells, NEW v \in Scores, OtherWrites(x, v)
       PROVE  /\ NothingHandledYet' /\ OrphansUnanswered'
              /\ \A c \in Cells : Alone(c)' /\ Undisputed(c) => Undisputed(c)'
  <2>1. ASSUME NEW c \in Cells, Alone(c)' PROVE stored'[c] = stored[c]
    BY <1>10, <2>1 DEF OtherWrites, Alone, TypeOK
  <2> QED
    BY <1>10, <1>still, <2>1, UndisputedStill DEF OtherWrites
<1>11. CASE ClosePeriod
  BY <1>11, <1>still, UndisputedStill DEF ClosePeriod
<1>12. CASE DiskFills
  <2>1. ~NoFill'
    BY <1>12, CountGrows
  <2> QED
    BY <1>12, <1>still, <2>1 DEF DiskFills, Alone
<1>13. CASE Acknowledge
  <2>1. NothingHandledYet' /\ OrphansUnanswered'
    BY <1>0, <1>13 DEF Acknowledge, NothingHandledYet, OrphansUnanswered
  <2>2. /\ awaited # None /\ awaited' = None /\ page' = page /\ page # "closed"
        /\ stored' = stored /\ awaited \in Requests
    BY <1>13 DEF Acknowledge, DraftInv, InFlight, TypeOK
  <2>3. ASSUME NEW c \in Cells, Undisputed(c), ~full PROVE Undisputed(c)'
    <3>1. store'[c] = IF Concerned(c) THEN pending'[c] ELSE store[c]
      BY <1>13, <2>3, PersistedExactly DEF Acknowledge
    <3>2. /\ pending'[c] = DraftAfter(c) /\ base'[c] = BaseAfter(c)
          /\ told'[c] = IF ~Concerned(c) THEN told[c]
                        ELSE IF Untouched(c) THEN awaited.results[c] ELSE "draft"
      BY <1>13 DEF Acknowledge
    <3>3. told'[c] # "conflict"
      BY <2>2, <2>3, <3>2 DEF Undisputed, BaseInFlight, Concerned
    <3>4. CASE c \notin Sent
      BY <2>2, <2>3, <3>1, <3>2, <3>3, <3>4
      DEF Undisputed, BaseOnDisk, BaseOnPage, Idle, BaseInFlight, SameBase,
          DraftAfter, BaseAfter, Concerned
    <3>5. CASE c \in Sent
      <4>1. pending[c] \in Drafts
        BY <2>2, <3>5 DEF DraftInv, InFlight, TypeOK
      <4>2. /\ \A b : [pending[c] EXCEPT !.base = b].base = b
            /\ [pending[c] EXCEPT !.error = TRUE].base = pending[c].base
        BY <4>1 DEF Drafts
      <4>3. pending'[c] # None => pending'[c].base = base'[c]
        BY <2>2, <2>3, <3>2, <3>5, <4>2
        DEF DraftAfter, BaseAfter, Saved, Undisputed, BaseInFlight
      <4>4. base'[c] = stored[c]
        BY <2>2, <2>3, <3>2, <3>5 DEF BaseAfter, Saved, Undisputed, BaseInFlight
      <4>5. store'[c] = pending'[c] \/ (store'[c] = store[c] /\ pending'[c] = pending[c])
        BY <3>1, <3>2 DEF DraftAfter, Concerned
      <4> QED
        BY <2>2, <2>3, <3>3, <4>3, <4>4, <4>5
        DEF Undisputed, BaseOnDisk, BaseOnPage, BaseInFlight, SameBase
    <3> QED
      BY <3>4, <3>5
  <2> QED
    BY <2>1, <2>3
<1>14. CASE Lose
  <2>1. NothingHandledYet' /\ OrphansUnanswered'
    BY <1>0, <1>14, AbandonStep DEF Lose
  <2>2. ASSUME NEW c \in Cells, Alone(c)', Undisputed(c) PROVE Undisputed(c)'
    <3>1. Idle(c) /\ c \notin Sent
      BY <1>14, <2>2 DEF Lose, Abandon, Idle, Alone
    <3>2. /\ UNCHANGED <<page, base, pending, store, stored>> /\ awaited' = None
          /\ told'[c] = told[c]
      BY <1>14, <3>1 DEF Lose, Abandon
    <3> QED
      BY <2>2, <3>1, <3>2 DEF Undisputed, BaseOnDisk, BaseOnPage, BaseInFlight, SameBase
  <2> QED
    BY <2>1, <2>2
<1>15. CASE NotFound \/ Refuse
  <2>1. /\ awaited # None /\ awaited' = None /\ UNCHANGED <<orphans, unanswered>>
        /\ UNCHANGED <<page, base, pending, store, stored>> /\ awaited.at # "handling"
    BY <1>15 DEF NotFound, Refuse
  <2>2. ASSUME NEW c \in Cells, Undisputed(c) PROVE Undisputed(c)'
    <3>1. awaited.results[c] # "saved"
      BY <1>0, <2>1, NoneAssumption DEF NothingHandledYet, Outcomes
    <3>2. \/ base[c] = stored[c] /\ (pending[c] # None => pending[c].base = stored[c])
          \/ page = "closed"
      BY <2>2, <2>1, <3>1 DEF Undisputed, BaseOnPage, BaseInFlight, Idle
    <3>3. told'[c] # "conflict"
      BY <1>15, <2>2 DEF NotFound, Refuse, Undisputed
    <3> QED
      BY <2>1, <2>2, <3>2, <3>3 DEF Undisputed, BaseOnDisk, BaseOnPage, BaseInFlight, SameBase
  <2> QED
    BY <1>0, <2>1, <2>2 DEF NothingHandledYet, OrphansUnanswered
<1>16. CASE GoOffline \/ GoOnline
  BY <1>16, <1>still, UndisputedStill DEF GoOffline, GoOnline
<1>17. CASE UNCHANGED vars
  BY <1>17, <1>still, UndisputedStill DEF vars
<1> QED
  BY <1>1, <1>2, <1>3, <1>4, <1>5, <1>6, <1>7, <1>8, <1>9, <1>10, <1>11, <1>12, <1>13,
     <1>14, <1>15, <1>16, <1>17 DEF Next, Finished

(* The page reports a conflict on a cell only when another author wrote it *)
(* or an answer about it was lost: in a grid of any size, edits, retries,  *)
(* reloads and batches of the same teacher never dispute one another.      *)
THEOREM ConflictsNeverHerOwn == Spec => []ConflictsAreReal
<1>1. Init => Safe /\ ConflictInv
  BY InitTypeOK, InitSafe, InitConflict DEF Safe
<1>2. Safe /\ ConflictInv /\ [Next]_vars => (Safe /\ ConflictInv)'
  BY TypeStep, DraftStep, ConflictStep DEF Safe
<1>3. ConflictInv => ConflictsAreReal
  BY DEF ConflictInv, Alone, NoFill, Undisputed, ConflictsAreReal
<1> QED
  BY <1>1, <1>2, <1>3, PTL DEF Spec
=============================================================================

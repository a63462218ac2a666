------------------------------ MODULE GradeGrid ------------------------------
(***************************************************************************)
(* The browser's grade grid (static/js/grade-grid.js): what a teacher      *)
(* types becomes a draft, kept in memory and in localStorage, and is sent  *)
(* in batches to the sync route until the server acknowledges it.          *)
(*                                                                         *)
(* One page at a time holds the Web Lock of a user, class and period; it   *)
(* may be closed or reloaded at any moment.  The network and the server    *)
(* may fail at any moment: the page then gets no usable answer, while the  *)
(* request may be lost, half done, or still on its way (an orphan).        *)
(*                                                                         *)
(* The server handles the changes of a request one by one, each by one     *)
(* compare-and-set, as GradeLedger says of the sync route.  The cells of a *)
(* batch are handled in the order in which the browser lists them; here    *)
(* any order is possible, and any choice of the cells that fit in a batch. *)
(***************************************************************************)
EXTENDS Naturals, Sequences, FiniteSets

CONSTANTS
  Cells,        \* inputs of the grid
  Scores,       \* acceptable scores
  Missing,      \* no grade: the empty text of an input
  Bad,          \* a typed text that is not an acceptable score
  None,         \* no draft, no request, nothing typed
  BatchSize,    \* 30 in the code
  MaxEdits,     \* keystrokes and retries of the teacher
  MaxFailures,  \* answers lost or refused
  MaxOthers,    \* grades written by other authors
  MaxLoads,     \* loads of the page
  MaxFills,     \* times localStorage starts or stops to refuse writes
  MaxOfflines,  \* times the browser goes offline
  MaxClosings,  \* 0 or 1: whether the class submits while the page is in use
  MaxOrphans    \* requests on their way that no page waits for any more

VARIABLES
  stored,    \* server: stored[c], the committed grade
  closed,    \* server: the class has submitted the period
  orphans,   \* orphans[n]: a request on its way that no page waits for
  page,      \* "closed", "editable", or "readonly" (loaded after submission)
  base,      \* data-base[c]: the grade the page knows of
  pending,   \* the page's Map of drafts
  told,      \* what the page says of each cell
  awaited,   \* the batch in flight
  due,       \* the timer of the next flush is set
  paused,    \* sending has stopped until the page is reloaded
  online,    \* navigator.onLine, what the browser believes of its network
  storageOK, \* no write to localStorage has failed on this page
  store,     \* localStorage: the drafts kept there
  full,      \* localStorage refuses writes
  typed,     \* history: the last value typed in c and not discarded
  kept,      \* history: values the server has acknowledged for c
  foreign,   \* history: cells written by other authors
  unanswered, \* history: cells of a batch whose answer was lost
  count      \* how much of each bound is used

server == <<stored, closed>>
tab == <<page, base, pending, told, awaited, due, paused, online, storageOK>>
disk == <<store, full>>
history == <<typed, kept, foreign, unanswered>>
vars == <<stored, closed, orphans, page, base, pending, told, awaited, due, paused,
          online, storageOK, store, full, typed, kept, foreign, unanswered,
          count>>

ASSUME GridAssumption ==
  /\ Missing \notin Scores /\ Bad \notin Scores /\ Bad # Missing
  /\ BatchSize \in Nat \ {0}
  /\ MaxOrphans \in Nat

Contents == Scores \cup {Missing}
Inputs == Scores \cup {Bad}
Drafts == [value : Inputs, base : Contents, error : BOOLEAN, edit : Nat]

(* A request: the drafts it copied, the results obtained so far.  A        *)
(* refused one is answered as a whole, without a result.                   *)
Outcomes == {"saved", "invalid", "conflict"}
Requests == [at : {"sent", "handling", "notfound"}, drafts : [Cells -> Drafts \cup {None}],
             results : [Cells -> Outcomes \cup {None}]]
ASSUME NoneAssumption ==
  None \notin Drafts /\ None \notin Inputs /\ None \notin Outcomes /\ None \notin Requests

Slots == 1..MaxOrphans
Counted == {"edit", "failure", "other", "load", "fill", "offline"}

TypeOK ==
  /\ stored \in [Cells -> Contents]
  /\ closed \in BOOLEAN
  /\ orphans \in [Slots -> Requests \cup {None}]
  /\ page \in {"closed", "editable", "readonly"}
  /\ base \in [Cells -> Contents]
  /\ pending \in [Cells -> Drafts \cup {None}]
  /\ told \in [Cells -> {"", "draft", "restored", "locked", "refused"} \cup Outcomes]
  /\ awaited \in Requests \cup {None}
  /\ due \in BOOLEAN /\ paused \in BOOLEAN /\ online \in BOOLEAN
  /\ storageOK \in BOOLEAN /\ full \in BOOLEAN
  /\ store \in [Cells -> Drafts \cup {None}]
  /\ typed \in [Cells -> Inputs \cup {None}]
  /\ kept \in [Cells -> SUBSET Scores]
  /\ foreign \subseteq Cells /\ unanswered \subseteq Cells
  /\ count \in [Counted -> Nat]

Init ==
  /\ stored \in [Cells -> Contents]
  /\ closed = FALSE
  /\ orphans = [n \in Slots |-> None]
  /\ page = "closed"
  /\ base = stored
  /\ pending = [c \in Cells |-> None]
  /\ told = [c \in Cells |-> ""]
  /\ awaited = None
  /\ due = FALSE /\ paused = FALSE /\ online = TRUE /\ storageOK = TRUE /\ full = FALSE
  /\ store = [c \in Cells |-> None]
  /\ typed = [c \in Cells |-> None]
  /\ kept = [c \in Cells |-> {}]
  /\ foreign = {} /\ unanswered = {}
  /\ count = [w \in Counted |-> 0]

Count(what, bound) == count[what] < bound /\ count' = [count EXCEPT ![what] = @ + 1]

(* persist(): the drafts of the cells in S go to localStorage, a removal   *)
(* always succeeds, and one refused write is remembered.                   *)
Persist(S) ==
  /\ store' = [c \in Cells |->
       IF c \notin S \/ (full /\ pending'[c] # None) THEN store[c] ELSE pending'[c]]
  /\ storageOK' = (storageOK /\ ~(full /\ \E c \in S : pending'[c] # None))

-----------------------------------------------------------------------------
(* The page. *)

Restored(c) == IF store[c] = None THEN None ELSE [store[c] EXCEPT !.error = @ \/ closed]

(* Loading the grid shows the grades of the server and the drafts found in *)
(* localStorage; after the submission every input is locked.  Where htmx   *)
(* did not load, the page starts paused.                                   *)
Load ==
  /\ page = "closed"
  /\ Count("load", MaxLoads)
  /\ page' = IF closed THEN "readonly" ELSE "editable"
  /\ base' = stored
  /\ pending' = [c \in Cells |-> Restored(c)]
  /\ told' = [c \in Cells |->
       IF store[c] = None THEN "" ELSE IF closed THEN "locked" ELSE "draft"]
  /\ due' = TRUE /\ paused' \in BOOLEAN /\ storageOK' = TRUE
  /\ UNCHANGED <<server, orphans, awaited, online, disk, history>>

(* The page no longer waits for its request, which may go on. *)
Sent == {c \in Cells : awaited.drafts[c] # None}

Abandon ==
  /\ awaited' = None
  /\ \/ orphans' = orphans
     \/ \E n \in Slots : orphans[n] = None /\ orphans' = [orphans EXCEPT ![n] = awaited]
  /\ unanswered' = unanswered \cup Sent

(* Closed, reloaded or crashed.  If the page has warned that localStorage  *)
(* fails, the teacher can count on what it holds only.                     *)
Close ==
  /\ page # "closed"
  /\ page' = "closed"
  /\ IF awaited = None THEN UNCHANGED <<awaited, orphans, unanswered>> ELSE Abandon
  /\ pending' = [c \in Cells |-> None]
  /\ told' = [c \in Cells |-> ""]
  /\ due' = FALSE
  /\ typed' = IF storageOK THEN typed
              ELSE [c \in Cells |-> IF store[c] = None THEN None ELSE store[c].value]
  /\ UNCHANGED <<server, base, paused, online, storageOK, disk, kept, foreign, count>>

(* "input" event. *)
Type(c, v) ==
  /\ page = "editable"
  /\ Count("edit", MaxEdits)
  /\ pending' = [pending EXCEPT ![c] =
       [value |-> v, base |-> IF @ = None THEN base[c] ELSE @.base,
        error |-> FALSE, edit |-> count'["edit"]]]
  /\ Persist({c})
  /\ told' = [told EXCEPT ![c] = "draft"]
  /\ due' = TRUE
  /\ typed' = [typed EXCEPT ![c] = v]
  /\ UNCHANGED <<server, orphans, page, base, awaited, paused, online, full, kept, foreign, unanswered>>

(* "Reprendre la cote serveur": not while a batch is in flight. *)
Discard(c) ==
  /\ page # "closed"
  /\ awaited = None
  /\ pending[c] # None
  /\ pending' = [pending EXCEPT ![c] = None]
  /\ Persist({c})
  /\ told' = [told EXCEPT ![c] = IF page = "editable" THEN "restored" ELSE "locked"]
  /\ typed' = [typed EXCEPT ![c] = None]
  /\ UNCHANGED <<server, orphans, page, base, awaited, due, paused, online, full, kept,
                 foreign, unanswered, count>>

(* "Réessayer la synchronisation": drafts in error are sent again. *)
Retry ==
  /\ page = "editable"
  /\ ~paused
  /\ Count("edit", MaxEdits)
  /\ pending' = [c \in Cells |->
       IF pending[c] = None THEN None ELSE [pending[c] EXCEPT !.error = FALSE]]
  /\ Persist({c \in Cells : pending[c] # None})
  /\ due' = TRUE
  /\ UNCHANGED <<server, orphans, page, base, told, awaited, paused, online, full, history>>

(* The timer fires: at most BatchSize drafts that are not in error. *)
Sendable == {c \in Cells : pending[c] # None /\ ~pending[c].error}

Flush ==
  /\ due /\ awaited = None /\ ~paused /\ online /\ Sendable # {}
  /\ \E S \in SUBSET Sendable :
       /\ Cardinality(S) = BatchSize \/ (S = Sendable /\ Cardinality(S) < BatchSize)
       /\ awaited' = [at |-> "sent",
                      drafts |-> [c \in Cells |-> IF c \in S THEN pending[c] ELSE None],
                      results |-> [c \in Cells |-> None]]
  /\ due' = FALSE
  /\ UNCHANGED <<server, orphans, page, base, pending, told, paused, online, storageOK, disk,
                 history, count>>

(* A timer that cannot send is spent all the same. *)
FlushNothing ==
  /\ due
  /\ awaited # None \/ paused \/ ~online \/ Sendable = {}
  /\ due' = FALSE
  /\ UNCHANGED <<server, orphans, page, base, pending, told, awaited, paused, online, storageOK,
                 disk, history, count>>

(* What the browser believes of its network.  An answer may still come in  *)
(* while it is offline, and fail to come in while it is online.            *)
GoOffline ==
  /\ online
  /\ Count("offline", MaxOfflines)
  /\ online' = FALSE
  /\ UNCHANGED <<server, orphans, page, base, pending, told, awaited, due, paused, storageOK,
                 disk, history>>

(* Slip: the timers spent offline are not made up for. *)
GoOnlineUnscheduled ==
  /\ ~online
  /\ online' = TRUE
  /\ UNCHANGED <<server, orphans, page, base, pending, told, awaited, due, paused, storageOK,
                 disk, history, count>>

(* The "online" event of an open page sets the timer again. *)
GoOnline ==
  /\ ~online
  /\ online' = TRUE
  /\ due' = (page # "closed")
  /\ UNCHANGED <<server, orphans, page, base, pending, told, awaited, paused, storageOK,
                 disk, history, count>>

-----------------------------------------------------------------------------
(* The server, as the sync route answers each request. *)

(* The period lock is read once, when the request arrives: 404. *)
Received(r) == [r EXCEPT !.at = IF closed THEN "notfound" ELSE "handling"]

(* What becomes of the change of cell c. *)
Outcome(r, c) ==
  IF r.drafts[c].value = Bad THEN "invalid"
  ELSE IF stored[c] \in {r.drafts[c].base, r.drafts[c].value} THEN "saved"
  ELSE "conflict"

Handled(r, c) == [r EXCEPT !.results[c] = Outcome(r, c)]

Handle(r, c) ==
  LET d == r.drafts[c] IN
  /\ r.at = "handling"
  /\ d # None /\ r.results[c] = None
  /\ IF Outcome(r, c) = "saved"
     THEN /\ stored' = [stored EXCEPT ![c] = d.value]
          /\ kept' = [kept EXCEPT ![c] = @ \cup {d.value}]
     ELSE UNCHANGED <<stored, kept>>

ServeAwaited ==
  /\ awaited # None
  /\ \/ awaited.at = "sent" /\ awaited' = Received(awaited) /\ UNCHANGED <<stored, kept>>
     \/ \E c \in Cells : Handle(awaited, c) /\ awaited' = Handled(awaited, c)
  /\ UNCHANGED <<closed, orphans, page, base, pending, told, due, paused, online, storageOK, disk,
                 typed, foreign, unanswered, count>>

(* An orphan goes on like any request, or dies with its worker. *)
ServeOrphan(n) ==
  /\ orphans[n] # None
  /\ \/ /\ orphans[n].at = "sent"
        /\ orphans' = [orphans EXCEPT ![n] = Received(@)]
        /\ UNCHANGED <<stored, kept>>
     \/ \E c \in Cells :
          Handle(orphans[n], c) /\ orphans' = [orphans EXCEPT ![n] = Handled(@, c)]
     \/ orphans' = [orphans EXCEPT ![n] = None] /\ UNCHANGED <<stored, kept>>
  /\ UNCHANGED <<closed, tab, disk, typed, foreign, unanswered, count>>

(* Another teacher, another device. *)
OtherWrites(c, v) ==
  /\ ~closed
  /\ v # stored[c]
  /\ Count("other", MaxOthers)
  /\ stored' = [stored EXCEPT ![c] = v]
  /\ foreign' = foreign \cup {c}
  /\ UNCHANGED <<closed, orphans, tab, disk, typed, kept, unanswered>>

ClosePeriod ==
  /\ ~closed
  /\ MaxClosings > 0
  /\ closed' = TRUE
  /\ UNCHANGED <<stored, orphans, tab, disk, history, count>>

DiskFills ==
  /\ Count("fill", MaxFills)
  /\ full' = ~full
  /\ UNCHANGED <<server, orphans, tab, store, history>>

-----------------------------------------------------------------------------
(* The answer: "htmx:afterRequest". *)

Saved(c) == awaited.results[c] = "saved"
(* Nothing else was typed in c since the batch was sent. *)
Untouched(c) == pending[c].value = awaited.drafts[c].value

BaseAfter(c) == IF c \in Sent /\ Saved(c) THEN awaited.drafts[c].value ELSE base[c]

(* Slip: an acknowledgement removes the draft whatever was typed since. *)
DraftAfterForgetful(c) ==
  IF c \notin Sent THEN pending[c]
  ELSE IF Saved(c) THEN None
  ELSE IF Untouched(c) THEN [pending[c] EXCEPT !.error = TRUE] ELSE pending[c]

(* Slip: what was typed since keeps its old base. *)
DraftAfterOldBase(c) ==
  IF c \notin Sent THEN pending[c]
  ELSE IF Saved(c) THEN IF Untouched(c) THEN None ELSE pending[c]
  ELSE IF Untouched(c) THEN [pending[c] EXCEPT !.error = TRUE] ELSE pending[c]

DraftAfter(c) ==
  IF c \notin Sent THEN pending[c]
  ELSE IF Saved(c) THEN IF Untouched(c) THEN None ELSE [pending[c] EXCEPT !.base = BaseAfter(c)]
  ELSE IF Untouched(c) THEN [pending[c] EXCEPT !.error = TRUE] ELSE pending[c]

(* Slip: a refusal is not remembered on the disk. *)
ConcernedSaved(c) == c \in Sent /\ Saved(c)

Concerned(c) == c \in Sent /\ (Saved(c) \/ Untouched(c))

(* 200 or 422 with one result per cell: only an explicit acknowledgement   *)
(* of the value still in the input removes its draft.                      *)
Acknowledge ==
  /\ awaited # None
  /\ awaited.at = "handling"
  /\ \A c \in Sent : awaited.results[c] # None
  /\ base' = [c \in Cells |-> BaseAfter(c)]
  /\ pending' = [c \in Cells |-> DraftAfter(c)]
  /\ Persist({c \in Cells : Concerned(c)})
  /\ told' = [c \in Cells |->
       IF ~Concerned(c) THEN told[c]
       ELSE IF Untouched(c) THEN awaited.results[c] ELSE "draft"]
  /\ awaited' = None
  /\ due' = TRUE
  /\ UNCHANGED <<server, orphans, page, paused, online, full, history, count>>

(* Connection lost, timeout or 5xx: the drafts stay, next try in 5 s. *)
Lose ==
  /\ awaited # None
  /\ Count("failure", MaxFailures)
  /\ told' = [c \in Cells |-> IF c \in Sent THEN "draft" ELSE told[c]]
  /\ Abandon
  /\ due' = TRUE
  /\ UNCHANGED <<server, page, base, pending, paused, online, storageOK, disk, typed, kept,
                 foreign>>

(* 404 takes the same path: "Connexion interrompue. Brouillon conservé." *)
NotFound ==
  /\ awaited # None
  /\ awaited.at = "notfound"
  /\ told' = [c \in Cells |-> IF c \in Sent THEN "draft" ELSE told[c]]
  /\ awaited' = None
  /\ due' = TRUE
  /\ UNCHANGED <<server, orphans, page, base, pending, paused, online, storageOK, disk, history, count>>

(* 400, 401, 403, or 200 without X-Grade-Sync: the session is over. *)
Refuse ==
  /\ awaited # None
  /\ awaited.at = "sent"
  /\ Count("failure", MaxFailures)
  /\ told' = [c \in Cells |-> IF c \in Sent THEN "refused" ELSE told[c]]
  /\ awaited' = None
  /\ paused' = TRUE
  /\ UNCHANGED <<server, orphans, page, base, pending, due, online, storageOK, disk, history>>

-----------------------------------------------------------------------------
(* The teacher does not come back. *)
Finished ==
  /\ page = "closed"
  /\ count["load"] = MaxLoads
  /\ UNCHANGED vars

Next ==
  \/ Load \/ Close \/ Retry \/ Flush \/ FlushNothing \/ GoOffline \/ GoOnline
  \/ \E c \in Cells, v \in Inputs : Type(c, v)
  \/ \E c \in Cells : Discard(c)
  \/ ServeAwaited
  \/ \E n \in Slots : ServeOrphan(n)
  \/ \E c \in Cells, v \in Scores : OtherWrites(c, v)
  \/ ClosePeriod \/ DiskFills
  \/ Acknowledge \/ Lose \/ NotFound \/ Refuse
  \/ Finished

(* Timers fire, the server works, and what it answers or fails to answer   *)
(* is reported to the page.                                                *)
Fairness ==
  /\ WF_vars(Flush \/ FlushNothing)
  /\ WF_vars(ServeAwaited)
  /\ WF_vars(Acknowledge \/ NotFound)

Spec == Init /\ [][Next]_vars
FairSpec == Spec /\ Fairness

-----------------------------------------------------------------------------
(* What a teacher typed last in a cell, and has not discarded, is in a     *)
(* draft or was acknowledged by the server: through edits while a batch is *)
(* in flight, failures, reloads and crashes (frontend.md, "Brouillons").   *)
HeldByPage(c) == page # "closed" /\ pending[c] # None /\ pending[c].value = typed[c]
HeldByDisk(c) == page = "closed" /\ store[c] # None /\ store[c].value = typed[c]
NothingTypedIsLost ==
  \A c \in Cells :
    typed[c] = None \/ typed[c] \in kept[c] \/ HeldByPage(c) \/ HeldByDisk(c)

(* As long as the page has not warned about localStorage, it holds exactly *)
(* the drafts of the page: "Brouillon local" is true.                      *)
DiskAgrees == page = "editable" /\ storageOK => store = pending

(* A teacher is told of a conflict only when somebody else wrote the cell  *)
(* or an answer about it was lost, never because of her own edits: what is *)
(* typed while a batch is in flight is based on what that batch saved.  (A *)
(* localStorage that refused a write may bring back an outdated draft.)    *)
ConflictsAreReal ==
  \A c \in Cells :
    told[c] = "conflict" /\ count["fill"] = 0 => c \in foreign \cup unanswered

(* "Les cotes sont enregistrées automatiquement": unless the browser stays *)
(* offline for ever, a draft does not wait for ever; it is saved or        *)
(* reported, or the page says it stopped sending.  (A class submitted      *)
(* meanwhile is left out: the page then tries again without end.)          *)
Settled(c) == pending[c] = None \/ pending[c].error \/ paused \/ page # "editable"
EveryDraftSettles == \A c \in Cells : ~Settled(c) ~> (Settled(c) \/ []~online)
=============================================================================

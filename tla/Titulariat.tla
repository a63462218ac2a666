------------------------------ MODULE Titulariat ------------------------------
(***************************************************************************)
(* One class: its titulaire, the history of its titulaires, and the        *)
(* attribution of the lines of its grid to teachers.                       *)
(*                                                                         *)
(* Direction's requests to /portal/assignments run at once, each in its    *)
(* own session (READ COMMITTED) and without a row lock.  A request loads   *)
(* the class when it starts; affecter_titulaire then takes the time, looks *)
(* for the open row of the history, and writes in its flush at the COMMIT  *)
(* (one step: a flushed row makes other writers of it wait).  The ORM      *)
(* updates titulaire_id only if it differs from the value it had loaded.   *)
(***************************************************************************)
EXTENDS Naturals, Sequences, FiniteSets

CONSTANTS
  Calls,        \* POST requests of Direction, each handled once
  Teachers,     \* active accounts of role ENSEIGNANT
  Lines,        \* active lines of the grid of the class
  Nobody,       \* no titulaire
  Open,         \* date_fin NULL
  MaxTime       \* bound of the clock

VARIABLES
  now,          \* the time
  titulaire,    \* committed SchoolClass.titulaire_id
  history,      \* committed titulaire_historiques of the class, by id
  attribution,  \* attribution[<<t, l>>]: committed row of teacher_assignments
  at,           \* at[k]: where call k is
  want,         \* want[k]: what k asks for
  read,         \* read[k]: what k read before it writes
  overlapped    \* two nominations have been under way at once (ghost)

call == <<at, want, read>>
vars == <<now, titulaire, history, attribution, at, want, read, overlapped>>

Times == 0..MaxTime
Stretches == [teacher : Teachers, debut : Nat, fin : Nat \cup {Open}]
Presence == {"none", "active", "archived"}
Wants == [teacher : Teachers, line : Lines]

ASSUME TitulariatAssumption ==
  /\ MaxTime \in Nat
  /\ Nobody \notin Teachers
  /\ Open \notin Nat
  /\ Teachers # {} /\ Lines # {}

Nominating == {"stamp", "find", "store"}
Attributing == {"search", "attribute"}
Places == {"idle", "nominated", "attributed", "exists", "refused"}
            \cup Nominating \cup Attributing

TypeOK ==
  /\ now \in Times
  /\ titulaire \in Teachers \cup {Nobody}
  /\ history \in Seq(Stretches)
  /\ attribution \in [Teachers \X Lines -> Presence]
  /\ at \in [Calls -> Places]
  /\ want \in [Calls -> Wants]
  /\ read \in [Calls -> [titulaire : Teachers \cup {Nobody}, moment : Times,
                         row : Nat, presence : Presence]]
  /\ overlapped \in BOOLEAN

Unread == [titulaire |-> Nobody, moment |-> 0, row |-> 0, presence |-> "none"]

(* A class without titulaire, one nominated at time 0, or one whose        *)
(* titulaire is older than the history (titulaire_id was added first).     *)
Init ==
  /\ now = 0
  /\ titulaire \in Teachers \cup {Nobody}
  /\ history \in {<<>>} \cup
       {<<[teacher |-> t, debut |-> 0, fin |-> Open]>> : t \in Teachers \cap {titulaire}}
  /\ attribution \in [Teachers \X Lines -> Presence]
  /\ at = [k \in Calls |-> "idle"]
  /\ want = [k \in Calls |-> CHOOSE w \in Wants : TRUE]
  /\ read = [k \in Calls |-> Unread]
  /\ overlapped = FALSE

(* A call that ends forgets what it read, its session being closed. *)
Forget(k) == read' = [read EXCEPT ![k] = Unread]
Go(k, from, to) == at[k] = from /\ at' = [at EXCEPT ![k] = to]
OpenRows == {i \in DOMAIN history : history[i].fin = Open}

(* est_attributaire *)
EstAttributaire(u, l) == attribution[<<u, l>>] = "active"

-----------------------------------------------------------------------------
(* POST /portal/assignments, kind "titulaire".  The page loads every class *)
(* first, so the call keeps the titulaire_id of that moment.               *)
AskTitulaire(k, t) ==
  /\ Go(k, "idle", "stamp")
  /\ want' = [want EXCEPT ![k].teacher = t]
  /\ read' = [read EXCEPT ![k].titulaire = titulaire]
  /\ overlapped' = (overlapped \/ \E j \in Calls : at[j] \in Nominating)
  /\ UNCHANGED <<now, titulaire, history, attribution>>

(* 422: no active teacher, no live class or no motive. *)
Refuse(k) ==
  /\ Go(k, "idle", "refused")
  /\ UNCHANGED <<now, titulaire, history, attribution, want, read, overlapped>>

Stamp(k) ==
  /\ Go(k, "stamp", "find")
  /\ read' = [read EXCEPT ![k].moment = now]
  /\ UNCHANGED <<now, titulaire, history, attribution, want, overlapped>>

(* filter_by(date_fin=None).first(): any open row, or none. *)
FindOpen(k) ==
  /\ Go(k, "find", "store")
  /\ \E i \in IF OpenRows = {} THEN {0} ELSE OpenRows :
       read' = [read EXCEPT ![k].row = i]
  /\ UNCHANGED <<now, titulaire, history, attribution, want, overlapped>>

(* Slip: no row is closed. *)
ClosedNone(k) == history

(* ouverte.date_fin = now, on the row the call had read. *)
Closed(k) ==
  [i \in DOMAIN history |-> IF i = read[k].row
                            THEN [history[i] EXCEPT !.fin = read[k].moment]
                            ELSE history[i]]

Opened(k) == [teacher |-> want[k].teacher, debut |-> read[k].moment, fin |-> Open]

(* Slip: a row is opened only where none was open. *)
StoreTitulaireHalf(k) ==
  /\ Go(k, "store", "nominated")
  /\ history' = IF OpenRows = {} THEN Append(Closed(k), Opened(k)) ELSE Closed(k)
  /\ titulaire' = IF want[k].teacher = read[k].titulaire THEN titulaire
                  ELSE want[k].teacher
  /\ Forget(k)
  /\ UNCHANGED <<now, attribution, want, overlapped>>

StoreTitulaire(k) ==
  /\ Go(k, "store", "nominated")
  /\ history' = Append(Closed(k), Opened(k))
  /\ titulaire' = IF want[k].teacher = read[k].titulaire THEN titulaire
                  ELSE want[k].teacher
  /\ Forget(k)
  /\ UNCHANGED <<now, attribution, want, overlapped>>

-----------------------------------------------------------------------------
(* POST /portal/assignments, any other kind: one line to one teacher. *)
AskAttribution(k, t, l) ==
  /\ Go(k, "idle", "search")
  /\ want' = [want EXCEPT ![k] = [teacher |-> t, line |-> l]]
  /\ UNCHANGED <<now, titulaire, history, attribution, read, overlapped>>

Search(k) ==
  /\ Go(k, "search", "attribute")
  /\ read' = [read EXCEPT ![k].presence = attribution[<<want[k].teacher, want[k].line>>]]
  /\ UNCHANGED <<now, titulaire, history, attribution, want, overlapped>>

(* Slip: an archived row that is found is not restored. *)
AttributeUnrestored(k) ==
  LET cell == <<want[k].teacher, want[k].line>>
  IN  /\ read[k].presence # "none" \/ attribution[cell] = "none"
      /\ Go(k, "attribute", "attributed")
      /\ attribution' = [attribution EXCEPT ![cell] = IF @ = "none" THEN "active" ELSE @]
      /\ Forget(k)
      /\ UNCHANGED <<now, titulaire, history, want, overlapped>>

(* The row found is restored; a missing one is inserted. *)
Attribute(k) ==
  LET cell == <<want[k].teacher, want[k].line>>
  IN  /\ read[k].presence # "none" \/ attribution[cell] = "none"
      /\ Go(k, "attribute", "attributed")
      /\ attribution' = [attribution EXCEPT ![cell] = "active"]
      /\ Forget(k)
      /\ UNCHANGED <<now, titulaire, history, want, overlapped>>

(* Two inserts at once: uq_assignment_ecole_teacher_class_ligne, rollback  *)
(* and 422 "Cette attribution existe deja".                                *)
AttributeCollision(k) ==
  /\ read[k].presence = "none"
  /\ attribution[<<want[k].teacher, want[k].line>>] # "none"
  /\ Go(k, "attribute", "exists")
  /\ Forget(k)
  /\ UNCHANGED <<now, titulaire, history, attribution, want, overlapped>>

-----------------------------------------------------------------------------
(* The worker dies: nothing was written before the COMMIT. *)
Crash(k) ==
  /\ at[k] \in Nominating \cup Attributing
  /\ at' = [at EXCEPT ![k] = "refused"]
  /\ Forget(k)
  /\ UNCHANGED <<now, titulaire, history, attribution, want, overlapped>>

Tick ==
  /\ now < MaxTime
  /\ now' = now + 1
  /\ UNCHANGED <<titulaire, history, attribution, call, overlapped>>

Nomination(k) ==
  \/ \E t \in Teachers : AskTitulaire(k, t)
  \/ Stamp(k) \/ FindOpen(k) \/ StoreTitulaire(k)
Attribution(k) ==
  \/ \E t \in Teachers, l \in Lines : AskAttribution(k, t, l)
  \/ Search(k) \/ Attribute(k) \/ AttributeCollision(k)

Next ==
  \/ \E k \in Calls : Nomination(k) \/ Attribution(k) \/ Refuse(k) \/ Crash(k)
  \/ Tick

Spec == Init /\ [][Next]_vars

-----------------------------------------------------------------------------
Covers(row, t) == row.debut <= t /\ (row.fin = Open \/ t < row.fin)

(* However calls overlap, no closing leaves the class without a titulaire: *)
(* from the first nomination on, some row of the history covers every      *)
(* instant.  affecter_titulaire closes one row and opens one at the same   *)
(* instant, in one transaction, but the row it closes may have been closed *)
(* by another call since, to an earlier or a later instant.                *)
NoGap ==
  \A i \in DOMAIN history : \A t \in history[i].debut..MaxTime :
    \E j \in DOMAIN history : Covers(history[j], t)

(* "The only way this function allows two rows to coexist is consecutively *)
(* in time, never concurrently", and titulaire_id is in sync: as long as   *)
(* two nominations never overlap, the rows do not overlap, and the one     *)
(* open row, if any, is the recorded titulaire's.                          *)
InSyncUnlessOverlapped ==
  ~overlapped =>
    /\ history # <<>> => \E i \in DOMAIN history : /\ OpenRows = {i}
                                                   /\ history[i].teacher = titulaire
    /\ \A i \in DOMAIN history \ {Len(history)} :
         history[i].debut <= history[i].fin /\ history[i].fin = history[i + 1].debut

(* A request for a line that is answered, with a redirect or with "cette   *)
(* attribution existe deja", leaves the teacher with the line: an archived *)
(* row is restored, and of two inserts at once one wins for both.          *)
AttributionsAnswered ==
  \A k \in Calls :
    at[k] \in {"attributed", "exists"} => EstAttributaire(want[k].teacher, want[k].line)
=============================================================================

------------------------------ MODULE AuditPage ------------------------------
(***************************************************************************)
(* The audit page (query_audit_log): the audit trail of the grades and the *)
(* one of the deliberations, merged, filtered, latest first, by pages.     *)
(* Direction reads it page after page while requests append entries.       *)
(*                                                                         *)
(* created_at is the time of the flush; an entry can be seen after the     *)
(* COMMIT, so entries do not appear in the order of their times.  The two  *)
(* tables are read by two statements (READ COMMITTED) without an order,    *)
(* and the sort leaves entries of one time in any order.                   *)
(***************************************************************************)
EXTENDS Integers, Sequences, FiniteSets, FiniteSetsExt

CONSTANTS
  GradeActions,        \* GradeAuditAction
  DeliberationActions, \* DeliberationAction
  Labelled,            \* actions that have a label
  Subjects,            \* pairs of a user and a pupil
  Any,                 \* a filter that is not set
  PerPage,             \* entries on a page (25)
  Day,                 \* length of a day
  MaxTime,             \* bound of the clock
  MaxEntries,          \* bound on the entries
  Filters              \* what the reader may ask for

VARIABLES
  now,      \* the time
  flushed,  \* entries flushed and not committed yet
  log,      \* committed entries of the two tables
  reading,  \* where the reader is
  filter,   \* the filter of the reading
  page,     \* the page being read
  graded,   \* entries of the grades that the first statement returned
  shown,    \* entries shown so far
  present   \* entries of the filter when the reading began (ghost)

vars == <<now, flushed, log, reading, filter, page, graded, shown, present>>

Actions == GradeActions \cup DeliberationActions
Entries == [id : 1..MaxEntries, action : Actions, subject : Subjects, created : 0..MaxTime]

ASSUME AuditAssumption ==
  /\ PerPage \in Nat \ {0} /\ Day \in Nat \ {0}
  /\ MaxTime \in Nat /\ MaxEntries \in Nat
  /\ GradeActions \cap DeliberationActions = {}
  /\ Any \notin Actions \cup Subjects
  /\ Filters \subseteq [action : Actions \cup {Any}, subject : Subjects \cup {Any},
                        from : Nat \cup {Any}, to : Nat \cup {Any}]

TypeOK ==
  /\ now \in 0..MaxTime
  /\ flushed \subseteq Entries /\ log \subseteq Entries
  /\ \A e, f \in flushed \cup log : e.id = f.id => e = f
  /\ reading \in {"idle", "grades", "deliberations", "ended", "failed"}
  /\ filter \in Filters
  /\ page \in 1..(MaxEntries + 1)
  /\ graded \subseteq log /\ present \subseteq log
  /\ shown \in Seq(log)

Init ==
  /\ now = 0
  /\ flushed = {} /\ log = {}
  /\ reading = "idle"
  /\ filter \in Filters
  /\ page = 1
  /\ graded = {} /\ shown = <<>> /\ present = {}

-----------------------------------------------------------------------------
(* The filters: the action, a part of the names of user and pupil, and the *)
(* days, the last of them whole.                                           *)
Admits(e) ==
  /\ filter.action \in {Any, e.action}
  /\ filter.subject \in {Any, e.subject}
  /\ filter.from = Any \/ e.created >= filter.from * Day
  /\ filter.to = Any \/ e.created < (filter.to + 1) * Day

Selected(entries) == {e \in entries : Admits(e)}
OfActions(entries, actions) == {e \in entries : e.action \in actions}

(* entries.sort(key=created_at, reverse=True) *)
Sorted(entries) ==
  {s \in [1..Cardinality(entries) -> entries] :
     \A i, j \in DOMAIN s : i < j => s[i] # s[j] /\ s[i].created >= s[j].created}

Start == (page - 1) * PerPage

(* Slip: the pages are counted from zero. *)
PageFromZero(s) == SubSeq(s, page * PerPage + 1, Min({(page + 1) * PerPage, Len(s)}))

(* entries[start : start + per_page] *)
PageOf(s) == SubSeq(s, Start + 1, Min({Start + PerPage, Len(s)}))

(* Slip: a full page is taken for the last but one. *)
HasNextFull(s) == Start + PerPage + 1 < Len(s)

HasNext(s) == Start + PerPage < Len(s)

-----------------------------------------------------------------------------
Tick ==
  /\ now < MaxTime
  /\ now' = now + 1
  /\ UNCHANGED <<flushed, log, reading, filter, page, graded, shown, present>>

(* A grade is changed, a decision or a transition recorded. *)
Flush(a, s) ==
  LET id == Cardinality(flushed \cup log) + 1
  IN  /\ id <= MaxEntries
      /\ flushed' = flushed \cup {[id |-> id, action |-> a, subject |-> s, created |-> now]}
      /\ UNCHANGED <<now, log, reading, filter, page, graded, shown, present>>

CommitEntry(e) ==
  /\ flushed' = flushed \ {e}
  /\ log' = log \cup {e}
  /\ UNCHANGED <<now, reading, filter, page, graded, shown, present>>

(* GET /portal/audit?page=1 *)
Open ==
  /\ reading = "idle"
  /\ reading' = "grades"
  /\ present' = Selected(log)
  /\ UNCHANGED <<now, flushed, log, filter, page, graded, shown>>

(* An action of the other table skips the statement. *)
ReadGrades ==
  /\ reading = "grades"
  /\ reading' = "deliberations"
  /\ graded' = Selected(OfActions(log, GradeActions))
  /\ UNCHANGED <<now, flushed, log, filter, page, shown, present>>

Merged == graded \cup Selected(OfActions(log, DeliberationActions))

(* Every selected entry gets its label before the page is cut: a KeyError  *)
(* (500) when one has none, on whatever page it is.                        *)
ReadUnlabelled ==
  /\ reading = "deliberations"
  /\ \E e \in Merged : e.action \notin Labelled
  /\ reading' = "failed"
  /\ graded' = {}
  /\ UNCHANGED <<now, flushed, log, filter, page, shown, present>>

(* The page is shown; the reader asks for the next one while there is one. *)
Show ==
  /\ reading = "deliberations"
  /\ \A e \in Merged : e.action \in Labelled
  /\ \E s \in Sorted(Merged) :
       /\ shown' = shown \o PageOf(s)
       /\ IF HasNext(s) THEN reading' = "grades" /\ page' = page + 1
                        ELSE reading' = "ended" /\ UNCHANGED page
  /\ graded' = {}
  /\ UNCHANGED <<now, flushed, log, filter, present>>

Next ==
  \/ Tick
  \/ \E a \in Actions, s \in Subjects : Flush(a, s)
  \/ \E e \in flushed : CommitEntry(e)
  \/ Open \/ ReadGrades \/ ReadUnlabelled \/ Show

Spec == Init /\ [][Next]_vars

-----------------------------------------------------------------------------
Alone(e, entries) == \A f \in entries \ {e} : f.created # e.created
ShownEntries == {shown[i] : i \in DOMAIN shown}

(* Reading forward misses nothing that was there when it began: an entry   *)
(* whose time no other has is shown by the end, however many entries       *)
(* appear meanwhile, in whatever order.                                    *)
ForwardNeverSkips ==
  reading = "ended" => \A e \in present : Alone(e, Selected(log)) => e \in ShownEntries

(* When nothing is committed meanwhile and no two entries have one time,   *)
(* the pages together are the selected entries, each once, latest first.   *)
QuietReadingExact ==
  (/\ reading = "ended"
   /\ Selected(log) = present
   /\ \A e \in present : Alone(e, present))
  => shown \in Sorted(present)

(* "Les modifications sont consultables": the page can always be shown.    *)
LogReadable == reading # "failed"
=============================================================================

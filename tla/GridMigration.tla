---------------------------- MODULE GridMigration ----------------------------
(***************************************************************************)
(* Migration 14efd3eb110e: the courses, until then rows of one class each  *)
(* with a coefficient and a maximum, become a catalog of the school and    *)
(* lines of shared grids, and what refers to a course is remapped to a     *)
(* line.  downgrade() goes back.  Each direction runs in one transaction   *)
(* (PostgreSQL); between them the school works with its grids.             *)
(*                                                                         *)
(* One school and one academic year of existing data; a class is of a      *)
(* level, which stands for its section and its level_order.  The course of *)
(* a grade is one of the pupil's class, so a grade is told by its course.  *)
(***************************************************************************)
EXTENDS CourseGrids

CONSTANTS
  Classes,    \* school_classes
  Codes,      \* codes of courses
  Teachers,
  OldYear,    \* the year of the existing data
  Legacies,   \* contents the migration may find
  NoClass     \* school_class_id NULL

VARIABLES
  phase,      \* how far the migration is
  legacy,     \* the contents it found
  courses,    \* courses
  remaining,  \* courses the loop over all_course_rows has not handled yet
  lineOf,     \* ligne_map of the course ids handled
  taught,     \* teacher_assignments
  graded,     \* grades
  logged      \* grade_audit_logs

references == <<taught, graded, logged>>
vars == <<grids, duplication, phase, legacy, courses, remaining, lineOf, references>>

OldCourses == [classe : Classes, code : Codes, coefficient : Scales, max : Scales]
Taught == [teacher : Teachers, classe : Classes, ref : Nat]
Graded == [classe : Classes, periode : Periods, score : Nat, ref : Nat]
Logged == [classe : Classes, ref : Nat]

(* uq_course_ecole_class_code, uq_assignment_ecole_teacher_course,         *)
(* uq_grade_ecole_enrollment_course_period with one pupil per class.       *)
WellFormed(d) ==
  /\ d.level \in [Classes -> Levels]
  /\ DOMAIN d.courses \subseteq Catalog
  /\ d.courses \in [DOMAIN d.courses -> OldCourses]
  /\ \A c, e \in DOMAIN d.courses :
       d.courses[c].classe = d.courses[e].classe /\ d.courses[c].code = d.courses[e].code
       => c = e
  /\ d.taught \subseteq Taught /\ d.graded \subseteq Graded /\ d.logged \subseteq Logged
  /\ IsFiniteSet(d.taught) /\ IsFiniteSet(d.graded) /\ IsFiniteSet(d.logged)
  /\ \A r \in d.taught \cup d.graded \cup d.logged :
       r.ref \in DOMAIN d.courses /\ r.classe = d.courses[r.ref].classe
  /\ \A r \in d.graded : r.score <= d.courses[r.ref].max /\ YearOf[r.periode] = OldYear

ASSUME MigrationAssumption ==
  /\ \A d \in Legacies : WellFormed(d)
  /\ OldYear \in Years
  /\ NoClass \notin Classes
  /\ 20 \in Scales  \* what downgrade() writes where it finds no maximum

Phases == {"legacy", "backfill", "upgraded", "downgraded", "stuck"}

TypeOK ==
  /\ GridsTyped
  /\ phase \in Phases
  /\ WellFormed(legacy)
  /\ DOMAIN courses \subseteq Catalog
  /\ \A c \in DOMAIN courses :
       courses[c] \in OldCourses \cup [classe : {NoClass}, code : Codes, coefficient : {0},
                                       max : {0}]
  /\ remaining \subseteq Catalog
  /\ DOMAIN lineOf \subseteq Catalog
  /\ \A c \in DOMAIN lineOf : lineOf[c] \in DOMAIN lignes
  /\ taught \subseteq Taught /\ graded \subseteq Graded /\ logged \subseteq Logged

Init ==
  /\ legacy \in Legacies
  /\ phase = "legacy"
  /\ courses = legacy.courses
  /\ remaining = {} /\ lineOf = <<>>
  /\ taught = legacy.taught /\ graded = legacy.graded /\ logged = legacy.logged
  /\ grilles = <<>> /\ lignes = <<>> /\ maxima = {}
  /\ edits = 0
  /\ at = [k \in Calls |-> "idle"]
  /\ job = [k \in Calls |-> [source |-> 0, annee |-> OldYear]]
  /\ reserved = [k \in Calls |-> NoKey]

-----------------------------------------------------------------------------
(* upgrade(): every class gets the niveau of its level_order, and the loop *)
(* over the course rows begins.                                            *)
BeginUpgrade ==
  /\ phase = "legacy"
  /\ phase' = "backfill"
  /\ remaining' = DOMAIN courses
  /\ UNCHANGED <<grids, duplication, legacy, courses, lineOf, references>>

(* The lowest id of a code survives in the catalog. *)
Survivor(code) ==
  CHOOSE c \in DOMAIN legacy.courses :
    /\ legacy.courses[c].code = code
    /\ \A d \in DOMAIN legacy.courses : legacy.courses[d].code = code => c <= d

PeriodsOf(y) == {p \in Periods : YearOf[p] = y}
GridOf(niveau) == {g \in DOMAIN grilles : grilles[g].niveau = niveau}

(* Slip: a line is looked for in every grid of the school. *)
LineForAny(niveau, code) == {l \in DOMAIN lignes : lignes[l].cours = Survivor(code)}

LineFor(niveau, code) ==
  {l \in DOMAIN lignes : /\ grilles[lignes[l].grille].niveau = niveau
                         /\ lignes[l].cours = Survivor(code)}

NewGrid(niveau) == [niveau |-> niveau, annee |-> OldYear, origine |-> 0, archivee |-> FALSE]
NewLine(c, g) == [grille |-> g, cours |-> Survivor(courses[c].code),
                  ponderation |-> courses[c].coefficient, archivee |-> FALSE]

(* Slip: the weight is taken for the maximum. *)
MaximaOfWeight(c, l) ==
  {[ligne |-> l, periode |-> p, maximum |-> courses[c].coefficient] : p \in PeriodsOf(OldYear)}

(* Slip: the maximum is copied for the first period only. *)
MaximaOfFirst(c, l) ==
  {[ligne |-> l, periode |-> p, maximum |-> courses[c].max] :
     p \in {CHOOSE q \in PeriodsOf(OldYear) : TRUE}}

MaximaOf(c, l) ==
  {[ligne |-> l, periode |-> p, maximum |-> courses[c].max] : p \in PeriodsOf(OldYear)}

(* One turn of the loop; the rows come in no particular order.  The grid   *)
(* of the class's level is created once, then its line for the code, with  *)
(* the coefficient and the maximum of the course that comes first.         *)
Backfill(c) ==
  LET niveau == legacy.level[courses[c].classe]
      grid == IF GridOf(niveau) = {} THEN Len(grilles) + 1 ELSE CHOOSE g \in GridOf(niveau) : TRUE
      line == LineFor(niveau, courses[c].code)
      id == IF line = {} THEN Len(lignes) + 1 ELSE CHOOSE l \in line : TRUE
  IN  /\ phase = "backfill" /\ c \in remaining
      /\ grilles' = IF GridOf(niveau) = {} THEN Append(grilles, NewGrid(niveau)) ELSE grilles
      /\ IF line = {}
         THEN lignes' = Append(lignes, NewLine(c, grid)) /\ maxima' = maxima \cup MaximaOf(c, id)
         ELSE UNCHANGED <<lignes, maxima>>
      /\ lineOf' = [d \in DOMAIN lineOf \cup {c} |-> IF d = c THEN id ELSE lineOf[d]]
      /\ remaining' = remaining \ {c}
      /\ UNCHANGED <<edits, duplication, phase, legacy, courses, references>>

(* teacher_assignments, grades and grade_audit_logs, in this order. *)
Remapped(rows) == {[r EXCEPT !.ref = lineOf[r.ref]] : r \in rows}

(* Slip: the class of the surviving row stays. *)
CatalogRowOfClass(c) ==
  [classe |-> courses[c].classe, code |-> courses[c].code, coefficient |-> 0, max |-> 0]

(* Only survivors stay, without class, coefficient and maximum. *)
CatalogRow(c) == [classe |-> NoClass, code |-> courses[c].code, coefficient |-> 0, max |-> 0]

(* The rest of upgrade() and its COMMIT. *)
FinishUpgrade ==
  /\ phase = "backfill" /\ remaining = {}
  /\ phase' = "upgraded"
  /\ taught' = Remapped(taught) /\ graded' = Remapped(graded) /\ logged' = Remapped(logged)
  /\ courses' = [c \in {Survivor(courses[d].code) : d \in DOMAIN courses} |-> CatalogRow(c)]
  /\ lineOf' = <<>>
  /\ UNCHANGED <<grids, duplication, legacy, remaining>>

(* The upgrade fails or is interrupted. *)
RollBackUpgrade ==
  /\ phase = "backfill"
  /\ phase' = "legacy"
  /\ remaining' = {} /\ lineOf' = <<>>
  /\ grilles' = <<>> /\ lignes' = <<>> /\ maxima' = {}
  /\ UNCHANGED <<edits, duplication, legacy, courses, references>>

(* The school works with its grids. *)
Work == phase \in {"upgraded", "stuck"} /\ GridStep
        /\ UNCHANGED <<phase, legacy, courses, remaining, lineOf, references>>

-----------------------------------------------------------------------------
(* downgrade(): it locks every table, so no duplication is under way. *)
FirstLine(c) == CHOOSE l \in DOMAIN lignes :
                  lignes[l].cours = c /\ \A m \in DOMAIN lignes : lignes[m].cours = c => l <= m

(* Slip: the maxima are not looked up. *)
OldMaximumDefault(l) == 20

(* max_score: some maximum of the first line, 20 when it has none. *)
OldMaximum(l) == LET m == {n \in maxima : n.ligne = l}
                 IN  IF m = {} THEN 20 ELSE (CHOOSE n \in m : TRUE).maximum

(* class_by_triple keeps one class of each level, whichever comes first. *)
Representatives ==
  {f \in [{legacy.level[k] : k \in Classes} -> Classes] :
     \A v \in DOMAIN f : legacy.level[f[v]] = v}

Reattached(first) ==
  [c \in DOMAIN courses |->
     LET l == FirstLine(c)
     IN  [classe |-> first[grilles[lignes[l].grille].niveau], code |-> courses[c].code,
          coefficient |-> lignes[l].ponderation, max |-> OldMaximum(l)]]

(* ligne_to_course *)
Restored(rows) == {[r EXCEPT !.ref = lignes[r.ref].cours] : r \in rows}

(* uq_assignment_ecole_teacher_course cannot be created: a teacher has one *)
(* course of the catalog in two classes.                                   *)
Collision == \E r, q \in taught : /\ r # q /\ r.teacher = q.teacher
                                  /\ lignes[r.ref].cours = lignes[q.ref].cours

Downgrade ==
  /\ phase = "upgraded" /\ ~Collision
  /\ \A k \in Calls : at[k] \notin Copying
  /\ phase' = "downgraded"
  /\ \E first \in Representatives : courses' = Reattached(first)
  /\ taught' = Restored(taught) /\ graded' = Restored(graded) /\ logged' = Restored(logged)
  /\ grilles' = <<>> /\ lignes' = <<>> /\ maxima' = {}
  /\ UNCHANGED <<edits, duplication, legacy, remaining, lineOf>>

(* The whole downgrade is rolled back. *)
DowngradeFails ==
  /\ phase = "upgraded" /\ Collision
  /\ \A k \in Calls : at[k] \notin Copying
  /\ phase' = "stuck"
  /\ UNCHANGED <<grids, duplication, legacy, courses, remaining, lineOf, references>>

Next ==
  \/ BeginUpgrade
  \/ \E c \in remaining : Backfill(c)
  \/ FinishUpgrade \/ RollBackUpgrade
  \/ Work
  \/ Downgrade \/ DowngradeFails

Spec == Init /\ [][Next]_vars

-----------------------------------------------------------------------------
Migrated == phase \in {"upgraded", "stuck"}
LevelOf(l) == grilles[lignes[l].grille].niveau
CodeOf(ref) == IF Migrated THEN courses[lignes[ref].cours].code ELSE courses[ref].code

SameRows(old, new) ==
  /\ Cardinality(old) = Cardinality(new)
  /\ \A o \in old : \E n \in new :
       /\ [o EXCEPT !.ref = 0] = [n EXCEPT !.ref = 0]
       /\ CodeOf(n.ref) = legacy.courses[o.ref].code
       /\ Migrated => LevelOf(n.ref) = legacy.level[o.classe]

(* Every grade, attribution and audit row keeps its class and its subject: *)
(* after the upgrade it refers to a line of the grid of its own class and  *)
(* of the code it had, and after the downgrade to a course of that code,   *)
(* whatever the order of the course rows.  No row is lost or merged.       *)
RowsKeepSubject ==
  phase # "backfill" => /\ SameRows(legacy.taught, taught)
                        /\ SameRows(legacy.graded, graded)
                        /\ SameRows(legacy.logged, logged)

(* "The faithful equivalent of one maximum for the whole course": a class  *)
(* that taught a code has one line for it, with one maximum in each period *)
(* of the year, so no class that could be graded is refused (503).         *)
CoursesStayGradable ==
  Migrated =>
    \A c \in DOMAIN legacy.courses :
      \E l \in LineFor(legacy.level[legacy.courses[c].classe], legacy.courses[c].code) :
        /\ LineFor(LevelOf(l), legacy.courses[c].code) \cap LignesDe(lignes[l].grille) = {l}
        /\ \A p \in PeriodsOf(OldYear) : Cardinality(MaximumPour(l, p)) = 1

(* Sibling classes agree on the scale of a subject. *)
Agreeing ==
  \A c, d \in DOMAIN legacy.courses :
    LET x == legacy.courses[c]  y == legacy.courses[d]
    IN  x.code = y.code /\ legacy.level[x.classe] = legacy.level[y.classe]
        => x.max = y.max /\ x.coefficient = y.coefficient

(* Where sibling classes agreed on the scale of a subject, no score lies   *)
(* above the maximum its line got: the engine refuses such a score, and    *)
(* with it the consolidation of the whole class.                           *)
ScoresStayValid ==
  Migrated /\ Agreeing =>
    \A r \in graded : \A m \in MaximumPour(r.ref, r.periode) : r.score <= m

(* Each level has one class and each code one course. *)
Separate ==
  /\ \A c, d \in Classes : legacy.level[c] = legacy.level[d] => c = d
  /\ \A c, d \in DOMAIN legacy.courses : legacy.courses[c].code = legacy.courses[d].code => c = d

(* What the merging loses is all that is lost: a school whose courses were *)
(* never merged gets back exactly the contents it had, although its grids  *)
(* were copied, grids and lines archived and maxima changed in between.    *)
(* (Weights and grades stay as they are meanwhile.)                        *)
RoundTrip ==
  phase = "downgraded" /\ Separate /\ PeriodsOf(OldYear) # {} =>
    /\ courses = legacy.courses
    /\ taught = legacy.taught /\ graded = legacy.graded /\ logged = legacy.logged
=============================================================================

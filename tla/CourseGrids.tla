----------------------------- MODULE CourseGrids -----------------------------
(***************************************************************************)
(* The course grids of a school (grille_service): the grid of a class is   *)
(* the one of its track and level for the year, its active lines are the   *)
(* columns of the encoding grid and of the bulletin, each with a maximum   *)
(* per period; dupliquer_grille copies a grid to another year.             *)
(*                                                                         *)
(* Duplications may overlap, each in its own transaction.  The new grid is *)
(* flushed at once, which reserves its unique key until the COMMIT, and    *)
(* its lines are written with the COMMIT.  Rows are named by their id, the *)
(* index in their table.                                                   *)
(***************************************************************************)
EXTENDS Naturals, Sequences, FiniteSets

CONSTANTS
  Calls,      \* calls of dupliquer_grille, each handled once
  Years,      \* academic years
  Levels,     \* pairs of a section and a niveau
  Periods,    \* evaluation periods
  YearOf,     \* YearOf[p]: the year of period p
  Catalog,    \* ids of courses
  Scales,     \* what ponderation and maxima may be
  NoKey,      \* no uncommitted grid
  MaxEdits    \* bound on the edits made outside the service

VARIABLES
  grilles,    \* grilles_cours
  lignes,     \* grille_cours_lignes
  maxima,     \* grille_cours_ligne_maxima
  at,         \* at[k]: where duplication k is
  job,        \* job[k]: the grid k copies and the year it copies it to
  reserved,   \* reserved[k]: the key of the grid k has flushed
  edits       \* how many edits were made outside the service

duplication == <<at, job, reserved>>
grids == <<grilles, lignes, maxima, edits>>

Keys == [niveau : Levels, annee : Years]
Grilles == [niveau : Levels, annee : Years, origine : Nat, archivee : BOOLEAN]
Lignes == [grille : Nat \ {0}, cours : Catalog, ponderation : Scales, archivee : BOOLEAN]
Maxima == [ligne : Nat \ {0}, periode : Periods, maximum : Scales]
Copying == {"insert", "copy"}

ASSUME GridsAssumption ==
  /\ YearOf \in [Periods -> Years]
  /\ Scales \subseteq Nat \ {0}
  /\ Catalog \subseteq Nat
  /\ NoKey \notin Keys
  /\ MaxEdits \in Nat

GridsTyped ==
  /\ grilles \in Seq(Grilles)
  /\ lignes \in Seq(Lignes)
  /\ maxima \subseteq Maxima
  /\ at \in [Calls -> {"idle", "copied", "refused"} \cup Copying]
  /\ job \in [Calls -> [source : Nat, annee : Years]]
  /\ reserved \in [Calls -> Keys \cup {NoKey}]
  /\ edits \in 0..MaxEdits

Key(g) == [niveau |-> grilles[g].niveau, annee |-> grilles[g].annee]

-----------------------------------------------------------------------------
(* resoudre_grille: the grids of a level and a year; GrilleConfigError     *)
(* (503) when there is none.                                               *)
Resolved(niveau, annee) ==
  {g \in DOMAIN grilles : /\ Key(g) = [niveau |-> niveau, annee |-> annee]
                          /\ ~grilles[g].archivee}

LignesDe(g) == {l \in DOMAIN lignes : lignes[l].grille = g}

LignesActives(g) == {l \in LignesDe(g) : ~lignes[l].archivee}

(* maximum_pour_periode: GrilleConfigError when there is none. *)
MaximumPour(l, p) == {m.maximum : m \in {n \in maxima : n.ligne = l /\ n.periode = p}}

-----------------------------------------------------------------------------
Go(k, from, to) == at[k] = from /\ at' = [at EXCEPT ![k] = to]
Wanted(k) == [niveau |-> grilles[job[k].source].niveau, annee |-> job[k].annee]

(* dupliquer_grille looks for a grid of the key, without a lock; an        *)
(* archived one does not count.                                            *)
AskCopy(k, g, y) ==
  /\ Go(k, "idle", IF Resolved(grilles[g].niveau, y) = {} THEN "insert" ELSE "refused")
  /\ job' = [job EXCEPT ![k] = [source |-> g, annee |-> y]]
  /\ UNCHANGED <<grids, reserved>>

(* The flush waits for the transaction that holds the key, if any. *)
Reserve(k) ==
  /\ Go(k, "insert", "copy")
  /\ \A j \in Calls : reserved[j] # Wanted(k)
  /\ \A g \in DOMAIN grilles : Key(g) # Wanted(k)
  /\ reserved' = [reserved EXCEPT ![k] = Wanted(k)]
  /\ UNCHANGED <<grids, job>>

(* uq_grille_ecole_section_niveau_annee counts archived grids as well: an  *)
(* uncaught IntegrityError.                                                *)
ReserveCollision(k) ==
  /\ Go(k, "insert", "refused")
  /\ \E g \in DOMAIN grilles : Key(g) = Wanted(k)
  /\ UNCHANGED <<grids, job, reserved>>

(* One line per active line of the source, in the order of their ids. *)
CopiesOf(k) ==
  LET source == LignesActives(job[k].source)
      nth(n) == CHOOSE l \in source : Cardinality({m \in source : m <= l}) = n
  IN  [n \in 1..Cardinality(source) |->
         [lignes[nth(n)] EXCEPT !.grille = Len(grilles) + 1]]

(* Slip: the grid is committed by itself. *)
CommitGridOnly(k) ==
  /\ Go(k, "copy", "copied")
  /\ grilles' = Append(grilles, [niveau |-> Wanted(k).niveau, annee |-> job[k].annee,
                                 origine |-> job[k].source, archivee |-> FALSE])
  /\ reserved' = [reserved EXCEPT ![k] = NoKey]
  /\ UNCHANGED <<lignes, maxima, job, edits>>

(* The lines are read after the flush and committed with the grid; the     *)
(* maxima stay behind, they belong to periods of the source's year.        *)
CommitCopy(k) ==
  /\ Go(k, "copy", "copied")
  /\ grilles' = Append(grilles, [niveau |-> Wanted(k).niveau, annee |-> job[k].annee,
                                 origine |-> job[k].source, archivee |-> FALSE])
  /\ lignes' = lignes \o CopiesOf(k)
  /\ reserved' = [reserved EXCEPT ![k] = NoKey]
  /\ UNCHANGED <<maxima, job, edits>>

CrashCopy(k) ==
  /\ at[k] \in Copying
  /\ at' = [at EXCEPT ![k] = "refused"]
  /\ reserved' = [reserved EXCEPT ![k] = NoKey]
  /\ UNCHANGED <<grids, job>>

-----------------------------------------------------------------------------
(* Done on the rows themselves: no route edits a grid. *)
Edit == edits < MaxEdits /\ edits' = edits + 1

ArchiveGrid(g) ==
  /\ Edit
  /\ grilles' = [grilles EXCEPT ![g].archivee = TRUE]
  /\ UNCHANGED <<lignes, maxima, duplication>>

ArchiveLine(l) ==
  /\ Edit
  /\ lignes' = [lignes EXCEPT ![l].archivee = TRUE]
  /\ UNCHANGED <<grilles, maxima, duplication>>

(* uq_maximum_ecole_ligne_periode *)
SetMaximum(l, p, m) ==
  /\ Edit
  /\ MaximumPour(l, p) = {}
  /\ YearOf[p] = grilles[lignes[l].grille].annee
  /\ maxima' = maxima \cup {[ligne |-> l, periode |-> p, maximum |-> m]}
  /\ UNCHANGED <<grilles, lignes, duplication>>

GridStep ==
  \/ \E k \in Calls :
       \/ \E g \in DOMAIN grilles, y \in Years : AskCopy(k, g, y)
       \/ Reserve(k) \/ ReserveCollision(k) \/ CommitCopy(k) \/ CrashCopy(k)
  \/ \E g \in DOMAIN grilles : ArchiveGrid(g)
  \/ \E l \in DOMAIN lignes : ArchiveLine(l)
  \/ \E l \in DOMAIN lignes, p \in Periods, m \in Scales : SetMaximum(l, p, m)

-----------------------------------------------------------------------------
(* A grid that can be seen is never half copied: each line of the source   *)
(* that is still active is in the copy exactly once with its weight, and   *)
(* the copy has no line of its own.  The copy is committed in one piece,   *)
(* while other duplications, archivings and settings of maxima go on.      *)
CopiesComplete ==
  \A g \in DOMAIN grilles : LET s == grilles[g].origine IN
    s # 0 =>
      /\ \A l \in LignesActives(s) :
           Cardinality({c \in LignesDe(g) : /\ lignes[c].cours = lignes[l].cours
                                            /\ lignes[c].ponderation = lignes[l].ponderation}) = 1
      /\ \A c \in LignesDe(g) : \E l \in LignesDe(s) : lignes[l].cours = lignes[c].cours
=============================================================================

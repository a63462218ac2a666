--------------------------- MODULE Bulletin_proofs ---------------------------
(***************************************************************************)
(* What a bulletin rests on.  First its lines: the migration that made the *)
(* shared grids and the duplications and edits since then keep, for every  *)
(* content the migration may find, each row at its subject and each class  *)
(* gradable.  Then its figures: the engine accepts every grade the sync    *)
(* route stored; totals, subtotals and ranks are what they should be for   *)
(* every class and grid; the ranks by rounded percentages agree with the   *)
(* decisions by exact ones; and a higher score hurts nobody.               *)
(***************************************************************************)
EXTENDS Consolidation, GridMigration, SequenceTheorems, FiniteSetTheorems, FunctionTheorems, TLAPS

Original(l) == grilles[lignes[l].grille].origine = 0

(* Line l is of the subject and the level of course c. *)
Fits(l, c) ==
  /\ lignes[l].cours = Survivor(legacy.courses[c].code)
  /\ LevelOf(l) = legacy.level[legacy.courses[c].classe]
Homes(c) == {l \in DOMAIN lignes : Original(l) /\ Fits(l, c)}

Anchored ==
  /\ \A l \in DOMAIN lignes : lignes[l].grille \in DOMAIN grilles
  /\ \A m \in maxima : m.ligne \in DOMAIN lignes
  /\ \A k \in Calls : at[k] \in Copying => job[k].source \in DOMAIN grilles
  /\ \A g \in DOMAIN grilles :
       /\ grilles[g].origine \in 0..Len(grilles)
       /\ grilles[g].origine = 0 => grilles[g].annee = OldYear

OneLine ==
  \A l, m \in DOMAIN lignes :
    /\ lignes[l].cours = lignes[m].cours
    /\ \/ lignes[l].grille = lignes[m].grille
       \/ Original(l) /\ Original(m) /\ LevelOf(l) = LevelOf(m)
    => l = m

OneMaximum ==
  /\ \A m, n \in maxima : m.ligne = n.ligne /\ m.periode = n.periode => m = n
  /\ \A l \in DOMAIN lignes, p \in PeriodsOf(OldYear) :
       Original(l) => \E m \in maxima : m.ligne = l /\ m.periode = p

Rooted ==
  \A l \in DOMAIN lignes : \E c \in DOMAIN legacy.courses :
    /\ Fits(l, c)
    /\ lignes[l].ponderation = legacy.courses[c].coefficient
    /\ Original(l) => \A m \in maxima : m.ligne = l => m.maximum = legacy.courses[c].max

OriginalsFirst ==
  \A l, m \in DOMAIN lignes : Original(l) /\ ~Original(m) => l < m

(* Grid g has the lines of the grid s it was copied from. *)
Mirrors(s, g) ==
  /\ \A l \in LignesActives(s) : \E c \in LignesDe(g) :
       lignes[c].cours = lignes[l].cours /\ lignes[c].ponderation = lignes[l].ponderation
  /\ \A c \in LignesDe(g) : \E l \in LignesDe(s) : lignes[l].cours = lignes[c].cours
Copied ==
  \A g \in DOMAIN grilles : grilles[g].origine # 0 => Mirrors(grilles[g].origine, g)

GridsInv == Anchored /\ OneLine /\ OneMaximum /\ Rooted /\ OriginalsFirst /\ Copied

NotMoved ==
  /\ courses = legacy.courses
  /\ taught = legacy.taught /\ graded = legacy.graded /\ logged = legacy.logged

Home(c) == CHOOSE l \in Homes(c) : TRUE
Homing == [c \in DOMAIN legacy.courses |-> Home(c)]
Surviving == [c \in DOMAIN legacy.courses |-> Survivor(legacy.courses[c].code)]
Pointed(rows, h) == {[r EXCEPT !.ref = h[r.ref]] : r \in rows}
Catalogue ==
  [c \in {Survivor(legacy.courses[d].code) : d \in DOMAIN legacy.courses} |->
     [classe |-> NoClass, code |-> legacy.courses[c].code, coefficient |-> 0, max |-> 0]]

PhaseInv ==
  /\ phase \in {"legacy", "backfill"} =>
       NotMoved /\ (\A k \in Calls : at[k] = "idle") /\ (\A g \in DOMAIN grilles : grilles[g].origine = 0)
  /\ phase = "legacy" => remaining = {} /\ lineOf = <<>> /\ grilles = <<>> /\ lignes = <<>> /\ maxima = {}
  /\ phase = "backfill" =>
       /\ DOMAIN lineOf = DOMAIN legacy.courses \ remaining
       /\ remaining \subseteq DOMAIN legacy.courses
       /\ \A c \in DOMAIN lineOf : Homes(c) = {lineOf[c]}
  /\ Migrated =>
       /\ lineOf = <<>>
       /\ \A c \in DOMAIN legacy.courses : Homes(c) # {}
       /\ courses = Catalogue
       /\ taught = Pointed(legacy.taught, Homing)
       /\ graded = Pointed(legacy.graded, Homing)
       /\ logged = Pointed(legacy.logged, Homing)
  /\ phase = "downgraded" =>
       /\ lineOf = <<>>
       /\ \A c \in DOMAIN legacy.courses : courses[Surviving[c]].code = legacy.courses[c].code
       /\ Separate /\ PeriodsOf(OldYear) # {} => courses = legacy.courses
       /\ taught = Pointed(legacy.taught, Surviving)
       /\ graded = Pointed(legacy.graded, Surviving)
       /\ logged = Pointed(legacy.logged, Surviving)

-----------------------------------------------------------------------------
(* The order of the natural numbers is well founded, so a set of them has  *)
(* a least element.                                                        *)
LessThan == {ij \in Nat \X Nat : ij[1] < ij[2]}

LEMMA Least ==
  ASSUME NEW T, T \subseteq Nat, T # {}
  PROVE  \E n \in T : \A m \in T : n <= m
<1>1. OpToRel(<, Nat) = LessThan
  BY DEF OpToRel, LessThan
<1>2. IsWellFoundedOn(LessThan, Nat)
  BY <1>1, NatLessThanWellFounded
<1>3. PICK n \in T : \A m \in T : ~(<<m, n>> \in LessThan)
  BY <1>2, WFMin
<1>4. ASSUME NEW m \in T PROVE n <= m
  <2>1. n \in Nat /\ m \in Nat /\ ~(<<m, n>> \in LessThan)
    BY <1>3
  <2>2. ~(m < n)
    BY <2>1 DEF LessThan
  <2> QED
    BY <2>1, <2>2
<1> QED
  BY <1>4

(* A code that some course has survives in one of its courses. *)
LEMMA SurvivorOf ==
  ASSUME WellFormed(legacy), NEW c \in DOMAIN legacy.courses
  PROVE  LET s == Survivor(legacy.courses[c].code)
         IN  s \in DOMAIN legacy.courses /\ legacy.courses[s].code = legacy.courses[c].code
<1> DEFINE T == {d \in DOMAIN legacy.courses : legacy.courses[d].code = legacy.courses[c].code}
<1>1. T \subseteq Nat
  BY GridsAssumption DEF WellFormed
<1>2. c \in T
  OBVIOUS
<1> HIDE DEF T
<1>3. PICK s \in T : \A d \in T : s <= d
  BY <1>1, <1>2, Least
<1> QED
  BY <1>3 DEF T, Survivor

(* The n-th of a finite set of numbers: there is exactly one. *)
LEMMA Ranking ==
  ASSUME NEW S, S \subseteq Nat, IsFiniteSet(S)
  PROVE  /\ Cardinality(S) \in Nat
         /\ \A l \in S : Cardinality({m \in S : m <= l}) \in 1..Cardinality(S)
         /\ \A n \in 1..Cardinality(S) : \E l \in S : Cardinality({m \in S : m <= l}) = n
         /\ \A l, k \in S : Cardinality({m \in S : m <= l}) = Cardinality({m \in S : m <= k}) => l = k
<1> DEFINE Upto(l) == {m \in S : m <= l}
           rank == [l \in S |-> Cardinality(Upto(l))]
           N == Cardinality(S)
<1>1. N \in Nat
  BY FS_CardinalityType
<1>2. \A l \in S : IsFiniteSet(Upto(l)) /\ Cardinality(Upto(l)) \in Nat /\ Cardinality(Upto(l)) <= N
  BY FS_Subset, FS_CardinalityType
<1>3. ASSUME NEW l \in S PROVE Cardinality(Upto(l)) # 0
  <2>1. l \in Upto(l)
    BY <1>3
  <2> QED
    BY <1>2, <2>1, FS_EmptySet
<1>4. \A l \in S : Cardinality(Upto(l)) \in 1..N
  BY <1>1, <1>2, <1>3
<1>5. ASSUME NEW l \in S, NEW k \in S, l < k PROVE Cardinality(Upto(l)) # Cardinality(Upto(k))
  <2>1. l \in Nat /\ k \in Nat /\ \A m \in S : m \in Nat
    OBVIOUS
  <2>2. \A m \in S : m <= l => m <= k
    BY <1>5, <2>1
  <2>3. k <= k /\ ~(k <= l)
    BY <1>5, <2>1
  <2>4. Upto(l) \subseteq Upto(k) /\ k \in Upto(k) /\ k \notin Upto(l)
    BY <2>2, <2>3
  <2> HIDE DEF Upto
  <2> QED
    BY <1>2, <2>4, FS_Subset
<1>6. \A l, k \in S : Cardinality(Upto(l)) = Cardinality(Upto(k)) => l = k
  BY <1>5
<1>7. rank \in Injection(S, 1..N)
  <2> HIDE DEF N, Upto
  <2> QED
    BY <1>4, <1>6 DEF Injection, IsInjective
<1>8. IsFiniteSet(1..N) /\ Cardinality(1..N) = N
  BY <1>1, FS_Interval
<1>9. rank \in Surjection(S, 1..N)
  BY <1>7, <1>8, FS_Injection
<1>10. \A n \in 1..N : \E l \in S : Cardinality(Upto(l)) = n
  <2> HIDE DEF N, Upto
  <2> QED
    BY <1>9 DEF Surjection
<1> QED
  BY <1>1, <1>4, <1>6, <1>10

(* Rows are told by their place in the table. *)
LEMMA Rows ==
  ASSUME GridsTyped
  PROVE  /\ Len(grilles) \in Nat /\ DOMAIN grilles = 1..Len(grilles)
         /\ Len(lignes) \in Nat /\ DOMAIN lignes = 1..Len(lignes)
         /\ \A g \in DOMAIN grilles : grilles[g] \in Grilles
         /\ \A l \in DOMAIN lignes : lignes[l] \in Lignes
BY DEF GridsTyped

-----------------------------------------------------------------------------
(* What the figures of the rows say of one line depends on this line, its  *)
(* grid, and what the migration found.                                     *)
LEMMA FitsStays ==
  ASSUME legacy' = legacy, NEW l, NEW c,
         lignes'[l].cours = lignes[l].cours, LevelOf(l)' = LevelOf(l)
  PROVE  Fits(l, c)' <=> Fits(l, c)
BY DEF Fits, Survivor

(* Steps that only archive rows or handle a duplication. *)
Reshaped ==
  /\ legacy' = legacy /\ maxima' = maxima
  /\ Len(grilles') = Len(grilles) /\ Len(lignes') = Len(lignes)
  /\ \A g \in DOMAIN grilles :
       /\ grilles'[g].niveau = grilles[g].niveau /\ grilles'[g].annee = grilles[g].annee
       /\ grilles'[g].origine = grilles[g].origine
  /\ \A l \in DOMAIN lignes :
       /\ lignes'[l].grille = lignes[l].grille /\ lignes'[l].cours = lignes[l].cours
       /\ lignes'[l].ponderation = lignes[l].ponderation
       /\ lignes[l].archivee => lignes'[l].archivee
  /\ \A k \in Calls : at'[k] \in Copying => job'[k].source \in DOMAIN grilles

LEMMA ReshapedKeeps ==
  ASSUME GridsTyped, GridsTyped', GridsInv, Reshaped
  PROVE  /\ GridsInv'
         /\ \A c \in DOMAIN legacy.courses : Homes(c)' = Homes(c)
<1>0. /\ DOMAIN grilles = 1..Len(grilles) /\ DOMAIN grilles' = DOMAIN grilles
      /\ DOMAIN lignes = 1..Len(lignes) /\ DOMAIN lignes' = DOMAIN lignes
      /\ legacy' = legacy /\ maxima' = maxima /\ Len(grilles') = Len(grilles)
  BY DEF Reshaped, GridsTyped
<1>1. ASSUME NEW l \in DOMAIN lignes
      PROVE  /\ lignes[l].grille \in DOMAIN grilles /\ lignes'[l].grille = lignes[l].grille
             /\ lignes'[l].cours = lignes[l].cours
             /\ lignes'[l].ponderation = lignes[l].ponderation
             /\ Original(l)' <=> Original(l)
             /\ LevelOf(l)' = LevelOf(l)
  BY <1>0 DEF GridsInv, Anchored, Reshaped, Original, LevelOf
<1>2. Anchored'
  BY <1>0, <1>1 DEF GridsInv, Anchored, Reshaped
<1>3. OneLine'
  BY <1>0, <1>1 DEF GridsInv, OneLine
<1>4. OneMaximum'
  BY <1>0, <1>1 DEF GridsInv, OneMaximum, PeriodsOf
<1>5. \A l \in DOMAIN lignes, c \in DOMAIN legacy.courses : Fits(l, c)' <=> Fits(l, c)
  BY <1>0, <1>1, FitsStays
<1>6. Rooted'
  BY <1>0, <1>1, <1>5 DEF GridsInv, Rooted
<1>7. OriginalsFirst'
  BY <1>0, <1>1 DEF GridsInv, OriginalsFirst
<1>8. Copied'
  <2>1. ASSUME NEW s, NEW g, Mirrors(s, g) PROVE Mirrors(s, g)'
    <3>1. \A x : LignesDe(x)' = LignesDe(x)
      BY <1>0, <1>1 DEF LignesDe
    <3>2. \A x : LignesActives(x)' \subseteq LignesActives(x)
      BY <1>0, <3>1 DEF LignesActives, LignesDe, Reshaped
    <3>3. \A x : LignesDe(x) \subseteq DOMAIN lignes /\ LignesActives(x) \subseteq DOMAIN lignes
      BY DEF LignesDe, LignesActives
    <3> QED
      BY <1>1, <2>1, <3>1, <3>2, <3>3 DEF Mirrors
  <2> QED
    BY <1>0, <2>1 DEF GridsInv, Copied, Reshaped
<1>9. \A c \in DOMAIN legacy.courses : Homes(c)' = Homes(c)
  BY <1>0, <1>1, <1>5 DEF Homes
<1> QED
  BY <1>2, <1>3, <1>4, <1>6, <1>7, <1>8, <1>9 DEF GridsInv

(* What the duplications and the archivings do to the shape of the grids. *)
LEMMA ReshapingSteps ==
  ASSUME GridsTyped, GridsInv, legacy' = legacy,
         \/ \E k \in Calls :
              \/ \E g \in DOMAIN grilles, y \in Years : AskCopy(k, g, y)
              \/ Reserve(k) \/ ReserveCollision(k) \/ CrashCopy(k)
         \/ \E g \in DOMAIN grilles : ArchiveGrid(g)
         \/ \E l \in DOMAIN lignes : ArchiveLine(l)
  PROVE  GridsTyped' /\ Reshaped
<1> USE DEF grids, duplication, GridsTyped
<1>0. \A k \in Calls : at[k] \in Copying => job[k].source \in DOMAIN grilles
  BY DEF GridsInv, Anchored
<1>1. ASSUME NEW k \in Calls, NEW g \in DOMAIN grilles, NEW y \in Years, AskCopy(k, g, y)
      PROVE  GridsTyped' /\ Reshaped
  <2>1. /\ job' = [job EXCEPT ![k] = [source |-> g, annee |-> y]]
        /\ \E to \in {"insert", "refused"} : at' = [at EXCEPT ![k] = to]
        /\ UNCHANGED <<grilles, lignes, maxima, edits, reserved>>
    BY <1>1 DEF AskCopy, Go
  <2>2. g \in Nat
    BY Rows
  <2>3. [source |-> g, annee |-> y] \in [source : Nat, annee : Years]
    BY <2>2
  <2>4. GridsTyped'
    BY <2>1, <2>3 DEF Copying
  <2>5. \A j \in Calls : at'[j] \in Copying => job'[j].source \in DOMAIN grilles
    BY <1>0, <2>1
  <2> QED
    BY <2>1, <2>4, <2>5 DEF Reshaped
<1>2. ASSUME NEW k \in Calls, Reserve(k) PROVE GridsTyped' /\ Reshaped
  <2>1. /\ at[k] = "insert" /\ at' = [at EXCEPT ![k] = "copy"]
        /\ reserved' = [reserved EXCEPT ![k] = Wanted(k)]
        /\ UNCHANGED <<grilles, lignes, maxima, edits, job>>
    BY <1>2 DEF Reserve, Go
  <2>2. Wanted(k) \in Keys
    <3>1. job[k].source \in DOMAIN grilles
      BY <1>0, <2>1 DEF Copying
    <3>2. grilles[job[k].source] \in Grilles
      BY <3>1, Rows
    <3> QED
      BY <3>2 DEF Wanted, Keys, Grilles
  <2>3. GridsTyped'
    BY <2>1, <2>2 DEF Copying
  <2>4. \A j \in Calls : at'[j] \in Copying => job'[j].source \in DOMAIN grilles
    BY <1>0, <2>1 DEF Copying
  <2> QED
    BY <2>1, <2>3, <2>4 DEF Reshaped
<1>3. ASSUME NEW k \in Calls, ReserveCollision(k) \/ CrashCopy(k) PROVE GridsTyped' /\ Reshaped
  <2>1. /\ at' = [at EXCEPT ![k] = "refused"]
        /\ reserved' = reserved \/ reserved' = [reserved EXCEPT ![k] = NoKey]
        /\ UNCHANGED <<grilles, lignes, maxima, edits, job>>
    BY <1>3 DEF ReserveCollision, CrashCopy, Go
  <2>2. GridsTyped'
    BY <2>1
  <2>3. \A j \in Calls : at'[j] \in Copying => job'[j].source \in DOMAIN grilles
    BY <1>0, <2>1 DEF Copying
  <2> QED
    BY <2>1, <2>2, <2>3 DEF Reshaped
<1>4. ASSUME NEW g \in DOMAIN grilles, ArchiveGrid(g) PROVE GridsTyped' /\ Reshaped
  <2>1. /\ grilles' = [grilles EXCEPT ![g].archivee = TRUE]
        /\ edits < MaxEdits /\ edits' = edits + 1
        /\ UNCHANGED <<lignes, maxima, at, job, reserved>>
    BY <1>4 DEF ArchiveGrid, Edit
  <2>2. Len(grilles') = Len(grilles) /\ grilles' \in Seq(Grilles)
    <3>1. [grilles[g] EXCEPT !.archivee = TRUE] \in Grilles
      BY Rows DEF Grilles
    <3> QED
      BY <2>1, <3>1, ExceptSeq
  <2>3. edits' \in 0..MaxEdits
    BY <2>1, GridsAssumption
  <2>4. \A x \in DOMAIN grilles :
          /\ grilles'[x].niveau = grilles[x].niveau /\ grilles'[x].annee = grilles[x].annee
          /\ grilles'[x].origine = grilles[x].origine
    BY <2>1, Rows DEF Grilles
  <2>5. GridsTyped'
    BY <2>1, <2>2, <2>3
  <2> QED
    BY <1>0, <2>1, <2>2, <2>4, <2>5 DEF Reshaped
<1>5. ASSUME NEW l \in DOMAIN lignes, ArchiveLine(l) PROVE GridsTyped' /\ Reshaped
  <2>1. /\ lignes' = [lignes EXCEPT ![l].archivee = TRUE]
        /\ edits < MaxEdits /\ edits' = edits + 1
        /\ UNCHANGED <<grilles, maxima, at, job, reserved>>
    BY <1>5 DEF ArchiveLine, Edit
  <2>2. Len(lignes') = Len(lignes) /\ lignes' \in Seq(Lignes)
    <3>1. [lignes[l] EXCEPT !.archivee = TRUE] \in Lignes
      BY Rows DEF Lignes
    <3> QED
      BY <2>1, <3>1, ExceptSeq
  <2>3. edits' \in 0..MaxEdits
    BY <2>1, GridsAssumption
  <2>4. \A x \in DOMAIN lignes :
          /\ lignes'[x].grille = lignes[x].grille /\ lignes'[x].cours = lignes[x].cours
          /\ lignes'[x].ponderation = lignes[x].ponderation
          /\ lignes[x].archivee => lignes'[x].archivee
    BY <2>1, Rows DEF Lignes
  <2>5. GridsTyped'
    BY <2>1, <2>2, <2>3
  <2> QED
    BY <1>0, <2>1, <2>2, <2>4, <2>5 DEF Reshaped
<1> QED
  BY <1>1, <1>2, <1>3, <1>4, <1>5
-----------------------------------------------------------------------------
(* A copy takes each active line of its source once. *)
LEMMA CopyOfEach ==
  ASSUME GridsTyped, NEW k \in Calls
  PROVE  LET S == LignesActives(job[k].source)
             N == Cardinality(S)
         IN  /\ N \in Nat
             /\ \E nth \in [1..N -> S] :
                  /\ \A l \in S : \E n \in 1..N : nth[n] = l
                  /\ \A m, n \in 1..N : nth[m] = nth[n] => m = n
                  /\ CopiesOf(k) = [n \in 1..N |-> [lignes[nth[n]] EXCEPT !.grille = Len(grilles) + 1]]
<1> DEFINE S == LignesActives(job[k].source)
           N == Cardinality(S)
           Place(l) == Cardinality({m \in S : m <= l})
           nth == [n \in 1..N |-> CHOOSE l \in S : Place(l) = n]
<1>1. S \subseteq DOMAIN lignes
  BY DEF LignesActives, LignesDe
<1>2. S \subseteq Nat /\ IsFiniteSet(S)
  <2>1. DOMAIN lignes = 1..Len(lignes) /\ Len(lignes) \in Nat
    BY Rows
  <2>2. IsFiniteSet(DOMAIN lignes)
    BY <2>1, FS_Interval
  <2> QED
    BY <1>1, <2>1, <2>2, FS_Subset
<1>3. CopiesOf(k) = [n \in 1..N |-> [lignes[nth[n]] EXCEPT !.grille = Len(grilles) + 1]]
  BY DEF CopiesOf
<1> HIDE DEF S
<1>4. /\ N \in Nat
      /\ \A l \in S : Place(l) \in 1..N
      /\ \A n \in 1..N : \E l \in S : Place(l) = n
      /\ \A l, j \in S : Place(l) = Place(j) => l = j
  BY <1>2, Ranking
<1> HIDE DEF N, Place
<1>5. \A n \in 1..N : nth[n] \in S /\ Place(nth[n]) = n
  BY <1>4
<1>6. nth \in [1..N -> S]
  BY <1>5
<1>7. \A l \in S : nth[Place(l)] = l
  BY <1>4, <1>5
<1>8. \A m, n \in 1..N : nth[m] = nth[n] => m = n
  BY <1>5
<1> HIDE DEF nth
<1>9. \A l \in S : \E n \in 1..N : nth[n] = l
  BY <1>4, <1>7
<1> QED
  BY <1>3, <1>4, <1>6, <1>8, <1>9 DEF S, N

LEMMA CommittedCopy ==
  ASSUME GridsTyped, GridsInv, NEW k \in Calls, CommitCopy(k)
  PROVE  LET s == job[k].source
             G == Len(grilles) + 1
             S == LignesActives(s)
         IN  /\ s \in DOMAIN grilles
             /\ grilles' \in Seq(Grilles) /\ Len(grilles') = G
             /\ \A g \in DOMAIN grilles : grilles'[g] = grilles[g]
             /\ grilles'[G].niveau = grilles[s].niveau /\ grilles'[G].origine = s
             /\ lignes' \in Seq(Lignes) /\ Len(lignes') >= Len(lignes)
             /\ \A l \in DOMAIN lignes : lignes'[l] = lignes[l]
             /\ \A m \in DOMAIN lignes' \ DOMAIN lignes : \E l \in S :
                  lignes'[m] = [lignes[l] EXCEPT !.grille = G]
             /\ \A l \in S : \E m \in DOMAIN lignes' \ DOMAIN lignes :
                  lignes'[m] = [lignes[l] EXCEPT !.grille = G]
             /\ \A l \in S, m, n \in DOMAIN lignes' \ DOMAIN lignes :
                  lignes'[m].cours = lignes[l].cours /\ lignes'[n].cours = lignes[l].cours => m = n
<1> DEFINE s == job[k].source
           G == Len(grilles) + 1
           S == LignesActives(s)
           N == Cardinality(S)
           L == Len(lignes)
           grid == [niveau |-> Wanted(k).niveau, annee |-> job[k].annee, origine |-> s,
                    archivee |-> FALSE]
<1>1. /\ at[k] = "copy" /\ grilles' = Append(grilles, grid)
      /\ lignes' = lignes \o CopiesOf(k)
  BY DEF CommitCopy, Go
<1>2. s \in DOMAIN grilles
  BY <1>1 DEF GridsInv, Anchored, Copying
<1>3. /\ Len(grilles) \in Nat /\ L \in Nat /\ DOMAIN grilles = 1..Len(grilles) /\ DOMAIN lignes = 1..L
      /\ grilles[s] \in Grilles /\ grilles \in Seq(Grilles) /\ lignes \in Seq(Lignes)
  BY <1>2, Rows DEF GridsTyped
<1>4. grid \in Grilles /\ grid.niveau = grilles[s].niveau /\ grid.origine = s
  <2>1. job[k].annee \in Years
    BY DEF GridsTyped
  <2>2. Wanted(k).niveau = grilles[s].niveau
    BY DEF Wanted
  <2>3. grilles[s].niveau \in Levels /\ s \in Nat
    BY <1>2, <1>3 DEF Grilles
  <2> QED
    BY <2>1, <2>2, <2>3 DEF Grilles
<1> HIDE DEF grid
<1>5. /\ grilles' \in Seq(Grilles) /\ Len(grilles') = G /\ grilles'[G] = grid
      /\ \A g \in DOMAIN grilles : grilles'[g] = grilles[g]
  BY <1>1, <1>3, <1>4, AppendProperties
<1>6. S \subseteq DOMAIN lignes /\ \A l \in S : lignes[l].grille = s /\ lignes[l] \in Lignes
  BY Rows DEF LignesActives, LignesDe
<1>7. PICK nth \in [1..N -> S] :
        /\ \A l \in S : \E n \in 1..N : nth[n] = l
        /\ \A m, n \in 1..N : nth[m] = nth[n] => m = n
        /\ CopiesOf(k) = [n \in 1..N |-> [lignes[nth[n]] EXCEPT !.grille = G]]
  BY CopyOfEach
<1>8. N \in Nat
  BY CopyOfEach
<1> HIDE DEF S, N
<1>9. \A l \in S : /\ [lignes[l] EXCEPT !.grille = G] \in Lignes
                   /\ [lignes[l] EXCEPT !.grille = G].cours = lignes[l].cours
  <2>1. G \in Nat \ {0}
    BY <1>3
  <2> HIDE DEF G
  <2> QED
    BY <1>6, <2>1 DEF Lignes
<1>10. CopiesOf(k) \in Seq(Lignes) /\ Len(CopiesOf(k)) = N
  <2>1. \A n \in 1..N : [lignes[nth[n]] EXCEPT !.grille = G] \in Lignes
    BY <1>7, <1>9
  <2>2. CopiesOf(k) \in [1..N -> Lignes]
    BY <1>7, <2>1
  <2>3. CopiesOf(k) \in Seq(Lignes)
    BY <1>8, <2>2
  <2>4. DOMAIN CopiesOf(k) = 1..N
    BY <2>2
  <2> QED
    BY <1>8, <2>3, <2>4, LenProperties
<1>11. /\ lignes' \in Seq(Lignes) /\ Len(lignes') = L + N
       /\ \A l \in 1..L : lignes'[l] = lignes[l]
       /\ \A n \in 1..N : lignes'[L + n] = CopiesOf(k)[n]
  <2>1. /\ lignes \o CopiesOf(k) \in Seq(Lignes) /\ Len(lignes \o CopiesOf(k)) = L + N
        /\ \A i \in 1..(L + N) : (lignes \o CopiesOf(k))[i] =
             IF i <= L THEN lignes[i] ELSE CopiesOf(k)[i - L]
    BY <1>3, <1>10, ConcatProperties
  <2>2. \A n \in 1..N : L + n \in 1..(L + N) /\ ~(L + n <= L) /\ (L + n) - L = n
    BY <1>3, <1>8
  <2>3. \A l \in 1..L : l \in 1..(L + N) /\ l <= L
    BY <1>3, <1>8
  <2> QED
    BY <1>1, <2>1, <2>2, <2>3
<1>12. DOMAIN lignes' = 1..(L + N)
  BY <1>11
<1>13. \A m \in DOMAIN lignes' \ DOMAIN lignes : m - L \in 1..N /\ L + (m - L) = m
  BY <1>3, <1>8, <1>12
<1>14. \A n \in 1..N : L + n \in DOMAIN lignes' \ DOMAIN lignes
  BY <1>3, <1>8, <1>12
<1>15. \A n \in 1..N : lignes'[L + n] = [lignes[nth[n]] EXCEPT !.grille = G]
  BY <1>7, <1>11
<1>16. \A m \in DOMAIN lignes' \ DOMAIN lignes : \E l \in S :
         lignes'[m] = [lignes[l] EXCEPT !.grille = G]
  BY <1>7, <1>13, <1>15
<1>17. \A l \in S : \E m \in DOMAIN lignes' \ DOMAIN lignes :
         lignes'[m] = [lignes[l] EXCEPT !.grille = G]
  BY <1>7, <1>14, <1>15
<1>18. \A l, j \in S : lignes[l].cours = lignes[j].cours => l = j
  BY <1>6 DEF GridsInv, OneLine
<1>19. ASSUME NEW l \in S, NEW m \in DOMAIN lignes' \ DOMAIN lignes,
              NEW n \in DOMAIN lignes' \ DOMAIN lignes,
              lignes'[m].cours = lignes[l].cours, lignes'[n].cours = lignes[l].cours
       PROVE  m = n
  <2>1. /\ m - L \in 1..N /\ L + (m - L) = m /\ n - L \in 1..N /\ L + (n - L) = n
    BY <1>13
  <2> DEFINE a == m - L
             b == n - L
  <2>2. a \in 1..N /\ L + a = m /\ b \in 1..N /\ L + b = n
    BY <2>1
  <2> HIDE DEF a, b
  <2>3. nth[a] \in S /\ nth[b] \in S
    BY <1>7, <2>2
  <2>4. lignes'[m].cours = lignes[nth[a]].cours /\ lignes'[n].cours = lignes[nth[b]].cours
    BY <1>9, <1>15, <2>2, <2>3
  <2>5. nth[a] = nth[b]
    BY <1>18, <1>19, <2>3, <2>4
  <2>6. a = b
    BY <1>7, <2>2, <2>5
  <2> QED
    BY <2>2, <2>6
<1>20. Len(lignes') >= Len(lignes)
  BY <1>3, <1>8, <1>11
<1>21. \A l \in DOMAIN lignes : lignes'[l] = lignes[l]
  BY <1>3, <1>11
<1>22. \A l \in S, m, n \in DOMAIN lignes' \ DOMAIN lignes :
         lignes'[m].cours = lignes[l].cours /\ lignes'[n].cours = lignes[l].cours => m = n
  BY <1>19
<1>23. grilles'[G].niveau = grilles[s].niveau /\ grilles'[G].origine = s
  BY <1>4, <1>5
<1> HIDE DEF G
<1> QED
  BY <1>2, <1>5, <1>11, <1>16, <1>17, <1>20, <1>21, <1>22, <1>23 DEF S, G
LEMMA CommitCopyKeeps ==
  ASSUME GridsTyped, GridsInv, legacy' = legacy, NEW k \in Calls, CommitCopy(k)
  PROVE  /\ GridsTyped' /\ GridsInv'
         /\ \A c \in DOMAIN legacy.courses : Homes(c)' = Homes(c)
<1> DEFINE s == job[k].source
           G == Len(grilles) + 1
           S == LignesActives(s)
           New == DOMAIN lignes' \ DOMAIN lignes
<1>1. /\ s \in DOMAIN grilles
      /\ grilles' \in Seq(Grilles) /\ Len(grilles') = G
      /\ \A g \in DOMAIN grilles : grilles'[g] = grilles[g]
      /\ grilles'[G].niveau = grilles[s].niveau /\ grilles'[G].origine = s
      /\ lignes' \in Seq(Lignes) /\ Len(lignes') >= Len(lignes)
      /\ \A l \in DOMAIN lignes : lignes'[l] = lignes[l]
      /\ \A m \in New : \E l \in S : lignes'[m] = [lignes[l] EXCEPT !.grille = G]
      /\ \A l \in S : \E m \in New : lignes'[m] = [lignes[l] EXCEPT !.grille = G]
      /\ \A l \in S, m, n \in New :
           lignes'[m].cours = lignes[l].cours /\ lignes'[n].cours = lignes[l].cours => m = n
  BY CommittedCopy
<1>2. /\ Len(grilles) \in Nat /\ DOMAIN grilles = 1..Len(grilles)
      /\ Len(lignes) \in Nat /\ DOMAIN lignes = 1..Len(lignes)
      /\ Len(lignes') \in Nat /\ DOMAIN lignes' = 1..Len(lignes')
      /\ DOMAIN grilles' = 1..G
  BY <1>1, Rows
<1>3. /\ UNCHANGED <<maxima, job, edits>> /\ at' = [at EXCEPT ![k] = "copied"]
      /\ reserved' = [reserved EXCEPT ![k] = NoKey]
  BY DEF CommitCopy, Go
<1>4. GridsTyped'
  BY <1>1, <1>3 DEF GridsTyped
<1>5. /\ DOMAIN grilles \subseteq DOMAIN grilles' /\ DOMAIN lignes \subseteq DOMAIN lignes'
      /\ G \in DOMAIN grilles' /\ G \notin DOMAIN grilles
      /\ \A g \in DOMAIN grilles' : g \in DOMAIN grilles \/ g = G
  BY <1>1, <1>2
<1>6. S \subseteq LignesDe(s) /\ LignesDe(s) \subseteq DOMAIN lignes /\ s # 0
  BY <1>1, <1>2 DEF LignesActives, LignesDe
<1>7. ASSUME NEW l \in DOMAIN lignes
      PROVE  /\ l \in DOMAIN lignes' /\ lignes'[l] = lignes[l]
             /\ lignes[l].grille \in DOMAIN grilles /\ lignes[l].grille # G
             /\ Original(l)' <=> Original(l)
             /\ LevelOf(l)' = LevelOf(l)
  BY <1>1, <1>5 DEF GridsInv, Anchored, Original, LevelOf
<1> HIDE DEF S, G, New
<1>8. ASSUME NEW m \in New
      PROVE  /\ m \in DOMAIN lignes' /\ ~Original(m)' /\ LevelOf(m)' = grilles[s].niveau
             /\ \E l \in S : /\ lignes'[m].cours = lignes[l].cours
                             /\ lignes'[m].ponderation = lignes[l].ponderation
             /\ lignes'[m].grille = G
             /\ \A l \in DOMAIN lignes : l < m
  <2>1. PICK l \in S : lignes'[m] = [lignes[l] EXCEPT !.grille = G]
    BY <1>1
  <2>2. lignes[l] \in Lignes
    BY <1>6, Rows
  <2>3. /\ lignes'[m].cours = lignes[l].cours /\ lignes'[m].grille = G
        /\ lignes'[m].ponderation = lignes[l].ponderation
    BY <2>1, <2>2 DEF Lignes
  <2>4. m \in DOMAIN lignes' /\ \A j \in DOMAIN lignes : j < m
    BY <1>2 DEF New
  <2> QED
    BY <1>1, <1>6, <2>3, <2>4 DEF Original, LevelOf
<1>9. \A m \in DOMAIN lignes' : m \in DOMAIN lignes \/ m \in New
  BY DEF New
<1>10. Anchored'
  <2>1. \A l \in DOMAIN lignes' : lignes'[l].grille \in DOMAIN grilles'
    BY <1>5, <1>7, <1>8, <1>9
  <2>2. \A m \in maxima' : m.ligne \in DOMAIN lignes'
    BY <1>3, <1>5 DEF GridsInv, Anchored
  <2>3. \A j \in Calls : at'[j] \in Copying => job'[j].source \in DOMAIN grilles'
    <3>1. at \in [Calls -> {"idle", "copied", "refused"} \cup Copying]
      BY DEF GridsTyped
    <3>2. "copied" \notin Copying
      BY DEF Copying
    <3> QED
      BY <1>3, <1>5, <3>1, <3>2 DEF GridsInv, Anchored
  <2>4. ASSUME NEW g \in DOMAIN grilles'
        PROVE  /\ grilles'[g].origine \in 0..Len(grilles')
               /\ grilles'[g].origine = 0 => grilles'[g].annee = OldYear
    <3>1. CASE g \in DOMAIN grilles
      BY <1>1, <1>2, <3>1 DEF GridsInv, Anchored, G
    <3>2. CASE g = G
      BY <1>1, <1>2, <1>6, <3>2 DEF G
    <3> QED
      BY <1>5, <3>1, <3>2
  <2> QED
    BY <2>1, <2>2, <2>3, <2>4 DEF Anchored
<1>11. OneLine'
  <2>1. ASSUME NEW l \in DOMAIN lignes', NEW m \in DOMAIN lignes', lignes'[l].cours = lignes'[m].cours,
               \/ lignes'[l].grille = lignes'[m].grille
               \/ Original(l)' /\ Original(m)' /\ LevelOf(l)' = LevelOf(m)'
        PROVE  l = m
    <3>1. CASE l \in DOMAIN lignes /\ m \in DOMAIN lignes
      BY <1>7, <2>1, <3>1 DEF GridsInv, OneLine
    <3>2. CASE l \in DOMAIN lignes /\ m \in New
      BY <1>7, <1>8, <2>1, <3>2
    <3>3. CASE l \in New /\ m \in DOMAIN lignes
      BY <1>7, <1>8, <2>1, <3>3
    <3>4. CASE l \in New /\ m \in New
      BY <1>1, <1>8, <2>1, <3>4
    <3> QED
      BY <1>9, <3>1, <3>2, <3>3, <3>4
  <2> QED
    BY <2>1 DEF OneLine
<1>12. OneMaximum'
  BY <1>3, <1>7, <1>8, <1>9 DEF GridsInv, OneMaximum, PeriodsOf
<1>13. \A l \in DOMAIN lignes, c \in DOMAIN legacy.courses : Fits(l, c)' <=> Fits(l, c)
  BY <1>7, FitsStays
<1>14. Rooted'
  <2>1. ASSUME NEW l \in DOMAIN lignes
        PROVE  \E c \in DOMAIN legacy.courses :
                 /\ Fits(l, c)' /\ lignes'[l].ponderation = legacy.courses[c].coefficient
                 /\ Original(l)' => \A m \in maxima' : m.ligne = l => m.maximum = legacy.courses[c].max
    BY <1>3, <1>7, <1>13 DEF GridsInv, Rooted
  <2>2. ASSUME NEW m \in New
        PROVE  \E c \in DOMAIN legacy.courses :
                 Fits(m, c)' /\ lignes'[m].ponderation = legacy.courses[c].coefficient
    <3>1. PICK l \in S : /\ lignes'[m].cours = lignes[l].cours
                         /\ lignes'[m].ponderation = lignes[l].ponderation
      BY <1>8
    <3>2. l \in DOMAIN lignes /\ LevelOf(l) = grilles[s].niveau
      BY <1>6, <3>1 DEF LevelOf, LignesDe
    <3>3. PICK c \in DOMAIN legacy.courses :
            Fits(l, c) /\ lignes[l].ponderation = legacy.courses[c].coefficient
      BY <3>2 DEF GridsInv, Rooted
    <3>4. Fits(m, c)'
      BY <1>8, <3>1, <3>2, <3>3 DEF Fits, Survivor
    <3> QED
      BY <3>1, <3>3, <3>4
  <2>3. \A m \in New : ~Original(m)'
    BY <1>8
  <2> QED
    BY <1>9, <2>1, <2>2, <2>3 DEF Rooted
<1>15. OriginalsFirst'
  BY <1>7, <1>8, <1>9 DEF GridsInv, OriginalsFirst
<1>16. Copied'
  <2>1. ASSUME NEW x \in DOMAIN grilles PROVE LignesDe(x)' = LignesDe(x) /\ LignesActives(x)' = LignesActives(x)
    <3>1. x # G
      BY <1>5
    <3>2. LignesDe(x)' = LignesDe(x)
      BY <1>7, <1>8, <1>9, <3>1 DEF LignesDe
    <3> QED
      BY <1>7, <3>2 DEF LignesActives, LignesDe
  <2>2. \A x : LignesDe(x) \subseteq DOMAIN lignes /\ LignesActives(x) \subseteq DOMAIN lignes
    BY DEF LignesDe, LignesActives
  <2>3. ASSUME NEW g \in DOMAIN grilles, NEW x \in DOMAIN grilles, Mirrors(x, g) PROVE Mirrors(x, g)'
    BY <1>7, <2>1, <2>2, <2>3 DEF Mirrors
  <2>4. ASSUME NEW x, NEW y, x = s, y = G PROVE Mirrors(x, y)'
    <3>1. LignesDe(y)' = New
      BY <1>7, <1>8, <1>9, <2>4 DEF LignesDe, New
    <3>2. LignesActives(x)' = S /\ LignesDe(x)' = LignesDe(s)
      BY <1>1, <2>1, <2>4 DEF S
    <3>3. \A l \in S : \E m \in New : /\ lignes'[m].cours = lignes[l].cours
                                      /\ lignes'[m].ponderation = lignes[l].ponderation
      <4>1. ASSUME NEW l \in S PROVE \E m \in New : /\ lignes'[m].cours = lignes[l].cours
                                                    /\ lignes'[m].ponderation = lignes[l].ponderation
        <5>1. lignes[l] \in Lignes
          BY <1>6, Rows
        <5>2. PICK m \in New : lignes'[m] = [lignes[l] EXCEPT !.grille = G]
          BY <1>1
        <5> QED
          BY <5>1, <5>2 DEF Lignes
      <4> QED
        BY <4>1
    <3> QED
      BY <1>6, <1>7, <1>8, <3>1, <3>2, <3>3 DEF Mirrors
  <2>5. ASSUME NEW g \in DOMAIN grilles', grilles'[g].origine # 0
        PROVE  \E x \in DOMAIN grilles : grilles'[g].origine = x /\ Mirrors(x, g)'
    <3>1. CASE g \in DOMAIN grilles
      <4>1. grilles'[g] = grilles[g] /\ grilles[g].origine \in 0..Len(grilles)
        BY <1>1, <3>1 DEF GridsInv, Anchored
      <4>2. grilles[g].origine \in DOMAIN grilles
        BY <1>2, <2>5, <4>1
      <4>3. Mirrors(grilles[g].origine, g)
        BY <2>5, <3>1, <4>1 DEF GridsInv, Copied
      <4> DEFINE x == grilles[g].origine
      <4> HIDE DEF x
      <4> QED
        BY <2>3, <3>1, <4>1, <4>2, <4>3
    <3>2. CASE g = G
      <4>1. s \in DOMAIN grilles /\ grilles'[g].origine = s
        BY <1>1, <3>2
      <4>2. ASSUME NEW x, x = s PROVE Mirrors(x, g)'
        BY <2>4, <3>2, <4>2
      <4> QED
        BY <4>1, <4>2
    <3> QED
      BY <1>5, <3>1, <3>2
  <2> QED
    BY <2>5 DEF Copied
<1>17. ASSUME NEW c \in DOMAIN legacy.courses PROVE Homes(c)' = Homes(c)
  BY <1>7, <1>8, <1>9, <1>13 DEF Homes
<1> QED
  BY <1>4, <1>10, <1>11, <1>12, <1>14, <1>15, <1>16, <1>17 DEF GridsInv
(* The lines the migration made have a maximum in each of their periods,   *)
(* so a new one is never theirs.                                           *)
LEMMA SetMaximumKeeps ==
  ASSUME GridsTyped, GridsInv, legacy' = legacy,
         NEW l \in DOMAIN lignes, NEW p \in Periods, NEW m \in Scales, SetMaximum(l, p, m)
  PROVE  /\ GridsTyped' /\ GridsInv'
         /\ \A c \in DOMAIN legacy.courses : Homes(c)' = Homes(c)
<1> DEFINE new == [ligne |-> l, periode |-> p, maximum |-> m]
<1>1. /\ maxima' = maxima \cup {new} /\ edits < MaxEdits /\ edits' = edits + 1
      /\ YearOf[p] = grilles[lignes[l].grille].annee
      /\ UNCHANGED <<grilles, lignes, at, job, reserved>>
  BY DEF SetMaximum, Edit, duplication
<1>2. \A n \in maxima : ~(n.ligne = l /\ n.periode = p)
  <2>1. MaximumPour(l, p) = {}
    BY DEF SetMaximum
  <2> QED
    BY <2>1 DEF MaximumPour
<1>3. new \in Maxima /\ new.ligne = l /\ new.periode = p
  BY Rows DEF Maxima
<1> HIDE DEF new
<1>4. ~Original(l)
  <2>1. SUFFICES ASSUME Original(l) PROVE FALSE
    OBVIOUS
  <2>2. lignes[l].grille \in DOMAIN grilles
    BY DEF GridsInv, Anchored
  <2>3. YearOf[p] = OldYear
    BY <1>1, <2>1, <2>2 DEF GridsInv, Anchored, Original
  <2>4. \E n \in maxima : n.ligne = l /\ n.periode = p
    BY <2>1, <2>3 DEF GridsInv, OneMaximum, PeriodsOf
  <2> QED
    BY <1>2, <2>4
<1>5. GridsTyped'
  <2>1. edits' \in 0..MaxEdits
    BY <1>1, GridsAssumption DEF GridsTyped
  <2> QED
    BY <1>1, <1>3, <2>1 DEF GridsTyped
<1>6. Anchored'
  BY <1>1, <1>3 DEF GridsInv, Anchored
<1>7. OneLine'
  BY <1>1 DEF GridsInv, OneLine, Original, LevelOf
<1>8. OneMaximum'
  BY <1>1, <1>2, <1>3 DEF GridsInv, OneMaximum, Original, PeriodsOf
<1>9. \A j \in DOMAIN lignes : \A c : Fits(j, c)' <=> Fits(j, c)
  BY <1>1 DEF Fits, LevelOf, Survivor
<1>10. \A j : Original(j)' <=> Original(j)
  BY <1>1 DEF Original
<1>11. Rooted'
  BY <1>1, <1>3, <1>4, <1>9, <1>10 DEF GridsInv, Rooted
<1>12. OriginalsFirst'
  BY <1>1, <1>10 DEF GridsInv, OriginalsFirst
<1>13. Copied'
  BY <1>1 DEF GridsInv, Copied, Mirrors, LignesDe, LignesActives
<1>14. \A c \in DOMAIN legacy.courses : Homes(c)' = Homes(c)
  BY <1>1, <1>9, <1>10 DEF Homes
<1> QED
  BY <1>5, <1>6, <1>7, <1>8, <1>11, <1>12, <1>13, <1>14 DEF GridsInv

(* The work with the grids keeps what the migration set up. *)
LEMMA GridStepKeeps ==
  ASSUME GridsTyped, GridsInv, legacy' = legacy, GridStep
  PROVE  /\ GridsTyped' /\ GridsInv'
         /\ \A c \in DOMAIN legacy.courses : Homes(c)' = Homes(c)
<1>1. CASE \E k \in Calls : CommitCopy(k)
  BY <1>1, CommitCopyKeeps
<1>2. CASE \E l \in DOMAIN lignes, p \in Periods, m \in Scales : SetMaximum(l, p, m)
  BY <1>2, SetMaximumKeeps
<1>3. CASE \/ \E k \in Calls :
                \/ \E g \in DOMAIN grilles, y \in Years : AskCopy(k, g, y)
                \/ Reserve(k) \/ ReserveCollision(k) \/ CrashCopy(k)
           \/ \E g \in DOMAIN grilles : ArchiveGrid(g)
           \/ \E l \in DOMAIN lignes : ArchiveLine(l)
  BY <1>3, ReshapingSteps, ReshapedKeeps
<1> QED
  BY <1>1, <1>2, <1>3 DEF GridStep
-----------------------------------------------------------------------------
(* While the migration runs, its grids are the only ones. *)
LEMMA OwnGrids ==
  ASSUME GridsTyped, GridsInv, PhaseInv, phase = "backfill"
  PROVE  /\ \A g \in DOMAIN grilles : grilles[g].origine = 0 /\ grilles[g].annee = OldYear
         /\ \A l \in DOMAIN lignes : Original(l) /\ lignes[l].grille \in DOMAIN grilles
BY DEF GridsInv, Anchored, PhaseInv, Original

(* One turn of the loop finds or makes the grid of the class's level. *)
LEMMA BackfillGrid ==
  ASSUME WellFormed(legacy), GridsTyped, GridsInv, PhaseInv, NEW c \in DOMAIN legacy.courses,
         Backfill(c)
  PROVE  LET niveau == legacy.level[legacy.courses[c].classe]
             grid == IF GridOf(niveau) = {} THEN Len(grilles) + 1
                     ELSE CHOOSE g \in GridOf(niveau) : TRUE
         IN  /\ courses = legacy.courses
             /\ niveau \in Levels
             /\ grid \in DOMAIN grilles' /\ grilles'[grid].niveau = niveau
             /\ grilles' \in Seq(Grilles)
             /\ DOMAIN grilles \subseteq DOMAIN grilles'
             /\ \A g \in DOMAIN grilles : grilles'[g] = grilles[g]
             /\ \A g \in DOMAIN grilles' : grilles'[g].origine = 0 /\ grilles'[g].annee = OldYear
<1> DEFINE niveau == legacy.level[legacy.courses[c].classe]
           grid == IF GridOf(niveau) = {} THEN Len(grilles) + 1
                   ELSE CHOOSE g \in GridOf(niveau) : TRUE
<1>1. phase = "backfill" /\ courses = legacy.courses
  BY DEF Backfill, PhaseInv, NotMoved
<1>2. grilles' = IF GridOf(niveau) = {} THEN Append(grilles, NewGrid(niveau)) ELSE grilles
  BY <1>1 DEF Backfill
<1>3. niveau \in Levels
  BY DEF WellFormed, OldCourses
<1> HIDE DEF niveau
<1>4. NewGrid(niveau) \in Grilles
  BY <1>3, MigrationAssumption DEF NewGrid, Grilles
<1>5. NewGrid(niveau).niveau = niveau /\ NewGrid(niveau).origine = 0 /\ NewGrid(niveau).annee = OldYear
  BY DEF NewGrid
<1>6. /\ grilles \in Seq(Grilles) /\ Len(grilles) \in Nat /\ DOMAIN grilles = 1..Len(grilles)
      /\ \A g \in DOMAIN grilles : grilles[g].origine = 0 /\ grilles[g].annee = OldYear
  BY <1>1, OwnGrids, Rows DEF GridsTyped
<1>7. CASE GridOf(niveau) = {}
  <2>1. grilles' = Append(grilles, NewGrid(niveau)) /\ grid = Len(grilles) + 1
    BY <1>2, <1>7
  <2>2. /\ grilles' \in Seq(Grilles) /\ Len(grilles') = Len(grilles) + 1
        /\ grilles'[grid] = NewGrid(niveau)
        /\ \A g \in DOMAIN grilles : grilles'[g] = grilles[g]
    BY <1>4, <1>6, <2>1, AppendProperties
  <2>3. DOMAIN grilles' = 1..(Len(grilles) + 1)
    BY <2>2
  <2>4. \A g \in DOMAIN grilles' : g \in DOMAIN grilles \/ g = grid
    BY <1>6, <2>1, <2>3
  <2>5. grid \in DOMAIN grilles' /\ DOMAIN grilles \subseteq DOMAIN grilles'
    BY <1>6, <2>1, <2>3
  <2> HIDE DEF grid
  <2> QED
    BY <1>1, <1>3, <1>5, <1>6, <2>2, <2>4, <2>5 DEF niveau, grid
<1>8. CASE GridOf(niveau) # {}
  <2>1. grilles' = grilles /\ grid \in GridOf(niveau)
    BY <1>2, <1>8
  <2> HIDE DEF grid
  <2> QED
    BY <1>1, <1>3, <1>6, <2>1 DEF GridOf, niveau, grid
<1> QED
  BY <1>7, <1>8

(* ... and its line for the code, exactly one for the course and those of  *)
(* its subject and level.                                                  *)
LEMMA BackfillKeeps ==
  ASSUME WellFormed(legacy), GridsTyped, GridsInv, PhaseInv, NEW c \in DOMAIN legacy.courses,
         Backfill(c)
  PROVE  /\ GridsTyped' /\ GridsInv'
         /\ \A d \in DOMAIN lineOf' : d \in DOMAIN legacy.courses => Homes(d)' = {lineOf'[d]}
         /\ \A d \in DOMAIN lineOf' : d \in DOMAIN lineOf \/ d = c
         /\ \A d \in DOMAIN lineOf' : d \in DOMAIN legacy.courses => lineOf'[d] \in DOMAIN lignes'
<1> DEFINE niveau == legacy.level[legacy.courses[c].classe]
           code == legacy.courses[c].code
           grid == IF GridOf(niveau) = {} THEN Len(grilles) + 1
                   ELSE CHOOSE g \in GridOf(niveau) : TRUE
           line == LineFor(niveau, code)
           id == IF line = {} THEN Len(lignes) + 1 ELSE CHOOSE l \in line : TRUE
<1>1. /\ courses = legacy.courses
      /\ niveau \in Levels
      /\ grid \in DOMAIN grilles' /\ grilles'[grid].niveau = niveau
      /\ grilles' \in Seq(Grilles)
      /\ DOMAIN grilles \subseteq DOMAIN grilles'
      /\ \A g \in DOMAIN grilles : grilles'[g] = grilles[g]
      /\ \A g \in DOMAIN grilles' : grilles'[g].origine = 0 /\ grilles'[g].annee = OldYear
  BY BackfillGrid
<1>2. /\ phase = "backfill" /\ c \in remaining
      /\ lineOf' = [d \in DOMAIN lineOf \cup {c} |-> IF d = c THEN id ELSE lineOf[d]]
      /\ UNCHANGED <<edits, at, job, reserved, legacy>>
  BY <1>1 DEF Backfill, duplication
<1>3. IF line = {}
      THEN lignes' = Append(lignes, NewLine(c, grid)) /\ maxima' = maxima \cup MaximaOf(c, id)
      ELSE lignes' = lignes /\ maxima' = maxima
  BY <1>1 DEF Backfill
<1>4. /\ \A l \in DOMAIN lignes : Original(l) /\ lignes[l].grille \in DOMAIN grilles
      /\ lignes \in Seq(Lignes) /\ Len(lignes) \in Nat /\ DOMAIN lignes = 1..Len(lignes)
      /\ \A l \in DOMAIN lignes : lignes[l] \in Lignes
  BY <1>2, OwnGrids, Rows DEF GridsTyped
<1> DEFINE hers == [grille |-> grid, cours |-> Survivor(code),
                    ponderation |-> legacy.courses[c].coefficient, archivee |-> FALSE]
<1>5. NewLine(c, grid) = hers /\ hers \in Lignes /\ legacy.courses[c].max \in Scales
  <2>1. grid \in Nat \ {0}
    <3>1. DOMAIN grilles' = 1..Len(grilles') /\ Len(grilles') \in Nat
      BY <1>1
    <3> HIDE DEF grid
    <3> QED
      BY <1>1, <3>1
  <2> HIDE DEF grid
  <2>2. Survivor(code) \in Catalog
    BY SurvivorOf DEF WellFormed
  <2>3. legacy.courses[c].coefficient \in Scales /\ legacy.courses[c].max \in Scales
    BY DEF WellFormed, OldCourses
  <2> QED
    BY <1>1, <2>1, <2>2, <2>3 DEF NewLine, Lignes
<1>6. \A l \in DOMAIN lignes : Fits(l, c) <=> l \in line
  BY DEF Fits, LineFor, LevelOf
<1>7. ASSUME NEW l \in DOMAIN lignes, l \in DOMAIN lignes', lignes'[l] = lignes[l]
      PROVE  Original(l)' /\ LevelOf(l)' = LevelOf(l) /\ \A d : Fits(l, d)' <=> Fits(l, d)
  <2>1. lignes[l].grille \in DOMAIN grilles
    BY <1>4
  <2>2. Original(l)' /\ LevelOf(l)' = LevelOf(l)
    BY <1>1, <1>7, <2>1 DEF Original, LevelOf
  <2> QED
    BY <1>2, <1>7, <2>2, FitsStays
<1>8. ASSUME NEW l \in DOMAIN lignes, NEW m \in DOMAIN lignes,
             lignes[l].cours = lignes[m].cours, LevelOf(l) = LevelOf(m)
      PROVE  l = m
  BY <1>4, <1>8 DEF GridsInv, OneLine
<1> HIDE DEF grid, line
<1>9. CASE line # {}
  <2>1. id \in line /\ lignes' = lignes /\ maxima' = maxima
    BY <1>3, <1>9
  <2> HIDE DEF id
  <2>2. id \in DOMAIN lignes /\ Fits(id, c)
    BY <1>6, <2>1 DEF line, LineFor
  <2>3. GridsTyped'
    BY <1>1, <1>2, <2>1 DEF GridsTyped
  <2>4. \A l \in DOMAIN lignes : Original(l)' /\ LevelOf(l)' = LevelOf(l) /\ \A d : Fits(l, d)' <=> Fits(l, d)
    BY <1>7, <2>1
  <2>5. GridsInv'
    <3>1. Anchored'
      <4>1. \A k \in Calls : at'[k] \notin Copying
        BY <1>2 DEF PhaseInv, Copying
      <4>2. Len(grilles') \in Nat
        BY <1>1
      <4> QED
        BY <1>1, <1>4, <2>1, <4>1, <4>2 DEF GridsInv, Anchored
    <3>2. OneLine'
      BY <1>4, <2>1, <2>4 DEF GridsInv, OneLine
    <3>3. OneMaximum'
      BY <1>4, <2>1, <2>4 DEF GridsInv, OneMaximum, PeriodsOf
    <3>4. Rooted'
      BY <1>2, <1>4, <2>1, <2>4 DEF GridsInv, Rooted
    <3>5. OriginalsFirst'
      BY <2>1, <2>4 DEF OriginalsFirst
    <3>6. Copied'
      BY <1>1 DEF Copied
    <3> QED
      BY <3>1, <3>2, <3>3, <3>4, <3>5, <3>6 DEF GridsInv
  <2>6. \A d : Homes(d)' = Homes(d)
    BY <1>4, <2>1, <2>4 DEF Homes
  <2>7. Homes(c) = {id}
    BY <1>4, <1>8, <2>2 DEF Homes, Fits
  <2>8. \A d \in DOMAIN lineOf : Homes(d) = {lineOf[d]}
    BY <1>2 DEF PhaseInv
  <2>9. /\ \A d \in DOMAIN lineOf' : Homes(d)' = {lineOf'[d]}
        /\ \A d \in DOMAIN lineOf' : d \in DOMAIN lineOf \/ d = c
    BY <1>2, <2>6, <2>7, <2>8
  <2>10. \A d \in DOMAIN lineOf' : lineOf'[d] \in DOMAIN lignes'
    BY <2>9 DEF Homes
  <2> QED
    BY <2>3, <2>5, <2>9, <2>10
<1>10. CASE line = {}
  <2>1. PICK n : n = id
    OBVIOUS
  <2>0. /\ n = Len(lignes) + 1 /\ lignes' = Append(lignes, hers)
        /\ maxima' = maxima \cup MaximaOf(c, n)
    BY <1>3, <1>5, <1>10, <2>1
  <2> HIDE DEF id
  <2>2. /\ lignes' \in Seq(Lignes) /\ lignes'[n] = hers
        /\ \A l \in DOMAIN lignes : lignes'[l] = lignes[l]
        /\ Len(lignes') = Len(lignes) + 1
    <3> HIDE DEF hers
    <3> QED
      BY <1>4, <1>5, <2>0, AppendProperties
  <2>3. /\ DOMAIN lignes' = 1..(Len(lignes) + 1) /\ n \in DOMAIN lignes' /\ n \notin DOMAIN lignes
        /\ DOMAIN lignes \subseteq DOMAIN lignes'
        /\ \A l \in DOMAIN lignes' : l \in DOMAIN lignes \/ l = n
    BY <1>4, <2>0, <2>2
  <2>4. \A l \in DOMAIN lignes : Original(l)' /\ LevelOf(l)' = LevelOf(l) /\ \A d : Fits(l, d)' <=> Fits(l, d)
    BY <1>7, <2>2, <2>3
  <2>5. /\ Original(n)' /\ LevelOf(n)' = niveau /\ lignes'[n].grille = grid
        /\ lignes'[n].cours = Survivor(code)
        /\ lignes'[n].ponderation = legacy.courses[c].coefficient
    BY <1>1, <2>2 DEF Original, LevelOf
  <2> HIDE DEF hers
  <2>6. Fits(n, c)'
    BY <1>2, <2>5 DEF Fits, Survivor
  <2>7. \A m \in MaximaOf(c, n) : /\ m \in Maxima /\ m.ligne = n /\ YearOf[m.periode] = OldYear
                                   /\ m.maximum = legacy.courses[c].max
    <3>1. n \in Nat \ {0}
      BY <1>4, <2>0
    <3> QED
      BY <1>1, <1>5, <3>1 DEF MaximaOf, Maxima, PeriodsOf
  <2>8. \A m, o \in MaximaOf(c, n) : m.periode = o.periode => m = o
    <3>1. \A m \in MaximaOf(c, n) :
            m = [ligne |-> n, periode |-> m.periode, maximum |-> courses[c].max]
      BY DEF MaximaOf
    <3> QED
      BY <3>1
  <2>9. \A p \in PeriodsOf(OldYear) : \E m \in MaximaOf(c, n) : m.ligne = n /\ m.periode = p
    <3>1. ASSUME NEW p \in PeriodsOf(OldYear)
          PROVE  [ligne |-> n, periode |-> p, maximum |-> courses[c].max] \in MaximaOf(c, n)
      BY DEF MaximaOf
    <3> QED
      BY <3>1
  <2>10. \A m \in maxima : m.ligne \in DOMAIN lignes
    BY DEF GridsInv, Anchored
  <2>11. GridsTyped'
    BY <1>1, <1>2, <2>0, <2>2, <2>7 DEF GridsTyped
  <2>12. \A l \in DOMAIN lignes : ~Fits(l, c)
    BY <1>6, <1>10
  <2>13. \A l \in DOMAIN lignes : ~(lignes[l].cours = Survivor(code) /\ LevelOf(l) = niveau)
    BY <2>12 DEF Fits
  <2>14. GridsInv'
    <3>1. Anchored'
      <4>1. \A k \in Calls : at'[k] \notin Copying
        BY <1>2 DEF PhaseInv, Copying
      <4>2. Len(grilles') \in Nat
        BY <1>1
      <4>3. \A l \in DOMAIN lignes' : lignes'[l].grille \in DOMAIN grilles'
        BY <1>1, <1>4, <2>2, <2>3, <2>5
      <4>4. \A m \in maxima' : m.ligne \in DOMAIN lignes'
        BY <2>0, <2>3, <2>7, <2>10
      <4> QED
        BY <1>1, <4>1, <4>2, <4>3, <4>4 DEF Anchored
    <3>2. OneLine'
      <4>1. ASSUME NEW l \in DOMAIN lignes, lignes'[l].cours = lignes'[n].cours,
                   lignes'[l].grille = lignes'[n].grille \/ LevelOf(l)' = LevelOf(n)'
            PROVE  FALSE
        <5>1. LevelOf(l)' = LevelOf(n)'
          BY <4>1 DEF LevelOf
        <5> QED
          BY <2>2, <2>4, <2>5, <2>13, <4>1, <5>1
      <4>2. \A l, m \in DOMAIN lignes :
              /\ lignes'[l].cours = lignes'[m].cours
              /\ lignes'[l].grille = lignes'[m].grille \/ LevelOf(l)' = LevelOf(m)'
              => l = m
        BY <1>8, <2>2, <2>4 DEF LevelOf
      <4> QED
        BY <2>3, <4>1, <4>2 DEF OneLine
    <3>3. OneMaximum'
      <4>1. ASSUME NEW m \in maxima', NEW o \in maxima', m.ligne = o.ligne, m.periode = o.periode
            PROVE  m = o
        <5>1. CASE m \in maxima /\ o \in maxima
          BY <4>1, <5>1 DEF GridsInv, OneMaximum
        <5>2. CASE m \in MaximaOf(c, n) /\ o \in MaximaOf(c, n)
          BY <2>8, <4>1, <5>2
        <5>3. ~(m \in maxima /\ o \in MaximaOf(c, n)) /\ ~(o \in maxima /\ m \in MaximaOf(c, n))
          BY <2>3, <2>7, <2>10, <4>1
        <5> QED
          BY <2>0, <5>1, <5>2, <5>3
      <4>2. ASSUME NEW l \in DOMAIN lignes', NEW p \in PeriodsOf(OldYear)
            PROVE  \E m \in maxima' : m.ligne = l /\ m.periode = p
        <5>1. CASE l \in DOMAIN lignes
          BY <1>4, <2>0, <5>1 DEF GridsInv, OneMaximum
        <5>2. CASE l = n
          BY <2>0, <2>9, <5>2
        <5> QED
          BY <2>3, <5>1, <5>2
      <4> QED
        BY <4>1, <4>2 DEF OneMaximum, PeriodsOf
    <3>4. Rooted'
      <4>1. ASSUME NEW l \in DOMAIN lignes
            PROVE  \E d \in DOMAIN legacy.courses :
                     /\ Fits(l, d)' /\ lignes'[l].ponderation = legacy.courses[d].coefficient
                     /\ \A m \in maxima' : m.ligne = l => m.maximum = legacy.courses[d].max
        <5>1. \A m \in maxima' : m.ligne = l => m \in maxima
          BY <2>0, <2>3, <2>7
        <5> QED
          BY <1>4, <2>2, <2>4, <5>1 DEF GridsInv, Rooted
      <4>2. \A m \in maxima' : m.ligne = n => m.maximum = legacy.courses[c].max
        BY <2>0, <2>3, <2>7, <2>10
      <4> QED
        BY <1>2, <2>3, <2>5, <2>6, <4>1, <4>2 DEF Rooted
    <3>5. OriginalsFirst'
      BY <2>3, <2>4, <2>5 DEF OriginalsFirst
    <3>6. Copied'
      BY <1>1 DEF Copied
    <3> QED
      BY <3>1, <3>2, <3>3, <3>4, <3>5, <3>6 DEF GridsInv
  <2>15. \A d \in DOMAIN lineOf : Homes(d) = {lineOf[d]}
    BY <1>2 DEF PhaseInv
  <2>16. Homes(c)' = {n}
    BY <2>3, <2>4, <2>5, <2>6, <2>12 DEF Homes
  <2>17. ASSUME NEW d \in DOMAIN lineOf PROVE Homes(d)' = Homes(d)
    <3>1. ~Fits(n, d)'
      <4>1. SUFFICES ASSUME Fits(n, d)' PROVE FALSE
        OBVIOUS
      <4>2. lineOf[d] \in DOMAIN lignes /\ Fits(lineOf[d], d)
        BY <2>15 DEF Homes
      <4>3. /\ Survivor(legacy.courses[d].code) = Survivor(code)
            /\ legacy.level[legacy.courses[d].classe] = niveau
        BY <1>2, <2>5, <4>1 DEF Fits, Survivor
      <4> QED
        BY <2>13, <4>2, <4>3 DEF Fits
    <3> QED
      BY <1>4, <2>3, <2>4, <3>1 DEF Homes
  <2>18. /\ \A d \in DOMAIN lineOf' : Homes(d)' = {lineOf'[d]}
         /\ \A d \in DOMAIN lineOf' : d \in DOMAIN lineOf \/ d = c
    BY <1>2, <2>1, <2>15, <2>16, <2>17
  <2>19. \A d \in DOMAIN lineOf' : lineOf'[d] \in DOMAIN lignes'
    BY <2>18 DEF Homes
  <2> QED
    BY <2>11, <2>14, <2>18, <2>19
<1> QED
  BY <1>9, <1>10
-----------------------------------------------------------------------------
(* The rows that refer to courses, of each of the three tables. *)
Tables == {Taught, Graded, Logged}

LEMMA Referring ==
  ASSUME NEW K \in Tables, NEW r \in K, NEW x \in Nat
  PROVE  /\ [r EXCEPT !.ref = x] \in K
         /\ [r EXCEPT !.ref = x].ref = x
         /\ [r EXCEPT !.ref = x].classe = r.classe
         /\ [r EXCEPT !.ref = r.ref] = r
         /\ r.ref \in Nat
<1>1. CASE K = Taught
  BY <1>1 DEF Taught
<1>2. CASE K = Graded
  BY <1>2 DEF Graded
<1>3. CASE K = Logged
  BY <1>3 DEF Logged
<1> QED
  BY <1>1, <1>2, <1>3 DEF Tables

LEMMA ReferringTwice ==
  ASSUME NEW K \in Tables, NEW r \in K, NEW x, NEW y
  PROVE  [[r EXCEPT !.ref = x] EXCEPT !.ref = y] = [r EXCEPT !.ref = y]
<1>1. CASE K = Taught
  BY <1>1 DEF Taught
<1>2. CASE K = Graded
  BY <1>2 DEF Graded
<1>3. CASE K = Logged
  BY <1>3 DEF Logged
<1> QED
  BY <1>1, <1>2, <1>3 DEF Tables

LEMMA ReferringAlike ==
  ASSUME NEW K \in Tables, NEW r \in K, NEW q \in K, NEW x,
         [r EXCEPT !.ref = x] = [q EXCEPT !.ref = x], r.ref = q.ref
  PROVE  r = q
<1>1. [[r EXCEPT !.ref = x] EXCEPT !.ref = r.ref] = [[q EXCEPT !.ref = x] EXCEPT !.ref = q.ref]
  OBVIOUS
<1>2. [r EXCEPT !.ref = r.ref] = r /\ [q EXCEPT !.ref = q.ref] = q
  BY Referring
<1> QED
  BY <1>1, <1>2, ReferringTwice
(* Rows of a table, as the migration found them. *)
Referents(old, K) ==
  /\ old \subseteq K /\ IsFiniteSet(old)
  /\ \A r \in old : r.ref \in DOMAIN legacy.courses /\ r.classe = legacy.courses[r.ref].classe

LEMMA LegacyTables ==
  ASSUME WellFormed(legacy)
  PROVE  /\ Taught \in Tables /\ Graded \in Tables /\ Logged \in Tables
         /\ Referents(legacy.taught, Taught)
         /\ Referents(legacy.graded, Graded)
         /\ Referents(legacy.logged, Logged)
BY DEF WellFormed, Referents, Tables

(* A remapping that keeps the codes of the courses neither loses nor       *)
(* merges rows: a class has a code once.                                   *)
LEMMA Pointing ==
  ASSUME WellFormed(legacy), NEW K \in Tables, NEW old, Referents(old, K),
         NEW h \in [DOMAIN legacy.courses -> Nat],
         \A c \in DOMAIN legacy.courses : CodeOf(h[c]) = legacy.courses[c].code,
         Migrated => \A c \in DOMAIN legacy.courses :
                       LevelOf(h[c]) = legacy.level[legacy.courses[c].classe]
  PROVE  Pointed(old, h) \subseteq K /\ SameRows(old, Pointed(old, h))
<1> DEFINE moved == [r \in old |-> [r EXCEPT !.ref = h[r.ref]]]
           new == Pointed(old, h)
<1>1. \A r \in old : /\ r \in K /\ r.ref \in DOMAIN legacy.courses
                     /\ r.classe = legacy.courses[r.ref].classe /\ h[r.ref] \in Nat
  BY DEF Referents
<1>2. ASSUME NEW r \in old
      PROVE  /\ moved[r] \in K /\ moved[r].ref = h[r.ref] /\ moved[r].classe = r.classe
             /\ \A y : [moved[r] EXCEPT !.ref = y] = [r EXCEPT !.ref = y]
  <2>1. PICK x \in Nat : x = h[r.ref]
    BY <1>1
  <2>2. moved[r] = [r EXCEPT !.ref = x]
    BY <2>1
  <2>3. [r EXCEPT !.ref = x] \in K /\ [r EXCEPT !.ref = x].ref = x /\ [r EXCEPT !.ref = x].classe = r.classe
    BY <1>1, Referring
  <2>4. ASSUME NEW y PROVE [moved[r] EXCEPT !.ref = y] = [r EXCEPT !.ref = y]
    BY <1>1, <2>2, ReferringTwice, Zenon
  <2> HIDE DEF moved
  <2> QED
    BY <2>1, <2>2, <2>3, <2>4, Zenon
<1>3. new = {moved[r] : r \in old}
  BY DEF Pointed
<1> HIDE DEF moved, new
<1>4. ASSUME NEW r \in old, NEW q \in old, moved[r] = moved[q] PROVE r = q
  <2>1. h[r.ref] = h[q.ref] /\ r.classe = q.classe
    BY <1>2, <1>4
  <2>2. r.ref = q.ref
    <3>1. /\ CodeOf(h[r.ref]) = legacy.courses[r.ref].code
          /\ CodeOf(h[q.ref]) = legacy.courses[q.ref].code
      BY <1>1
    <3>2. legacy.courses[r.ref].code = legacy.courses[q.ref].code
      BY <2>1, <3>1, Zenon
    <3>3. legacy.courses[r.ref].classe = legacy.courses[q.ref].classe
      BY <1>1, <2>1
    <3> QED
      BY <1>1, <3>2, <3>3 DEF WellFormed
  <2>3. [r EXCEPT !.ref = 0] = [q EXCEPT !.ref = 0]
    <3>1. /\ [moved[r] EXCEPT !.ref = 0] = [r EXCEPT !.ref = 0]
          /\ [moved[q] EXCEPT !.ref = 0] = [q EXCEPT !.ref = 0]
      BY <1>2, Zenon
    <3>2. [moved[r] EXCEPT !.ref = 0] = [moved[q] EXCEPT !.ref = 0]
      BY <1>4, Zenon
    <3> QED
      BY <3>1, <3>2, Zenon
  <2> QED
    BY <1>1, <2>2, <2>3, ReferringAlike
<1>5. moved \in Surjection(old, new)
  BY <1>3 DEF Surjection, moved
<1>6. moved \in Injection(old, new)
  BY <1>4, <1>5 DEF Injection, IsInjective, Surjection
<1>7. Cardinality(old) = Cardinality(new)
  BY <1>5, <1>6, FS_Surjection DEF Referents
<1>8. ASSUME NEW o \in old
      PROVE  \E n \in new :
               /\ [o EXCEPT !.ref = 0] = [n EXCEPT !.ref = 0]
               /\ CodeOf(n.ref) = legacy.courses[o.ref].code
               /\ Migrated => LevelOf(n.ref) = legacy.level[o.classe]
  <2>1. moved[o] \in new
    BY <1>3
  <2>2. [o EXCEPT !.ref = 0] = [moved[o] EXCEPT !.ref = 0]
    BY <1>2, Zenon
  <2>3. CodeOf(moved[o].ref) = legacy.courses[o.ref].code
    BY <1>1, <1>2
  <2>4. Migrated => LevelOf(moved[o].ref) = legacy.level[o.classe]
    BY <1>1, <1>2
  <2> QED
    BY <2>1, <2>2, <2>3, <2>4, Zenon
<1>9. new \subseteq K
  BY <1>2, <1>3
<1> QED
  BY <1>7, <1>8, <1>9 DEF SameRows, new

LEMMA PointedAtItself ==
  ASSUME NEW K \in Tables, NEW old, Referents(old, K),
         NEW h, \A c \in DOMAIN legacy.courses : h[c] = c
  PROVE  Pointed(old, h) = old
<1>1. ASSUME NEW r \in old PROVE [r EXCEPT !.ref = h[r.ref]] = r
  <2>1. r \in K /\ h[r.ref] = r.ref
    BY DEF Referents
  <2> QED
    BY <2>1, Referring
<1> QED
  BY <1>1 DEF Pointed
LEMMA Homed ==
  ASSUME GridsTyped, WellFormed(legacy), \A c \in DOMAIN legacy.courses : Homes(c) # {}
  PROVE  /\ Homing \in [DOMAIN legacy.courses -> Nat]
         /\ \A c \in DOMAIN legacy.courses : Homing[c] = Home(c) /\ Home(c) \in Homes(c)
<1>1. \A c \in DOMAIN legacy.courses : Home(c) \in Homes(c)
  BY DEF Home
<1>2. \A c \in DOMAIN legacy.courses : Home(c) \in Nat
  BY <1>1, Rows DEF Homes
<1> QED
  BY <1>1, <1>2 DEF Homing

LEMMA Survivors ==
  ASSUME WellFormed(legacy)
  PROVE  /\ Surviving \in [DOMAIN legacy.courses -> Nat]
         /\ \A c \in DOMAIN legacy.courses :
              /\ Surviving[c] = Survivor(legacy.courses[c].code)
              /\ Surviving[c] \in DOMAIN legacy.courses
              /\ legacy.courses[Surviving[c]].code = legacy.courses[c].code
<1>1. ASSUME NEW c \in DOMAIN legacy.courses
      PROVE  /\ Surviving[c] = Survivor(legacy.courses[c].code)
             /\ Surviving[c] \in DOMAIN legacy.courses
             /\ legacy.courses[Surviving[c]].code = legacy.courses[c].code
  BY SurvivorOf DEF Surviving
<1>2. \A c \in DOMAIN legacy.courses : Surviving[c] \in Nat
  BY <1>1, GridsAssumption DEF WellFormed
<1> QED
  BY <1>1, <1>2 DEF Surviving

(* What the catalog says of the course of a line. *)
LEMMA CatalogueOf ==
  ASSUME WellFormed(legacy), NEW c \in DOMAIN legacy.courses
  PROVE  /\ Surviving[c] \in DOMAIN Catalogue
         /\ Catalogue[Surviving[c]].code = legacy.courses[c].code
<1>1. Surviving[c] \in DOMAIN Catalogue
  BY Survivors DEF Catalogue
<1>2. Catalogue[Surviving[c]].code = legacy.courses[Surviving[c]].code
  BY <1>1 DEF Catalogue
<1> QED
  BY <1>1, <1>2, Survivors

LEMMA SubjectsKept ==
  ASSUME TypeOK, GridsInv, PhaseInv
  PROVE  RowsKeepSubject
<1> USE DEF TypeOK
<1>1. CASE phase = "legacy"
  <2> DEFINE h == [c \in DOMAIN legacy.courses |-> c]
  <2>1. h \in [DOMAIN legacy.courses -> Nat]
    BY GridsAssumption DEF WellFormed
  <2>2. \A c \in DOMAIN legacy.courses : h[c] = c
    OBVIOUS
  <2>3. \A c \in DOMAIN legacy.courses : CodeOf(h[c]) = legacy.courses[c].code
    BY <1>1, <2>2 DEF PhaseInv, NotMoved, CodeOf, Migrated
  <2>4. ~Migrated
    BY <1>1 DEF Migrated
  <2> HIDE DEF h
  <2>5. ASSUME NEW K \in Tables, NEW old, Referents(old, K) PROVE SameRows(old, old)
    <3>1. Pointed(old, h) = old
      BY <2>2, <2>5, PointedAtItself
    <3>2. SameRows(old, Pointed(old, h))
      BY <2>1, <2>3, <2>4, <2>5, Pointing
    <3> QED
      BY <3>1, <3>2
  <2>6. taught = legacy.taught /\ graded = legacy.graded /\ logged = legacy.logged
    BY <1>1 DEF PhaseInv, NotMoved
  <2> QED
    BY <2>5, <2>6, LegacyTables DEF RowsKeepSubject
<1>2. CASE Migrated
  <2>1. /\ courses = Catalogue
        /\ taught = Pointed(legacy.taught, Homing) /\ graded = Pointed(legacy.graded, Homing)
        /\ logged = Pointed(legacy.logged, Homing)
        /\ \A c \in DOMAIN legacy.courses : Homes(c) # {}
    BY <1>2 DEF PhaseInv
  <2>2. Homing \in [DOMAIN legacy.courses -> Nat]
    BY <2>1, Homed
  <2>3. ASSUME NEW c \in DOMAIN legacy.courses
        PROVE  /\ CodeOf(Homing[c]) = legacy.courses[c].code
               /\ LevelOf(Homing[c]) = legacy.level[legacy.courses[c].classe]
    <3>1. Fits(Homing[c], c)
      BY <2>1, Homed DEF Homes
    <3>2. lignes[Homing[c]].cours = Surviving[c]
      BY <3>1, Survivors DEF Fits
    <3> QED
      BY <1>2, <2>1, <3>1, <3>2, CatalogueOf DEF CodeOf, Fits
  <2>4. ASSUME NEW K \in Tables, NEW old, Referents(old, K) PROVE SameRows(old, Pointed(old, Homing))
    BY <2>2, <2>3, <2>4, Pointing
  <2> QED
    BY <2>1, <2>4, LegacyTables DEF RowsKeepSubject
<1>3. CASE phase = "downgraded"
  <2>1. ~Migrated
    BY <1>3 DEF Migrated
  <2>2. \A c \in DOMAIN legacy.courses : CodeOf(Surviving[c]) = legacy.courses[c].code
    BY <1>3, <2>1 DEF PhaseInv, CodeOf
  <2>3. ASSUME NEW K \in Tables, NEW old, Referents(old, K) PROVE SameRows(old, Pointed(old, Surviving))
    BY <2>1, <2>2, <2>3, Pointing, Survivors
  <2>4. /\ taught = Pointed(legacy.taught, Surviving) /\ graded = Pointed(legacy.graded, Surviving)
        /\ logged = Pointed(legacy.logged, Surviving)
    BY <1>3 DEF PhaseInv
  <2> QED
    BY <2>3, <2>4, LegacyTables DEF RowsKeepSubject
<1> QED
  BY <1>1, <1>2, <1>3 DEF Phases, Migrated, RowsKeepSubject
LEMMA Returned ==
  ASSUME TypeOK, GridsInv, PhaseInv
  PROVE  RoundTrip
<1>1. SUFFICES ASSUME phase = "downgraded", Separate, PeriodsOf(OldYear) # {}
               PROVE  /\ courses = legacy.courses
                      /\ taught = legacy.taught /\ graded = legacy.graded /\ logged = legacy.logged
  BY DEF RoundTrip
<1>2. WellFormed(legacy)
  BY DEF TypeOK
<1>3. \A c \in DOMAIN legacy.courses : Surviving[c] = c
  BY <1>1, <1>2, Survivors DEF Separate
<1>4. ASSUME NEW K \in Tables, NEW old, Referents(old, K) PROVE Pointed(old, Surviving) = old
  BY <1>3, <1>4, PointedAtItself
<1> QED
  BY <1>1, <1>2, <1>4, LegacyTables DEF PhaseInv

(* The line that the migration made for a course has one maximum in each   *)
(* period.                                                                 *)
LEMMA Gradable ==
  ASSUME TypeOK, GridsInv, PhaseInv
  PROVE  CoursesStayGradable
<1>1. SUFFICES ASSUME Migrated, NEW c \in DOMAIN legacy.courses
               PROVE  \E l \in LineFor(legacy.level[legacy.courses[c].classe], legacy.courses[c].code) :
                        /\ LineFor(LevelOf(l), legacy.courses[c].code) \cap LignesDe(lignes[l].grille) = {l}
                        /\ \A p \in PeriodsOf(OldYear) : Cardinality(MaximumPour(l, p)) = 1
  BY DEF CoursesStayGradable
<1>2. PICK l \in Homes(c) : TRUE
  BY <1>1 DEF PhaseInv
<1>3. l \in DOMAIN lignes /\ Original(l) /\ Fits(l, c)
  BY <1>2 DEF Homes
<1>4. l \in LineFor(legacy.level[legacy.courses[c].classe], legacy.courses[c].code)
  BY <1>3 DEF LineFor, Fits, LevelOf
<1>5. l \in LineFor(LevelOf(l), legacy.courses[c].code) \cap LignesDe(lignes[l].grille)
  BY <1>3 DEF LineFor, Fits, LevelOf, LignesDe
<1>6. ASSUME NEW m \in LineFor(LevelOf(l), legacy.courses[c].code) \cap LignesDe(lignes[l].grille)
      PROVE  m = l
  <2>1. m \in DOMAIN lignes /\ lignes[m].cours = lignes[l].cours /\ lignes[m].grille = lignes[l].grille
    BY <1>3 DEF LineFor, LignesDe, Fits
  <2> QED
    BY <1>3, <2>1 DEF GridsInv, OneLine
<1>7. ASSUME NEW p \in PeriodsOf(OldYear) PROVE Cardinality(MaximumPour(l, p)) = 1
  <2>1. PICK m \in maxima : m.ligne = l /\ m.periode = p
    BY <1>3 DEF GridsInv, OneMaximum
  <2>2. \A n \in maxima : n.ligne = l /\ n.periode = p => n = m
    BY <2>1 DEF GridsInv, OneMaximum
  <2>3. MaximumPour(l, p) = {m.maximum}
    BY <2>1, <2>2 DEF MaximumPour
  <2> QED
    BY <2>3, FS_Singleton
<1> QED
  BY <1>4, <1>5, <1>6, <1>7

(* A line got its maximum from a course of its subject and level, and      *)
(* those agree with one another.                                           *)
LEMMA Valid ==
  ASSUME TypeOK, GridsInv, PhaseInv
  PROVE  ScoresStayValid
<1>1. SUFFICES ASSUME Migrated, Agreeing, NEW r \in graded, NEW m \in MaximumPour(r.ref, r.periode)
               PROVE  r.score <= m
  BY DEF ScoresStayValid
<1>2. WellFormed(legacy) /\ graded = Pointed(legacy.graded, Homing)
      /\ \A c \in DOMAIN legacy.courses : Homes(c) # {}
  BY <1>1 DEF PhaseInv, TypeOK
<1>3. PICK o \in legacy.graded : r = [o EXCEPT !.ref = Homing[o.ref]]
  BY <1>2, Zenon DEF Pointed
<1>4. /\ o \in Graded /\ o.ref \in DOMAIN legacy.courses
      /\ o.score <= legacy.courses[o.ref].max
  BY <1>2 DEF WellFormed
<1>5. r.ref = Homing[o.ref] /\ r.score = o.score
  BY <1>3, <1>4 DEF Graded
<1>6. r.ref \in Homes(o.ref)
  BY <1>2, <1>4, <1>5, Homed DEF TypeOK
<1>7. r.ref \in DOMAIN lignes /\ Original(r.ref) /\ Fits(r.ref, o.ref)
  BY <1>6 DEF Homes
<1>8. PICK n \in maxima : n.ligne = r.ref /\ n.maximum = m
  BY <1>1 DEF MaximumPour
<1>9. PICK d \in DOMAIN legacy.courses : Fits(r.ref, d) /\ n.maximum = legacy.courses[d].max
  BY <1>7, <1>8 DEF GridsInv, Rooted
<1>10. Survivor(legacy.courses[d].code) = Survivor(legacy.courses[o.ref].code)
       /\ legacy.level[legacy.courses[d].classe] = legacy.level[legacy.courses[o.ref].classe]
  BY <1>7, <1>9 DEF Fits
<1>11. legacy.courses[d].code = legacy.courses[o.ref].code
  <2>1. /\ legacy.courses[Survivor(legacy.courses[d].code)].code = legacy.courses[d].code
        /\ legacy.courses[Survivor(legacy.courses[o.ref].code)].code = legacy.courses[o.ref].code
    BY <1>2, <1>4, <1>9, SurvivorOf
  <2> QED
    BY <1>10, <2>1
<1>12. legacy.courses[d].max = legacy.courses[o.ref].max
  BY <1>1, <1>4, <1>10, <1>11 DEF Agreeing
<1> QED
  BY <1>4, <1>5, <1>8, <1>9, <1>12

(* The copy of a grid has each line that is active in the grid it was    *)
(* copied from once.                                                     *)
LEMMA OnceInTheCopy ==
  ASSUME TypeOK, GridsInv
  PROVE  CopiesComplete
<1>1. SUFFICES ASSUME NEW g \in DOMAIN grilles, grilles[g].origine # 0
               PROVE  LET s == grilles[g].origine IN
                      /\ \A l \in LignesActives(s) :
                           Cardinality({c \in LignesDe(g) : /\ lignes[c].cours = lignes[l].cours
                                                            /\ lignes[c].ponderation = lignes[l].ponderation}) = 1
                      /\ \A c \in LignesDe(g) : \E l \in LignesDe(s) : lignes[l].cours = lignes[c].cours
  BY DEF CopiesComplete
<1> DEFINE s == grilles[g].origine
<1>2. Mirrors(s, g)
  BY <1>1 DEF GridsInv, Copied
<1> HIDE DEF s
<1>3. ASSUME NEW l \in LignesActives(s)
      PROVE  Cardinality({c \in LignesDe(g) : /\ lignes[c].cours = lignes[l].cours
                                              /\ lignes[c].ponderation = lignes[l].ponderation}) = 1
  <2> DEFINE C == {c \in LignesDe(g) : /\ lignes[c].cours = lignes[l].cours
                                       /\ lignes[c].ponderation = lignes[l].ponderation}
  <2>1. PICK c \in LignesDe(g) : /\ lignes[c].cours = lignes[l].cours
                                 /\ lignes[c].ponderation = lignes[l].ponderation
    BY <1>2 DEF Mirrors
  <2>2. \A m \in C : m = c
    BY <2>1 DEF GridsInv, OneLine, LignesDe
  <2>3. C = {c}
    BY <2>1, <2>2
  <2> QED
    BY <2>3, FS_Singleton
<1> QED
  BY <1>2, <1>3 DEF Mirrors, s
-----------------------------------------------------------------------------
MigrationInv == TypeOK /\ GridsInv /\ PhaseInv

LEMMA NoGrids ==
  ASSUME grilles = <<>>, lignes = <<>>, maxima = {}, \A k \in Calls : at[k] \notin Copying
  PROVE  GridsInv
BY DEF GridsInv, Anchored, OneLine, OneMaximum, Rooted, OriginalsFirst, Copied

LEMMA MigrationInit == Init => MigrationInv
<1> SUFFICES ASSUME Init PROVE MigrationInv
  OBVIOUS
<1>1. WellFormed(legacy)
  BY MigrationAssumption DEF Init
<1>2. GridsTyped
  <2>1. at \in [Calls -> {"idle", "copied", "refused"} \cup Copying]
    BY DEF Init
  <2>2. job \in [Calls -> [source : Nat, annee : Years]]
    BY MigrationAssumption DEF Init
  <2>3. reserved \in [Calls -> Keys \cup {NoKey}]
    BY DEF Init
  <2>4. edits \in 0..MaxEdits
    BY GridsAssumption DEF Init
  <2> QED
    BY <2>1, <2>2, <2>3, <2>4 DEF Init, GridsTyped
<1>3. TypeOK
  BY <1>1, <1>2 DEF Init, TypeOK, WellFormed, Phases
<1>4. GridsInv
  BY NoGrids DEF Init, Copying
<1>5. PhaseInv
  BY DEF Init, PhaseInv, NotMoved, Migrated
<1> QED
  BY <1>3, <1>4, <1>5 DEF MigrationInv

LEMMA GridsKept ==
  ASSUME GridsTyped, GridsInv, UNCHANGED <<grids, duplication, legacy>>
  PROVE  /\ GridsTyped' /\ GridsInv'
         /\ \A c : Homes(c)' = Homes(c)
<1>1. UNCHANGED <<grilles, lignes, maxima, edits, at, job, reserved, legacy>>
  BY DEF grids, duplication
<1>2. GridsTyped'
  BY <1>1 DEF GridsTyped
<1>3. /\ \A l : Original(l)' <=> Original(l)
      /\ \A l : LevelOf(l)' = LevelOf(l)
      /\ \A l, c : Fits(l, c)' <=> Fits(l, c)
  BY <1>1 DEF Original, LevelOf, Fits, Survivor
<1>4. Anchored' /\ OneLine'
  BY <1>1, <1>3 DEF GridsInv, Anchored, OneLine
<1>5. OneMaximum' /\ Rooted' /\ OriginalsFirst'
  BY <1>1, <1>3 DEF GridsInv, OneMaximum, PeriodsOf, Rooted, OriginalsFirst
<1>6. Copied'
  BY <1>1 DEF GridsInv, Copied, Mirrors, LignesDe, LignesActives
<1>7. \A c : Homes(c)' = Homes(c)
  BY <1>1, <1>3 DEF Homes
<1> QED
  BY <1>2, <1>4, <1>5, <1>6, <1>7 DEF GridsInv

LEMMA BeginUpgradeStep ==
  ASSUME MigrationInv, BeginUpgrade
  PROVE  MigrationInv'
<1>1. /\ phase = "legacy" /\ phase' = "backfill" /\ remaining' = DOMAIN courses
      /\ UNCHANGED <<grilles, legacy, courses, lineOf, taught, graded, logged, at>>
  BY DEF BeginUpgrade, grids, duplication, references
<1>2. GridsTyped' /\ GridsInv'
  BY GridsKept DEF MigrationInv, TypeOK, BeginUpgrade
<1>3. courses = legacy.courses /\ lineOf = <<>> /\ WellFormed(legacy)
  BY <1>1 DEF MigrationInv, PhaseInv, NotMoved, TypeOK
<1>4. TypeOK'
  BY <1>1, <1>2, <1>3 DEF MigrationInv, TypeOK, WellFormed, Phases
<1>5. NotMoved' /\ (\A k \in Calls : at'[k] = "idle") /\ (\A g \in DOMAIN grilles' : grilles'[g].origine = 0)
  BY <1>1 DEF MigrationInv, PhaseInv, NotMoved
<1>6. PhaseInv'
  BY <1>1, <1>3, <1>5 DEF PhaseInv, Migrated
<1> QED
  BY <1>2, <1>4, <1>6 DEF MigrationInv

LEMMA BackfillStep ==
  ASSUME MigrationInv, NEW c \in remaining, Backfill(c)
  PROVE  MigrationInv'
<1>1. /\ phase = "backfill" /\ phase' = phase /\ remaining' = remaining \ {c}
      /\ UNCHANGED <<legacy, courses, taught, graded, logged, at>>
      /\ DOMAIN lineOf' = DOMAIN lineOf \cup {c}
  BY DEF Backfill, duplication, references
<1>2. /\ remaining \subseteq DOMAIN legacy.courses /\ DOMAIN lineOf = DOMAIN legacy.courses \ remaining
      /\ WellFormed(legacy)
  BY <1>1 DEF MigrationInv, PhaseInv, TypeOK
<1>3. /\ GridsTyped' /\ GridsInv'
      /\ \A d \in DOMAIN lineOf' : d \in DOMAIN legacy.courses => Homes(d)' = {lineOf'[d]}
      /\ \A d \in DOMAIN lineOf' : d \in DOMAIN legacy.courses => lineOf'[d] \in DOMAIN lignes'
  BY <1>2, BackfillKeeps DEF MigrationInv, TypeOK
<1>4. DOMAIN lineOf' = DOMAIN legacy.courses \ remaining'
  BY <1>1, <1>2
<1>5. TypeOK'
  BY <1>1, <1>2, <1>3, <1>4 DEF MigrationInv, TypeOK, WellFormed
<1>6. \A g \in DOMAIN grilles' : grilles'[g].origine = 0
  BY <1>2, BackfillGrid DEF MigrationInv, TypeOK
<1>7. NotMoved' /\ \A k \in Calls : at'[k] = "idle"
  BY <1>1 DEF MigrationInv, PhaseInv, NotMoved
<1>8. PhaseInv'
  BY <1>1, <1>2, <1>3, <1>4, <1>6, <1>7 DEF PhaseInv, Migrated
<1> QED
  BY <1>3, <1>5, <1>8 DEF MigrationInv

LEMMA RollBackStep ==
  ASSUME MigrationInv, RollBackUpgrade
  PROVE  MigrationInv'
<1>1. /\ phase = "backfill" /\ phase' = "legacy" /\ remaining' = {} /\ lineOf' = <<>>
      /\ grilles' = <<>> /\ lignes' = <<>> /\ maxima' = {}
      /\ UNCHANGED <<edits, at, job, reserved, legacy, courses, taught, graded, logged>>
  BY DEF RollBackUpgrade, duplication, references
<1>2. \A k \in Calls : at'[k] = "idle"
  BY <1>1 DEF MigrationInv, PhaseInv
<1>3. GridsInv'
  <2>1. \A k \in Calls : at'[k] \notin Copying
    BY <1>2 DEF Copying
  <2> QED
    BY <1>1, <2>1 DEF GridsInv, Anchored, OneLine, OneMaximum, Rooted, OriginalsFirst, Copied
<1>4. TypeOK'
  <2>1. GridsTyped'
    BY <1>1 DEF MigrationInv, TypeOK, GridsTyped
  <2>2. WellFormed(legacy)'
    BY <1>1 DEF MigrationInv, TypeOK
  <2> QED
    BY <1>1, <2>1, <2>2 DEF MigrationInv, TypeOK, Phases
<1>5. PhaseInv'
  BY <1>1, <1>2 DEF MigrationInv, PhaseInv, NotMoved, Migrated
<1> QED
  BY <1>3, <1>4, <1>5 DEF MigrationInv
LEMMA PointedTyped ==
  ASSUME NEW K \in Tables, NEW old, Referents(old, K), NEW h \in [DOMAIN legacy.courses -> Nat]
  PROVE  Pointed(old, h) \subseteq K
<1>1. ASSUME NEW r \in old PROVE [r EXCEPT !.ref = h[r.ref]] \in K
  <2>1. PICK x \in Nat : x = h[r.ref]
    BY DEF Referents
  <2>2. [r EXCEPT !.ref = x] \in K
    BY Referring DEF Referents
  <2> QED
    BY <2>1, <2>2
<1> QED
  BY <1>1, Zenon DEF Pointed

LEMMA PointedAlike ==
  ASSUME NEW K, NEW old, Referents(old, K), NEW h, NEW j,
         \A c \in DOMAIN legacy.courses : h[c] = j[c]
  PROVE  Pointed(old, h) = Pointed(old, j)
<1>1. \A r \in old : h[r.ref] = j[r.ref]
  BY DEF Referents
<1>2. \A r \in old : [r EXCEPT !.ref = h[r.ref]] = [r EXCEPT !.ref = j[r.ref]]
  BY <1>1, Zenon
<1> QED
  BY <1>2, Zenon DEF Pointed

LEMMA FinishUpgradeStep ==
  ASSUME MigrationInv, FinishUpgrade
  PROVE  MigrationInv'
<1>1. /\ phase = "backfill" /\ remaining = {} /\ phase' = "upgraded" /\ remaining' = remaining
      /\ lineOf' = <<>> /\ legacy' = legacy
      /\ taught' = Remapped(taught) /\ graded' = Remapped(graded) /\ logged' = Remapped(logged)
      /\ courses' = [c \in {Survivor(courses[d].code) : d \in DOMAIN courses} |-> CatalogRow(c)]
  BY DEF FinishUpgrade
<1>2. /\ GridsTyped' /\ GridsInv'
      /\ \A c : Homes(c)' = Homes(c)
  BY GridsKept DEF MigrationInv, TypeOK, FinishUpgrade
<1>3. /\ WellFormed(legacy) /\ NotMoved /\ DOMAIN lineOf = DOMAIN legacy.courses
      /\ \A c \in DOMAIN legacy.courses : Homes(c) = {lineOf[c]}
  BY <1>1 DEF MigrationInv, PhaseInv, TypeOK
<1>4. Homing' = Homing
  <2>1. \A c : Home(c)' = Home(c)
    BY <1>2 DEF Home
  <2> QED
    BY <1>1, <2>1 DEF Homing
<1>5. /\ Homing \in [DOMAIN legacy.courses -> Nat]
      /\ \A c \in DOMAIN legacy.courses : lineOf[c] = Homing[c]
  BY <1>3, Homed DEF MigrationInv, TypeOK
<1>6. ASSUME NEW K \in Tables, NEW old, Referents(old, K)
      PROVE  Remapped(old) = Pointed(old, Homing) /\ Remapped(old) \subseteq K
  <2>1. Remapped(old) = Pointed(old, lineOf)
    BY DEF Remapped, Pointed
  <2>2. Pointed(old, lineOf) = Pointed(old, Homing)
    BY <1>5, <1>6, PointedAlike
  <2>3. Pointed(old, Homing) \subseteq K
    BY <1>5, <1>6, PointedTyped
  <2> QED
    BY <2>1, <2>2, <2>3
<1>7. ASSUME NEW old PROVE Pointed(old, Homing)' = Pointed(old, Homing)
  BY <1>4 DEF Pointed
<1>8. /\ taught' = Pointed(legacy.taught, Homing) /\ taught' \subseteq Taught
      /\ graded' = Pointed(legacy.graded, Homing) /\ graded' \subseteq Graded
      /\ logged' = Pointed(legacy.logged, Homing) /\ logged' \subseteq Logged
  BY <1>1, <1>3, <1>6, LegacyTables DEF NotMoved
<1>9. /\ taught' = Pointed(legacy.taught, Homing)' /\ graded' = Pointed(legacy.graded, Homing)'
      /\ logged' = Pointed(legacy.logged, Homing)'
  BY <1>1, <1>4, <1>8 DEF Pointed
<1>10. courses' = Catalogue /\ Catalogue' = Catalogue
  BY <1>1, <1>3 DEF NotMoved, Catalogue, CatalogRow, Survivor
<1>11. TypeOK'
  <2>1. ASSUME NEW c \in DOMAIN Catalogue
        PROVE  /\ c \in Catalog
               /\ Catalogue[c] \in [classe : {NoClass}, code : Codes, coefficient : {0}, max : {0}]
    <3>1. PICK d \in DOMAIN legacy.courses : c = Surviving[d]
      BY DEF Catalogue, Surviving
    <3>2. c \in DOMAIN legacy.courses
      BY <1>3, <3>1, Survivors
    <3> QED
      BY <1>3, <3>2 DEF Catalogue, WellFormed, OldCourses
  <2> HIDE DEF Catalogue
  <2>2. DOMAIN lineOf' = {}
    BY <1>1
  <2> QED
    BY <1>1, <1>2, <1>3, <1>8, <1>10, <2>1, <2>2 DEF TypeOK, Phases
<1>12. \A c \in DOMAIN legacy.courses : Homes(c)' # {}
  BY <1>2, <1>3
<1>13. PhaseInv'
  BY <1>1, <1>9, <1>10, <1>12 DEF PhaseInv, Migrated
<1> QED
  BY <1>2, <1>11, <1>13 DEF MigrationInv

(* What follows when the homes of the courses are still where they were.   *)
LEMMA HomesKept ==
  ASSUME MigrationInv, Migrated, GridsTyped', GridsInv',
         phase' \in {"upgraded", "stuck"},
         \A c \in DOMAIN legacy.courses : Homes(c)' = Homes(c),
         UNCHANGED <<legacy, courses, remaining, lineOf, references>>
  PROVE  MigrationInv'
<1>1. UNCHANGED <<legacy, courses, remaining, lineOf, taught, graded, logged>>
  BY DEF references
<1>2. Homing' = Homing
  <2>1. \A c \in DOMAIN legacy.courses : Home(c)' = Home(c)
    BY DEF Home
  <2> QED
    BY <1>1, <2>1 DEF Homing
<1>3. /\ lineOf = <<>>
      /\ \A c \in DOMAIN legacy.courses : Homes(c) # {}
      /\ courses = Catalogue
      /\ taught = Pointed(legacy.taught, Homing) /\ graded = Pointed(legacy.graded, Homing)
      /\ logged = Pointed(legacy.logged, Homing)
  BY DEF MigrationInv, PhaseInv
<1>4. TypeOK'
  <2>1. WellFormed(legacy)' /\ DOMAIN lineOf' = {}
    BY <1>1, <1>3 DEF MigrationInv, TypeOK
  <2> QED
    BY <1>1, <2>1 DEF MigrationInv, TypeOK, Phases
<1>5. Catalogue' = Catalogue
  BY <1>1 DEF Catalogue, Survivor
<1>6. /\ taught' = Pointed(legacy.taught, Homing)' /\ graded' = Pointed(legacy.graded, Homing)'
      /\ logged' = Pointed(legacy.logged, Homing)'
  BY <1>1, <1>2, <1>3 DEF Pointed
<1>7. PhaseInv'
  BY <1>1, <1>3, <1>5, <1>6 DEF PhaseInv
<1> QED
  BY <1>4, <1>7 DEF MigrationInv

LEMMA WorkStep ==
  ASSUME MigrationInv, Work
  PROVE  MigrationInv'
<1>1. /\ Migrated /\ GridStep /\ phase' = phase /\ legacy' = legacy
      /\ UNCHANGED <<legacy, courses, remaining, lineOf, references>>
  BY DEF Work, Migrated
<1>2. /\ GridsTyped' /\ GridsInv'
      /\ \A c \in DOMAIN legacy.courses : Homes(c)' = Homes(c)
  BY <1>1, GridStepKeeps DEF MigrationInv, TypeOK
<1> QED
  BY <1>1, <1>2, HomesKept DEF Migrated

LEMMA DowngradeFailsStep ==
  ASSUME MigrationInv, DowngradeFails
  PROVE  MigrationInv'
<1>1. /\ Migrated /\ phase' = "stuck"
      /\ UNCHANGED <<grids, duplication, legacy, courses, remaining, lineOf, references>>
  BY DEF DowngradeFails, Migrated
<1>2. /\ GridsTyped' /\ GridsInv'
      /\ \A c : Homes(c)' = Homes(c)
  BY <1>1, GridsKept DEF MigrationInv, TypeOK
<1> QED
  BY <1>1, <1>2, HomesKept
(* Each course of the catalog has a first line, one the migration made, of *)
(* a course that survived in it.                                           *)
LEMMA FirstLines ==
  ASSUME MigrationInv, Migrated, NEW c \in DOMAIN courses
  PROVE  LET l == FirstLine(c)
         IN  /\ l \in DOMAIN lignes /\ lignes[l] \in Lignes /\ Original(l)
             /\ \E d \in DOMAIN legacy.courses :
                  /\ c = Surviving[d] /\ LevelOf(l) = legacy.level[legacy.courses[d].classe]
                  /\ lignes[l].ponderation = legacy.courses[d].coefficient
                  /\ \A m \in maxima : m.ligne = l => m.maximum = legacy.courses[d].max
<1> DEFINE T == {l \in DOMAIN lignes : lignes[l].cours = c}
           l == FirstLine(c)
<1>1. /\ WellFormed(legacy) /\ GridsTyped /\ GridsInv /\ courses = Catalogue
      /\ \A d \in DOMAIN legacy.courses : Homes(d) # {}
  BY DEF MigrationInv, TypeOK, PhaseInv
<1>2. PICK e \in DOMAIN legacy.courses : c = Surviving[e]
  BY <1>1 DEF Catalogue, Surviving
<1>3. PICK h \in Homes(e) : TRUE
  BY <1>1
<1>4. h \in T /\ Original(h)
  BY <1>1, <1>2, <1>3, Survivors DEF Homes, Fits
<1>5. T \subseteq Nat
  BY <1>1, Rows
<1>6. l \in T /\ \A m \in T : l <= m
  <2> HIDE DEF T
  <2>1. \E n \in T : \A m \in T : n <= m
    BY <1>4, <1>5, Least
  <2>2. PICK n \in T : \A m \in T : n <= m
    BY <2>1
  <2>3. n \in DOMAIN lignes /\ lignes[n].cours = c /\ \A m \in DOMAIN lignes : lignes[m].cours = c => n <= m
    BY <2>2 DEF T
  <2>4. /\ l \in DOMAIN lignes /\ lignes[l].cours = c
        /\ \A m \in DOMAIN lignes : lignes[m].cours = c => l <= m
    BY <2>3 DEF FirstLine
  <2> HIDE DEF l
  <2> QED
    BY <2>4 DEF T
<1> HIDE DEF l
<1>7. l \in DOMAIN lignes /\ lignes[l].cours = c /\ lignes[l] \in Lignes
  BY <1>1, <1>6, Rows
<1>8. l <= h /\ l \in Nat /\ h \in Nat /\ h \in DOMAIN lignes
  BY <1>4, <1>5, <1>6
<1>9. Original(l)
  <2>1. SUFFICES ASSUME ~Original(l) PROVE FALSE
    OBVIOUS
  <2>2. h < l
    BY <1>1, <1>4, <1>7, <1>8, <2>1 DEF GridsInv, OriginalsFirst
  <2> QED
    BY <1>8, <2>2
<1>10. PICK d \in DOMAIN legacy.courses :
         /\ Fits(l, d) /\ lignes[l].ponderation = legacy.courses[d].coefficient
         /\ \A m \in maxima : m.ligne = l => m.maximum = legacy.courses[d].max
  BY <1>1, <1>7, <1>9 DEF GridsInv, Rooted
<1>11. c = Surviving[d] /\ LevelOf(l) = legacy.level[legacy.courses[d].classe]
  BY <1>1, <1>7, <1>10, Survivors DEF Fits
<1> QED
  BY <1>7, <1>9, <1>10, <1>11 DEF l

LEMMA OldMaxima ==
  ASSUME MigrationInv, Migrated, NEW c \in DOMAIN courses
  PROVE  LET l == FirstLine(c)
         IN  /\ OldMaximum(l) \in Scales
             /\ PeriodsOf(OldYear) # {} =>
                  \E m \in maxima : m.ligne = l /\ OldMaximum(l) = m.maximum
<1> DEFINE l == FirstLine(c)
           M == {n \in maxima : n.ligne = l}
<1>1. l \in DOMAIN lignes /\ Original(l)
  BY FirstLines
<1> HIDE DEF l
<1>2. CASE M = {}
  <2>1. OldMaximum(l) = 20
    BY <1>2 DEF OldMaximum
  <2>2. PeriodsOf(OldYear) = {}
    BY <1>1, <1>2 DEF MigrationInv, GridsInv, OneMaximum
  <2> QED
    BY <2>1, <2>2, MigrationAssumption DEF l
<1>3. CASE M # {}
  <2>1. PICK m \in M : OldMaximum(l) = m.maximum
    BY <1>3 DEF OldMaximum
  <2>2. m.maximum \in Scales
    BY DEF MigrationInv, TypeOK, GridsTyped, Maxima
  <2> QED
    BY <2>1, <2>2 DEF l
<1> QED
  BY <1>2, <1>3
(* The rows go back to the surviving courses of their codes. *)
LEMMA RestoredRows ==
  ASSUME MigrationInv, Migrated, NEW K \in Tables, NEW old, Referents(old, K)
  PROVE  /\ Restored(Pointed(old, Homing)) = Pointed(old, Surviving)
         /\ Pointed(old, Surviving) \subseteq K
<1>1. /\ WellFormed(legacy) /\ GridsTyped
      /\ \A c \in DOMAIN legacy.courses : Homes(c) # {}
  BY DEF MigrationInv, TypeOK, PhaseInv
<1>2. ASSUME NEW o \in old
      PROVE  LET r == [o EXCEPT !.ref = Homing[o.ref]]
             IN  [r EXCEPT !.ref = lignes[r.ref].cours] = [o EXCEPT !.ref = Surviving[o.ref]]
  <2>1. o \in K /\ o.ref \in DOMAIN legacy.courses
    BY DEF Referents
  <2>2. PICK h \in Nat : h = Homing[o.ref]
    BY <1>1, <2>1, Homed
  <2>3. h \in Homes(o.ref)
    BY <1>1, <2>1, <2>2, Homed
  <2>4. lignes[h].cours = Surviving[o.ref]
    BY <1>1, <2>1, <2>3, Survivors DEF Homes, Fits
  <2>5. [o EXCEPT !.ref = h].ref = h
    BY <2>1, Referring
  <2>6. [[o EXCEPT !.ref = h] EXCEPT !.ref = Surviving[o.ref]] = [o EXCEPT !.ref = Surviving[o.ref]]
    BY <2>1, ReferringTwice
  <2> QED
    BY <2>2, <2>4, <2>5, <2>6, Zenon
<1>3. Restored(Pointed(old, Homing)) = Pointed(old, Surviving)
  <2> DEFINE via(o) == [o EXCEPT !.ref = Homing[o.ref]]
             back(r) == [r EXCEPT !.ref = lignes[r.ref].cours]
             at_(o) == [o EXCEPT !.ref = Surviving[o.ref]]
  <2>1. \A o \in old : back(via(o)) = at_(o)
    BY <1>2, Zenon
  <2>2. /\ Pointed(old, Homing) = {via(o) : o \in old}
        /\ Pointed(old, Surviving) = {at_(o) : o \in old}
        /\ Restored(Pointed(old, Homing)) = {back(r) : r \in Pointed(old, Homing)}
    BY DEF Pointed, Restored
  <2> HIDE DEF via, back, at_
  <2> QED
    BY <2>1, <2>2
<1>4. Pointed(old, Surviving) \subseteq K
  BY <1>1, Survivors, PointedTyped
<1> QED
  BY <1>3, <1>4

LEMMA DowngradeStep ==
  ASSUME MigrationInv, Downgrade
  PROVE  MigrationInv'
<1>1. /\ Migrated /\ phase' = "downgraded"
      /\ \A k \in Calls : at[k] \notin Copying
      /\ taught' = Restored(taught) /\ graded' = Restored(graded) /\ logged' = Restored(logged)
      /\ grilles' = <<>> /\ lignes' = <<>> /\ maxima' = {}
      /\ UNCHANGED <<edits, at, job, reserved, legacy, remaining, lineOf>>
  BY DEF Downgrade, duplication, Migrated
<1>2. PICK first \in Representatives : courses' = Reattached(first)
  BY DEF Downgrade
<1>3. /\ WellFormed(legacy) /\ lineOf = <<>> /\ courses = Catalogue
      /\ taught = Pointed(legacy.taught, Homing) /\ graded = Pointed(legacy.graded, Homing)
      /\ logged = Pointed(legacy.logged, Homing)
  BY <1>1 DEF MigrationInv, TypeOK, PhaseInv
<1>4. GridsInv'
  <2>1. \A k \in Calls : at'[k] \notin Copying
    BY <1>1
  <2> QED
    BY <1>1, <2>1 DEF GridsInv, Anchored, OneLine, OneMaximum, Rooted, OriginalsFirst, Copied
<1>5. Surviving' = Surviving
  BY <1>1 DEF Surviving, Survivor
<1>6. /\ taught' = Pointed(legacy.taught, Surviving) /\ taught' \subseteq Taught
      /\ graded' = Pointed(legacy.graded, Surviving) /\ graded' \subseteq Graded
      /\ logged' = Pointed(legacy.logged, Surviving) /\ logged' \subseteq Logged
  BY <1>1, <1>3, LegacyTables, RestoredRows
<1>7. /\ DOMAIN courses' = DOMAIN courses
      /\ \A c \in DOMAIN courses :
           courses'[c] = [classe |-> first[LevelOf(FirstLine(c))], code |-> courses[c].code,
                          coefficient |-> lignes[FirstLine(c)].ponderation,
                          max |-> OldMaximum(FirstLine(c))]
  BY <1>2 DEF Reattached, LevelOf
<1>8. /\ first \in [{legacy.level[k] : k \in Classes} -> Classes]
      /\ \A v \in {legacy.level[k] : k \in Classes} : legacy.level[first[v]] = v
  BY DEF Representatives
<1>9. DOMAIN courses \subseteq DOMAIN legacy.courses
      /\ \A c \in DOMAIN courses : courses[c].code = legacy.courses[c].code
  <2>1. ASSUME NEW c \in DOMAIN courses
        PROVE  c \in DOMAIN legacy.courses /\ courses[c].code = legacy.courses[c].code
    <3>1. PICK e \in DOMAIN legacy.courses : c = Survivor(legacy.courses[e].code)
      BY <1>3 DEF Catalogue
    <3>2. c \in DOMAIN legacy.courses
      BY <1>3, <3>1, SurvivorOf
    <3>3. courses[c].code = legacy.courses[c].code
      BY <1>3 DEF Catalogue
    <3> QED
      BY <3>2, <3>3
  <2> QED
    BY <2>1
<1>10. ASSUME NEW c \in DOMAIN courses
       PROVE  courses'[c] \in OldCourses
  <2> DEFINE l == FirstLine(c)
  <2>1. /\ lignes[l] \in Lignes
        /\ \E d \in DOMAIN legacy.courses : LevelOf(l) = legacy.level[legacy.courses[d].classe]
    BY <1>1, FirstLines
  <2>2. OldMaximum(l) \in Scales
    BY <1>1, OldMaxima
  <2> HIDE DEF l
  <2>3. lignes[l].ponderation \in Scales
    BY <2>1 DEF Lignes
  <2>4. first[LevelOf(l)] \in Classes
    <3>1. PICK d \in DOMAIN legacy.courses : LevelOf(l) = legacy.level[legacy.courses[d].classe]
      BY <2>1
    <3>2. legacy.courses[d].classe \in Classes
      BY <1>3 DEF WellFormed, OldCourses
    <3> QED
      BY <1>8, <3>1, <3>2
  <2>5. courses[c].code \in Codes
    BY <1>3, <1>9 DEF WellFormed, OldCourses
  <2> QED
    BY <1>7, <2>2, <2>3, <2>4, <2>5 DEF OldCourses, l
<1>11. TypeOK'
  <2>1. GridsTyped'
    BY <1>1 DEF MigrationInv, TypeOK, GridsTyped
  <2>2. WellFormed(legacy)'
    BY <1>1 DEF MigrationInv, TypeOK
  <2>3. DOMAIN courses' \subseteq Catalog
    BY <1>7 DEF MigrationInv, TypeOK
  <2>4. DOMAIN lineOf' = {} /\ remaining' \subseteq Catalog
    BY <1>1, <1>3 DEF MigrationInv, TypeOK
  <2> QED
    BY <1>1, <1>6, <1>7, <1>10, <2>1, <2>2, <2>3, <2>4 DEF TypeOK, Phases
<1>12. \A c \in DOMAIN legacy.courses : courses'[Surviving[c]].code = legacy.courses[c].code
  BY <1>3, <1>7, CatalogueOf
<1>13. ASSUME Separate, PeriodsOf(OldYear) # {} PROVE courses' = legacy.courses
  <2>1. \A c \in DOMAIN legacy.courses : Surviving[c] = c
    BY <1>3, <1>13, Survivors DEF Separate
  <2>2. DOMAIN courses = DOMAIN legacy.courses
    BY <1>3, <1>9, <2>1, CatalogueOf
  <2>3. ASSUME NEW c \in DOMAIN courses PROVE courses'[c] = legacy.courses[c]
    <3> DEFINE l == FirstLine(c)
    <3>1. PICK d \in DOMAIN legacy.courses :
            /\ c = Surviving[d] /\ LevelOf(l) = legacy.level[legacy.courses[d].classe]
            /\ lignes[l].ponderation = legacy.courses[d].coefficient
            /\ \A m \in maxima : m.ligne = l => m.maximum = legacy.courses[d].max
      BY <1>1, FirstLines
    <3>2. OldMaximum(l) = legacy.courses[d].max
      BY <1>1, <1>13, <3>1, OldMaxima
    <3> HIDE DEF l
    <3>3. d = c
      BY <2>1, <3>1
    <3>4. legacy.courses[c] \in OldCourses
      BY <1>3, <2>2 DEF WellFormed
    <3>5. first[LevelOf(l)] = legacy.courses[c].classe
      <4>1. legacy.courses[c].classe \in Classes
        BY <3>4 DEF OldCourses
      <4>2. LevelOf(l) \in {legacy.level[k] : k \in Classes} /\ LevelOf(l) = legacy.level[legacy.courses[c].classe]
        BY <3>1, <3>3, <4>1
      <4>3. first[LevelOf(l)] \in Classes /\ legacy.level[first[LevelOf(l)]] = legacy.level[legacy.courses[c].classe]
        BY <1>8, <4>2
      <4> QED
        BY <1>13, <4>1, <4>3 DEF Separate
    <3>6. courses'[c] = [classe |-> legacy.courses[c].classe, code |-> legacy.courses[c].code,
                         coefficient |-> legacy.courses[c].coefficient, max |-> legacy.courses[c].max]
      BY <1>7, <1>9, <3>1, <3>2, <3>3, <3>5 DEF l
    <3> QED
      BY <3>4, <3>6 DEF OldCourses
  <2>4. courses' = [c \in DOMAIN legacy.courses |-> courses'[c]]
    BY <1>2, <2>2 DEF Reattached
  <2>5. legacy.courses = [c \in DOMAIN legacy.courses |-> legacy.courses[c]]
    BY <1>3 DEF WellFormed
  <2> QED
    BY <2>2, <2>3, <2>4, <2>5
<1>14. (Separate /\ PeriodsOf(OldYear) # {})' => Separate /\ PeriodsOf(OldYear) # {}
  BY <1>1 DEF Separate, PeriodsOf
<1>15. /\ taught' = Pointed(legacy.taught, Surviving)' /\ graded' = Pointed(legacy.graded, Surviving)'
       /\ logged' = Pointed(legacy.logged, Surviving)'
  BY <1>1, <1>5, <1>6 DEF Pointed
<1>16. PhaseInv'
  BY <1>1, <1>3, <1>5, <1>12, <1>13, <1>14, <1>15 DEF PhaseInv, Migrated
<1> QED
  BY <1>4, <1>11, <1>16 DEF MigrationInv
LEMMA MigrationStep == MigrationInv /\ [Next]_vars => MigrationInv'
<1> SUFFICES ASSUME MigrationInv, [Next]_vars PROVE MigrationInv'
  OBVIOUS
<1>1. CASE BeginUpgrade
  BY <1>1, BeginUpgradeStep
<1>2. CASE \E c \in remaining : Backfill(c)
  BY <1>2, BackfillStep
<1>3. CASE FinishUpgrade
  BY <1>3, FinishUpgradeStep
<1>4. CASE RollBackUpgrade
  BY <1>4, RollBackStep
<1>5. CASE Work
  BY <1>5, WorkStep
<1>6. CASE Downgrade
  BY <1>6, DowngradeStep
<1>7. CASE DowngradeFails
  BY <1>7, DowngradeFailsStep
<1>8. CASE UNCHANGED vars
  <2>1. UNCHANGED <<grids, duplication, phase, legacy, courses, remaining, lineOf, references,
                    taught, graded, logged, at, grilles, lignes, maxima>>
    BY <1>8 DEF vars, references, duplication, grids
  <2>2. /\ GridsTyped' /\ GridsInv'
        /\ \A c : Homes(c)' = Homes(c)
    BY <2>1, GridsKept DEF MigrationInv, TypeOK
  <2>3. CASE Migrated
    BY <2>1, <2>2, <2>3, HomesKept DEF Migrated
  <2>4. CASE ~Migrated
    <3>1. TypeOK'
      BY <2>1, <2>2 DEF MigrationInv, TypeOK, WellFormed
    <3>2. (\A c : Surviving[c] = Surviving'[c]) /\ Surviving' = Surviving /\ (Separate' <=> Separate)
      BY <2>1 DEF Surviving, Survivor, Separate
    <3>3. \A old : Pointed(old, Surviving)' = Pointed(old, Surviving)
      BY <3>2 DEF Pointed
    <3>4. PhaseInv'
      BY <2>1, <2>2, <2>4, <3>2, <3>3 DEF MigrationInv, PhaseInv, NotMoved, Migrated, PeriodsOf, Pointed
    <3> QED
      BY <2>2, <3>1, <3>4 DEF MigrationInv
  <2> QED
    BY <2>3, <2>4
<1> QED
  BY <1>1, <1>2, <1>3, <1>4, <1>5, <1>6, <1>7, <1>8 DEF Next

LEMMA MigrationHolds == Spec => []MigrationInv
BY MigrationInit, MigrationStep, PTL DEF Spec

(* Whatever the migration finds, in whatever order it handles the courses, *)
(* and whatever is done with its grids, the tables hold rows of their      *)
(* kinds.                                                                  *)
THEOREM MigrationTyped == Spec => []TypeOK
<1>1. MigrationInv => TypeOK
  BY DEF MigrationInv
<1> QED
  BY <1>1, MigrationHolds, PTL

(* dupliquer_grille: a grid that can be seen is never half copied.         *)
THEOREM CopiesAreComplete == Spec => []CopiesComplete
<1>1. MigrationInv => CopiesComplete
  BY OnceInTheCopy DEF MigrationInv
<1> QED
  BY <1>1, MigrationHolds, PTL

(* upgrade() and downgrade() neither lose nor merge a grade, an            *)
(* attribution or an audit row, and each keeps its class and its subject.  *)
THEOREM SubjectsAreKept == Spec => []RowsKeepSubject
<1>1. MigrationInv => RowsKeepSubject
  BY SubjectsKept DEF MigrationInv
<1> QED
  BY <1>1, MigrationHolds, PTL

(* Each course of a class has one line of its grid, with one maximum in    *)
(* each period of its year, whatever is edited later.                      *)
THEOREM ClassesStayGradable == Spec => []CoursesStayGradable
<1>1. MigrationInv => CoursesStayGradable
  BY Gradable DEF MigrationInv
<1> QED
  BY <1>1, MigrationHolds, PTL

(* The engine accepts each score it accepted, where the classes of a level *)
(* agreed on the scale of a subject.                                       *)
THEOREM ScoresStayAccepted == Spec => []ScoresStayValid
<1>1. MigrationInv => ScoresStayValid
  BY Valid DEF MigrationInv
<1> QED
  BY <1>1, MigrationHolds, PTL

(* downgrade() gives a school whose courses were never merged exactly the  *)
(* contents that upgrade() found.                                          *)
THEOREM UpgradeIsReversible == Spec => []RoundTrip
<1>1. MigrationInv => RoundTrip
  BY Returned DEF MigrationInv
<1> QED
  BY <1>1, MigrationHolds, PTL

-----------------------------------------------------------------------------
LEMMA Division ==
  ASSUME NEW a \in Nat, NEW d \in Nat, d > 0
  PROVE  /\ a \div d \in Nat
         /\ d * (a \div d) <= a
         /\ a < d * ((a \div d) + 1)
  OBVIOUS

LEMMA Cancel ==
  ASSUME NEW a \in Nat, NEW b \in Nat, NEW c \in Nat, c > 0, c * a < c * b
  PROVE  a < b
  OBVIOUS

LEMMA QuantizeBounds ==
  ASSUME NEW p \in Percentages
  PROVE  /\ Quantize(p) \in Nat
         /\ (2 * p.possible) * Quantize(p) <= 20000 * p.points + p.possible
         /\ 20000 * p.points + p.possible < (2 * p.possible) * (Quantize(p) + 1)
<1> DEFINE a == 20000 * p.points + p.possible
           d == 2 * p.possible
<1>1. a \in Nat /\ d \in Nat /\ d > 0
  BY DEF Percentages
<1>2. Quantize(p) = a \div d
  BY DEF Quantize
<1> HIDE DEF a, d
<1>3. /\ a \div d \in Nat
      /\ d * (a \div d) <= a
      /\ a < d * ((a \div d) + 1)
  BY <1>1, Division
<1> QED
  BY <1>2, <1>3 DEF a, d

(* The rounded percentage is the nearest hundredth: it is off by half a    *)
(* hundredth at most.  quantize_percentage with ROUND_HALF_UP.             *)
THEOREM QuantizeIsNearest ==
  ASSUME NEW p \in Percentages
  PROVE  /\ (2 * p.possible) * Quantize(p) - 20000 * p.points <= p.possible
         /\ 20000 * p.points - (2 * p.possible) * Quantize(p) < p.possible
<1> DEFINE x == p.points
           y == p.possible
           n == Quantize(p)
<1>1. x \in Nat /\ y \in Nat
  BY DEF Percentages
<1>2. n \in Nat /\ (2 * y) * n <= 20000 * x + y /\ 20000 * x + y < (2 * y) * (n + 1)
  BY QuantizeBounds
<1> HIDE DEF x, y, n
<1>3. (2 * y) * (n + 1) = (2 * y) * n + 2 * y
  BY <1>1, <1>2
<1>4. (2 * y) * n \in Nat
  BY <1>1, <1>2
<1>5. (2 * y) * n - 20000 * x <= y /\ 20000 * x - (2 * y) * n < y
  BY <1>1, <1>2, <1>3, <1>4
<1> QED
  BY <1>5 DEF x, y, n

(* Rounding never exchanges two pupils: who has not the higher exact       *)
(* percentage has not the higher rounded one.  It is what lets the         *)
(* consolidation rank the percentages it shows.                            *)
THEOREM RoundingKeepsOrder ==
  ASSUME NEW p \in Percentages, NEW q \in Percentages, ~Below(q, p)
  PROVE  Quantize(p) <= Quantize(q)
<1> DEFINE a == p.points
           b == p.possible
           c == q.points
           d == q.possible
           m == Quantize(p)
           n == Quantize(q)
<1>1. a \in Nat /\ b \in Nat /\ c \in Nat /\ d \in Nat /\ b > 0 /\ d > 0
  BY DEF Percentages
<1>2. a * d <= c * b
  BY <1>1 DEF Below
<1>3. m \in Nat /\ (2 * b) * m <= 20000 * a + b
  BY QuantizeBounds
<1>4. n \in Nat /\ 20000 * c + d < (2 * d) * (n + 1)
  BY QuantizeBounds
<1> HIDE DEF a, b, c, d, m, n
<1>5. d * ((2 * b) * m) <= d * (20000 * a + b)
  BY <1>1, <1>3
<1>6. d * (20000 * a + b) = 20000 * (a * d) + b * d
  BY <1>1
<1>7. b * (20000 * c + d) < b * ((2 * d) * (n + 1))
  BY <1>1, <1>4
<1>8. b * (20000 * c + d) = 20000 * (c * b) + b * d
  BY <1>1
<1>9. d * ((2 * b) * m) = (2 * (b * d)) * m /\ b * ((2 * d) * (n + 1)) = (2 * (b * d)) * (n + 1)
  BY <1>1, <1>3, <1>4
<1>10. (2 * (b * d)) * m < (2 * (b * d)) * (n + 1)
  <2> DEFINE X == a * d
             Y == c * b
             Z == b * d
             M == (2 * Z) * m
             N == (2 * Z) * (n + 1)
  <2>1. X \in Nat /\ Y \in Nat /\ Z \in Nat /\ M \in Nat /\ N \in Nat
    BY <1>1, <1>3, <1>4
  <2>2. X <= Y /\ M <= 20000 * X + Z /\ 20000 * Y + Z < N
    BY <1>2, <1>5, <1>6, <1>7, <1>8, <1>9
  <2> HIDE DEF X, Y, Z, M, N
  <2>3. M < N
    BY <2>1, <2>2
  <2> QED
    BY <2>3 DEF M, N, Z
<1>11. 2 * (b * d) \in Nat /\ 2 * (b * d) > 0
  BY <1>1
<1>12. m < n + 1
  <2> DEFINE z == 2 * (b * d)
  <2>1. z \in Nat /\ z > 0 /\ z * m < z * (n + 1)
    BY <1>10, <1>11
  <2> HIDE DEF z
  <2> QED
    BY <1>3, <1>4, <2>1, Cancel
<1>13. m <= n
  BY <1>3, <1>4, <1>12
<1> QED
  BY <1>13 DEF m, n

(* A percentage that reaches the threshold is shown at least as high as    *)
(* the threshold, and one that does not is shown at most as high: an       *)
(* admitted pupil is never shown below one deferred for the average.       *)
THEOREM RoundingRespectsThreshold ==
  ASSUME NEW p \in Percentages, NEW t \in Nat
  PROVE  IF BelowPercent(p, t) THEN Quantize(p) <= t ELSE Quantize(p) >= t
<1> DEFINE a == p.points
           b == p.possible
           m == Quantize(p)
<1>1. a \in Nat /\ b \in Nat /\ b > 0
  BY DEF Percentages
<1>2. m \in Nat /\ (2 * b) * m <= 20000 * a + b /\ 20000 * a + b < (2 * b) * (m + 1)
  BY QuantizeBounds
<1>3. BelowPercent(p, t) <=> 10000 * a < t * b
  BY DEF BelowPercent
<1> HIDE DEF a, b, m
<1> DEFINE M == b * m
           T == t * b
<1>4. M \in Nat /\ T \in Nat
  BY <1>1, <1>2
<1>5. 2 * M <= 20000 * a + b /\ 20000 * a < 2 * M + b
  <2>1. (2 * b) * m = 2 * M /\ (2 * b) * (m + 1) = 2 * M + 2 * b
    BY <1>1, <1>2
  <2> HIDE DEF M
  <2> QED
    BY <1>1, <1>2, <1>4, <2>1
<1>6. CASE 10000 * a < t * b
  <2>1. 2 * M < 2 * T + b
    <3> HIDE DEF M
    <3>1. 10000 * a < T
      BY <1>6
    <3> HIDE DEF T
    <3> QED
      BY <1>1, <1>4, <1>5, <3>1
  <2>2. b * m < b * (t + 1)
    BY <1>1, <1>2, <1>4, <2>1
  <2>3. m < t + 1
    BY <1>1, <1>2, <2>2, Cancel
  <2>4. m <= t
    BY <1>2, <2>3
  <2> QED
    BY <1>3, <1>6, <2>4 DEF m
<1>7. CASE ~(10000 * a < t * b)
  <2>1. 2 * T < 2 * M + b
    <3> HIDE DEF M
    <3>1. T <= 10000 * a
      BY <1>1, <1>4, <1>7
    <3> HIDE DEF T
    <3> QED
      BY <1>1, <1>4, <1>5, <3>1
  <2>2. b * t < b * (m + 1)
    BY <1>1, <1>2, <1>4, <2>1
  <2>3. t < m + 1
    BY <1>1, <1>2, <2>2, Cancel
  <2>4. t <= m
    BY <1>2, <2>3
  <2> QED
    BY <1>3, <1>7, <2>4 DEF m
<1> QED
  BY <1>6, <1>7

(* No percentage exceeds 100: a total that stays within its maximum is     *)
(* counted by some bucket of the distribution, whose last one ends just    *)
(* above 100.                                                              *)
THEOREM WithinHundred ==
  ASSUME NEW p \in Percentages, p.points <= p.possible
  PROVE  BelowPercent(p, 10001) /\ Quantize(p) <= 10000
<1>1. p.points \in Nat /\ p.possible \in Nat /\ p.possible > 0
  BY DEF Percentages
<1>2. BelowPercent(p, 10001)
  BY <1>1 DEF BelowPercent
<1>3. Quantize(p) <= 10000
  <2>1. Quantize(p) \in Nat
        /\ (2 * p.possible) * Quantize(p) <= 20000 * p.points + p.possible
    BY QuantizeBounds
  <2>2. (2 * p.possible) * Quantize(p) < (2 * p.possible) * 10001
    BY <1>1, <2>1
  <2>3. Quantize(p) < 10001
    <3> DEFINE d == 2 * p.possible
               m == Quantize(p)
    <3>1. d \in Nat /\ d > 0 /\ m \in Nat /\ d * m < d * 10001
      BY <1>1, <2>1, <2>2
    <3> HIDE DEF d, m
    <3>2. m < 10001
      BY <3>1, Cancel
    <3> QED
      BY <3>2 DEF m
  <2> QED
    BY <2>1, <2>3
<1> QED
  BY <1>2, <1>3

-----------------------------------------------------------------------------
(* A line whose content its maximum allows gives the engine a valid input. *)
LEMMA AcceptableIsValid ==
  ASSUME NEW l \in Lines, NEW content \in Contents,
         content \in Nat => content <= Grille[l].maximum
  PROVE  ValidGrade(Input(Grille[l], content))
<1> DEFINE input == Input(Grille[l], content)
<1>1. Grille[l].maximum \in Nat \ {0} /\ Grille[l].ponderation \in Nat \ {0} /\ None \notin Nat
  <2>1. Grille[l] \in GrilleLines
    BY ConsolidationAssumption DEF Lines
  <2> QED
    BY <2>1, ConsolidationAssumption DEF GrilleLines
<1>2. CASE Grille[l].note_par_appreciation
  BY <1>2 DEF ValidGrade, Input
<1>3. CASE ~Grille[l].note_par_appreciation
  <2>1. input.max_score = Grille[l].maximum /\ input.coefficient = Grille[l].ponderation
        /\ input.score = Score(content)
    BY <1>3 DEF Input
  <2>2. input.score # None => input.score \in 0 .. input.max_score
    BY <1>1, <2>1 DEF Score
  <2> QED
    BY <1>1, <2>1, <2>2 DEF ValidGrade
<1> QED
  BY <1>2, <1>3

(* What the grid holds is typed and within the maximum of its line. *)
WithinMaximum ==
  /\ grades \in [Enrolled -> [Lines -> Contents]]
  /\ \A p \in Enrolled, l \in Lines :
       grades[p][l] \in Nat => grades[p][l] <= Grille[l].maximum

LEMMA WithinMaximumTyped == WithinMaximum => PagesTyped
<1> SUFFICES ASSUME WithinMaximum, NEW p \in Enrolled, NEW l \in Lines
             PROVE  ValidGrade(ConsolidationInputs(grades, p)[l])
  BY DEF WithinMaximum, PagesTyped
<1>1. grades[p][l] \in Contents /\ (grades[p][l] \in Nat => grades[p][l] <= Grille[l].maximum)
  BY DEF WithinMaximum
<1>2. ConsolidationInputs(grades, p)[l] = Input(Grille[l], grades[p][l])
  BY DEF ConsolidationInputs
<1> QED
  BY <1>1, <1>2, AcceptableIsValid

LEMMA WithinMaximumInit == PagesInit => WithinMaximum
  BY ConsolidationAssumption DEF PagesInit, WithinMaximum

LEMMA WithinMaximumStep == WithinMaximum /\ [PagesNext]_pageVars => WithinMaximum'
<1> SUFFICES ASSUME WithinMaximum, [PagesNext]_pageVars PROVE WithinMaximum'
  OBVIOUS
<1>1. ASSUME NEW p \in Enrolled, NEW l \in Lines, NEW score \in Scores[l], Enter(p, l, score)
      PROVE  WithinMaximum'
  <2>1. score \in Nat /\ score <= Grille[l].maximum
    BY <1>1, ConsolidationAssumption DEF Enter, Acceptable
  <2>2. grades' = [grades EXCEPT ![p] = [grades[p] EXCEPT ![l] = score]]
    BY <1>1 DEF Enter
  <2>3. score \in Contents
    BY <2>1 DEF Contents
  <2>4. grades' \in [Enrolled -> [Lines -> Contents]]
    BY <2>2, <2>3 DEF WithinMaximum
  <2>5. ASSUME NEW q \in Enrolled, NEW k \in Lines, grades'[q][k] \in Nat
        PROVE  grades'[q][k] <= Grille[k].maximum
    <3>1. CASE q = p /\ k = l
      BY <2>1, <2>2, <3>1 DEF WithinMaximum
    <3>2. CASE ~(q = p /\ k = l)
      <4>1. grades'[q][k] = grades[q][k]
        BY <2>2, <3>2 DEF WithinMaximum
      <4> QED
        BY <2>5, <4>1 DEF WithinMaximum
    <3> QED
      BY <3>1, <3>2
  <2> QED
    BY <2>4, <2>5 DEF WithinMaximum
<1>2. CASE UNCHANGED pageVars
  BY <1>2 DEF pageVars, WithinMaximum
<1> QED
  BY <1>1, <1>2 DEF PagesNext

(* Every stored grade passes the validation the engine repeats, so neither *)
(* page can fail on one (InvalidGradeError in compute_period_total).       *)
THEOREM GradesStayValid == PagesSpec => []PagesTyped
<1>1. PagesSpec => []WithinMaximum
  BY WithinMaximumInit, WithinMaximumStep, PTL DEF PagesSpec
<1> QED
  BY <1>1, WithinMaximumTyped, PTL

-----------------------------------------------------------------------------
(* What holds at 0 and is carried from each number to the next. *)
LEMMA Reaches ==
  ASSUME NEW N \in Nat, NEW T, 0 \in T, \A n \in 1..N : n - 1 \in T => n \in T
  PROVE  \A n \in 0..N : n \in T
<1> DEFINE Bad == {n \in 0..N : n \notin T}
<1>1. ASSUME NEW k \in Bad, \A m \in Bad : k <= m PROVE FALSE
  <2>1. k \in 0..N /\ k \notin T
    OBVIOUS
  <2>2. k \in 1..N /\ k - 1 \in 0..N /\ k - 1 \notin T
    BY <2>1
  <2>3. k - 1 \in Bad
    BY <2>2
  <2> HIDE DEF Bad
  <2> QED
    BY <1>1, <2>1, <2>3
<1>2. Bad \subseteq Nat
  OBVIOUS
<1>3. Bad = {}
  <2> HIDE DEF Bad
  <2> QED
    BY <1>1, <1>2, Least
<1> QED
  BY <1>3

(* A loop over 1..N that starts from z and computes, at n, the next value  *)
(* step[n][v] from the value v so far.                                     *)
Loops(f, N, V, z, step) ==
  f \in [0..N -> V] /\ f[0] = z /\ \A n \in 1..N : f[n] = step[n][f[n - 1]]

LEMMA Loop ==
  ASSUME NEW N \in Nat, NEW V, NEW z \in V, NEW step \in [1..N -> [V -> V]]
  PROVE  \E f : Loops(f, N, V, z, step)
<1> DEFINE Runs(f, k) == f \in [0..N -> V] /\ f[0] = z /\ \A n \in 1..k : f[n] = step[n][f[n - 1]]
           T == {k \in 0..N : \E f : Runs(f, k)}
<1>1. 0 \in T
  <2>1. Runs([n \in 0..N |-> z], 0)
    OBVIOUS
  <2> HIDE DEF Runs
  <2> QED
    BY <2>1
<1>2. ASSUME NEW k \in 1..N, k - 1 \in T PROVE k \in T
  <2>1. k - 1 \in 0..N
    OBVIOUS
  <2>2. PICK f : Runs(f, k - 1)
    <3> HIDE DEF Runs
    <3> QED
      BY <1>2
  <2> DEFINE g == [f EXCEPT ![k] = step[k][f[k - 1]]]
  <2>3. step[k][f[k - 1]] \in V
    BY <2>1, <2>2
  <2>4. g \in [0..N -> V] /\ g[k] = step[k][f[k - 1]] /\ \A n \in 0..N : n # k => g[n] = f[n]
    BY <2>2, <2>3
  <2> HIDE DEF g
  <2>5. g[0] = z
    BY <2>2, <2>4
  <2>6. ASSUME NEW n \in 1..k PROVE g[n] = step[n][g[n - 1]]
    <3>1. n - 1 \in 0..N /\ n - 1 # k /\ n \in 0..N
      OBVIOUS
    <3>2. CASE n = k
      BY <2>4, <3>1, <3>2
    <3>3. CASE n # k
      <4>1. n \in 1..(k - 1)
        BY <3>3
      <4> QED
        BY <2>2, <2>4, <3>1, <3>3, <4>1
    <3> QED
      BY <3>2, <3>3
  <2>7. Runs(g, k)
    BY <2>4, <2>5, <2>6
  <2>8. k \in 0..N
    OBVIOUS
  <2> HIDE DEF Runs
  <2> QED
    BY <2>7, <2>8
<1>3. N \in T
  <2> HIDE DEF T
  <2>1. \A n \in 0..N : n \in T
    BY <1>1, <1>2, Reaches
  <2> QED
    BY <2>1
<1>4. PICK f : Runs(f, N)
  <2> HIDE DEF Runs
  <2> QED
    BY <1>3
<1> QED
  BY <1>4 DEF Loops

-----------------------------------------------------------------------------
(* f is the loop that adds up the values. *)
Adds(f, values) ==
  /\ f \in [0..Len(values) -> Nat]
  /\ f[0] = 0 /\ \A n \in 1..Len(values) : f[n] = f[n - 1] + values[n]

(* The sum of a sequence is what the loop has added up at its end. *)
LEMMA SumLoop ==
  ASSUME NEW values \in Seq(Nat)
  PROVE  \E f : Adds(f, values) /\ SumOf(values) = f[Len(values)]
<1> DEFINE N == Len(values)
           step == [n \in 1..N |-> [v \in Nat |-> v + values[n]]]
           Is(f) == f = [n \in 0..N |-> IF n = 0 THEN 0 ELSE f[n - 1] + values[n]]
           sum == CHOOSE f : Is(f)
<1>1. N \in Nat /\ \A n \in 1..N : values[n] \in Nat
  OBVIOUS
<1>2. step \in [1..N -> [Nat -> Nat]] /\ \A n \in 1..N : \A v \in Nat : step[n][v] = v + values[n]
  BY <1>1
<1>3. PICK f : Loops(f, N, Nat, 0, step)
  <2>1. N \in Nat /\ 0 \in Nat /\ step \in [1..N -> [Nat -> Nat]]
    BY <1>1, <1>2
  <2> HIDE DEF N, step
  <2> QED
    BY <2>1, Loop, Zenon
<1>4. \A n \in 1..N : n - 1 \in 0..N /\ n # 0
  BY <1>1
<1>5. Is(f)
  <2>1. \A n \in 1..N : f[n] = f[n - 1] + values[n]
    <3> HIDE DEF step
    <3> QED
      BY <1>2, <1>3, <1>4 DEF Loops
  <2>2. \A n \in 0..N : f[n] = IF n = 0 THEN 0 ELSE f[n - 1] + values[n]
    BY <1>1, <1>3, <2>1 DEF Loops
  <2> HIDE DEF N
  <2> QED
    BY <1>3, <2>2 DEF Loops
<1>6. Is(sum)
  <2> HIDE DEF Is
  <2> QED
    BY <1>5, Zenon
<1>7. SumOf(values) = sum[N]
  BY Zenon DEF SumOf
<1> HIDE DEF sum
<1>8. sum[0] = 0 /\ \A n \in 1..N : sum[n] = sum[n - 1] + values[n]
  BY <1>1, <1>4, <1>6
<1>9. \A n \in 0..N : sum[n] \in Nat
  <2> DEFINE T == {n \in 0..N : sum[n] \in Nat}
  <2>1. 0 \in T
    BY <1>1, <1>8
  <2>2. ASSUME NEW n \in 1..N, n - 1 \in T PROVE n \in T
    BY <1>1, <1>8, <2>2
  <2> HIDE DEF T
  <2>3. \A n \in 0..N : n \in T
    BY <1>1, <2>1, <2>2, Reaches
  <2> QED
    BY <2>3 DEF T
<1>10. sum \in [0..N -> Nat]
  <2> HIDE DEF N
  <2> QED
    BY <1>6, <1>9
<1> QED
  BY <1>7, <1>8, <1>10 DEF Adds

LEMMA SumIsNatural ==
  ASSUME NEW values \in Seq(Nat)
  PROVE  SumOf(values) \in Nat
BY SumLoop DEF Adds

(* Greater values have a greater sum. *)
LEMMA SumGrows ==
  ASSUME NEW values \in Seq(Nat), NEW others \in Seq(Nat), Len(values) = Len(others),
         \A n \in 1..Len(values) : values[n] <= others[n]
  PROVE  SumOf(values) <= SumOf(others)
<1> DEFINE N == Len(values)
<1>1. PICK f : Adds(f, values) /\ SumOf(values) = f[N]
  BY SumLoop
<1>2. PICK g : Adds(g, others) /\ SumOf(others) = g[N]
  BY SumLoop
<1> DEFINE T == {n \in 0..N : f[n] <= g[n]}
<1>3. 0 \in T
  BY <1>1, <1>2 DEF Adds
<1>4. ASSUME NEW n \in 1..N, n - 1 \in T PROVE n \in T
  <2>1. n - 1 \in 0..N /\ n \in 0..N /\ values[n] \in Nat /\ others[n] \in Nat
    OBVIOUS
  <2>2. f[n] = f[n - 1] + values[n] /\ g[n] = g[n - 1] + others[n]
        /\ f[n - 1] \in Nat /\ g[n - 1] \in Nat
    BY <1>1, <1>2, <2>1 DEF Adds
  <2> QED
    BY <1>4, <2>1, <2>2
<1>5. N \in T
  <2>1. N \in Nat
    OBVIOUS
  <2> HIDE DEF T, N
  <2>2. \A n \in 0..N : n \in T
    BY <1>3, <1>4, <2>1, Reaches
  <2> QED
    BY <2>1, <2>2
<1> QED
  BY <1>1, <1>2, <1>5

(* One value that is raised by d raises the sum by d. *)
LEMMA SumOfOneRaised ==
  ASSUME NEW values \in Seq(Nat), NEW others \in Seq(Nat), Len(values) = Len(others),
         NEW k \in 1..Len(values), NEW d \in Nat, others[k] = values[k] + d,
         \A n \in 1..Len(values) : n # k => others[n] = values[n]
  PROVE  SumOf(others) = SumOf(values) + d
<1> DEFINE N == Len(values)
<1>1. PICK f : Adds(f, values) /\ SumOf(values) = f[N]
  BY SumLoop
<1>2. PICK g : Adds(g, others) /\ SumOf(others) = g[N]
  BY SumLoop
<1> DEFINE T == {n \in 0..N : g[n] = IF n < k THEN f[n] ELSE f[n] + d}
<1>3. 0 \in T
  BY <1>1, <1>2 DEF Adds
<1>4. ASSUME NEW n \in 1..N, n - 1 \in T PROVE n \in T
  <2>1. n - 1 \in 0..N /\ n \in 0..N /\ values[n] \in Nat /\ others[n] \in Nat
    OBVIOUS
  <2>2. f[n] = f[n - 1] + values[n] /\ g[n] = g[n - 1] + others[n]
        /\ f[n - 1] \in Nat /\ g[n - 1] \in Nat
    BY <1>1, <1>2, <2>1 DEF Adds
  <2>3. g[n - 1] = IF n - 1 < k THEN f[n - 1] ELSE f[n - 1] + d
    BY <1>4
  <2>4. g[n] = IF n < k THEN f[n] ELSE f[n] + d
    <3>1. CASE ~(n < k) /\ ~(n > k)
      <4>1. n = k
        BY <3>1
      <4>2. g[n - 1] = f[n - 1] /\ others[n] = values[n] + d
        BY <2>3, <4>1
      <4>3. g[n] = f[n - 1] + (values[n] + d)
        BY <2>2, <4>2
      <4>4. f[n - 1] \in Nat /\ values[n] \in Nat /\ d \in Nat
        BY <2>1, <2>2
      <4>5. \A a, b, c \in Nat : a + (b + c) = (a + b) + c
        OBVIOUS
      <4>6. f[n - 1] + (values[n] + d) = (f[n - 1] + values[n]) + d
        BY <4>4, <4>5, Zenon
      <4>7. f[n] = f[n - 1] + values[n]
        BY <2>2
      <4>8. g[n] = f[n] + d
        BY <4>3, <4>6, <4>7, Zenon
      <4> QED
        BY <3>1, <4>8
    <3>2. CASE n < k
      <4>1. g[n - 1] = f[n - 1] /\ others[n] = values[n]
        BY <2>3, <3>2
      <4> QED
        BY <2>2, <3>2, <4>1
    <3>3. CASE n > k
      <4>1. g[n - 1] = f[n - 1] + d /\ others[n] = values[n] /\ ~(n < k)
        BY <2>3, <3>3
      <4>2. g[n] = f[n] + d
        BY <2>1, <2>2, <4>1
      <4> QED
        BY <4>1, <4>2
    <3> QED
      BY <3>1, <3>2, <3>3
  <2> QED
    BY <2>1, <2>4
<1>5. N \in T
  <2>1. N \in Nat
    OBVIOUS
  <2> HIDE DEF T, N
  <2>2. \A n \in 0..N : n \in T
    BY <1>3, <1>4, <2>1, Reaches
  <2> QED
    BY <2>1, <2>2
<1> QED
  BY <1>1, <1>2, <1>5

LEMMA SumOfZeros ==
  ASSUME NEW values \in Seq(Nat), \A n \in 1..Len(values) : values[n] = 0
  PROVE  SumOf(values) = 0
<1> DEFINE N == Len(values)
<1>1. PICK f : Adds(f, values) /\ SumOf(values) = f[N]
  BY SumLoop
<1> DEFINE T == {n \in 0..N : f[n] = 0}
<1>2. 0 \in T
  BY <1>1 DEF Adds
<1>3. ASSUME NEW n \in 1..N, n - 1 \in T PROVE n \in T
  BY <1>1, <1>3 DEF Adds
<1>4. N \in T
  <2>1. N \in Nat
    OBVIOUS
  <2> HIDE DEF T, N
  <2>2. \A n \in 0..N : n \in T
    BY <1>2, <1>3, <2>1, Reaches
  <2> QED
    BY <2>1, <2>2
<1> QED
  BY <1>1, <1>4

(* Each value is in one of the parts, the others hold a zero in its place. *)
Splits(values, G, parts) ==
  /\ values \in Seq(Nat) /\ G \in Nat /\ parts \in [1..G -> Seq(Nat)]
  /\ \A j \in 1..G : Len(parts[j]) = Len(values)
  /\ \A n \in 1..Len(values) :
       \/ values[n] = 0 /\ \A j \in 1..G : parts[j][n] = 0
       \/ \E j \in 1..G :
            parts[j][n] = values[n] /\ \A i \in 1..G : i # j => parts[i][n] = 0

LEMMA SumOfParts ==
  ASSUME NEW values, NEW G, NEW parts, Splits(values, G, parts),
         NEW sums, sums \in Seq(Nat), Len(sums) = G, \A j \in 1..G : sums[j] = SumOf(parts[j])
  PROVE  SumOf(sums) = SumOf(values)
<1> DEFINE N == Len(values)
           IsSum(h, j) == Adds(h, parts[j]) /\ SumOf(parts[j]) = h[N]
           f == [j \in 1..G |-> CHOOSE h : IsSum(h, j)]
           Row(n) == [j \in 1..G |-> f[j][n]]
<1>0. /\ values \in Seq(Nat) /\ G \in Nat /\ parts \in [1..G -> Seq(Nat)]
      /\ \A j \in 1..G : Len(parts[j]) = N
  BY DEF Splits
<1>1. N \in Nat /\ DOMAIN values = 1..N /\ \A n \in 1..N : values[n] \in Nat
  BY <1>0
<1>2. PICK sum : Adds(sum, values) /\ SumOf(values) = sum[N]
  BY <1>0, SumLoop
<1>3. \A j \in 1..G : IsSum(f[j], j)
  <2>1. ASSUME NEW j \in 1..G PROVE \E h : IsSum(h, j)
    <3>1. parts[j] \in Seq(Nat) /\ Len(parts[j]) = N
      BY <1>0
    <3>2. PICK h : Adds(h, parts[j]) /\ SumOf(parts[j]) = h[Len(parts[j])]
      BY <3>1, SumLoop
    <3> QED
      BY <3>1, <3>2
  <2> HIDE DEF IsSum
  <2> QED
    BY <2>1
<1> HIDE DEF f
<1>4. \A j \in 1..G :
        /\ \A n \in 0..N : f[j][n] \in Nat
        /\ f[j][0] = 0
        /\ \A n \in 1..N : f[j][n] = f[j][n - 1] + parts[j][n]
        /\ SumOf(parts[j]) = f[j][N]
  BY <1>0, <1>3 DEF Adds
<1>5. \A n \in 0..N : Row(n) \in Seq(Nat) /\ Len(Row(n)) = G
  <2> TAKE n \in 0..N
  <2>1. \A j \in 1..G : f[j][n] \in Nat
    BY <1>4
  <2>2. G \in Nat
    BY <1>0
  <2> QED
    BY <2>1, <2>2
<1> DEFINE T == {n \in 0..N : SumOf(Row(n)) = sum[n]}
<1>6. 0 \in T
  <2>1. \A j \in 1..G : Row(0)[j] = 0
    BY <1>4
  <2>2. 0 \in 0..N
    BY <1>1
  <2> HIDE DEF Row
  <2>3. SumOf(Row(0)) = 0
    BY <1>5, <2>1, <2>2, SumOfZeros
  <2> QED
    BY <1>2, <2>2, <2>3 DEF Adds
<1>7. ASSUME NEW n \in 1..N, n - 1 \in T PROVE n \in T
  <2>1. n - 1 \in 0..N /\ n \in 0..N
    BY <1>1
  <2>2. sum[n] = sum[n - 1] + values[n] /\ SumOf(Row(n - 1)) = sum[n - 1] /\ sum[n - 1] \in Nat
    BY <1>2, <1>7, <2>1 DEF Adds
  <2>3. \A j \in 1..G : Row(n)[j] = Row(n - 1)[j] + parts[j][n] /\ Row(n - 1)[j] \in Nat
    BY <1>4, <2>1
  <2>4. Row(n) \in Seq(Nat) /\ Len(Row(n)) = G /\ Row(n - 1) \in Seq(Nat) /\ Len(Row(n - 1)) = G
    BY <1>5, <2>1
  <2>5. CASE values[n] = 0 /\ \A j \in 1..G : parts[j][n] = 0
    <3>1. Row(n) = Row(n - 1)
      <4>1. ASSUME NEW j \in 1..G PROVE f[j][n] = f[j][n - 1]
        <5>1. f[j][n] = f[j][n - 1] + parts[j][n] /\ f[j][n - 1] \in Nat
          BY <1>4, <2>1
        <5>2. parts[j][n] = 0
          BY <2>5
        <5> QED
          BY <5>1, <5>2
      <4> QED
        BY <4>1
    <3> HIDE DEF Row
    <3>2. SumOf(Row(n)) = sum[n]
      BY <2>2, <2>5, <3>1
    <3> QED
      BY <2>1, <3>2
  <2>6. ASSUME NEW j \in 1..G, parts[j][n] = values[n],
               \A i \in 1..G : i # j => parts[i][n] = 0
        PROVE  n \in T
    <3> HIDE DEF Row
    <3>1. Row(n)[j] = Row(n - 1)[j] + values[n] /\ values[n] \in Nat
      BY <1>1, <2>3, <2>6
    <3>2. ASSUME NEW i \in 1..G, i # j PROVE Row(n)[i] = Row(n - 1)[i]
      <4>1. parts[i][n] = 0
        BY <2>6, <3>2
      <4>2. Row(n)[i] = Row(n - 1)[i] + parts[i][n] /\ Row(n - 1)[i] \in Nat
        BY <2>3
      <4> QED
        BY <4>1, <4>2
    <3>3. PICK before, after : before = Row(n - 1) /\ after = Row(n)
      OBVIOUS
    <3>4. /\ before \in Seq(Nat) /\ after \in Seq(Nat) /\ Len(before) = Len(after)
          /\ j \in 1..Len(before) /\ values[n] \in Nat /\ after[j] = before[j] + values[n]
          /\ \A i \in 1..Len(before) : i # j => after[i] = before[i]
      BY <2>4, <3>1, <3>2, <3>3
    <3>5. SumOf(after) = SumOf(before) + values[n]
      BY <3>4, SumOfOneRaised, Zenon
    <3> QED
      BY <2>1, <2>2, <3>3, <3>5
  <2>7. \/ values[n] = 0 /\ \A j \in 1..G : parts[j][n] = 0
        \/ \E j \in 1..G :
             parts[j][n] = values[n] /\ \A i \in 1..G : i # j => parts[i][n] = 0
    BY DEF Splits
  <2> QED
    BY <2>5, <2>6, <2>7
<1>8. SumOf(Row(N)) = sum[N]
  <2> HIDE DEF T
  <2>1. \A n \in 0..N : n \in T
    BY <1>1, <1>6, <1>7, Reaches
  <2>2. N \in T
    BY <1>1, <2>1
  <2> QED
    BY <2>2 DEF T
<1>9. Row(N) = sums
  <2>1. sums = [j \in 1..G |-> sums[j]]
    OBVIOUS
  <2> QED
    BY <1>4, <2>1
<1> HIDE DEF Row
<1> QED
  BY <1>2, <1>8, <1>9

-----------------------------------------------------------------------------
BreakdownEntries == [groupe : STRING, points : Nat, possible : Nat, included : BOOLEAN]

(* The subtotals are those of every group with an included line, once. *)
LEMMA GroupsOnce ==
  ASSUME NEW breakdown \in Seq(BreakdownEntries)
  PROVE  LET order == GroupOrder(breakdown)
         IN /\ order \in Seq(STRING)
            /\ \A i, j \in DOMAIN order : order[i] = order[j] => i = j
            /\ \A n \in DOMAIN breakdown :
                 breakdown[n].included => \E j \in DOMAIN order : order[j] = breakdown[n].groupe
<1> DEFINE N == Len(breakdown)
           Next1(n, seen) ==
             IF ~breakdown[n].included \/ breakdown[n].groupe \in ToSet(seen)
             THEN seen ELSE Append(seen, breakdown[n].groupe)
           step == [n \in 1..N |-> [seen \in Seq(STRING) |-> Next1(n, seen)]]
           Is(f) == f = [n \in 0..N |-> IF n = 0 THEN <<>> ELSE Next1(n, f[n - 1])]
           order == CHOOSE f : Is(f)
<1>1. N \in Nat /\ DOMAIN breakdown = 1..N /\ \A n \in 1..N : breakdown[n].groupe \in STRING
  <2>1. \A n \in 1..N : breakdown[n] \in BreakdownEntries
    OBVIOUS
  <2> QED
    BY <2>1 DEF BreakdownEntries
<1>2. \A n \in 1..N : \A seen \in Seq(STRING) : Next1(n, seen) \in Seq(STRING)
  <2> TAKE n \in 1..N
  <2> TAKE seen \in Seq(STRING)
  <2>1. Append(seen, breakdown[n].groupe) \in Seq(STRING)
    BY <1>1, AppendProperties
  <2> QED
    BY <2>1
<1>3. step \in [1..N -> [Seq(STRING) -> Seq(STRING)]]
  <2> HIDE DEF Next1
  <2> QED
    BY <1>2
<1>4. PICK f : Loops(f, N, Seq(STRING), <<>>, step)
  <2>1. <<>> \in Seq(STRING)
    OBVIOUS
  <2> HIDE DEF N, step
  <2> QED
    BY <1>1, <1>3, <2>1, Loop, Zenon
<1>5. \A n \in 1..N : n - 1 \in 0..N /\ n # 0
  BY <1>1
<1>6. Is(f)
  <2> HIDE DEF Next1
  <2>1. \A n \in 1..N : f[n] = Next1(n, f[n - 1])
    BY <1>4, <1>5 DEF Loops
  <2>2. \A n \in 0..N : f[n] = IF n = 0 THEN <<>> ELSE Next1(n, f[n - 1])
    BY <1>1, <1>4, <2>1 DEF Loops
  <2> HIDE DEF N
  <2> QED
    BY <1>4, <2>2 DEF Loops
<1>7. Is(order)
  <2> HIDE DEF Is
  <2> QED
    BY <1>6, Zenon
<1>8. GroupOrder(breakdown) = order[N]
  BY Zenon DEF GroupOrder
<1> HIDE DEF order
<1>9. order[0] = <<>> /\ \A n \in 1..N : order[n] = Next1(n, order[n - 1])
  <2> HIDE DEF Next1
  <2> QED
    BY <1>1, <1>5, <1>7
<1> DEFINE Once(s, n) ==
             /\ s \in Seq(STRING)
             /\ \A i, j \in DOMAIN s : s[i] = s[j] => i = j
             /\ \A k \in 1..n : breakdown[k].included =>
                  \E j \in DOMAIN s : s[j] = breakdown[k].groupe
           T == {n \in 0..N : Once(order[n], n)}
<1>10. 0 \in T
  <2>1. Once(<<>>, 0)
    OBVIOUS
  <2> HIDE DEF Once
  <2> QED
    BY <1>1, <1>9, <2>1
<1>11. ASSUME NEW n \in 1..N, n - 1 \in T PROVE n \in T
  <2>1. n \in 0..N
    OBVIOUS
  <2>2. PICK seen : seen = order[n - 1]
    OBVIOUS
  <2>3. order[n] = Next1(n, seen)
    <3> HIDE DEF Next1
    <3> QED
      BY <1>9, <2>2
  <2>4. Once(seen, n - 1)
    <3> HIDE DEF Once
    <3> QED
      BY <1>11, <2>2
  <2>5. seen \in Seq(STRING) /\ Len(seen) \in Nat /\ DOMAIN seen = 1..Len(seen)
    BY <2>4
  <2>6. \A k \in 1..n : k # n => k \in 1..(n - 1)
    OBVIOUS
  <2>7. CASE ~breakdown[n].included
    <3>1. order[n] = seen
      BY <2>3, <2>7
    <3>2. Once(seen, n)
      BY <2>4, <2>6, <2>7
    <3> HIDE DEF Once
    <3> QED
      BY <2>1, <3>1, <3>2
  <2>8. CASE breakdown[n].included /\ breakdown[n].groupe \in ToSet(seen)
    <3>1. order[n] = seen
      BY <2>3, <2>8
    <3>2. \E j \in DOMAIN seen : seen[j] = breakdown[n].groupe
      BY <2>8 DEF ToSet
    <3>3. Once(seen, n)
      BY <2>4, <2>6, <3>2
    <3> HIDE DEF Once
    <3> QED
      BY <2>1, <3>1, <3>3
  <2>9. CASE breakdown[n].included /\ breakdown[n].groupe \notin ToSet(seen)
    <3>1. PICK s : s = Append(seen, breakdown[n].groupe)
      OBVIOUS
    <3>2. order[n] = s
      BY <2>3, <2>9, <3>1
    <3>3. /\ s \in Seq(STRING) /\ DOMAIN s = 1..(Len(seen) + 1)
          /\ s[Len(seen) + 1] = breakdown[n].groupe
          /\ \A i \in DOMAIN seen : s[i] = seen[i]
      BY <1>1, <2>5, <3>1
    <3>4. \A i \in DOMAIN seen : seen[i] # breakdown[n].groupe
      BY <2>9 DEF ToSet
    <3>5. \A i \in DOMAIN s : i \in DOMAIN seen \/ i = Len(seen) + 1
      BY <2>5, <3>3
    <3>6. \A i, j \in DOMAIN s : s[i] = s[j] => i = j
      BY <2>4, <3>3, <3>4, <3>5
    <3>7. DOMAIN seen \subseteq DOMAIN s /\ Len(seen) + 1 \in DOMAIN s
      BY <2>5, <3>3
    <3>8. \A k \in 1..n : breakdown[k].included => \E j \in DOMAIN s : s[j] = breakdown[k].groupe
      BY <2>4, <2>6, <3>3, <3>7
    <3>9. Once(s, n)
      BY <3>3, <3>6, <3>8
    <3> HIDE DEF Once
    <3> QED
      BY <2>1, <3>2, <3>9
  <2> QED
    BY <2>7, <2>8, <2>9
<1>12. Once(order[N], N)
  <2> HIDE DEF T
  <2>1. \A n \in 0..N : n \in T
    BY <1>1, <1>10, <1>11, Reaches
  <2>2. N \in T
    BY <1>1, <2>1
  <2> QED
    BY <2>2 DEF T
<1> QED
  BY <1>1, <1>8, <1>12

(* The points of the entries, or their maxima, are the values of a sum. *)
LEMMA OfGroupEntries ==
  ASSUME NEW breakdown \in Seq(BreakdownEntries), NEW groupe
  PROVE  LET own == OfGroup(breakdown, groupe)
         IN /\ DOMAIN own = DOMAIN breakdown
            /\ \A n \in DOMAIN breakdown :
                 LET counts == breakdown[n].included /\ breakdown[n].groupe = groupe
                 IN /\ own[n].points = IF counts THEN breakdown[n].points ELSE 0
                    /\ own[n].possible = IF counts THEN breakdown[n].possible ELSE 0
<1> SUFFICES ASSUME NEW n \in DOMAIN breakdown
             PROVE  LET own == OfGroup(breakdown, groupe)
                        counts == breakdown[n].included /\ breakdown[n].groupe = groupe
                    IN /\ own[n].points = IF counts THEN breakdown[n].points ELSE 0
                       /\ own[n].possible = IF counts THEN breakdown[n].possible ELSE 0
  BY DEF OfGroup
<1>1. breakdown[n] \in BreakdownEntries
  OBVIOUS
<1>2. LET zero == [breakdown[n] EXCEPT !.points = 0, !.possible = 0]
      IN  zero.points = 0 /\ zero.possible = 0
  BY <1>1 DEF BreakdownEntries
<1> QED
  BY <1>2 DEF OfGroup

LEMMA SubtotalsOfBreakdown ==
  ASSUME NEW breakdown \in Seq(BreakdownEntries),
         \A n \in DOMAIN breakdown :
           ~breakdown[n].included => breakdown[n].points = 0 /\ breakdown[n].possible = 0
  PROVE  LET subtotals == GroupSubtotals(breakdown)
         IN /\ \A i, j \in DOMAIN subtotals : i # j => subtotals[i].groupe # subtotals[j].groupe
            /\ SumOf([i \in DOMAIN subtotals |-> subtotals[i].total.points]) = Total(breakdown).points
            /\ SumOf([i \in DOMAIN subtotals |-> subtotals[i].total.possible]) = Total(breakdown).possible
<1> DEFINE N == Len(breakdown)
           order == GroupOrder(breakdown)
           G == Len(order)
           subtotals == GroupSubtotals(breakdown)
           Own(j) == OfGroup(breakdown, order[j])
           points == [n \in 1..N |-> breakdown[n].points]
           possible == [n \in 1..N |-> breakdown[n].possible]
           ownPoints == [j \in 1..G |-> [n \in 1..N |-> Own(j)[n].points]]
           ownPossible == [j \in 1..G |-> [n \in 1..N |-> Own(j)[n].possible]]
<1>1. N \in Nat /\ DOMAIN breakdown = 1..N /\ \A n \in 1..N : breakdown[n] \in BreakdownEntries
  OBVIOUS
<1>2. \A n \in 1..N : breakdown[n].points \in Nat /\ breakdown[n].possible \in Nat
  BY <1>1 DEF BreakdownEntries
<1>3. /\ G \in Nat /\ DOMAIN order = 1..G
      /\ \A i, j \in 1..G : order[i] = order[j] => i = j
      /\ \A n \in 1..N : breakdown[n].included => \E j \in 1..G : order[j] = breakdown[n].groupe
  BY <1>1, GroupsOnce
<1>4. \A j \in 1..G : \A n \in 1..N :
        LET counts == breakdown[n].included /\ breakdown[n].groupe = order[j]
        IN /\ Own(j)[n].points = IF counts THEN breakdown[n].points ELSE 0
           /\ Own(j)[n].possible = IF counts THEN breakdown[n].possible ELSE 0
  BY <1>1, OfGroupEntries
<1>5. \A j \in 1..G : DOMAIN Own(j) = 1..N
  BY <1>1, OfGroupEntries
<1>6. points \in Seq(Nat) /\ possible \in Seq(Nat) /\ Len(points) = N /\ Len(possible) = N
  BY <1>1, <1>2
<1> HIDE DEF order, N, Own, G
<1>7. ownPoints \in [1..G -> Seq(Nat)] /\ \A j \in 1..G : Len(ownPoints[j]) = N
  <2>1. ASSUME NEW j \in 1..G
        PROVE  /\ [n \in 1..N |-> Own(j)[n].points] \in Seq(Nat)
               /\ Len([n \in 1..N |-> Own(j)[n].points]) = N
    <3>1. \A n \in 1..N : Own(j)[n].points \in Nat
      BY <1>2, <1>4
    <3> QED
      BY <1>1, <3>1
  <2> QED
    BY <2>1
<1>8. ownPossible \in [1..G -> Seq(Nat)] /\ \A j \in 1..G : Len(ownPossible[j]) = N
  <2>1. ASSUME NEW j \in 1..G
        PROVE  /\ [n \in 1..N |-> Own(j)[n].possible] \in Seq(Nat)
               /\ Len([n \in 1..N |-> Own(j)[n].possible]) = N
    <3>1. \A n \in 1..N : Own(j)[n].possible \in Nat
      BY <1>2, <1>4
    <3> QED
      BY <1>1, <3>1
  <2> QED
    BY <2>1
<1>9. ASSUME NEW n \in 1..N
      PROVE  \/ /\ points[n] = 0 /\ \A j \in 1..G : ownPoints[j][n] = 0
                /\ possible[n] = 0 /\ \A j \in 1..G : ownPossible[j][n] = 0
             \/ \E j \in 1..G :
                  /\ ownPoints[j][n] = points[n] /\ \A i \in 1..G : i # j => ownPoints[i][n] = 0
                  /\ ownPossible[j][n] = possible[n] /\ \A i \in 1..G : i # j => ownPossible[i][n] = 0
  <2>1. CASE ~breakdown[n].included
    BY <1>1, <1>4, <2>1
  <2>2. CASE breakdown[n].included
    <3>1. PICK j \in 1..G : order[j] = breakdown[n].groupe
      BY <1>3, <2>2
    <3>2. \A i \in 1..G : i # j => order[i] # breakdown[n].groupe
      BY <1>3, <3>1
    <3>3. ownPoints[j][n] = points[n] /\ ownPossible[j][n] = possible[n]
      BY <1>4, <2>2, <3>1
    <3>4. \A i \in 1..G : i # j => ownPoints[i][n] = 0 /\ ownPossible[i][n] = 0
      BY <1>4, <3>2
    <3> HIDE DEF ownPoints, ownPossible, points, possible
    <3> QED
      BY <3>3, <3>4
  <2> QED
    BY <2>1, <2>2
<1> HIDE DEF ownPoints, ownPossible, points, possible
<1>10. SumOf([j \in 1..G |-> SumOf(ownPoints[j])]) = SumOf(points)
  <2>1. Splits(points, G, ownPoints)
    BY <1>3, <1>6, <1>7, <1>9 DEF Splits
  <2>2. PICK sums : sums = [j \in 1..G |-> SumOf(ownPoints[j])]
    OBVIOUS
  <2>3. \A j \in 1..G : SumOf(ownPoints[j]) \in Nat
    BY <1>7, SumIsNatural
  <2>4. sums \in Seq(Nat) /\ Len(sums) = G /\ \A j \in 1..G : sums[j] = SumOf(ownPoints[j])
    BY <1>3, <2>2, <2>3
  <2>5. SumOf(sums) = SumOf(points)
    BY <2>1, <2>4, SumOfParts
  <2> QED
    BY <2>2, <2>5
<1>11. SumOf([j \in 1..G |-> SumOf(ownPossible[j])]) = SumOf(possible)
  <2>1. Splits(possible, G, ownPossible)
    BY <1>3, <1>6, <1>8, <1>9 DEF Splits
  <2>2. PICK sums : sums = [j \in 1..G |-> SumOf(ownPossible[j])]
    OBVIOUS
  <2>3. \A j \in 1..G : SumOf(ownPossible[j]) \in Nat
    BY <1>8, SumIsNatural
  <2>4. sums \in Seq(Nat) /\ Len(sums) = G /\ \A j \in 1..G : sums[j] = SumOf(ownPossible[j])
    BY <1>3, <2>2, <2>3
  <2>5. SumOf(sums) = SumOf(possible)
    BY <2>1, <2>4, SumOfParts
  <2> QED
    BY <2>2, <2>5
<1>12. Total(breakdown).points = SumOf(points) /\ Total(breakdown).possible = SumOf(possible)
  BY <1>1 DEF Total, points, possible
<1>13. /\ DOMAIN subtotals = 1..G
       /\ \A j \in 1..G :
            /\ subtotals[j].groupe = order[j]
            /\ subtotals[j].total.points = SumOf(ownPoints[j])
            /\ subtotals[j].total.possible = SumOf(ownPossible[j])
  <2>1. /\ DOMAIN subtotals = 1..G
        /\ \A j \in 1..G : subtotals[j] = [groupe |-> order[j], total |-> Total(Own(j))]
    BY <1>3 DEF GroupSubtotals, Own, order
  <2>2. \A j \in 1..G : /\ Total(Own(j)).points = SumOf(ownPoints[j])
                        /\ Total(Own(j)).possible = SumOf(ownPossible[j])
    BY <1>5 DEF Total, ownPoints, ownPossible
  <2> HIDE DEF subtotals
  <2> QED
    BY <2>1, <2>2
<1> HIDE DEF subtotals
<1>14. SumOf([i \in DOMAIN subtotals |-> subtotals[i].total.points]) = Total(breakdown).points
  <2>1. [i \in DOMAIN subtotals |-> subtotals[i].total.points] = [j \in 1..G |-> SumOf(ownPoints[j])]
    BY <1>13
  <2> QED
    BY <1>10, <1>12, <2>1
<1>15. SumOf([i \in DOMAIN subtotals |-> subtotals[i].total.possible]) = Total(breakdown).possible
  <2>1. [i \in DOMAIN subtotals |-> subtotals[i].total.possible] = [j \in 1..G |-> SumOf(ownPossible[j])]
    BY <1>13
  <2> QED
    BY <1>11, <1>12, <2>1
<1>16. \A i, j \in DOMAIN subtotals : i # j => subtotals[i].groupe # subtotals[j].groupe
  BY <1>3, <1>13
<1> QED
  BY <1>14, <1>15, <1>16 DEF subtotals

-----------------------------------------------------------------------------
(* What both pages give the engine for a pupil whose row of the grid is    *)
(* given: they differ in the lines they include.                           *)
Sheet(inputs, row) ==
  /\ DOMAIN inputs = Lines
  /\ \A l \in Lines :
       /\ inputs[l].groupe = Grille[l].groupe /\ inputs[l].coefficient = Grille[l].ponderation
       /\ inputs[l].is_numeric = ~Grille[l].note_par_appreciation
       /\ inputs[l].is_numeric => inputs[l].max_score = Grille[l].maximum
       /\ inputs[l].score = Score(row[l]) /\ inputs[l].included \in BOOLEAN

LEMMA Grid ==
  /\ Len(Grille) \in Nat /\ Lines = 1..Len(Grille)
  /\ \A l \in Lines : Grille[l] \in GrilleLines
BY ConsolidationAssumption DEF Lines

LEMMA SheetOfConsolidation ==
  ASSUME NEW g \in [Enrolled -> [Lines -> Contents]], NEW p \in Enrolled
  PROVE  /\ Sheet(ConsolidationInputs(g, p), g[p])
         /\ \A l \in Lines : ConsolidationInputs(g, p)[l].included
                               <=> Input(Grille[l], g[p][l]).included
<1> SUFFICES ASSUME NEW l \in Lines
             PROVE  LET input == Input(Grille[l], g[p][l])
                    IN /\ input.groupe = Grille[l].groupe
                       /\ input.coefficient = Grille[l].ponderation
                       /\ input.is_numeric = ~Grille[l].note_par_appreciation
                       /\ input.is_numeric => input.max_score = Grille[l].maximum
                       /\ input.score = Score(g[p][l]) /\ input.included \in BOOLEAN
  BY DEF Sheet, ConsolidationInputs
<1> QED
  BY Grid DEF Input, GrilleLines

LEMMA SheetOfResults ==
  ASSUME NEW g \in [Enrolled -> [Lines -> Contents]], NEW p \in Enrolled
  PROVE  /\ Sheet(ResultInputs(g, p), g[p])
         /\ \A l \in Lines : ResultInputs(g, p)[l].included
<1> SUFFICES ASSUME NEW l \in Lines
             PROVE  LET input == [Input(Grille[l], g[p][l]) EXCEPT !.included = TRUE]
                    IN /\ input.groupe = Grille[l].groupe
                       /\ input.coefficient = Grille[l].ponderation
                       /\ input.is_numeric = ~Grille[l].note_par_appreciation
                       /\ input.is_numeric => input.max_score = Grille[l].maximum
                       /\ input.score = Score(g[p][l]) /\ input.included
  BY DEF Sheet, ResultInputs
<1> QED
  BY Grid DEF Input, GrilleLines

(* A line that counts adds its weighted score and maximum, another nothing. *)
LEMMA BreakdownOfSheet ==
  ASSUME NEW row \in [Lines -> Contents], NEW inputs, Sheet(inputs, row)
  PROVE  /\ Breakdowns(inputs) \in Seq(BreakdownEntries)
         /\ Len(Breakdowns(inputs)) = Len(Grille)
         /\ \A l \in Lines :
              LET entry == Breakdowns(inputs)[l]
                  counts == inputs[l].included /\ ~Grille[l].note_par_appreciation /\ row[l] \in Nat
              IN IF counts
                 THEN /\ entry.points = row[l] * Grille[l].ponderation
                      /\ entry.possible = Grille[l].maximum * Grille[l].ponderation
                      /\ entry.included
                 ELSE ~entry.included /\ entry.points = 0 /\ entry.possible = 0
<1>1. ASSUME NEW l \in Lines
      PROVE  /\ Breakdown(inputs[l]) \in BreakdownEntries
             /\ LET entry == Breakdown(inputs[l])
                    counts == inputs[l].included /\ ~Grille[l].note_par_appreciation
                              /\ row[l] \in Nat
                IN IF counts
                   THEN /\ entry.points = row[l] * Grille[l].ponderation
                        /\ entry.possible = Grille[l].maximum * Grille[l].ponderation
                        /\ entry.included
                   ELSE ~entry.included /\ entry.points = 0 /\ entry.possible = 0
  <2> DEFINE input == inputs[l]
  <2>1. /\ input.groupe = Grille[l].groupe /\ input.coefficient = Grille[l].ponderation
        /\ input.is_numeric = ~Grille[l].note_par_appreciation
        /\ input.is_numeric => input.max_score = Grille[l].maximum
        /\ input.score = Score(row[l]) /\ input.included \in BOOLEAN
    BY DEF Sheet
  <2>2. /\ Grille[l].groupe \in STRING /\ Grille[l].ponderation \in Nat /\ Grille[l].maximum \in Nat
        /\ Grille[l].note_par_appreciation \in BOOLEAN
    BY Grid DEF GrilleLines
  <2>3. Contributes(input) <=> input.included /\ ~Grille[l].note_par_appreciation /\ row[l] \in Nat
    <3>1. Score(row[l]) # None <=> row[l] \in Nat
      BY ConsolidationAssumption DEF Score
    <3> HIDE DEF input
    <3> QED
      BY <2>1, <3>1 DEF Contributes
  <2> HIDE DEF input
  <2>4. CASE Contributes(input)
    <3>1. input.score = row[l] /\ row[l] \in Nat /\ input.max_score = Grille[l].maximum
      BY <2>1, <2>3, <2>4 DEF Score
    <3>2. row[l] * Grille[l].ponderation \in Nat /\ Grille[l].maximum * Grille[l].ponderation \in Nat
      BY <2>2, <3>1
    <3>3. Breakdown(input) = [groupe |-> Grille[l].groupe, points |-> row[l] * Grille[l].ponderation,
                              possible |-> Grille[l].maximum * Grille[l].ponderation,
                              included |-> TRUE]
      BY <2>1, <2>4, <3>1 DEF Breakdown
    <3>4. Breakdown(input) \in BreakdownEntries
      BY <2>2, <3>2, <3>3 DEF BreakdownEntries
    <3> QED
      BY <2>3, <2>4, <3>3, <3>4 DEF input
  <2>5. CASE ~Contributes(input)
    <3>1. Breakdown(input) = [groupe |-> Grille[l].groupe, points |-> 0, possible |-> 0,
                              included |-> FALSE]
      <4>1. Contributes(input) = FALSE
        BY <2>5 DEF Contributes
      <4> QED
        BY <2>1, <4>1, Zenon DEF Breakdown
    <3>2. Breakdown(input) \in BreakdownEntries
      BY <2>2, <3>1 DEF BreakdownEntries
    <3> QED
      BY <2>3, <2>5, <3>1, <3>2 DEF input
  <2> QED
    BY <2>4, <2>5
<1>2. Breakdowns(inputs) = [l \in 1..Len(Grille) |-> Breakdown(inputs[l])]
  BY Grid DEF Breakdowns, Sheet
<1>3. Breakdowns(inputs) \in Seq(BreakdownEntries) /\ Len(Breakdowns(inputs)) = Len(Grille)
  <2>1. \A l \in 1..Len(Grille) : Breakdown(inputs[l]) \in BreakdownEntries
    BY <1>1, Grid
  <2> QED
    BY <1>2, <2>1, Grid
<1>4. \A l \in Lines : Breakdowns(inputs)[l] = Breakdown(inputs[l])
  BY <1>2, Grid
<1> QED
  BY <1>1, <1>3, <1>4

(* The values whose sum are the points of a total, and those whose sum is  *)
(* its maximum.                                                            *)
LEMMA TotalOfBreakdown ==
  ASSUME NEW breakdown \in Seq(BreakdownEntries)
  PROVE  LET points == [n \in DOMAIN breakdown |-> breakdown[n].points]
             possible == [n \in DOMAIN breakdown |-> breakdown[n].possible]
             total == Total(breakdown)
         IN /\ points \in Seq(Nat) /\ Len(points) = Len(breakdown)
            /\ possible \in Seq(Nat) /\ Len(possible) = Len(breakdown)
            /\ total.points = SumOf(points) /\ total.possible = SumOf(possible)
            /\ total.points \in Nat /\ total.possible \in Nat
            /\ total.percentage = Fraction(total.points, total.possible)
<1> DEFINE N == Len(breakdown)
           points == [n \in 1..N |-> breakdown[n].points]
           possible == [n \in 1..N |-> breakdown[n].possible]
<1>1. N \in Nat /\ DOMAIN breakdown = 1..N /\ \A n \in 1..N : breakdown[n] \in BreakdownEntries
  OBVIOUS
<1>2. \A n \in 1..N : breakdown[n].points \in Nat /\ breakdown[n].possible \in Nat
  BY <1>1 DEF BreakdownEntries
<1> HIDE DEF N
<1>3. points \in Seq(Nat) /\ possible \in Seq(Nat) /\ Len(points) = N /\ Len(possible) = N
  BY <1>1, <1>2
<1>4. SumOf(points) \in Nat /\ SumOf(possible) \in Nat
  BY <1>3, SumIsNatural
<1>5. /\ Total(breakdown).points = SumOf(points) /\ Total(breakdown).possible = SumOf(possible)
      /\ Total(breakdown).percentage = Fraction(Total(breakdown).points, Total(breakdown).possible)
  BY <1>1 DEF Total
<1> QED
  BY <1>1, <1>3, <1>4, <1>5 DEF N

LEMMA FractionTyped ==
  ASSUME NEW points \in Nat, NEW possible \in Nat
  PROVE  /\ Fraction(points, possible) \in Percentages \cup {None}
         /\ possible > 0 => Fraction(points, possible) = [points |-> points, possible |-> possible]
                            /\ Fraction(points, possible) # None
         /\ possible = 0 => Fraction(points, possible) = None
<1>1. None \notin Percentages
  BY ConsolidationAssumption
<1>2. CASE possible > 0
  <2>1. [points |-> points, possible |-> possible] \in Percentages
    BY <1>2 DEF Percentages
  <2> QED
    BY <1>1, <1>2, <2>1 DEF Fraction
<1>3. CASE possible = 0
  BY <1>3 DEF Fraction
<1> QED
  BY <1>2, <1>3

-----------------------------------------------------------------------------
(* The pages are those of the grades. *)
PagesInv ==
  /\ WithinMaximum
  /\ consolidation = Consolidation(grades) /\ results = ResultsPage(grades)

LEMMA PagesInvStays == PagesSpec => []PagesInv
<1>1. PagesInit => PagesInv
  BY WithinMaximumInit DEF PagesInit, PagesInv
<1>2. PagesInv /\ [PagesNext]_pageVars => PagesInv'
  <2> SUFFICES ASSUME PagesInv, [PagesNext]_pageVars PROVE PagesInv'
    OBVIOUS
  <2>1. WithinMaximum'
    BY WithinMaximumStep DEF PagesInv
  <2>2. CASE PagesNext
    <3>1. consolidation' = Consolidation(grades') /\ results' = ResultsPage(grades')
      BY <2>2 DEF PagesNext, Enter
    <3>2. Consolidation(grades)' = Consolidation(grades') /\ ResultsPage(grades)' = ResultsPage(grades')
      BY DEF Consolidation, ResultsPage
    <3> QED
      BY <2>1, <3>1, <3>2 DEF PagesInv
  <2>3. CASE UNCHANGED pageVars
    <3>1. grades' = grades /\ consolidation' = consolidation /\ results' = results
      BY <2>3 DEF pageVars
    <3>2. Consolidation(grades)' = Consolidation(grades) /\ ResultsPage(grades)' = ResultsPage(grades)
      BY <3>1
    <3> QED
      BY <2>1, <3>1, <3>2 DEF PagesInv
  <2> QED
    BY <2>2, <2>3
<1> QED
  BY <1>1, <1>2, PTL DEF PagesSpec

(* The subtotals of the groups are a partition of the total of the results *)
(* page, for every grid and every content: compute_group_subtotals against *)
(* compute_period_total.                                                   *)
THEOREM SubtotalsAreAPartition == PagesSpec => []SubtotalsAddUp
<1>1. PagesInv => SubtotalsAddUp
  <2> SUFFICES ASSUME PagesInv, NEW p \in Enrolled
               PROVE  LET row == results.rows[p]
                          subtotals == GroupSubtotals(Breakdowns(ResultInputs(grades, p)))
                      IN /\ \A i, j \in DOMAIN subtotals :
                              i # j => subtotals[i].groupe # subtotals[j].groupe
                         /\ SumOf([i \in DOMAIN subtotals |-> subtotals[i].total.points]) = row.points
                         /\ SumOf([i \in DOMAIN subtotals |-> subtotals[i].total.possible]) = row.possible
    BY DEF SubtotalsAddUp
  <2> DEFINE breakdown == Breakdowns(ResultInputs(grades, p))
  <2>1. grades \in [Enrolled -> [Lines -> Contents]]
    BY DEF PagesInv, WithinMaximum
  <2>2. grades[p] \in [Lines -> Contents] /\ Sheet(ResultInputs(grades, p), grades[p])
    BY <2>1, SheetOfResults
  <2>3. /\ breakdown \in Seq(BreakdownEntries) /\ DOMAIN breakdown = Lines
        /\ \A l \in Lines :
             ~breakdown[l].included => breakdown[l].points = 0 /\ breakdown[l].possible = 0
    <3>1. /\ breakdown \in Seq(BreakdownEntries) /\ Len(breakdown) = Len(Grille)
          /\ \A l \in Lines : ~breakdown[l].included =>
               breakdown[l].points = 0 /\ breakdown[l].possible = 0
      BY <2>2, BreakdownOfSheet
    <3> HIDE DEF breakdown
    <3> QED
      BY <3>1, Grid
  <2>4. /\ results.rows[p].points = Total(breakdown).points
        /\ results.rows[p].possible = Total(breakdown).possible
    BY DEF PagesInv, ResultsPage, ResultRow, PeriodTotal
  <2> HIDE DEF breakdown
  <2> QED
    BY <2>3, <2>4, SubtotalsOfBreakdown DEF breakdown
<1> QED
  BY <1>1, PagesInvStays, PTL

-----------------------------------------------------------------------------
(* Fractions compared by cross-multiplication are in a total order, and    *)
(* equal ones compare alike with any third.                                *)
LEMMA CrossMultiplied ==
  ASSUME NEW a \in Nat, NEW b \in Nat, NEW c \in Nat, NEW d \in Nat, NEW e \in Nat, NEW f \in Nat,
         b > 0, d > 0, f > 0, a * d <= c * b, c * f <= e * d
  PROVE  /\ a * f <= e * b
         /\ a * d < c * b \/ c * f < e * d => a * f < e * b
<1>1. /\ f * (a * d) <= f * (c * b) /\ (a * d < c * b => f * (a * d) < f * (c * b))
      /\ b * (c * f) <= b * (e * d) /\ (c * f < e * d => b * (c * f) < b * (e * d))
  OBVIOUS
<1>2. f * (a * d) = d * (a * f) /\ f * (c * b) = b * (c * f) /\ b * (e * d) = d * (e * b)
  OBVIOUS
<1> DEFINE X == d * (a * f)
           Y == b * (c * f)
           Z == d * (e * b)
<1>3. X \in Nat /\ Y \in Nat /\ Z \in Nat /\ X <= Y /\ Y <= Z
      /\ (a * d < c * b => X < Y) /\ (c * f < e * d => Y < Z)
  BY <1>1, <1>2
<1>4. a * f \in Nat /\ e * b \in Nat
  OBVIOUS
<1>5. a * d < c * b \/ c * f < e * d => a * f < e * b
  <2> SUFFICES ASSUME a * d < c * b \/ c * f < e * d PROVE a * f < e * b
    OBVIOUS
  <2>1. X < Z
    <3> HIDE DEF X, Y, Z
    <3> QED
      BY <1>3
  <2> DEFINE x == a * f
             z == e * b
  <2>2. x \in Nat /\ z \in Nat /\ d * x < d * z
    BY <1>4, <2>1
  <2> HIDE DEF x, z
  <2>3. x < z
    BY <2>2, Cancel
  <2> QED
    BY <2>3 DEF x, z
<1>6. a * f <= e * b
  <2> SUFFICES ASSUME e * b < a * f PROVE FALSE
    BY <1>4
  <2>1. d * (e * b) < d * (a * f)
    OBVIOUS
  <2>2. X <= Z
    <3> HIDE DEF X, Y, Z
    <3> QED
      BY <1>3
  <2> DEFINE x == d * (e * b)
             z == d * (a * f)
  <2>3. x \in Nat /\ z \in Nat /\ x < z /\ z <= x
    BY <1>3, <2>1, <2>2
  <2> HIDE DEF x, z
  <2> QED
    BY <2>3
<1> QED
  BY <1>5, <1>6

LEMMA BelowIsTotal ==
  ASSUME NEW p \in Percentages, NEW q \in Percentages
  PROVE  /\ Same(p, q) <=> ~Below(p, q) /\ ~Below(q, p)
         /\ ~(Below(p, q) /\ Below(q, p))
<1>1. p.points * q.possible \in Nat /\ q.points * p.possible \in Nat
  BY DEF Percentages
<1> QED
  BY <1>1 DEF Same, Below

LEMMA BelowIsTransitive ==
  ASSUME NEW p \in Percentages, NEW q \in Percentages, NEW r \in Percentages,
         ~Below(q, p), ~Below(r, q)
  PROVE  ~Below(r, p) /\ (Below(p, q) \/ Below(q, r) => Below(p, r))
<1> DEFINE a == p.points
           b == p.possible
           c == q.points
           d == q.possible
           e == r.points
           f == r.possible
<1>1. /\ a \in Nat /\ b \in Nat /\ c \in Nat /\ d \in Nat /\ e \in Nat /\ f \in Nat
      /\ b > 0 /\ d > 0 /\ f > 0
  BY DEF Percentages
<1>2. ~(c * b < a * d) /\ ~(e * d < c * f)
  BY DEF Below
<1>3. /\ Below(r, p) <=> e * b < a * f
      /\ Below(p, q) <=> a * d < c * b
      /\ Below(q, r) <=> c * f < e * d
      /\ Below(p, r) <=> a * f < e * b
  BY DEF Below
<1> HIDE DEF a, b, c, d, e, f
<1>4. a * d <= c * b /\ c * f <= e * d
  BY <1>1, <1>2
<1>5. a * f <= e * b /\ (a * d < c * b \/ c * f < e * d => a * f < e * b)
  BY <1>1, <1>4, CrossMultiplied
<1>6. ~(e * b < a * f)
  BY <1>1, <1>5
<1> QED
  BY <1>3, <1>5, <1>6

-----------------------------------------------------------------------------
(* Entries with a percentage, each with its place in the list. *)
Listed(R) ==
  /\ IsFiniteSet(R)
  /\ \A a \in R : a.index \in Nat /\ a.entry.percentage \in Percentages
  /\ \A a, b \in R : a.index = b.index => a = b

(* Of two different entries exactly one is ahead, and being ahead is       *)
(* transitive: the order the list is sorted by is strict and total.        *)
LEMMA AheadIsStrict ==
  ASSUME NEW R, Listed(R), NEW a \in R, NEW b \in R
  PROVE  /\ ~(Ahead(a, b) /\ Ahead(b, a))
         /\ a # b => Ahead(a, b) \/ Ahead(b, a)
         /\ \A c \in R : Ahead(a, b) /\ Ahead(b, c) => Ahead(a, c)
         /\ ~Ahead(a, a)
         /\ Ahead(a, b) => ~Below(a.entry.percentage, b.entry.percentage)
<1> DEFINE p == a.entry.percentage
           q == b.entry.percentage
<1>1. /\ p \in Percentages /\ q \in Percentages /\ a.index \in Nat /\ b.index \in Nat
      /\ a.index = b.index => a = b
  BY DEF Listed
<1>2. /\ Ahead(a, b) <=> Below(q, p) \/ (Same(p, q) /\ a.index < b.index)
      /\ Ahead(b, a) <=> Below(p, q) \/ (Same(q, p) /\ b.index < a.index)
      /\ Ahead(a, a) <=> Below(p, p) \/ (Same(p, p) /\ a.index < a.index)
  BY DEF Ahead
<1>3. \A c \in R : a.index \in Nat /\ c.index \in Nat /\ c.entry.percentage \in Percentages
  BY DEF Listed
<1> HIDE DEF p, q
<1>4. /\ Same(p, q) <=> ~Below(p, q) /\ ~Below(q, p)
      /\ Same(q, p) <=> ~Below(p, q) /\ ~Below(q, p)
      /\ ~(Below(p, q) /\ Below(q, p)) /\ ~Below(p, p)
  BY <1>1, BelowIsTotal
<1>5. ASSUME NEW c \in R, Ahead(a, b), Ahead(b, c) PROVE Ahead(a, c)
  <2> DEFINE r == c.entry.percentage
  <2>1. c.index \in Nat /\ r \in Percentages
    BY DEF Listed
  <2>2. /\ Ahead(b, c) <=> Below(r, q) \/ (Same(q, r) /\ b.index < c.index)
        /\ Ahead(a, c) <=> Below(r, p) \/ (Same(p, r) /\ a.index < c.index)
    BY DEF Ahead, p, q
  <2> HIDE DEF r
  <2>3. /\ Same(q, r) <=> ~Below(q, r) /\ ~Below(r, q)
        /\ Same(p, r) <=> ~Below(p, r) /\ ~Below(r, p)
        /\ ~(Below(q, r) /\ Below(r, q))
    BY <1>1, <2>1, BelowIsTotal
  <2>4. ~Below(p, q) /\ ~Below(q, r)
    BY <1>2, <1>4, <1>5, <2>2, <2>3
  <2>5. ~Below(p, r) /\ (Below(r, q) \/ Below(q, p) => Below(r, p))
    BY <1>1, <2>1, <2>4, BelowIsTransitive
  <2>6. CASE Below(r, q) \/ Below(q, p)
    BY <2>2, <2>5, <2>6
  <2>7. CASE ~(Below(r, q) \/ Below(q, p))
    <3>1. a.index < b.index /\ b.index < c.index
      BY <1>2, <1>5, <2>2, <2>7
    <3>2. a.index < c.index
      BY <1>1, <2>1, <3>1
    <3>3. ~Below(r, p)
      BY <1>1, <2>1, <2>7, BelowIsTransitive
    <3> QED
      BY <2>2, <2>3, <2>5, <3>2, <3>3
  <2> QED
    BY <2>6, <2>7
<1>6. ~(Ahead(a, b) /\ Ahead(b, a)) /\ ~Ahead(a, a)
  BY <1>1, <1>2, <1>4
<1>7. a # b => Ahead(a, b) \/ Ahead(b, a)
  BY <1>1, <1>2, <1>4
<1>8. Ahead(a, b) => ~Below(p, q)
  BY <1>2, <1>4
<1> QED
  BY <1>5, <1>6, <1>7, <1>8 DEF p, q

(* The sorted list has every entry once, each ahead of all later ones. *)
Sorts(s, R) ==
  /\ s \in [1..Cardinality(R) -> R]
  /\ \A a \in R : \E n \in 1..Cardinality(R) : s[n] = a
  /\ \A m, n \in 1..Cardinality(R) : m < n => Ahead(s[m], s[n])
  /\ \A m, n \in 1..Cardinality(R) : s[m] = s[n] => m = n

LEMMA SortedSorts ==
  ASSUME NEW R, Listed(R)
  PROVE  \E s : Sorts(s, R) /\ Sorted(R) = [n \in 1..Cardinality(R) |-> s[n].entry]
<1> DEFINE Upto(a) == {b \in R : b = a \/ Ahead(b, a)}
           N == Cardinality(R)
           place == [a \in R |-> Cardinality(Upto(a))]
           s == [n \in 1..N |-> CHOOSE a \in R : Cardinality(Upto(a)) = n]
<1>1. IsFiniteSet(R) /\ N \in Nat
  BY FS_CardinalityType DEF Listed
<1>2. \A a \in R : IsFiniteSet(Upto(a)) /\ Cardinality(Upto(a)) \in Nat /\ Cardinality(Upto(a)) <= N
  BY <1>1, FS_Subset, FS_CardinalityType
<1>3. ASSUME NEW a \in R PROVE Cardinality(Upto(a)) # 0
  <2>1. a \in Upto(a)
    BY <1>3
  <2> QED
    BY <1>2, <2>1, FS_EmptySet
<1>4. \A a \in R : Cardinality(Upto(a)) \in 1..N
  BY <1>1, <1>2, <1>3
<1>5. ASSUME NEW a \in R, NEW b \in R, Ahead(a, b)
      PROVE  Cardinality(Upto(a)) < Cardinality(Upto(b))
  <2>1. a # b /\ ~Ahead(b, a)
    BY <1>5, AheadIsStrict
  <2>2. \A c \in R : Ahead(c, a) => Ahead(c, b)
    BY <1>5, AheadIsStrict
  <2>3. Upto(a) \subseteq Upto(b) /\ b \in Upto(b) /\ b \notin Upto(a)
    BY <1>5, <2>1, <2>2
  <2> HIDE DEF Upto
  <2>4. Cardinality(Upto(a)) <= Cardinality(Upto(b)) /\ Cardinality(Upto(a)) # Cardinality(Upto(b))
    BY <1>2, <2>3, FS_Subset
  <2> QED
    BY <1>2, <2>4
<1> HIDE DEF Upto
<1>6. \A a, b \in R : Cardinality(Upto(a)) = Cardinality(Upto(b)) => a = b
  <2> SUFFICES ASSUME NEW a \in R, NEW b \in R, a # b
               PROVE  Cardinality(Upto(a)) # Cardinality(Upto(b))
    OBVIOUS
  <2>1. Ahead(a, b) \/ Ahead(b, a)
    BY AheadIsStrict
  <2> QED
    BY <1>2, <1>5, <2>1
<1>7. place \in Injection(R, 1..N)
  <2> HIDE DEF N
  <2> QED
    BY <1>4, <1>6 DEF Injection, IsInjective
<1>8. IsFiniteSet(1..N) /\ Cardinality(1..N) = N
  BY <1>1, FS_Interval
<1>9. place \in Surjection(R, 1..N)
  BY <1>7, <1>8, FS_Injection
<1> HIDE DEF N
<1>10. \A n \in 1..N : \E a \in R : Cardinality(Upto(a)) = n
  BY <1>9 DEF Surjection
<1>11. \A n \in 1..N : s[n] \in R /\ Cardinality(Upto(s[n])) = n
  BY <1>10
<1> HIDE DEF s
<1>12. \A a \in R : s[Cardinality(Upto(a))] = a
  BY <1>4, <1>6, <1>11
<1>13. ASSUME NEW m \in 1..N, NEW n \in 1..N, m < n PROVE Ahead(s[m], s[n])
  <2>1. s[m] \in R /\ s[n] \in R /\ s[m] # s[n]
    BY <1>11, <1>13
  <2>2. CASE Ahead(s[n], s[m])
    <3>1. n < m
      BY <1>5, <1>11, <2>1, <2>2
    <3> QED
      BY <1>13, <3>1
  <2> QED
    BY <2>1, <2>2, AheadIsStrict
<1>14. s \in [1..N -> R]
  BY <1>11 DEF s
<1>15. Sorts(s, R)
  BY <1>4, <1>11, <1>12, <1>13, <1>14 DEF Sorts, N
<1>16. Sorted(R) = [n \in 1..N |-> s[n].entry]
  BY DEF Sorted, s, Upto, N
<1> QED
  BY <1>15, <1>16 DEF N

-----------------------------------------------------------------------------
(* In a list that never rises, the loop of rank_students gives each place  *)
(* one more than the number of places that are strictly higher.            *)
Higher(y, n) == {m \in DOMAIN y : Below(y[n], y[m])}
IsRank(rank, y) ==
  rank = [n \in DOMAIN y |-> IF n > 1 /\ Same(y[n], y[n - 1]) THEN rank[n - 1] ELSE n]

LEMMA RankOfPlace ==
  ASSUME NEW N \in Nat, NEW y \in [1..N -> Percentages],
         \A m \in 1..N : \A n \in 1..N : m < n => ~Below(y[m], y[n])
  PROVE  /\ \E rank : IsRank(rank, y)
         /\ \A rank : IsRank(rank, y) => \A n \in 1..N : rank[n] = 1 + Cardinality(Higher(y, n))
<1> DEFINE w == [n \in 1..N |-> 1 + Cardinality(Higher(y, n))]
<1>1. DOMAIN y = 1..N /\ \A n \in 1..N : y[n] \in Percentages
  OBVIOUS
<1>2. ASSUME NEW n \in 1..N, n > 1, Same(y[n], y[n - 1])
      PROVE  Higher(y, n) = Higher(y, n - 1)
  <2>1. n - 1 \in 1..N
    BY <1>2
  <2>2. ~Below(y[n], y[n - 1]) /\ ~Below(y[n - 1], y[n])
    BY <1>1, <1>2, <2>1, BelowIsTotal
  <2>3. \A m \in 1..N : Below(y[n], y[m]) => Below(y[n - 1], y[m])
    <3> TAKE m \in 1..N
    <3>1. Below(y[n], y[m]) => ~Below(y[m], y[n])
      BY <1>1, BelowIsTotal
    <3> QED
      BY <1>1, <2>1, <2>2, <3>1, BelowIsTransitive
  <2>4. \A m \in 1..N : Below(y[n - 1], y[m]) => Below(y[n], y[m])
    <3> TAKE m \in 1..N
    <3>1. Below(y[n - 1], y[m]) => ~Below(y[m], y[n - 1])
      BY <1>1, <2>1, BelowIsTotal
    <3> QED
      BY <1>1, <2>1, <2>2, <3>1, BelowIsTransitive
  <2> QED
    BY <1>1, <2>3, <2>4 DEF Higher
<1>3. ASSUME NEW n \in 1..N, ~(n > 1 /\ Same(y[n], y[n - 1]))
      PROVE  Higher(y, n) = 1..(n - 1)
  <2>1. \A m \in 1..N : Below(y[n], y[m]) => m < n
    <3> TAKE m \in 1..N
    <3>1. CASE m = n
      BY <1>1, <3>1, BelowIsTotal
    <3>2. CASE n < m
      BY <3>2
    <3> QED
      BY <3>1, <3>2
  <2>2. ASSUME NEW m \in 1..N, m < n PROVE Below(y[n], y[m])
    <3>1. n - 1 \in 1..N /\ n > 1 /\ (m = n - 1 \/ m < n - 1)
      BY <2>2
    <3>2. ~Below(y[n - 1], y[n])
      BY <3>1
    <3>3. Below(y[n], y[n - 1])
      BY <1>1, <1>3, <3>1, <3>2, BelowIsTotal
    <3>4. CASE m = n - 1
      BY <3>3, <3>4
    <3>5. CASE m < n - 1
      <4>1. ~Below(y[m], y[n - 1])
        BY <3>1, <3>5
      <4> QED
        BY <1>1, <3>1, <3>2, <3>3, <4>1, BelowIsTransitive
    <3> QED
      BY <3>1, <3>4, <3>5
  <2>3. \A m \in 1..N : m \in 1..(n - 1) <=> m < n
    OBVIOUS
  <2>4. 1..(n - 1) \subseteq 1..N
    OBVIOUS
  <2> QED
    BY <1>1, <2>1, <2>2, <2>3, <2>4 DEF Higher
<1>4. \A n \in 1..N : Cardinality(1..(n - 1)) = n - 1
  BY FS_Interval
<1>5. ASSUME NEW n \in 1..N
      PROVE  w[n] = IF n > 1 /\ Same(y[n], y[n - 1]) THEN w[n - 1] ELSE n
  <2>1. CASE n > 1 /\ Same(y[n], y[n - 1])
    <3>1. n - 1 \in 1..N /\ Higher(y, n) = Higher(y, n - 1)
      BY <1>2, <2>1
    <3> QED
      BY <2>1, <3>1
  <2>2. CASE ~(n > 1 /\ Same(y[n], y[n - 1]))
    <3>1. Cardinality(Higher(y, n)) = n - 1
      BY <1>3, <1>4, <2>2
    <3>2. w[n] = n
      BY <3>1
    <3> QED
      BY <2>2, <3>2
  <2> QED
    BY <2>1, <2>2
<1>6. IsRank(w, y)
  <2>1. w = [n \in 1..N |-> w[n]]
    OBVIOUS
  <2> HIDE DEF w
  <2> QED
    BY <1>1, <1>5, <2>1 DEF IsRank
<1>7. ASSUME NEW rank, IsRank(rank, y), NEW n \in 1..N PROVE rank[n] = w[n]
  <2> HIDE DEF w
  <2>1. \A k \in 1..N : rank[k] = IF k > 1 /\ Same(y[k], y[k - 1]) THEN rank[k - 1] ELSE k
    BY <1>1, <1>7 DEF IsRank
  <2> DEFINE T == {k \in 0..N : k = 0 \/ rank[k] = w[k]}
  <2>2. 0 \in T
    OBVIOUS
  <2>3. ASSUME NEW k \in 1..N, k - 1 \in T PROVE k \in T
    <3>1. CASE k > 1 /\ Same(y[k], y[k - 1])
      <4>1. rank[k - 1] = w[k - 1]
        BY <2>3, <3>1
      <4>2. rank[k] = w[k]
        BY <1>5, <2>1, <3>1, <4>1
      <4> QED
        BY <4>2
    <3>2. CASE ~(k > 1 /\ Same(y[k], y[k - 1]))
      <4>1. rank[k] = w[k]
        BY <1>5, <2>1, <3>2
      <4> QED
        BY <4>1
    <3> QED
      BY <3>1, <3>2
  <2> HIDE DEF T
  <2>4. \A k \in 0..N : k \in T
    BY <2>2, <2>3, Reaches
  <2>5. n \in T /\ n # 0
    BY <2>4
  <2> QED
    BY <2>5 DEF T
<1>8. \A rank : IsRank(rank, y) => \A n \in 1..N : rank[n] = 1 + Cardinality(Higher(y, n))
  <2>1. \A n \in 1..N : w[n] = 1 + Cardinality(Higher(y, n))
    OBVIOUS
  <2> HIDE DEF w
  <2> QED
    BY <1>7, <2>1
<1> QED
  BY <1>6, <1>8

-----------------------------------------------------------------------------
(* The percentages of a page, and the entries it ranks. *)
Percents == [Enrolled -> Percentages \cup {None}]
EntriesOf(x) == [i \in DOMAIN Pupils |-> [id |-> Pupils[i], percentage |-> x[Pupils[i]]]]

(* The pupils strictly ahead of p. *)
AheadOf(x, p) == {q \in Enrolled : x[q] # None /\ Below(x[p], x[q])}

LEMMA Register ==
  /\ Len(Pupils) \in Nat /\ DOMAIN Pupils = 1..Len(Pupils)
  /\ \A i \in 1..Len(Pupils) : Pupils[i] \in Enrolled
  /\ \A p \in Enrolled : \E i \in 1..Len(Pupils) : Pupils[i] = p
  /\ \A i, j \in 1..Len(Pupils) : Pupils[i] = Pupils[j] => i = j
  /\ IsFiniteSet(Enrolled) /\ Cardinality(Enrolled) = Len(Pupils)
<1>1. /\ Len(Pupils) \in Nat /\ DOMAIN Pupils = 1..Len(Pupils)
      /\ \A i \in 1..Len(Pupils) : Pupils[i] \in Enrolled
      /\ Pupils = [i \in 1..Len(Pupils) |-> Pupils[i]]
  BY ConsolidationAssumption
<1>2. \A i, j \in 1..Len(Pupils) : Pupils[i] = Pupils[j] => i = j
  BY <1>1, ConsolidationAssumption
<1>3. \A p \in Enrolled : \E i \in 1..Len(Pupils) : Pupils[i] = p
  BY <1>1 DEF Enrolled, ToSet
<1>4. Pupils \in Bijection(1..Len(Pupils), Enrolled)
  <2>1. Pupils \in [1..Len(Pupils) -> Enrolled]
    BY <1>1
  <2> QED
    BY <1>2, <1>3, <2>1 DEF Bijection, Injection, Surjection, IsInjective
<1>5. IsFiniteSet(1..Len(Pupils)) /\ Cardinality(1..Len(Pupils)) = Len(Pupils)
  BY <1>1, FS_Interval
<1>6. IsFiniteSet(Enrolled) /\ Cardinality(Enrolled) = Len(Pupils)
  BY <1>4, <1>5, FS_Bijection DEF ExistsBijection
<1> QED
  BY <1>1, <1>2, <1>3, <1>6

(* The pupils who have a percentage are listed, each once. *)
LEMMA RankableListed ==
  ASSUME NEW x \in Percents
  PROVE  LET R == Rankable(EntriesOf(x))
         IN /\ Listed(R)
            /\ \A a \in R : /\ a.entry.id \in Enrolled /\ x[a.entry.id] # None
                            /\ a.entry.percentage = x[a.entry.id]
            /\ \A a, b \in R : a.entry.id = b.entry.id => a = b
            /\ \A p \in Enrolled : x[p] # None => \E a \in R : a.entry.id = p
<1> DEFINE L == Len(Pupils)
           R == Rankable(EntriesOf(x))
           f == [i \in 1..L |-> [index |-> i, entry |-> EntriesOf(x)[i]]]
           All == {f[i] : i \in 1..L}
<1>1. DOMAIN EntriesOf(x) = 1..L
      /\ \A i \in 1..L : EntriesOf(x)[i] = [id |-> Pupils[i], percentage |-> x[Pupils[i]]]
  BY Register DEF EntriesOf
<1>2. \A i \in 1..L : f[i].index = i /\ f[i].entry.id = Pupils[i] /\ f[i].entry.percentage = x[Pupils[i]]
  BY <1>1
<1>3. R = {r \in All : r.entry.percentage # None}
  <2>1. \A i \in 1..L : f[i] = [index |-> i, entry |-> EntriesOf(x)[i]]
    OBVIOUS
  <2>2. All = {[index |-> i, entry |-> EntriesOf(x)[i]] : i \in DOMAIN EntriesOf(x)}
    BY <1>1, <2>1
  <2> HIDE DEF All
  <2> QED
    BY <2>2 DEF Rankable
<1> HIDE DEF f, R
<1>4. IsFiniteSet(R)
  <2>1. f \in Surjection(1..L, All)
    <3>1. f \in [1..L -> All]
      BY DEF f
    <3> QED
      BY <3>1 DEF Surjection
  <2>2. IsFiniteSet(1..L)
    BY Register, FS_Interval
  <2>3. IsFiniteSet(All)
    BY <2>1, <2>2, FS_Surjection
  <2> QED
    BY <1>3, <2>3, FS_Subset
<1>5. \A a \in R : \E i \in 1..L : a = f[i] /\ x[Pupils[i]] # None
  BY <1>2, <1>3
<1>6. \A i \in 1..L : x[Pupils[i]] # None => f[i] \in R
  BY <1>2, <1>3
<1>7. \A p \in Enrolled : x[p] # None => x[p] \in Percentages
  BY DEF Percents
<1>8. \A a \in R : a.index \in Nat /\ a.entry.percentage \in Percentages
  BY <1>2, <1>5, <1>7, Register
<1>9. \A a, b \in R : a.index = b.index => a = b
  BY <1>2, <1>5
<1>10. \A a \in R : a.entry.id \in Enrolled /\ x[a.entry.id] # None /\ a.entry.percentage = x[a.entry.id]
  BY <1>2, <1>5, Register
<1>11. \A a, b \in R : a.entry.id = b.entry.id => a = b
  BY <1>2, <1>5, Register
<1>12. \A p \in Enrolled : x[p] # None => \E a \in R : a.entry.id = p
  BY <1>2, <1>6, Register
<1> QED
  BY <1>4, <1>8, <1>9, <1>10, <1>11, <1>12 DEF Listed, R

(* Standard competition ranking: rank_students gives each pupil who has a  *)
(* percentage one more than the number of pupils strictly ahead, and the   *)
(* pages put the others behind all of them.                                *)
LEMMA RankedByThoseAhead ==
  ASSUME NEW x \in Percents
  PROVE  \A p \in Enrolled :
           RankOf(Ranked(EntriesOf(x)))[p] =
             IF x[p] # None THEN 1 + Cardinality(AheadOf(x, p)) ELSE Len(Pupils) + 1
<1> DEFINE R == Rankable(EntriesOf(x))
           N == Cardinality(R)
           sorted == Sorted(R)
           rank == CHOOSE rank : rank = [n \in DOMAIN sorted |->
                     IF n > 1 /\ Same(sorted[n].percentage, sorted[n - 1].percentage)
                     THEN rank[n - 1] ELSE n]
           ranked == Ranked(EntriesOf(x))
<1>1. /\ Listed(R)
      /\ \A a \in R : /\ a.entry.id \in Enrolled /\ x[a.entry.id] # None
                      /\ a.entry.percentage = x[a.entry.id]
      /\ \A a, b \in R : a.entry.id = b.entry.id => a = b
      /\ \A p \in Enrolled : x[p] # None => \E a \in R : a.entry.id = p
  BY RankableListed
<1>2. ranked = [n \in DOMAIN sorted |-> [id |-> sorted[n].id, rank |-> rank[n]]]
  BY Zenon DEF Ranked
<1> HIDE DEF R, rank
<1>3. PICK s : Sorts(s, R) /\ sorted = [n \in 1..N |-> s[n].entry]
  BY <1>1, SortedSorts
<1> DEFINE y == [n \in 1..N |-> s[n].entry.percentage]
<1>4. N \in Nat
  BY <1>1, FS_CardinalityType DEF Listed
<1>5. \A n \in 1..N : s[n] \in R /\ s[n].entry.id \in Enrolled
                      /\ s[n].entry.percentage = x[s[n].entry.id]
  BY <1>1, <1>3 DEF Sorts
<1>6. y \in [1..N -> Percentages] /\ \A n \in 1..N : y[n] = x[s[n].entry.id]
  BY <1>1, <1>5 DEF Listed
<1>7. \A m \in 1..N : \A n \in 1..N : m < n => ~Below(y[m], y[n])
  <2> SUFFICES ASSUME NEW m \in 1..N, NEW n \in 1..N, m < n PROVE ~Below(y[m], y[n])
    OBVIOUS
  <2>1. s[m] \in R /\ s[n] \in R /\ Ahead(s[m], s[n])
    BY <1>3, <1>5 DEF Sorts
  <2> QED
    BY <1>1, <2>1, AheadIsStrict
<1>8. DOMAIN sorted = 1..N /\ \A n \in 1..N : sorted[n].percentage = y[n] /\ sorted[n].id = s[n].entry.id
  BY <1>3
<1> HIDE DEF sorted, y
<1>9. \A r : IsRank(r, y) <=>
        r = [n \in DOMAIN sorted |->
               IF n > 1 /\ Same(sorted[n].percentage, sorted[n - 1].percentage)
               THEN r[n - 1] ELSE n]
  <2> TAKE r
  <2>1. \A n \in 1..N : n > 1 => n - 1 \in 1..N
    BY <1>4
  <2>2. DOMAIN y = 1..N
    BY <1>6
  <2>3. [n \in 1..N |-> IF n > 1 /\ Same(sorted[n].percentage, sorted[n - 1].percentage)
                        THEN r[n - 1] ELSE n]
        = [n \in 1..N |-> IF n > 1 /\ Same(y[n], y[n - 1]) THEN r[n - 1] ELSE n]
    <3>1. ASSUME NEW n \in 1..N
          PROVE  n > 1 /\ Same(sorted[n].percentage, sorted[n - 1].percentage)
                 <=> n > 1 /\ Same(y[n], y[n - 1])
      BY <1>8, <2>1
    <3> QED
      BY <3>1
  <2> QED
    BY <1>8, <2>2, <2>3 DEF IsRank
<1>10. IsRank(rank, y)
  <2>1. \E r : IsRank(r, y)
    BY <1>4, <1>6, <1>7, RankOfPlace
  <2>2. \E r : r = [n \in DOMAIN sorted |->
               IF n > 1 /\ Same(sorted[n].percentage, sorted[n - 1].percentage)
               THEN r[n - 1] ELSE n]
    BY <1>9, <2>1, Zenon
  <2>3. rank = [n \in DOMAIN sorted |->
               IF n > 1 /\ Same(sorted[n].percentage, sorted[n - 1].percentage)
               THEN rank[n - 1] ELSE n]
    BY <2>2, Zenon DEF rank
  <2> QED
    BY <1>9, <2>3, Zenon
<1>11. \A n \in 1..N : rank[n] = 1 + Cardinality(Higher(y, n))
  BY <1>4, <1>6, <1>7, <1>10, RankOfPlace
<1>12. \A p \in Enrolled : x[p] # None => \E n \in 1..N : s[n].entry.id = p
  BY <1>1, <1>3 DEF Sorts
<1>13. \A m, n \in 1..N : s[m].entry.id = s[n].entry.id => m = n
  BY <1>1, <1>3, <1>5 DEF Sorts
<1>14. ASSUME NEW n \in 1..N
       PROVE  Cardinality(Higher(y, n)) = Cardinality(AheadOf(x, s[n].entry.id))
  <2> DEFINE p == s[n].entry.id
             f == [m \in Higher(y, n) |-> s[m].entry.id]
  <2>1. Higher(y, n) \subseteq 1..N /\ \A m \in 1..N : m \in Higher(y, n) <=> Below(x[p], x[s[m].entry.id])
    BY <1>6 DEF Higher
  <2>2. \A m \in 1..N : s[m].entry.id \in Enrolled /\ x[s[m].entry.id] # None
    BY <1>1, <1>5
  <2> HIDE DEF p
  <2>3. f \in [Higher(y, n) -> AheadOf(x, p)]
    BY <2>1, <2>2 DEF AheadOf
  <2>4. \A a, b \in Higher(y, n) : f[a] = f[b] => a = b
    BY <1>13, <2>1
  <2>5. \A q \in AheadOf(x, p) : \E m \in Higher(y, n) : f[m] = q
    BY <1>12, <2>1 DEF AheadOf
  <2> HIDE DEF f
  <2>6. f \in Bijection(Higher(y, n), AheadOf(x, p))
    BY <2>3, <2>4, <2>5 DEF Bijection, Injection, Surjection, IsInjective
  <2>7. IsFiniteSet(Higher(y, n))
    <3>1. IsFiniteSet(1..N)
      BY <1>4, FS_Interval
    <3> QED
      BY <2>1, <3>1, FS_Subset
  <2>8. Cardinality(AheadOf(x, p)) = Cardinality(Higher(y, n))
    BY <2>6, <2>7, FS_Bijection DEF ExistsBijection
  <2> QED
    BY <2>8 DEF p
<1>15. /\ DOMAIN ranked = 1..N
       /\ \A n \in 1..N : /\ ranked[n].id = s[n].entry.id
                          /\ ranked[n].rank = 1 + Cardinality(AheadOf(x, s[n].entry.id))
  BY <1>2, <1>8, <1>11, <1>14
<1> HIDE DEF ranked
<1> SUFFICES ASSUME NEW p \in Enrolled
             PROVE  RankOf(ranked)[p] =
                      IF x[p] # None THEN 1 + Cardinality(AheadOf(x, p)) ELSE Len(Pupils) + 1
  BY DEF ranked
<1> DEFINE own == {entry \in ToSet(ranked) : entry.id = p}
<1>16. RankOf(ranked)[p] = IF own = {} THEN Len(Pupils) + 1 ELSE (CHOOSE entry \in own : TRUE).rank
  BY DEF RankOf
<1>17. \A entry : entry \in own <=> \E n \in 1..N : entry = ranked[n] /\ s[n].entry.id = p
  BY <1>15 DEF ToSet
<1> HIDE DEF own
<1>18. CASE x[p] = None
  <2>1. own = {}
    BY <1>1, <1>5, <1>17, <1>18
  <2> QED
    BY <1>16, <1>18, <2>1
<1>19. CASE x[p] # None
  <2>1. own # {}
    BY <1>12, <1>17, <1>19
  <2>2. PICK entry : entry = CHOOSE e \in own : TRUE
    OBVIOUS
  <2>3. entry \in own
    BY <2>1, <2>2
  <2>4. entry.rank = 1 + Cardinality(AheadOf(x, p))
    BY <1>15, <1>17, <2>3
  <2> QED
    BY <1>16, <1>19, <2>1, <2>2, <2>4
<1> QED
  BY <1>18, <1>19

-----------------------------------------------------------------------------
(* The rank of a pupil among the percentages x, and how it compares. *)
Rank(x, p) == IF x[p] # None THEN 1 + Cardinality(AheadOf(x, p)) ELSE Len(Pupils) + 1

LEMMA AheadIsFinite ==
  ASSUME NEW x \in Percents, NEW p \in Enrolled
  PROVE  /\ IsFiniteSet(AheadOf(x, p)) /\ Cardinality(AheadOf(x, p)) \in Nat
         /\ Rank(x, p) \in Nat
         /\ x[p] # None => Rank(x, p) <= Len(Pupils)
<1>1. AheadOf(x, p) \subseteq Enrolled
  BY DEF AheadOf
<1>2. /\ IsFiniteSet(AheadOf(x, p)) /\ Cardinality(AheadOf(x, p)) \in Nat
      /\ Cardinality(AheadOf(x, p)) <= Cardinality(Enrolled)
      /\ Cardinality(Enrolled) = Cardinality(AheadOf(x, p)) => Enrolled = AheadOf(x, p)
  BY <1>1, Register, FS_Subset, FS_CardinalityType
<1>3. x[p] # None => p \notin AheadOf(x, p)
  <2>1. x[p] # None => x[p] \in Percentages
    BY DEF Percents
  <2> QED
    BY <2>1, BelowIsTotal DEF AheadOf
<1>4. Len(Pupils) \in Nat /\ Cardinality(Enrolled) = Len(Pupils)
  BY Register
<1>5. x[p] # None => Cardinality(AheadOf(x, p)) < Len(Pupils)
  BY <1>2, <1>3, <1>4
<1> QED
  BY <1>2, <1>4, <1>5 DEF Rank

(* On one page the higher percentage has the better rank, equal ones share *)
(* it, and having none is worse than any.                                  *)
LEMMA RankOrders ==
  ASSUME NEW x \in Percents, NEW p \in Enrolled, NEW q \in Enrolled
  PROVE  /\ x[p] # None /\ (x[q] = None \/ ~Below(x[p], x[q])) => Rank(x, p) <= Rank(x, q)
         /\ Rank(x, p) < Rank(x, q) <=> x[p] # None /\ (x[q] = None \/ Below(x[q], x[p]))
<1>1. /\ Rank(x, p) \in Nat /\ Rank(x, q) \in Nat /\ Len(Pupils) \in Nat
      /\ x[p] # None => Rank(x, p) <= Len(Pupils)
      /\ x[q] # None => Rank(x, q) <= Len(Pupils)
      /\ x[p] = None => Rank(x, p) = Len(Pupils) + 1
      /\ x[q] = None => Rank(x, q) = Len(Pupils) + 1
  BY AheadIsFinite, Register DEF Rank
<1>2. \A r \in Enrolled : x[r] # None => x[r] \in Percentages
  BY DEF Percents
<1>3. ASSUME NEW a \in Enrolled, NEW b \in Enrolled, x[a] # None, x[b] # None
      PROVE  /\ ~Below(x[a], x[b]) => Rank(x, a) <= Rank(x, b)
             /\ Below(x[b], x[a]) => Rank(x, a) < Rank(x, b)
  <2>1. /\ IsFiniteSet(AheadOf(x, a)) /\ Cardinality(AheadOf(x, a)) \in Nat
        /\ IsFiniteSet(AheadOf(x, b)) /\ Cardinality(AheadOf(x, b)) \in Nat
        /\ Rank(x, a) = 1 + Cardinality(AheadOf(x, a))
        /\ Rank(x, b) = 1 + Cardinality(AheadOf(x, b))
    BY <1>3, AheadIsFinite DEF Rank
  <2>2. ASSUME ~Below(x[a], x[b]) PROVE AheadOf(x, a) \subseteq AheadOf(x, b)
    <3> SUFFICES ASSUME NEW r \in AheadOf(x, a) PROVE r \in AheadOf(x, b)
      OBVIOUS
    <3>1. r \in Enrolled /\ x[r] # None /\ Below(x[a], x[r])
      BY DEF AheadOf
    <3>2. ~Below(x[r], x[a])
      BY <1>2, <1>3, <3>1, BelowIsTotal
    <3>3. Below(x[b], x[r])
      BY <1>2, <1>3, <2>2, <3>1, <3>2, BelowIsTransitive
    <3> QED
      BY <3>1, <3>3 DEF AheadOf
  <2>3. CASE Below(x[b], x[a])
    <3>1. ~Below(x[a], x[b])
      BY <1>2, <1>3, <2>3, BelowIsTotal
    <3>2. a \in AheadOf(x, b) /\ a \notin AheadOf(x, a)
      BY <1>2, <1>3, <2>3, BelowIsTotal DEF AheadOf
    <3>3. /\ Cardinality(AheadOf(x, a)) <= Cardinality(AheadOf(x, b))
          /\ Cardinality(AheadOf(x, a)) # Cardinality(AheadOf(x, b))
      BY <2>1, <2>2, <3>1, <3>2, FS_Subset
    <3> QED
      BY <2>1, <3>3
  <2>4. CASE ~Below(x[b], x[a])
    <3>1. ~Below(x[a], x[b]) => Cardinality(AheadOf(x, a)) <= Cardinality(AheadOf(x, b))
      BY <2>1, <2>2, FS_Subset
    <3> QED
      BY <2>1, <2>4, <3>1
  <2> QED
    BY <2>3, <2>4
<1>4. CASE x[p] # None /\ x[q] # None
  <2>1. /\ ~Below(x[p], x[q]) => Rank(x, p) <= Rank(x, q)
        /\ Below(x[q], x[p]) => Rank(x, p) < Rank(x, q)
    BY <1>3, <1>4
  <2>2. ~Below(x[q], x[p]) => Rank(x, q) <= Rank(x, p)
    BY <1>3, <1>4
  <2> QED
    BY <1>1, <1>4, <2>1, <2>2
<1>5. CASE ~(x[p] # None /\ x[q] # None)
  BY <1>1, <1>5
<1> QED
  BY <1>4, <1>5

(* When one percentage rises and no other changes, this pupil's rank does  *)
(* not get worse and nobody else's gets better.                            *)
LEMMA RankRises ==
  ASSUME NEW x \in Percents, NEW z \in Percents, NEW p \in Enrolled,
         \A q \in Enrolled : q # p => z[q] = x[q],
         z[p] = None <=> x[p] = None, x[p] # None => ~Below(z[p], x[p])
  PROVE  /\ Rank(z, p) <= Rank(x, p)
         /\ \A q \in Enrolled \ {p} : Rank(z, q) >= Rank(x, q)
<1>1. \A r \in Enrolled : /\ x[r] # None => x[r] \in Percentages
                          /\ z[r] # None => z[r] \in Percentages
  BY DEF Percents
<1>2. Rank(z, p) <= Rank(x, p)
  <2>1. CASE x[p] = None
    BY <2>1, Register DEF Rank
  <2>2. CASE x[p] # None
    <3>1. AheadOf(z, p) \subseteq AheadOf(x, p)
      <4> SUFFICES ASSUME NEW r \in AheadOf(z, p) PROVE r \in AheadOf(x, p)
        OBVIOUS
      <4>1. r \in Enrolled /\ z[r] # None /\ Below(z[p], z[r])
        BY DEF AheadOf
      <4>2. r # p
        BY <1>1, <4>1, BelowIsTotal
      <4>3. z[r] = x[r] /\ ~Below(z[r], z[p])
        BY <1>1, <2>2, <4>1, <4>2, BelowIsTotal
      <4>4. Below(x[p], x[r])
        BY <1>1, <2>2, <4>1, <4>3, BelowIsTransitive
      <4> QED
        BY <4>1, <4>3, <4>4 DEF AheadOf
    <3>2. Cardinality(AheadOf(z, p)) <= Cardinality(AheadOf(x, p))
      BY <3>1, AheadIsFinite, FS_Subset
    <3> QED
      BY <2>2, <3>2, AheadIsFinite DEF Rank
  <2> QED
    BY <2>1, <2>2
<1>3. ASSUME NEW q \in Enrolled \ {p} PROVE Rank(z, q) >= Rank(x, q)
  <2>1. z[q] = x[q]
    OBVIOUS
  <2>2. CASE x[q] = None
    BY <2>1, <2>2, Register DEF Rank
  <2>3. CASE x[q] # None
    <3>1. AheadOf(x, q) \subseteq AheadOf(z, q)
      <4> SUFFICES ASSUME NEW r \in AheadOf(x, q) PROVE r \in AheadOf(z, q)
        OBVIOUS
      <4>1. r \in Enrolled /\ x[r] # None /\ Below(x[q], x[r])
        BY DEF AheadOf
      <4>2. CASE r = p
        <5>1. ~Below(x[r], x[q]) /\ ~Below(z[r], x[r]) /\ z[r] # None
          BY <1>1, <2>3, <4>1, <4>2, BelowIsTotal
        <5>2. Below(x[q], z[r])
          BY <1>1, <2>3, <4>1, <5>1, BelowIsTransitive
        <5> QED
          BY <2>1, <4>1, <5>1, <5>2 DEF AheadOf
      <4>3. CASE r # p
        BY <2>1, <4>1, <4>3 DEF AheadOf
      <4> QED
        BY <4>2, <4>3
    <3>2. Cardinality(AheadOf(x, q)) <= Cardinality(AheadOf(z, q))
      BY <3>1, AheadIsFinite, FS_Subset
    <3> QED
      BY <2>1, <2>3, <3>2, AheadIsFinite DEF Rank
  <2> QED
    BY <2>2, <2>3
<1> QED
  BY <1>2, <1>3

-----------------------------------------------------------------------------
(* What the pages say of the grades g: the percentage decided on, the one  *)
(* the consolidation shows, and the one the bulletins report.              *)
Grids == [Enrolled -> [Lines -> Contents]]
Decided(g) == [p \in Enrolled |-> PeriodTotal(ConsolidationInputs(g, p)).percentage]
Rounded(g) == [p \in Enrolled |-> Shown(Decided(g)[p])]
Reported(g) == [p \in Enrolled |-> PeriodTotal(ResultInputs(g, p)).percentage]

LEMMA TotalOfSheet ==
  ASSUME NEW row \in [Lines -> Contents], NEW inputs, Sheet(inputs, row)
  PROVE  LET total == PeriodTotal(inputs)
         IN /\ total.points \in Nat /\ total.possible \in Nat
            /\ total.percentage = Fraction(total.points, total.possible)
            /\ total.percentage \in Percentages \cup {None}
<1>1. Breakdowns(inputs) \in Seq(BreakdownEntries)
  BY BreakdownOfSheet
<1> QED
  BY <1>1, TotalOfBreakdown, FractionTyped DEF PeriodTotal

LEMMA ShownTyped ==
  ASSUME NEW x \in Percentages \cup {None}
  PROVE  /\ Shown(x) \in Percentages \cup {None}
         /\ Shown(x) = None <=> x = None
         /\ x # None => x \in Percentages /\ Quantize(x) \in Nat
                        /\ Shown(x) = [points |-> Quantize(x), possible |-> 10000]
<1>1. CASE x = None
  BY <1>1 DEF Shown
<1>2. CASE x # None
  <2>1. x \in Percentages /\ Quantize(x) \in Nat
    BY <1>2, QuantizeBounds
  <2> QED
    BY <1>2, <2>1, FractionTyped DEF Shown
<1> QED
  BY <1>1, <1>2

LEMMA PagesTell ==
  ASSUME NEW g \in Grids
  PROVE  /\ Decided(g) \in Percents /\ Rounded(g) \in Percents /\ Reported(g) \in Percents
         /\ \A p \in Enrolled :
              /\ Consolidation(g).rows[p].percentage = Decided(g)[p]
              /\ Consolidation(g).rows[p].shown = Rounded(g)[p]
              /\ Consolidation(g).rank[p] = Rank(Rounded(g), p)
              /\ ResultsPage(g).rows[p].percentage = Reported(g)[p]
              /\ ResultsPage(g).rank[p] = Rank(Reported(g), p)
<1>1. ASSUME NEW p \in Enrolled
      PROVE  /\ Decided(g)[p] \in Percentages \cup {None}
             /\ Rounded(g)[p] \in Percentages \cup {None}
             /\ Reported(g)[p] \in Percentages \cup {None}
  <2>1. g[p] \in [Lines -> Contents]
    BY DEF Grids
  <2>2. Sheet(ConsolidationInputs(g, p), g[p]) /\ Sheet(ResultInputs(g, p), g[p])
    BY SheetOfConsolidation, SheetOfResults DEF Grids
  <2>3. /\ PeriodTotal(ConsolidationInputs(g, p)).percentage \in Percentages \cup {None}
        /\ PeriodTotal(ResultInputs(g, p)).percentage \in Percentages \cup {None}
    BY <2>1, <2>2, TotalOfSheet
  <2> QED
    BY <2>3, ShownTyped DEF Decided, Rounded, Reported
<1>2. Decided(g) \in Percents /\ Rounded(g) \in Percents /\ Reported(g) \in Percents
  BY <1>1 DEF Decided, Rounded, Reported, Percents
<1>3. \A p \in Enrolled :
        /\ Consolidation(g).rows[p].percentage = Decided(g)[p]
        /\ Consolidation(g).rows[p].shown = Rounded(g)[p]
        /\ ResultsPage(g).rows[p].percentage = Reported(g)[p]
  BY DEF Consolidation, ConsolidationRow, ResultsPage, ResultRow, Decided, Rounded, Reported
<1>4. Entries(Consolidation(g).rows, "shown") = EntriesOf(Rounded(g))
  BY <1>3, Register DEF Entries, EntriesOf
<1>5. Entries(ResultsPage(g).rows, "percentage") = EntriesOf(Reported(g))
  BY <1>3, Register DEF Entries, EntriesOf
<1>6. /\ Consolidation(g).rank = RankOf(Ranked(EntriesOf(Rounded(g))))
      /\ ResultsPage(g).rank = RankOf(Ranked(EntriesOf(Reported(g))))
  BY <1>4, <1>5 DEF Consolidation, ResultsPage, Ranks
<1>7. \A p \in Enrolled : /\ Consolidation(g).rank[p] = Rank(Rounded(g), p)
                          /\ ResultsPage(g).rank[p] = Rank(Reported(g), p)
  BY <1>2, <1>6, RankedByThoseAhead DEF Rank
<1> QED
  BY <1>2, <1>3, <1>7

(* Of two pupils with percentages the consolidation shows the rounded ones, *)
(* whose order is that of the exact ones or a tie.                          *)
LEMMA RoundedOrder ==
  ASSUME NEW x \in Percentages, NEW y \in Percentages
  PROVE  /\ Below(Shown(x), Shown(y)) <=> Quantize(x) < Quantize(y)
         /\ Below(Shown(x), Shown(y)) => Below(x, y)
<1>1. /\ Quantize(x) \in Nat /\ Quantize(y) \in Nat
      /\ Shown(x) = [points |-> Quantize(x), possible |-> 10000]
      /\ Shown(y) = [points |-> Quantize(y), possible |-> 10000]
  <2>1. x # None /\ y # None
    BY ConsolidationAssumption
  <2> QED
    BY <2>1, ShownTyped
<1>2. Below(Shown(x), Shown(y)) <=> Quantize(x) < Quantize(y)
  <2> DEFINE m == Quantize(x)
             n == Quantize(y)
  <2>1. Below(Shown(x), Shown(y)) <=> m * 10000 < n * 10000
    BY <1>1 DEF Below
  <2>2. m \in Nat /\ n \in Nat
    BY <1>1
  <2> HIDE DEF m, n
  <2>3. m * 10000 < n * 10000 <=> m < n
    BY <2>2
  <2> QED
    BY <2>1, <2>3 DEF m, n
<1>3. Quantize(x) < Quantize(y) => Below(x, y)
  BY <1>1, RoundingKeepsOrder
<1> QED
  BY <1>2, <1>3

(* On either page the loop of rank_students over the sorted list gives     *)
(* standard competition ranking: one more than the number of pupils        *)
(* strictly ahead, and those without a percentage behind all others.       *)
THEOREM RanksAreCompetition == PagesSpec => []CompetitionRanks
<1>1. PagesInv => CompetitionRanks
  <2> SUFFICES ASSUME PagesInv PROVE CompetitionRanks
    OBVIOUS
  <2>1. grades \in Grids /\ consolidation = Consolidation(grades) /\ results = ResultsPage(grades)
    BY DEF PagesInv, WithinMaximum, Grids
  <2>2. \A p \in Enrolled :
          /\ consolidation.rows[p].shown = Rounded(grades)[p]
          /\ consolidation.rank[p] = Rank(Rounded(grades), p)
          /\ results.rows[p].percentage = Reported(grades)[p]
          /\ results.rank[p] = Rank(Reported(grades), p)
    BY <2>1, PagesTell
  <2>3. Competition(consolidation, "shown")
    <3> SUFFICES ASSUME NEW p \in Enrolled
                 PROVE  LET rankable == {q \in Enrolled : consolidation.rows[q]["shown"] # None}
                            ahead == {q \in rankable : Below(consolidation.rows[p]["shown"],
                                                             consolidation.rows[q]["shown"])}
                        IN consolidation.rank[p] =
                             IF p \in rankable THEN 1 + Cardinality(ahead) ELSE Len(Pupils) + 1
      BY DEF Competition
    <3>1. {q \in {r \in Enrolled : consolidation.rows[r]["shown"] # None} :
             Below(consolidation.rows[p]["shown"], consolidation.rows[q]["shown"])}
          = AheadOf(Rounded(grades), p)
      BY <2>2 DEF AheadOf
    <3> QED
      BY <2>2, <3>1 DEF Rank
  <2>4. Competition(results, "percentage")
    <3> SUFFICES ASSUME NEW p \in Enrolled
                 PROVE  LET rankable == {q \in Enrolled : results.rows[q]["percentage"] # None}
                            ahead == {q \in rankable : Below(results.rows[p]["percentage"],
                                                             results.rows[q]["percentage"])}
                        IN results.rank[p] =
                             IF p \in rankable THEN 1 + Cardinality(ahead) ELSE Len(Pupils) + 1
      BY DEF Competition
    <3>1. {q \in {r \in Enrolled : results.rows[r]["percentage"] # None} :
             Below(results.rows[p]["percentage"], results.rows[q]["percentage"])}
          = AheadOf(Reported(grades), p)
      BY <2>2 DEF AheadOf
    <3> QED
      BY <2>2, <3>1 DEF Rank
  <2> QED
    BY <2>3, <2>4 DEF CompetitionRanks
<1> QED
  BY <1>1, PagesInvStays, PTL

(* The decision is taken on the exact percentage and the rank on the       *)
(* rounded one, yet no pupil deferred for the average alone is ranked      *)
(* before an admitted one, whatever the threshold.                         *)
THEOREM RanksFollowDecisions == PagesSpec => []RankFollowsDecision
<1>1. PagesInv => RankFollowsDecision
  <2> SUFFICES ASSUME PagesInv, NEW p \in Enrolled, NEW q \in Enrolled,
                      consolidation.rows[p].automatic = "ADMITTED",
                      consolidation.rows[q].automatic = "DEFERRED",
                      ~consolidation.rows[q].blocked
               PROVE  consolidation.rank[p] <= consolidation.rank[q]
    BY DEF RankFollowsDecision
  <2> DEFINE x == Decided(grades)
  <2>1. grades \in Grids /\ consolidation = Consolidation(grades)
    BY DEF PagesInv, WithinMaximum, Grids
  <2>2. /\ x \in Percents /\ Rounded(grades) \in Percents
        /\ \A r \in Enrolled : Rounded(grades)[r] = Shown(x[r])
        /\ consolidation.rank[p] = Rank(Rounded(grades), p)
        /\ consolidation.rank[q] = Rank(Rounded(grades), q)
    BY <2>1, PagesTell DEF Rounded
  <2>3. \A r \in Enrolled :
          consolidation.rows[r].automatic = AutomaticDecision(x[r], consolidation.rows[r].blocked)
    BY <2>1 DEF Consolidation, ConsolidationRow, Decided
  <2> HIDE DEF x
  <2>4. /\ x[p] # None /\ ~BelowPercent(x[p], Threshold)
        /\ x[q] # None /\ BelowPercent(x[q], Threshold)
    BY <2>3 DEF AutomaticDecision
  <2>5. x[p] \in Percentages /\ x[q] \in Percentages
    BY <2>2, <2>4 DEF Percents
  <2>6. Quantize(x[p]) >= Threshold /\ Quantize(x[q]) <= Threshold /\ Threshold \in Nat
        /\ Quantize(x[p]) \in Nat /\ Quantize(x[q]) \in Nat
    BY <2>4, <2>5, RoundingRespectsThreshold, QuantizeBounds, ConsolidationAssumption
  <2>7. ~Below(Shown(x[p]), Shown(x[q]))
    BY <2>5, <2>6, RoundedOrder
  <2>8. Shown(x[p]) # None
    BY <2>4, <2>5, ShownTyped
  <2> QED
    BY <2>2, <2>7, <2>8, RankOrders
<1> QED
  BY <1>1, PagesInvStays, PTL

(* With no score outside the general total both pages compute the same     *)
(* percentage.                                                             *)
LEMMA SameTotals ==
  ASSUME NEW g \in Grids, NEW p \in Enrolled,
         \A l \in Lines : Input(Grille[l], g[p][l]).included \/ Score(g[p][l]) = None
  PROVE  Decided(g)[p] = Reported(g)[p]
<1>1. g[p] \in [Lines -> Contents]
  BY DEF Grids
<1>2. /\ Sheet(ConsolidationInputs(g, p), g[p]) /\ Sheet(ResultInputs(g, p), g[p])
      /\ \A l \in Lines : ResultInputs(g, p)[l].included
      /\ \A l \in Lines : ConsolidationInputs(g, p)[l].included <=> Input(Grille[l], g[p][l]).included
  BY SheetOfConsolidation, SheetOfResults DEF Grids
<1> DEFINE B == Breakdowns(ConsolidationInputs(g, p))
           C == Breakdowns(ResultInputs(g, p))
<1>3. /\ B \in Seq(BreakdownEntries) /\ Len(B) = Len(Grille)
      /\ C \in Seq(BreakdownEntries) /\ Len(C) = Len(Grille)
  BY <1>1, <1>2, BreakdownOfSheet
<1>4. ASSUME NEW l \in Lines
      PROVE  B[l].points = C[l].points /\ B[l].possible = C[l].possible
  <2>1. g[p][l] \in Nat => Score(g[p][l]) # None
    BY ConsolidationAssumption DEF Score
  <2>2. ConsolidationInputs(g, p)[l].included \/ g[p][l] \notin Nat
    BY <1>2, <2>1
  <2>3. CASE ~Grille[l].note_par_appreciation /\ g[p][l] \in Nat
    <3>1. /\ B[l].points = g[p][l] * Grille[l].ponderation
          /\ B[l].possible = Grille[l].maximum * Grille[l].ponderation
      BY <1>1, <1>2, <2>2, <2>3, BreakdownOfSheet
    <3>2. /\ C[l].points = g[p][l] * Grille[l].ponderation
          /\ C[l].possible = Grille[l].maximum * Grille[l].ponderation
      BY <1>1, <1>2, <2>3, BreakdownOfSheet
    <3> QED
      BY <3>1, <3>2
  <2>4. CASE ~(~Grille[l].note_par_appreciation /\ g[p][l] \in Nat)
    <3>1. B[l].points = 0 /\ B[l].possible = 0
      BY <1>1, <1>2, <2>4, BreakdownOfSheet
    <3>2. C[l].points = 0 /\ C[l].possible = 0
      BY <1>1, <1>2, <2>4, BreakdownOfSheet
    <3> QED
      BY <3>1, <3>2
  <2> QED
    BY <2>3, <2>4
<1>5. Decided(g)[p] = Total(B).percentage /\ Reported(g)[p] = Total(C).percentage
  BY DEF Decided, Reported, PeriodTotal
<1> HIDE DEF B, C
<1>6. DOMAIN B = Lines /\ DOMAIN C = Lines
  BY <1>3, Grid
<1>7. /\ [l \in DOMAIN B |-> B[l].points] = [l \in DOMAIN C |-> C[l].points]
      /\ [l \in DOMAIN B |-> B[l].possible] = [l \in DOMAIN C |-> C[l].possible]
  BY <1>4, <1>6
<1>8. Total(B) = Total(C)
  BY <1>7 DEF Total
<1> QED
  BY <1>5, <1>8

(* In a class with no score outside the general total the two pages order  *)
(* the pupils alike: ranking the rounded percentages ties some of those    *)
(* ranked by the exact ones, and exchanges none.                           *)
THEOREM PagesAgreeOnOrder == PagesSpec => []PagesOrderAlike
<1>1. PagesInv => PagesOrderAlike
  <2> SUFFICES ASSUME PagesInv,
                      \A p \in Enrolled, l \in Lines :
                        Input(Grille[l], grades[p][l]).included \/ Score(grades[p][l]) = None,
                      NEW p \in Enrolled, NEW q \in Enrolled,
                      consolidation.rank[p] < consolidation.rank[q]
               PROVE  results.rank[p] < results.rank[q]
    BY DEF PagesOrderAlike
  <2> DEFINE x == Decided(grades)
  <2>1. grades \in Grids /\ consolidation = Consolidation(grades) /\ results = ResultsPage(grades)
    BY DEF PagesInv, WithinMaximum, Grids
  <2>2. /\ x \in Percents /\ Rounded(grades) \in Percents /\ Reported(grades) \in Percents
        /\ \A r \in Enrolled : Rounded(grades)[r] = Shown(x[r])
        /\ consolidation.rank[p] = Rank(Rounded(grades), p)
        /\ consolidation.rank[q] = Rank(Rounded(grades), q)
        /\ results.rank[p] = Rank(Reported(grades), p)
        /\ results.rank[q] = Rank(Reported(grades), q)
    BY <2>1, PagesTell DEF Rounded
  <2>3. x[p] = Reported(grades)[p] /\ x[q] = Reported(grades)[q]
    BY <2>1, SameTotals
  <2> HIDE DEF x
  <2>4. Shown(x[p]) # None /\ (Shown(x[q]) = None \/ Below(Shown(x[q]), Shown(x[p])))
    BY <2>2, RankOrders
  <2>5. x[p] \in Percentages \cup {None} /\ x[q] \in Percentages \cup {None}
    BY <2>2 DEF Percents
  <2>6. x[p] # None /\ (x[q] = None \/ Below(x[q], x[p]))
    BY <2>4, <2>5, ShownTyped, RoundedOrder
  <2> QED
    BY <2>2, <2>3, <2>6, RankOrders
<1> QED
  BY <1>1, PagesInvStays, PTL

-----------------------------------------------------------------------------
(* A score of pupil p on line l is replaced by a higher one. *)
Raised(g, h, p, l) ==
  /\ g \in Grids /\ h \in Grids /\ p \in Enrolled /\ l \in Lines
  /\ g[p][l] \in Nat /\ h[p][l] \in Nat /\ g[p][l] < h[p][l]
  /\ \A k \in Lines : k # l => h[p][k] = g[p][k]
  /\ \A q \in Enrolled : q # p => h[q] = g[q]

(* The maxima the percentage of p is computed from are the same, the       *)
(* points are not fewer.                                                   *)
LEMMA RaisedTotal ==
  ASSUME NEW g, NEW h, NEW p, NEW l, Raised(g, h, p, l)
  PROVE  LET before == PeriodTotal(ConsolidationInputs(g, p))
             after == PeriodTotal(ConsolidationInputs(h, p))
         IN before.points <= after.points /\ before.possible = after.possible
<1>1. g[p] \in [Lines -> Contents] /\ h[p] \in [Lines -> Contents] /\ p \in Enrolled
  BY DEF Raised, Grids
<1>2. /\ Sheet(ConsolidationInputs(g, p), g[p]) /\ Sheet(ConsolidationInputs(h, p), h[p])
      /\ \A k \in Lines : ConsolidationInputs(g, p)[k].included <=> ConsolidationInputs(h, p)[k].included
  <2>1. \A k \in Lines : Input(Grille[k], g[p][k]).included <=> Input(Grille[k], h[p][k]).included
    BY DEF Input
  <2> QED
    BY <2>1, SheetOfConsolidation DEF Raised, Grids
<1> DEFINE B == Breakdowns(ConsolidationInputs(g, p))
           C == Breakdowns(ConsolidationInputs(h, p))
<1>3. /\ B \in Seq(BreakdownEntries) /\ Len(B) = Len(Grille)
      /\ C \in Seq(BreakdownEntries) /\ Len(C) = Len(Grille)
  BY <1>1, <1>2, BreakdownOfSheet
<1>4. ASSUME NEW k \in Lines
      PROVE  B[k].points <= C[k].points /\ B[k].possible = C[k].possible
  <2>1. /\ g[p][k] \in Nat <=> h[p][k] \in Nat
        /\ g[p][k] \in Nat => g[p][k] <= h[p][k]
    BY DEF Raised
  <2>2. Grille[k].ponderation \in Nat
    BY Grid DEF GrilleLines
  <2>3. CASE ConsolidationInputs(g, p)[k].included /\ ~Grille[k].note_par_appreciation /\ g[p][k] \in Nat
    <3>1. /\ B[k].points = g[p][k] * Grille[k].ponderation
          /\ B[k].possible = Grille[k].maximum * Grille[k].ponderation
      BY <1>1, <1>2, <2>3, BreakdownOfSheet
    <3>2. /\ C[k].points = h[p][k] * Grille[k].ponderation
          /\ C[k].possible = Grille[k].maximum * Grille[k].ponderation
      BY <1>1, <1>2, <2>1, <2>3, BreakdownOfSheet
    <3>3. g[p][k] * Grille[k].ponderation <= h[p][k] * Grille[k].ponderation
      BY <2>1, <2>2, <2>3
    <3> QED
      BY <3>1, <3>2, <3>3
  <2>4. CASE ~(ConsolidationInputs(g, p)[k].included /\ ~Grille[k].note_par_appreciation /\ g[p][k] \in Nat)
    <3>1. B[k].points = 0 /\ B[k].possible = 0
      BY <1>1, <1>2, <2>4, BreakdownOfSheet
    <3>2. C[k].points = 0 /\ C[k].possible = 0
      BY <1>1, <1>2, <2>1, <2>4, BreakdownOfSheet
    <3> QED
      BY <3>1, <3>2
  <2> QED
    BY <2>3, <2>4
<1>5. PeriodTotal(ConsolidationInputs(g, p)) = Total(B) /\ PeriodTotal(ConsolidationInputs(h, p)) = Total(C)
  BY DEF PeriodTotal
<1> HIDE DEF B, C
<1>6. DOMAIN B = Lines /\ DOMAIN C = Lines
  BY <1>3, Grid
<1>7. [k \in DOMAIN B |-> B[k].possible] = [k \in DOMAIN C |-> C[k].possible]
  BY <1>4, <1>6
<1>8. PICK b, c : b = [k \in DOMAIN B |-> B[k].points] /\ c = [k \in DOMAIN C |-> C[k].points]
  OBVIOUS
<1>9. b \in Seq(Nat) /\ c \in Seq(Nat) /\ Len(b) = Len(Grille) /\ Len(c) = Len(Grille)
  BY <1>3, <1>8, TotalOfBreakdown
<1>10. \A k \in 1..Len(b) : b[k] <= c[k]
  BY <1>4, <1>6, <1>8, <1>9, Grid
<1>11. SumOf(b) <= SumOf(c)
  BY <1>9, <1>10, SumGrows
<1>12. /\ Total(B).points = SumOf(b) /\ Total(C).points = SumOf(c)
       /\ Total(B).possible = SumOf([k \in DOMAIN B |-> B[k].possible])
       /\ Total(C).possible = SumOf([k \in DOMAIN C |-> C[k].possible])
  BY <1>8 DEF Total
<1> QED
  BY <1>5, <1>7, <1>11, <1>12

(* The points a higher score adds raise the percentage of its pupil and of *)
(* nobody else, exact and rounded.                                         *)
LEMMA RaisedPercentage ==
  ASSUME NEW g, NEW h, NEW p, NEW l, Raised(g, h, p, l)
  PROVE  /\ \A q \in Enrolled : q # p => Decided(h)[q] = Decided(g)[q] /\ Rounded(h)[q] = Rounded(g)[q]
         /\ Decided(h)[p] = None <=> Decided(g)[p] = None
         /\ Rounded(h)[p] = None <=> Rounded(g)[p] = None
         /\ Decided(g)[p] # None => /\ ~Below(Decided(h)[p], Decided(g)[p])
                                    /\ ~Below(Rounded(h)[p], Rounded(g)[p])
                                    /\ \A t \in Nat : BelowPercent(Decided(h)[p], t)
                                                        => BelowPercent(Decided(g)[p], t)
<1>1. p \in Enrolled /\ g \in Grids /\ h \in Grids
  BY DEF Raised
<1>2. ASSUME NEW q \in Enrolled, q # p
      PROVE  Decided(h)[q] = Decided(g)[q] /\ Rounded(h)[q] = Rounded(g)[q]
  <2>1. h[q] = g[q]
    BY <1>2 DEF Raised
  <2>2. ConsolidationInputs(h, q) = ConsolidationInputs(g, q)
    BY <2>1 DEF ConsolidationInputs
  <2> QED
    BY <2>2 DEF Decided, Rounded
<1> DEFINE before == PeriodTotal(ConsolidationInputs(g, p))
           after == PeriodTotal(ConsolidationInputs(h, p))
<1>3. /\ before.points \in Nat /\ before.possible \in Nat
      /\ before.percentage = Fraction(before.points, before.possible)
      /\ after.points \in Nat /\ after.possible \in Nat
      /\ after.percentage = Fraction(after.points, after.possible)
  <2>1. g[p] \in [Lines -> Contents] /\ h[p] \in [Lines -> Contents]
    BY <1>1 DEF Grids
  <2>2. Sheet(ConsolidationInputs(g, p), g[p]) /\ Sheet(ConsolidationInputs(h, p), h[p])
    BY <1>1, SheetOfConsolidation DEF Grids
  <2> QED
    BY <2>1, <2>2, TotalOfSheet
<1>4. before.points <= after.points /\ before.possible = after.possible
  BY RaisedTotal
<1>5. /\ Decided(g)[p] = before.percentage /\ Decided(h)[p] = after.percentage
      /\ Rounded(g)[p] = Shown(Decided(g)[p]) /\ Rounded(h)[p] = Shown(Decided(h)[p])
  BY <1>1 DEF Decided, Rounded
<1> HIDE DEF before, after
<1>6. CASE before.possible = 0
  <2>1. Decided(g)[p] = None /\ Decided(h)[p] = None
    BY <1>3, <1>4, <1>5, <1>6, FractionTyped
  <2>2. Rounded(g)[p] = None /\ Rounded(h)[p] = None
    BY <1>5, <2>1, ShownTyped
  <2> QED
    BY <1>2, <2>1, <2>2
<1>7. CASE before.possible > 0
  <2> DEFINE x == Decided(g)[p]
             y == Decided(h)[p]
             a == before.points
             b == before.possible
             c == after.points
  <2>1. /\ x = [points |-> a, possible |-> b] /\ x # None
        /\ y = [points |-> c, possible |-> b] /\ y # None
    BY <1>3, <1>4, <1>5, <1>7, FractionTyped
  <2>2. a \in Nat /\ b \in Nat /\ c \in Nat /\ a <= c /\ b > 0
    BY <1>3, <1>4, <1>7
  <2>3. Rounded(g)[p] = Shown(x) /\ Rounded(h)[p] = Shown(y)
    BY <1>5
  <2> HIDE DEF x, y, a, b, c
  <2>4. x \in Percentages /\ y \in Percentages
    BY <2>1, <2>2 DEF Percentages
  <2>5. ~Below(y, x)
    <3>1. a * b <= c * b
      BY <2>2
    <3>2. a * b \in Nat /\ c * b \in Nat
      BY <2>2
    <3>3. Below(y, x) <=> c * b < a * b
      BY <2>1 DEF Below
    <3> QED
      BY <3>1, <3>2, <3>3
  <2>6. \A t \in Nat : BelowPercent(y, t) => BelowPercent(x, t)
    <3> TAKE t \in Nat
    <3>1. /\ BelowPercent(y, t) <=> 10000 * c < t * b
          /\ BelowPercent(x, t) <=> 10000 * a < t * b
      BY <2>1 DEF BelowPercent
    <3>2. t * b \in Nat
      BY <2>2
    <3> DEFINE T == t * b
    <3>3. 10000 * c < T => 10000 * a < T
      <4>1. T \in Nat
        BY <3>2
      <4> HIDE DEF T
      <4> QED
        BY <2>2, <4>1
    <3> QED
      BY <3>1, <3>3
  <2>7. Shown(x) # None /\ Shown(y) # None
    BY <2>1, <2>4, ShownTyped
  <2>8. ~Below(Shown(y), Shown(x))
    BY <2>4, <2>5, RoundedOrder
  <2> QED
    BY <1>2, <2>1, <2>3, <2>5, <2>6, <2>7, <2>8 DEF x, y
<1> QED
  BY <1>3, <1>6, <1>7

(* A higher score fails no course that the lower one passed. *)
LEMMA RaisedBlock ==
  ASSUME NEW g, NEW h, NEW p, NEW l, Raised(g, h, p, l),
         HardBlock(ConsolidationInputs(h, p))
  PROVE  HardBlock(ConsolidationInputs(g, p))
<1> DEFINE i == ConsolidationInputs(g, p)
           j == ConsolidationInputs(h, p)
           before == {k \in Lines : Fails(i[k])}
           after == {k \in Lines : Fails(j[k])}
<1>1. /\ Sheet(i, g[p]) /\ Sheet(j, h[p])
  BY SheetOfConsolidation DEF Raised, Grids
<1> HIDE DEF i, j
<1>2. ASSUME NEW k \in Lines, Fails(j[k]) PROVE Fails(i[k])
  <2>1. /\ j[k].is_numeric /\ j[k].score # None
        /\ BelowPercent(Fraction(j[k].score, j[k].max_score), Threshold)
    BY <1>2 DEF Fails
  <2>2. /\ i[k].is_numeric /\ i[k].max_score = Grille[k].maximum /\ j[k].max_score = Grille[k].maximum
        /\ i[k].score = Score(g[p][k]) /\ j[k].score = Score(h[p][k])
    BY <1>1, <2>1 DEF Sheet
  <2>3. h[p][k] \in Nat /\ j[k].score = h[p][k]
    BY <2>1, <2>2 DEF Score
  <2>4. g[p][k] \in Nat /\ g[p][k] <= h[p][k]
    BY <2>3 DEF Raised
  <2>5. i[k].score = g[p][k] /\ i[k].score # None
    BY <2>2, <2>4, ConsolidationAssumption DEF Score
  <2> DEFINE a == g[p][k]
             b == Grille[k].maximum
             c == h[p][k]
             T == Threshold * b
  <2>6. a \in Nat /\ c \in Nat /\ a <= c /\ b \in Nat /\ b > 0 /\ Threshold \in Nat /\ T \in Nat
    BY <2>3, <2>4, Grid, ConsolidationAssumption DEF GrilleLines
  <2>7. /\ Fraction(j[k].score, j[k].max_score) = [points |-> c, possible |-> b]
        /\ Fraction(i[k].score, i[k].max_score) = [points |-> a, possible |-> b]
    BY <2>2, <2>3, <2>5, <2>6 DEF Fraction
  <2>8. 10000 * c < T
    BY <2>1, <2>7 DEF BelowPercent
  <2> HIDE DEF a, b, c, T
  <2>9. 10000 * a < T
    BY <2>6, <2>8
  <2>10. BelowPercent(Fraction(i[k].score, i[k].max_score), Threshold)
    BY <2>7, <2>9 DEF BelowPercent, T
  <2> QED
    BY <2>2, <2>5, <2>10 DEF Fails
<1>3. after \subseteq before
  BY <1>2
<1>4. IsFiniteSet(before) /\ Cardinality(after) <= Cardinality(before)
      /\ Cardinality(before) \in Nat /\ Cardinality(after) \in Nat
  <2>1. IsFiniteSet(Lines)
    BY Grid, FS_Interval
  <2>2. IsFiniteSet(before)
    BY <2>1, FS_Subset
  <2> HIDE DEF before, after
  <2> QED
    BY <1>3, <2>2, FS_Subset, FS_CardinalityType
<1>5. (\E k \in after : Grille[k].code \in Eliminatory) \/ (MaxFailures # None /\ Cardinality(after) > MaxFailures)
  BY DEF HardBlock, j
<1> HIDE DEF before, after
<1>6. (\E k \in before : Grille[k].code \in Eliminatory) \/ (MaxFailures # None /\ Cardinality(before) > MaxFailures)
  BY <1>3, <1>4, <1>5, ConsolidationAssumption
<1> QED
  BY <1>6 DEF HardBlock, before, i

(* The consolidation of the grades h against that of g, for pupil p. *)
Harmless(g, h, p) ==
  LET before == Consolidation(g).rows
      after == Consolidation(h).rows
  IN /\ before[p].percentage # None => ~Below(after[p].percentage, before[p].percentage)
     /\ before[p].automatic = "ADMITTED" => after[p].automatic = "ADMITTED"
     /\ Consolidation(h).rank[p] <= Consolidation(g).rank[p]
     /\ \A q \in Enrolled \ {p} :
          /\ after[q].percentage = before[q].percentage
          /\ Consolidation(h).rank[q] >= Consolidation(g).rank[q]

LEMMA RaisedIsHarmless ==
  ASSUME NEW g, NEW h, NEW p, NEW l, Raised(g, h, p, l)
  PROVE  Harmless(g, h, p)
<1>1. p \in Enrolled /\ g \in Grids /\ h \in Grids
  BY DEF Raised
<1>2. /\ \A q \in Enrolled : q # p => Decided(h)[q] = Decided(g)[q] /\ Rounded(h)[q] = Rounded(g)[q]
      /\ Decided(h)[p] = None <=> Decided(g)[p] = None
      /\ Rounded(h)[p] = None <=> Rounded(g)[p] = None
      /\ Decided(g)[p] # None => /\ ~Below(Decided(h)[p], Decided(g)[p])
                                 /\ ~Below(Rounded(h)[p], Rounded(g)[p])
                                 /\ \A t \in Nat : BelowPercent(Decided(h)[p], t)
                                                     => BelowPercent(Decided(g)[p], t)
  BY RaisedPercentage
<1>3. /\ Decided(g) \in Percents /\ Rounded(g) \in Percents
      /\ Decided(h) \in Percents /\ Rounded(h) \in Percents
      /\ \A q \in Enrolled :
           /\ Consolidation(g).rows[q].percentage = Decided(g)[q]
           /\ Consolidation(h).rows[q].percentage = Decided(h)[q]
           /\ Consolidation(g).rank[q] = Rank(Rounded(g), q)
           /\ Consolidation(h).rank[q] = Rank(Rounded(h), q)
  BY <1>1, PagesTell
<1>4. Rounded(g)[p] = None <=> Decided(g)[p] = None
  <2>1. Decided(g)[p] \in Percentages \cup {None}
    BY <1>1, <1>3 DEF Percents
  <2> QED
    BY <1>1, <2>1, ShownTyped DEF Rounded
<1>5. /\ Rank(Rounded(h), p) <= Rank(Rounded(g), p)
      /\ \A q \in Enrolled \ {p} : Rank(Rounded(h), q) >= Rank(Rounded(g), q)
  <2> DEFINE x == Rounded(g)
             z == Rounded(h)
  <2>1. /\ x \in Percents /\ z \in Percents /\ p \in Enrolled
        /\ \A q \in Enrolled : q # p => z[q] = x[q]
        /\ z[p] = None <=> x[p] = None
        /\ x[p] # None => ~Below(z[p], x[p])
    BY <1>1, <1>2, <1>3, <1>4
  <2> HIDE DEF x, z
  <2>2. Rank(z, p) <= Rank(x, p) /\ \A q \in Enrolled \ {p} : Rank(z, q) >= Rank(x, q)
    BY <2>1, RankRises
  <2> QED
    BY <2>2 DEF x, z
<1>6. ASSUME Consolidation(g).rows[p].automatic = "ADMITTED"
      PROVE  Consolidation(h).rows[p].automatic = "ADMITTED"
  <2>1. /\ Consolidation(g).rows[p].automatic
             = AutomaticDecision(Decided(g)[p], HardBlock(ConsolidationInputs(g, p)))
        /\ Consolidation(h).rows[p].automatic
             = AutomaticDecision(Decided(h)[p], HardBlock(ConsolidationInputs(h, p)))
    BY <1>1 DEF Consolidation, ConsolidationRow, Decided
  <2>2. /\ Decided(g)[p] # None /\ ~HardBlock(ConsolidationInputs(g, p))
        /\ ~BelowPercent(Decided(g)[p], Threshold)
    BY <1>6, <2>1 DEF AutomaticDecision
  <2>3. ~HardBlock(ConsolidationInputs(h, p))
    BY <2>2, RaisedBlock
  <2>4. Decided(h)[p] # None /\ ~BelowPercent(Decided(h)[p], Threshold)
    BY <1>2, <2>2, ConsolidationAssumption
  <2> QED
    BY <2>1, <2>3, <2>4 DEF AutomaticDecision
<1> QED
  BY <1>1, <1>2, <1>3, <1>5, <1>6 DEF Harmless

(* Entering a higher score never lowers the percentage of the pupil, never *)
(* takes an admission away, never worsens the own rank, never betters that *)
(* of somebody else, for every class, grid, threshold and set of           *)
(* eliminatory courses.                                                    *)
THEOREM HigherScoresAreHarmless == PagesSpec => HigherScoreNeverHurts
<1>1. ASSUME PagesInv, PagesInv', [PagesNext]_pageVars,
             NEW p \in Enrolled, NEW l \in Lines, Raises(p, l)
      PROVE  LET before == consolidation.rows
                 after == consolidation'.rows
             IN /\ before[p].percentage # None => ~Below(after[p].percentage, before[p].percentage)
                /\ before[p].automatic = "ADMITTED" => after[p].automatic = "ADMITTED"
                /\ consolidation'.rank[p] <= consolidation.rank[p]
                /\ \A q \in Enrolled \ {p} :
                     /\ after[q].percentage = before[q].percentage
                     /\ consolidation'.rank[q] >= consolidation.rank[q]
  <2>1. PICK g, h : g = grades /\ h = grades'
    OBVIOUS
  <2>2. /\ g \in Grids /\ consolidation = Consolidation(g)
        /\ h \in Grids /\ consolidation' = Consolidation(h)
    <3>1. g \in Grids /\ consolidation = Consolidation(g)
      BY <1>1, <2>1 DEF PagesInv, WithinMaximum, Grids
    <3>2. h \in Grids
      BY <1>1, <2>1 DEF PagesInv, WithinMaximum, Grids
    <3>3. consolidation' = Consolidation(grades)'
      BY <1>1 DEF PagesInv
    <3>4. Consolidation(grades)' = Consolidation(grades')
      BY DEF Consolidation
    <3> QED
      BY <2>1, <3>1, <3>2, <3>3, <3>4
  <2>3. g[p][l] \in Nat /\ h[p][l] \in Nat /\ g[p][l] < h[p][l]
    BY <1>1, <2>1 DEF Raises, Score
  <2>4. PagesNext
    <3>1. grades' # grades
      BY <2>1, <2>3
    <3> QED
      BY <1>1, <3>1 DEF pageVars
  <2>5. PICK q \in Enrolled, k \in Lines : \E score \in Scores[k] : Enter(q, k, score)
    BY <2>4 DEF PagesNext
  <2>6. PICK score \in Scores[k] : Enter(q, k, score)
    BY <2>5
  <2>7. h = [g EXCEPT ![q] = [g[q] EXCEPT ![k] = score]]
    BY <2>1, <2>6 DEF Enter
  <2>8. q = p /\ k = l
    <3>1. ASSUME ~(q = p /\ k = l) PROVE h[p][l] = g[p][l]
      BY <2>2, <2>7, <3>1 DEF Grids
    <3> QED
      BY <2>3, <3>1
  <2>9. /\ \A m \in Lines : m # l => h[p][m] = g[p][m]
        /\ \A r \in Enrolled : r # p => h[r] = g[r]
    BY <2>2, <2>7, <2>8 DEF Grids
  <2>10. Raised(g, h, p, l)
    BY <2>2, <2>3, <2>9 DEF Raised
  <2>11. Harmless(g, h, p)
    BY <2>10, RaisedIsHarmless
  <2> QED
    BY <2>2, <2>11 DEF Harmless
<1>2. PagesInv /\ PagesInv' /\ [PagesNext]_pageVars =>
        [\A p \in Enrolled, l \in Lines : Raises(p, l) =>
           LET before == consolidation.rows
               after == consolidation'.rows
           IN /\ before[p].percentage # None => ~Below(after[p].percentage, before[p].percentage)
              /\ before[p].automatic = "ADMITTED" => after[p].automatic = "ADMITTED"
              /\ consolidation'.rank[p] <= consolidation.rank[p]
              /\ \A q \in Enrolled \ {p} :
                   /\ after[q].percentage = before[q].percentage
                   /\ consolidation'.rank[q] >= consolidation.rank[q]]_pageVars
  BY <1>1, Zenon
<1> QED
  BY <1>2, PagesInvStays, PTL DEF PagesSpec, HigherScoreNeverHurts
=============================================================================

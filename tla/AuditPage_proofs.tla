--------------------------- MODULE AuditPage_proofs ---------------------------
(***************************************************************************)
(* Proofs about AuditPage: read forward, its pages skip nothing and a      *)
(* quiet log is shown exactly, for any number of entries, any page length  *)
(* and any filter.                                                         *)
(***************************************************************************)
EXTENDS AuditPage, SequenceTheorems, FiniteSetTheorems, FunctionTheorems, TLAPS

(* The log is finite and each entry got the next id. *)
LogInv ==
  /\ IsFiniteSet(flushed) /\ IsFiniteSet(log)
  /\ Cardinality(flushed \cup log) <= MaxEntries
  /\ \A e \in flushed \cup log : e.id <= Cardinality(flushed \cup log)

-----------------------------------------------------------------------------
LEMMA MinOfTwo ==
  ASSUME NEW a \in Int, NEW b \in Int
  PROVE  Min({a, b}) = IF a <= b THEN a ELSE b
<1> DEFINE m == IF a <= b THEN a ELSE b
<1>1. m \in {a, b} /\ \A y \in {a, b} : m <= y
  OBVIOUS
<1>2. \A x \in {a, b} : (\A y \in {a, b} : x <= y) => x = m
  OBVIOUS
<1> QED
  BY <1>1, <1>2 DEF Min

LEMMA StartNat ==
  ASSUME TypeOK
  PROVE  /\ Start \in Nat /\ PerPage \in Nat /\ PerPage >= 1
         /\ page = 1 => Start = 0
         /\ page' = page + 1 => Start' = Start + PerPage
         /\ page' = page => Start' = Start
<1>1. page \in Nat /\ page >= 1 /\ PerPage \in Nat /\ PerPage >= 1
  BY AuditAssumption DEF TypeOK
<1>2. Start \in Nat
  <2> DEFINE n == page - 1
  <2>1. n \in Nat
    BY <1>1
  <2> HIDE DEF n
  <2>2. n * PerPage \in Nat
    BY <1>1, <2>1
  <2> QED
    BY <2>2 DEF Start, n
<1>3. page = 1 => Start = 0
  BY <1>1 DEF Start
<1>4. page' = page + 1 => Start' = Start + PerPage
  <2> SUFFICES ASSUME page' = page + 1 PROVE Start' = Start + PerPage
    OBVIOUS
  <2>1. page * PerPage = (page - 1) * PerPage + PerPage
    BY <1>1
  <2>2. page' - 1 = page
    BY <1>1
  <2> QED
    BY <2>1, <2>2 DEF Start
<1> QED
  BY <1>1, <1>2, <1>3, <1>4 DEF Start

(* What a sorted sequence of the entries of a set is. *)
LEMMA SortedSequence ==
  ASSUME NEW M, IsFiniteSet(M), NEW s \in Sorted(M)
  PROVE  /\ Cardinality(M) \in Nat
         /\ DOMAIN s = 1..Cardinality(M) /\ Len(s) = Cardinality(M)
         /\ s \in Seq(M)
         /\ \A i \in 1..Cardinality(M) : s[i] \in M
         /\ \A i, j \in 1..Cardinality(M) : i < j => s[i] # s[j] /\ s[i].created >= s[j].created
         /\ \A e \in M : \E i \in 1..Cardinality(M) : s[i] = e
<1> DEFINE n == Cardinality(M)
<1>1. n \in Nat
  BY FS_CardinalityType
<1>2. s \in [1..n -> M]
  BY DEF Sorted
<1>3. \A i, j \in 1..n : i < j => s[i] # s[j] /\ s[i].created >= s[j].created
  BY <1>2 DEF Sorted
<1>4. s \in Seq(M) /\ Len(s) = n
  BY <1>1, <1>2, IsASeq, LenProperties
<1>5. s \in Injection(1..n, M)
  <2>1. \A i, j \in 1..n : s[i] = s[j] => i = j
    BY <1>1, <1>3
  <2> QED
    BY <1>2, <2>1, Fun_IsInj
<1>6. Cardinality(1..n) = Cardinality(M)
  BY <1>1, FS_Interval
<1>7. s \in Surjection(1..n, M)
  BY <1>5, <1>6, FS_Injection
<1>8. \A e \in M : \E i \in 1..n : s[i] = e
  BY <1>7 DEF Surjection
<1>9. DOMAIN s = 1..n /\ \A i \in 1..n : s[i] \in M
  BY <1>2
<1> QED
  BY <1>1, <1>3, <1>4, <1>8, <1>9

(* The entries of M that come before e when e's time is its own. *)
Newer(e, M) == {f \in M : f.created > e.created}

LEMMA Rank ==
  ASSUME NEW M, IsFiniteSet(M), \A e \in M : e.created \in Int,
         NEW s \in Sorted(M), NEW j \in 1..Cardinality(M), Alone(s[j], M)
  PROVE  Cardinality(Newer(s[j], M)) = j - 1
<1> DEFINE n == Cardinality(M)
           f == [i \in 1..(j - 1) |-> s[i]]
           N == Newer(s[j], M)
<1>1. /\ n \in Nat
      /\ \A i \in 1..n : s[i] \in M
      /\ \A i, k \in 1..n : i < k => s[i] # s[k] /\ s[i].created >= s[k].created
      /\ \A e \in M : \E i \in 1..n : s[i] = e
  BY SortedSequence
<1>2. \A i \in 1..(j - 1) : s[i] \in N
  <2> SUFFICES ASSUME NEW i \in 1..(j - 1) PROVE s[i] \in N
    OBVIOUS
  <2>1. i \in 1..n /\ i < j
    BY <1>1
  <2>2. s[i] # s[j] /\ s[i].created >= s[j].created /\ s[i] \in M /\ s[j] \in M
    BY <1>1, <2>1
  <2>3. s[i].created # s[j].created
    BY <2>2 DEF Alone
  <2> QED
    BY <2>2, <2>3 DEF Newer
<1>3. \A e \in N : \E i \in 1..(j - 1) : s[i] = e
  <2> SUFFICES ASSUME NEW e \in N PROVE \E i \in 1..(j - 1) : s[i] = e
    OBVIOUS
  <2>1. e \in M /\ e.created > s[j].created /\ s[j] \in M
    BY <1>1 DEF Newer
  <2>2. PICK i \in 1..n : s[i] = e
    BY <1>1, <2>1
  <2>3. e.created \in Int /\ s[j].created \in Int
    BY <2>1
  <2>4. ~(j < i)
    <3>1. j < i => s[j].created >= e.created
      BY <1>1, <2>2
    <3> QED
      BY <2>1, <2>3, <3>1
  <2>5. i # j
    BY <2>1, <2>2, <2>3
  <2>6. i \in 1..(j - 1)
    BY <1>1, <2>4, <2>5
  <2> QED
    BY <2>2, <2>6
<1>4. f \in [1..(j - 1) -> N]
  BY <1>2
<1>5. \A i, k \in 1..(j - 1) : f[i] = f[k] => i = k
  <2>1. \A i, k \in 1..(j - 1) : i # k => s[i] # s[k]
    BY <1>1
  <2> QED
    BY <2>1
<1>6. \A e \in N : \E i \in 1..(j - 1) : f[i] = e
  BY <1>3
<1> HIDE DEF f
<1>7. f \in Bijection(1..(j - 1), N)
  BY <1>4, <1>5, <1>6, Fun_IsBij
<1>8. ExistsBijection(1..(j - 1), N) /\ j - 1 \in Nat
  BY <1>1, <1>7 DEF ExistsBijection
<1> QED
  BY <1>8, FS_CountingElements

(* The slice of a page. *)
LEMMA Page ==
  ASSUME TypeOK, NEW M, IsFiniteSet(M), NEW s \in Sorted(M)
  PROVE  LET n == Cardinality(M)
             last == IF Start + PerPage <= n THEN Start + PerPage ELSE n
         IN  /\ n \in Nat
             /\ HasNext(s) <=> Start + PerPage < n
             /\ PageOf(s) \in Seq(M)
             /\ Len(PageOf(s)) = IF Start < last THEN last - Start ELSE 0
             /\ \A i \in 1..(last - Start) : PageOf(s)[i] = s[Start + i]
<1> DEFINE n == Cardinality(M)
           last == IF Start + PerPage <= n THEN Start + PerPage ELSE n
<1>1. /\ n \in Nat /\ Len(s) = n
      /\ \A i \in 1..n : s[i] \in M
  BY SortedSequence
<1>2. Start \in Nat /\ PerPage \in Nat
  BY StartNat
<1>3. Min({Start + PerPage, Len(s)}) = last
  BY <1>1, <1>2, MinOfTwo
<1>4. last \in Int /\ last <= n /\ Start + 1 \in Int
  BY <1>1, <1>2
<1>5. PageOf(s) = SubSeq(s, Start + 1, last)
  BY <1>3 DEF PageOf
<1>6. \A i \in (Start + 1)..last : s[i] \in M
  <2>1. (Start + 1)..last \subseteq 1..n
    BY <1>1, <1>2, <1>4
  <2> QED
    BY <1>1, <2>1
<1> HIDE DEF last, n
<1>7. /\ PageOf(s) \in Seq(M)
      /\ Len(PageOf(s)) = IF Start + 1 <= last THEN last - (Start + 1) + 1 ELSE 0
      /\ \A i \in 1..(last - (Start + 1) + 1) : PageOf(s)[i] = s[Start + 1 + i - 1]
  BY <1>4, <1>5, <1>6, SubSeqProperties
<1>8. last - (Start + 1) + 1 = last - Start
  BY <1>2, <1>4
<1>9. \A i \in 1..(last - Start) : Start + 1 + i - 1 = Start + i
  BY <1>2, <1>4
<1>10. HasNext(s) <=> Start + PerPage < n
  BY <1>1 DEF HasNext
<1>11. Start + 1 <= last <=> Start < last
  BY <1>2, <1>4
<1> QED
  BY <1>1, <1>7, <1>8, <1>9, <1>10, <1>11 DEF n, last

-----------------------------------------------------------------------------
LEMMA Filtered ==
  ASSUME NEW M
  PROVE  /\ Selected(M) \subseteq M
         /\ filter' = filter => \A e : Admits(e)' <=> Admits(e)
BY DEF Selected, Admits

(* What a step may do to the entries. *)
LEMMA LogStep ==
  ASSUME TypeOK, LogInv, [Next]_vars
  PROVE  /\ LogInv'
         /\ flushed' \subseteq Entries /\ log' \subseteq Entries
         /\ \A e, f \in flushed' \cup log' : e.id = f.id => e = f
         /\ log \subseteq log'
         /\ filter' = filter
<1> DEFINE all == flushed \cup log
           n == Cardinality(all)
<1>1. IsFiniteSet(all) /\ n \in Nat
  BY FS_Union, FS_CardinalityType DEF LogInv
<1>2. CASE UNCHANGED <<flushed, log, filter>>
  BY <1>2 DEF LogInv, TypeOK
<1>3. ASSUME NEW a \in Actions, NEW s \in Subjects, Flush(a, s)
      PROVE  /\ LogInv'
             /\ flushed' \subseteq Entries /\ log' = log /\ filter' = filter
             /\ \A e, f \in flushed' \cup log' : e.id = f.id => e = f
  <2> DEFINE new == [id |-> n + 1, action |-> a, subject |-> s, created |-> now]
  <2>1. /\ n + 1 <= MaxEntries
        /\ flushed' = flushed \cup {new} /\ log' = log /\ filter' = filter
    BY <1>3 DEF Flush
  <2>2. new \in Entries
    BY <1>1, <2>1, AuditAssumption DEF TypeOK, Entries
  <2>3. \A e \in all : e.id <= n /\ e.id \in Nat
    <3>1. \A e \in all : e \in Entries
      BY DEF TypeOK
    <3>2. \A e \in Entries : e.id \in Nat
      BY AuditAssumption DEF Entries
    <3> QED
      BY <3>1, <3>2 DEF LogInv
  <2>4. new.id = n + 1
    OBVIOUS
  <2> HIDE DEF new, n
  <2>5. new \notin all
    BY <1>1, <2>3, <2>4
  <2>6. flushed' \cup log' = all \cup {new}
    BY <2>1
  <2>7. Cardinality(flushed' \cup log') = n + 1
    BY <1>1, <2>5, <2>6, FS_AddElement DEF n
  <2>8. IsFiniteSet(flushed') /\ IsFiniteSet(log')
    BY <2>1, FS_AddElement DEF LogInv
  <2>9. LogInv'
    <3>1. \A e \in flushed' \cup log' : e.id <= n + 1
      BY <1>1, <2>3, <2>4, <2>6
    <3> QED
      BY <2>1, <2>7, <2>8, <3>1 DEF LogInv
  <2>10. \A e, f \in flushed' \cup log' : e.id = f.id => e = f
    <3>1. \A e, f \in all : e.id = f.id => e = f
      BY DEF TypeOK
    <3>2. \A e \in all : e.id # new.id
      BY <1>1, <2>3, <2>4
    <3> QED
      BY <2>6, <3>1, <3>2
  <2> QED
    BY <2>1, <2>2, <2>9, <2>10 DEF TypeOK
<1>4. ASSUME NEW e \in flushed, CommitEntry(e)
      PROVE  /\ LogInv'
             /\ flushed' \subseteq Entries /\ log' \subseteq Entries /\ filter' = filter
             /\ log \subseteq log'
             /\ \A g, f \in flushed' \cup log' : g.id = f.id => g = f
  <2>1. flushed' = flushed \ {e} /\ log' = log \cup {e} /\ filter' = filter
    BY <1>4 DEF CommitEntry
  <2>2. flushed' \cup log' = flushed \cup log
    BY <2>1
  <2>3. IsFiniteSet(flushed') /\ IsFiniteSet(log')
    BY <2>1, FS_AddElement, FS_RemoveElement DEF LogInv
  <2>4. LogInv'
    BY <2>2, <2>3 DEF LogInv
  <2>5. \A g, f \in flushed' \cup log' : g.id = f.id => g = f
    BY <2>2 DEF TypeOK
  <2> QED
    BY <2>1, <2>4, <2>5 DEF TypeOK
<1>5. CASE Tick \/ Open \/ ReadGrades \/ ReadUnlabelled \/ Show \/ UNCHANGED vars
  BY <1>2, <1>5 DEF Tick, Open, ReadGrades, ReadUnlabelled, Show, vars
<1>6. CASE \E a \in Actions, s \in Subjects : Flush(a, s)
  <2>1. log' \subseteq Entries
    BY <1>3, <1>6 DEF TypeOK
  <2> QED
    BY <1>3, <1>6, <2>1
<1>7. CASE \E e \in flushed : CommitEntry(e)
  BY <1>4, <1>7
<1> QED
  BY <1>5, <1>6, <1>7 DEF Next

(* The entries a page may be cut from. *)
LEMMA LogFinite ==
  ASSUME TypeOK, LogInv
  PROVE  /\ IsFiniteSet(log) /\ Cardinality(log) \in Nat /\ Cardinality(log) <= MaxEntries
         /\ IsFiniteSet(Selected(log)) /\ Selected(log) \subseteq log
         /\ IsFiniteSet(Merged) /\ Merged \subseteq log
         /\ Cardinality(Merged) \in Nat /\ Cardinality(Merged) <= MaxEntries
         /\ \A e \in log : e.created \in Int
<1>1. IsFiniteSet(log) /\ Cardinality(log) \in Nat
  BY FS_CardinalityType DEF LogInv
<1>2. Cardinality(log) <= MaxEntries
  <2>1. IsFiniteSet(flushed \cup log) /\ Cardinality(flushed \cup log) \in Nat
    BY FS_Union, FS_CardinalityType DEF LogInv
  <2>2. Cardinality(log) <= Cardinality(flushed \cup log)
    BY <2>1, FS_Subset
  <2> QED
    BY <1>1, <2>1, <2>2, AuditAssumption DEF LogInv
<1>3. Selected(log) \subseteq log /\ Merged \subseteq log
  BY DEF Selected, OfActions, Merged, TypeOK
<1>4. IsFiniteSet(Selected(log)) /\ IsFiniteSet(Merged) /\ Cardinality(Merged) <= Cardinality(log)
  <2>1. IsFiniteSet(Selected(log))
    BY <1>1, <1>3, FS_Subset
  <2>2. IsFiniteSet(Merged) /\ Cardinality(Merged) <= Cardinality(log)
    BY <1>1, <1>3, FS_Subset
  <2> QED
    BY <2>1, <2>2
<1>5. Cardinality(Merged) \in Nat
  BY <1>4, FS_CardinalityType
<1>6. \A e \in log : e.created \in Int
  BY AuditAssumption DEF TypeOK, Entries
<1> QED
  BY <1>1, <1>2, <1>3, <1>4, <1>5, <1>6, AuditAssumption

LEMMA Extended ==
  ASSUME NEW S, NEW T, S \subseteq T, NEW s \in Seq(S)
  PROVE  s \in Seq(T)
OBVIOUS

LEMMA TypeStep == TypeOK /\ LogInv /\ [Next]_vars => TypeOK'
<1> SUFFICES ASSUME TypeOK, LogInv, [Next]_vars PROVE TypeOK'
  OBVIOUS
<1>1. /\ flushed' \subseteq Entries /\ log' \subseteq Entries
      /\ \A e, f \in flushed' \cup log' : e.id = f.id => e = f
      /\ log \subseteq log' /\ filter' = filter
  BY LogStep
<1>2. shown \in Seq(log')
  BY <1>1, Extended DEF TypeOK
<1>3. CASE UNCHANGED <<now, reading, page, graded, shown, present>>
  BY <1>1, <1>2, <1>3 DEF TypeOK
<1>4. CASE Tick
  BY <1>1, <1>2, <1>4, AuditAssumption DEF Tick, TypeOK
<1>5. CASE Open
  BY <1>1, <1>2, <1>5 DEF Open, TypeOK, Selected
<1>6. CASE ReadGrades
  BY <1>1, <1>2, <1>6 DEF ReadGrades, TypeOK, Selected, OfActions
<1>7. CASE ReadUnlabelled
  BY <1>1, <1>2, <1>7 DEF ReadUnlabelled, TypeOK
<1>8. CASE Show
  <2>1. PICK s \in Sorted(Merged) :
          /\ shown' = shown \o PageOf(s)
          /\ IF HasNext(s) THEN reading' = "grades" /\ page' = page + 1
                           ELSE reading' = "ended" /\ UNCHANGED page
    BY <1>8 DEF Show
  <2>2. PageOf(s) \in Seq(Merged) /\ (HasNext(s) <=> Start + PerPage < Cardinality(Merged))
    BY LogFinite, Page
  <2>3. PageOf(s) \in Seq(log)
    BY <2>2, LogFinite, Extended
  <2>4. shown' \in Seq(log')
    BY <1>1, <2>1, <2>3, ConcatProperties, Extended DEF TypeOK
  <2>5. page' \in 1..(MaxEntries + 1)
    <3>1. CASE ~HasNext(s)
      BY <2>1, <3>1 DEF TypeOK
    <3>2. CASE HasNext(s)
      <4>1. page \in Nat /\ page >= 1 /\ PerPage \in Nat /\ PerPage >= 1
        BY AuditAssumption DEF TypeOK
      <4>2. Start + PerPage = page * PerPage
        BY <4>1 DEF Start
      <4>3. page * PerPage >= page
        BY <4>1
      <4>4. page * PerPage \in Nat
        BY <4>1
      <4> QED
        BY <2>1, <2>2, <3>2, <4>1, <4>2, <4>3, <4>4, LogFinite, AuditAssumption
    <3> QED
      BY <3>1, <3>2
  <2> QED
    BY <1>1, <1>8, <2>1, <2>4, <2>5 DEF Show, TypeOK
<1> QED
  BY <1>3, <1>4, <1>5, <1>6, <1>7, <1>8 DEF Next, Flush, CommitEntry, vars

LEMMA InitTyped == Init => TypeOK /\ LogInv
<1> SUFFICES ASSUME Init PROVE TypeOK /\ LogInv
  OBVIOUS
<1>1. flushed \cup log = {} /\ IsFiniteSet({}) /\ Cardinality({}) = 0
  BY FS_EmptySet DEF Init
<1> QED
  BY <1>1, AuditAssumption DEF Init, TypeOK, LogInv

(* The variables of AuditPage keep their types, the pages among them: no   *)
(* more pages are read than there are entries.                             *)
THEOREM TypeCorrect == Spec => []TypeOK
<1>1. TypeOK /\ LogInv /\ [Next]_vars => LogInv'
  BY LogStep
<1> QED
  BY <1>1, InitTyped, TypeStep, PTL DEF Spec

-----------------------------------------------------------------------------
(* What the next page is cut from. *)
Pool == IF reading = "deliberations" THEN Merged ELSE Selected(log)

(* Where a reading begins, and that it has in hand what was there then. *)
ReadInv ==
  /\ reading = "idle" => page = 1 /\ shown = <<>>
  /\ reading # "idle" => present \subseteq Selected(log)
  /\ reading = "deliberations" => present \subseteq Merged /\ Merged \subseteq Selected(log)

(* What is not shown yet is not before the next page. *)
ForwardInv ==
  reading \in {"grades", "deliberations"} =>
    \A e \in present : Alone(e, Selected(log)) /\ e \notin ShownEntries =>
      Start <= Cardinality(Newer(e, Pool))

Typed == TypeOK /\ LogInv

LEMMA TypedStep == Typed /\ [Next]_vars => Typed'
BY LogStep, TypeStep DEF Typed

(* Entries are only ever added. *)
LEMMA PoolGrows ==
  ASSUME Typed, [Next]_vars
  PROVE  /\ log \subseteq log' /\ filter' = filter
         /\ Selected(log) \subseteq Selected(log)'
         /\ graded' = graded => Merged \subseteq Merged'
         /\ log' = log => Selected(log)' = Selected(log)
<1>1. log \subseteq log' /\ filter' = filter
  BY LogStep DEF Typed
<1>2. \A e : Admits(e)' <=> Admits(e)
  BY <1>1 DEF Admits
<1>3. Selected(log) \subseteq Selected(log)'
  BY <1>1, <1>2 DEF Selected
<1>4. graded' = graded => Merged \subseteq Merged'
  BY <1>1, <1>2 DEF Merged, Selected, OfActions
<1>5. log' = log => Selected(log)' = Selected(log)
  BY <1>2 DEF Selected
<1> QED
  BY <1>1, <1>3, <1>4, <1>5

LEMMA NewerGrows ==
  ASSUME NEW T, IsFiniteSet(T), NEW S \in SUBSET T, NEW e
  PROVE  /\ Cardinality(Newer(e, S)) \in Nat /\ Cardinality(Newer(e, T)) \in Nat
         /\ Cardinality(Newer(e, S)) <= Cardinality(Newer(e, T))
<1>1. Newer(e, S) \subseteq Newer(e, T) /\ Newer(e, T) \subseteq T
  BY DEF Newer
<1>2. IsFiniteSet(Newer(e, T))
  BY <1>1, FS_Subset
<1>3. /\ IsFiniteSet(Newer(e, S))
      /\ Cardinality(Newer(e, S)) <= Cardinality(Newer(e, T))
  BY <1>1, <1>2, FS_Subset
<1> QED
  BY <1>2, <1>3, FS_CardinalityType

(* Both statements together have read every selected entry. *)
LEMMA Together ==
  ASSUME Typed, ReadGrades
  PROVE  /\ Merged' = Selected(log) /\ Selected(log)' = Selected(log)
         /\ Start' = Start /\ present' = present /\ ShownEntries' = ShownEntries
<1>1. /\ log' = log /\ filter' = filter /\ page' = page /\ shown' = shown /\ present' = present
      /\ graded' = Selected(OfActions(log, GradeActions))
  BY DEF ReadGrades
<1>2. \A e : Admits(e)' <=> Admits(e)
  BY <1>1 DEF Admits
<1>3. \A e \in log : e.action \in GradeActions \cup DeliberationActions
  BY DEF Typed, TypeOK, Entries, Actions
<1>4. Merged' = Selected(log)
  BY <1>1, <1>2, <1>3 DEF Merged, Selected, OfActions
<1> QED
  BY <1>1, <1>2, <1>4 DEF Start, Selected, ShownEntries

LEMMA ReadStep == Typed /\ ReadInv /\ [Next]_vars => ReadInv'
<1> SUFFICES ASSUME Typed, ReadInv, [Next]_vars PROVE ReadInv'
  OBVIOUS
<1>1. /\ Selected(log) \subseteq Selected(log)'
      /\ graded' = graded => Merged \subseteq Merged'
  BY PoolGrows
<1>2. graded \subseteq Selected(log) /\ graded' = graded => Merged' \subseteq Selected(log)'
  BY <1>1 DEF Merged, Selected, OfActions
<1>3. Merged \subseteq Selected(log) => graded \subseteq Selected(log)
  BY DEF Merged
<1>4. CASE UNCHANGED <<reading, page, graded, shown, present>>
  BY <1>1, <1>2, <1>3, <1>4 DEF ReadInv
<1>5. CASE Open
  BY <1>5, PoolGrows DEF Open, ReadInv
<1>6. CASE ReadGrades
  BY <1>6, Together DEF ReadGrades, ReadInv
<1>7. CASE ReadUnlabelled
  BY <1>1, <1>7 DEF ReadUnlabelled, ReadInv
<1>8. CASE Show
  BY <1>1, <1>8 DEF Show, ReadInv
<1> QED
  BY <1>4, <1>5, <1>6, <1>7, <1>8 DEF Next, Tick, Flush, CommitEntry, vars

(* The page that is shown: where an entry stands in the sorted sequence    *)
(* tells whether it was shown before, is on the page or comes after it.    *)
LEMMA ShowPage ==
  ASSUME Typed, ReadInv, ForwardInv, Show
  PROVE  /\ reading' = "ended" => ForwardNeverSkips'
         /\ ForwardInv'
<1>1. PICK s \in Sorted(Merged) :
        /\ shown' = shown \o PageOf(s)
        /\ IF HasNext(s) THEN reading' = "grades" /\ page' = page + 1
                         ELSE reading' = "ended" /\ UNCHANGED page
  BY DEF Show
<1> DEFINE n == Cardinality(Merged)
           last == IF Start + PerPage <= n THEN Start + PerPage ELSE n
<1>2. /\ reading = "deliberations" /\ log' = log /\ filter' = filter /\ present' = present
      /\ Selected(log)' = Selected(log)
  <2>1. \A e : Admits(e)' <=> Admits(e)
    BY DEF Show, Admits
  <2> QED
    BY <2>1 DEF Show, Selected
<1>3. /\ IsFiniteSet(Merged) /\ Merged \subseteq log /\ \A e \in Merged : e.created \in Int
      /\ IsFiniteSet(Selected(log))
  BY LogFinite DEF Typed
<1>4. Start \in Nat /\ PerPage \in Nat /\ n \in Nat
  BY <1>3, StartNat, FS_CardinalityType DEF Typed
<1>5. /\ HasNext(s) <=> Start + PerPage < n
      /\ PageOf(s) \in Seq(log)
      /\ Len(PageOf(s)) = IF Start < last THEN last - Start ELSE 0
      /\ \A i \in 1..(last - Start) : PageOf(s)[i] = s[Start + i]
  <2>1. PageOf(s) \in Seq(Merged)
    BY <1>3, Page DEF Typed
  <2> QED
    BY <1>3, <2>1, Page, Extended DEF Typed
<1>6. present \subseteq Merged /\ Merged \subseteq Selected(log)
  BY <1>2 DEF ReadInv
<1> HIDE DEF n
(* The entries shown before stay shown, those of the page are added. *)
<1>7. ShownEntries \subseteq ShownEntries' /\ \A i \in (Start + 1)..last : s[i] \in ShownEntries'
  <2>1. /\ shown \in Seq(log) /\ Len(shown) \in Nat
        /\ shown' \in Seq(log)
        /\ Len(shown') = Len(shown) + Len(PageOf(s))
        /\ \A i \in 1..(Len(shown) + Len(PageOf(s))) :
             shown'[i] = IF i <= Len(shown) THEN shown[i] ELSE PageOf(s)[i - Len(shown)]
    BY <1>1, <1>5, ConcatProperties, LenProperties DEF Typed, TypeOK
  <2>2. DOMAIN shown = 1..Len(shown) /\ DOMAIN shown' = 1..Len(shown')
    BY <2>1, LenProperties
  <2>3. Len(PageOf(s)) \in Nat
    BY <1>5, LenProperties
  <2>4. ASSUME NEW i \in DOMAIN shown PROVE shown[i] \in ShownEntries'
    <3>1. i \in DOMAIN shown' /\ shown'[i] = shown[i]
      BY <2>1, <2>2, <2>3
    <3> QED
      BY <3>1 DEF ShownEntries
  <2>5. ASSUME NEW i \in (Start + 1)..last PROVE s[i] \in ShownEntries'
    <3> DEFINE k == i - Start
    <3>1. last \in Int
      BY <1>4
    <3> HIDE DEF last
    <3>2. k \in 1..(last - Start) /\ Start < last /\ Start + k = i
      BY <1>4, <3>1
    <3>3. Len(PageOf(s)) = last - Start /\ PageOf(s)[k] = s[i]
      BY <1>5, <3>2
    <3> HIDE DEF k
    <3>4. /\ Len(shown) + k \in DOMAIN shown'
          /\ shown'[Len(shown) + k] = PageOf(s)[Len(shown) + k - Len(shown)]
      BY <1>4, <2>1, <2>2, <3>1, <3>2, <3>3
    <3>5. Len(shown) + k - Len(shown) = k
      BY <1>4, <2>1, <3>1, <3>2
    <3>6. shown'[Len(shown) + k] = s[i]
      BY <3>3, <3>4, <3>5
    <3> QED
      BY <3>4, <3>6 DEF ShownEntries
  <2> QED
    BY <2>4, <2>5 DEF ShownEntries
<1>8. ASSUME NEW e \in present, Alone(e, Selected(log)), e \notin ShownEntries'
      PROVE  HasNext(s) /\ Start + PerPage <= Cardinality(Newer(e, Selected(log)))
  <2>1. e \notin ShownEntries /\ e \in Merged
    BY <1>6, <1>7, <1>8
  <2>2. Start <= Cardinality(Newer(e, Merged))
    BY <1>2, <1>8, <2>1 DEF ForwardInv, Pool
  <2>3. PICK j \in 1..n : s[j] = e
    BY <1>3, <2>1, SortedSequence DEF n
  <2>4. Alone(e, Merged)
    BY <1>6, <1>8 DEF Alone
  <2>5. Cardinality(Newer(e, Merged)) = j - 1
    BY <1>3, <2>3, <2>4, Rank DEF n
  <2>6. j \notin (Start + 1)..last
    BY <1>7, <1>8, <2>3
  <2>7. Start + PerPage < j
    BY <1>4, <2>2, <2>3, <2>5, <2>6
  <2>8. Start + PerPage <= Cardinality(Newer(e, Merged)) /\ Start + PerPage < n
    BY <1>4, <2>3, <2>5, <2>7
  <2>9. /\ Cardinality(Newer(e, Merged)) <= Cardinality(Newer(e, Selected(log)))
        /\ Cardinality(Newer(e, Merged)) \in Nat /\ Cardinality(Newer(e, Selected(log))) \in Nat
    BY <1>3, <1>6, NewerGrows
  <2> HIDE DEF last
  <2>10. Start + PerPage <= Cardinality(Newer(e, Selected(log)))
    BY <1>4, <2>8, <2>9
  <2> QED
    BY <1>5, <2>8, <2>10
<1>9. reading' = "ended" => ForwardNeverSkips'
  BY <1>1, <1>2, <1>8 DEF ForwardNeverSkips, Alone
<1>10. ForwardInv'
  <2>1. CASE HasNext(s)
    <3>1. reading' = "grades" /\ Start' = Start + PerPage
      BY <1>1, <2>1, StartNat DEF Typed
    <3>2. Pool' = Selected(log)
      BY <1>2, <3>1 DEF Pool
    <3>3. \A e \in present : Alone(e, Selected(log)) /\ e \notin ShownEntries' =>
            Start' <= Cardinality(Newer(e, Selected(log)))
      BY <1>8, <3>1
    <3>4. \A e : Newer(e, Pool)' = Newer(e, Selected(log)) /\ (Alone(e, Selected(log))' <=> Alone(e, Selected(log)))
      BY <1>2, <3>2 DEF Newer, Alone
    <3> QED
      BY <1>2, <3>3, <3>4 DEF ForwardInv
  <2>2. CASE ~HasNext(s)
    BY <1>1, <2>2 DEF ForwardInv
  <2> QED
    BY <2>1, <2>2
<1> QED
  BY <1>9, <1>10

LEMMA ForwardStep ==
  ASSUME Typed, ReadInv, ForwardInv, ForwardNeverSkips, [Next]_vars
  PROVE  ForwardInv' /\ ForwardNeverSkips'
<1>1. /\ log \subseteq log' /\ filter' = filter
      /\ Selected(log) \subseteq Selected(log)'
      /\ graded' = graded => Merged \subseteq Merged'
  BY PoolGrows
<1>2. \A e : Alone(e, Selected(log))' => Alone(e, Selected(log))
  BY <1>1 DEF Alone
<1>3. /\ IsFiniteSet(Selected(log)') /\ IsFiniteSet(Merged')
      /\ IsFiniteSet(Selected(log)) /\ IsFiniteSet(Merged)
  <2>1. Typed'
    BY TypedStep
  <2>2. IsFiniteSet(Selected(log)') /\ IsFiniteSet(Merged')
    <3>1. IsFiniteSet(log') /\ graded' \subseteq log'
      BY <2>1 DEF Typed, TypeOK, LogInv
    <3>2. Selected(log)' \subseteq log' /\ Merged' \subseteq log'
      BY <3>1 DEF Selected, Merged, OfActions
    <3> QED
      BY <3>1, <3>2, FS_Subset
  <2> QED
    BY <2>2, LogFinite DEF Typed
<1>4. CASE UNCHANGED <<reading, page, graded, shown, present>>
  <2>1. Pool \subseteq Pool' /\ IsFiniteSet(Pool')
    BY <1>1, <1>3, <1>4 DEF Pool
  <2>2. Start' = Start /\ ShownEntries' = ShownEntries /\ Start \in Nat
    BY <1>4, StartNat DEF ShownEntries, Typed
  <2>3. \A e : /\ Cardinality(Newer(e, Pool)) \in Nat /\ Cardinality(Newer(e, Pool')) \in Nat
               /\ Cardinality(Newer(e, Pool)) <= Cardinality(Newer(e, Pool'))
    BY <2>1, NewerGrows
  <2>4. \A e : Newer(e, Pool)' = Newer(e, Pool')
    BY DEF Newer
  <2>5. ForwardInv'
    <3> SUFFICES ASSUME reading \in {"grades", "deliberations"}, NEW e \in present,
                        Alone(e, Selected(log))', e \notin ShownEntries
                 PROVE  Start <= Cardinality(Newer(e, Pool'))
      BY <1>4, <2>2, <2>4 DEF ForwardInv
    <3>1. Start <= Cardinality(Newer(e, Pool))
      BY <1>2 DEF ForwardInv
    <3> QED
      BY <2>2, <2>3, <3>1
  <2> QED
    BY <1>2, <1>4, <2>2, <2>5 DEF ForwardNeverSkips
<1>5. CASE Open
  <2>1. Start' = 0
    BY <1>5, StartNat DEF Open, ReadInv, Typed
  <2>2. reading' = "grades" /\ IsFiniteSet(Pool')
    BY <1>3, <1>5 DEF Open, Pool
  <2>3. \A e : Cardinality(Newer(e, Pool)') \in Nat
    <3>1. \A e : Newer(e, Pool)' = Newer(e, Pool')
      BY DEF Newer
    <3>2. \A e : Cardinality(Newer(e, Pool')) \in Nat
      BY <2>2, NewerGrows
    <3> QED
      BY <3>1, <3>2
  <2> QED
    BY <2>1, <2>2, <2>3 DEF ForwardInv, ForwardNeverSkips
<1>6. CASE ReadGrades
  <2>1. Pool' = Pool /\ Start' = Start /\ ShownEntries' = ShownEntries /\ present' = present
    BY <1>6, Together DEF ReadGrades, Pool
  <2>2. \A e : Newer(e, Pool)' = Newer(e, Pool)
    BY <2>1 DEF Newer
  <2> QED
    BY <1>2, <1>6, <2>1, <2>2 DEF ReadGrades, ForwardInv, ForwardNeverSkips
<1>7. CASE ReadUnlabelled
  BY <1>7 DEF ReadUnlabelled, ForwardInv, ForwardNeverSkips
<1>8. CASE Show
  <2>1. reading' # "ended" => ForwardNeverSkips'
    BY DEF ForwardNeverSkips
  <2> QED
    BY <1>8, <2>1, ShowPage
<1> QED
  BY <1>4, <1>5, <1>6, <1>7, <1>8 DEF Next, Tick, Flush, CommitEntry, vars

LEMMA InitReading == Init => Typed /\ ReadInv /\ ForwardInv /\ ForwardNeverSkips
BY InitTyped DEF Init, Typed, ReadInv, ForwardInv, ForwardNeverSkips

(* Reading forward misses nothing that was there when it began: entries    *)
(* that appear meanwhile only push the others to later pages.              *)
THEOREM NothingSkipped == Spec => []ForwardNeverSkips
<1> DEFINE Inv == Typed /\ ReadInv /\ ForwardInv /\ ForwardNeverSkips
<1>1. Inv /\ [Next]_vars => Inv'
  BY TypedStep, ReadStep, ForwardStep
<1> QED
  BY <1>1, InitReading, PTL DEF Spec

-----------------------------------------------------------------------------
(* A quiet log: an entry of the filter has one place, the number of the    *)
(* entries that come before it, and the pages fill the places in turn.     *)
Quiet == Selected(log) = present /\ \A e \in present : Alone(e, present)

InPlace ==
  \A i \in DOMAIN shown : shown[i] \in present /\ Cardinality(Newer(shown[i], present)) = i - 1

QuietInv ==
  Quiet =>
    /\ reading \in {"grades", "deliberations"} =>
         Len(shown) = Start /\ Start <= Cardinality(present)
    /\ reading = "ended" => Len(shown) = Cardinality(present)
    /\ reading # "idle" => InPlace

LEMMA QuietShow ==
  ASSUME Typed, ReadInv, QuietInv, Quiet, Show
  PROVE  /\ reading' = "grades" => Len(shown') = Start' /\ Start' <= Cardinality(present)
         /\ reading' = "ended" => Len(shown') = Cardinality(present)
         /\ reading' \in {"grades", "ended"}
         /\ \A i \in DOMAIN shown' : /\ shown'[i] \in present
                                     /\ Cardinality(Newer(shown'[i], present)) = i - 1
<1> DEFINE n == Cardinality(present)
           last == IF Start + PerPage <= n THEN Start + PerPage ELSE n
<1>1. Merged = present /\ reading = "deliberations"
  BY DEF ReadInv, Quiet, Show
<1>2. PICK s \in Sorted(present) :
        /\ shown' = shown \o PageOf(s)
        /\ IF HasNext(s) THEN reading' = "grades" /\ page' = page + 1
                         ELSE reading' = "ended" /\ UNCHANGED page
  BY <1>1 DEF Show
<1>3. IsFiniteSet(present) /\ present \subseteq log /\ \A e \in present : e.created \in Int
  BY <1>1, LogFinite DEF Typed
<1>4. Start \in Nat /\ PerPage \in Nat /\ n \in Nat /\ Start <= n /\ Len(shown) = Start
  BY <1>1, <1>3, StartNat, FS_CardinalityType DEF Typed, QuietInv
<1>5. /\ HasNext(s) <=> Start + PerPage < n
      /\ PageOf(s) \in Seq(log)
      /\ Len(PageOf(s)) = IF Start < last THEN last - Start ELSE 0
      /\ \A i \in 1..(last - Start) : PageOf(s)[i] = s[Start + i]
  <2>1. PageOf(s) \in Seq(present)
    BY <1>3, Page DEF Typed
  <2> QED
    BY <1>3, <2>1, Page, Extended DEF Typed
<1>6. \A i \in 1..n : s[i] \in present /\ Cardinality(Newer(s[i], present)) = i - 1
  <2> SUFFICES ASSUME NEW i \in 1..n
               PROVE  s[i] \in present /\ Cardinality(Newer(s[i], present)) = i - 1
    OBVIOUS
  <2>1. s[i] \in present
    BY <1>3, SortedSequence
  <2>2. Alone(s[i], present)
    BY <2>1 DEF Quiet
  <2> QED
    BY <1>3, <2>1, <2>2, Rank
<1> HIDE DEF n
<1>7. last \in Nat /\ last <= n /\ Start <= last /\ Len(PageOf(s)) = last - Start
  BY <1>4, <1>5
<1>8. /\ shown \in Seq(log) /\ shown' \in Seq(log)
      /\ Len(shown') = Start + (last - Start)
      /\ \A i \in 1..(Start + (last - Start)) :
           shown'[i] = IF i <= Start THEN shown[i] ELSE PageOf(s)[i - Start]
  <2>1. shown \in Seq(log)
    BY DEF Typed, TypeOK
  <2>2. /\ shown \o PageOf(s) \in Seq(log)
        /\ Len(shown \o PageOf(s)) = Len(shown) + Len(PageOf(s))
        /\ \A i \in 1..(Len(shown) + Len(PageOf(s))) :
             (shown \o PageOf(s))[i] = IF i <= Len(shown) THEN shown[i] ELSE PageOf(s)[i - Len(shown)]
    BY <1>5, <2>1, ConcatProperties
  <2>3. Len(PageOf(s)) = last - Start /\ Len(shown) = Start
    BY <1>4, <1>7
  <2> HIDE DEF last
  <2> QED
    BY <1>2, <2>1, <2>2, <2>3
<1>9. DOMAIN shown = 1..Start /\ DOMAIN shown' = 1..last /\ Len(shown') = last
  BY <1>4, <1>7, <1>8, LenProperties
<1>10. reading' = "grades" => Len(shown') = Start' /\ Start' <= n
  <2> SUFFICES ASSUME reading' = "grades" PROVE Len(shown') = Start' /\ Start' <= n
    OBVIOUS
  <2>1. HasNext(s) /\ Start' = Start + PerPage
    BY <1>2, StartNat DEF Typed
  <2> QED
    BY <1>4, <1>5, <1>9, <2>1
<1>11. reading' = "ended" => Len(shown') = n
  <2> SUFFICES ASSUME reading' = "ended" PROVE Len(shown') = n
    OBVIOUS
  <2>1. ~HasNext(s)
    BY <1>2
  <2> QED
    BY <1>4, <1>5, <1>9, <2>1
<1>12. reading' \in {"grades", "ended"}
  BY <1>2
<1>13. ASSUME NEW i \in DOMAIN shown'
       PROVE  shown'[i] \in present /\ Cardinality(Newer(shown'[i], present)) = i - 1
  <2>1. CASE i <= Start
    <3>1. i \in DOMAIN shown /\ shown'[i] = shown[i]
      BY <1>4, <1>7, <1>8, <1>9, <1>13, <2>1
    <3> QED
      BY <1>1, <3>1 DEF QuietInv, InPlace
  <2>2. CASE i > Start
    <3>1. i \in Int /\ i - Start \in 1..(last - Start) /\ i \in 1..n
      BY <1>4, <1>7, <1>9, <1>13, <2>2
    <3>2. shown'[i] = PageOf(s)[i - Start]
      BY <1>4, <1>7, <1>8, <1>9, <1>13, <2>2
    <3>3. PageOf(s)[i - Start] = s[Start + (i - Start)]
      BY <1>5, <3>1
    <3>4. Start + (i - Start) = i
      BY <1>4, <3>1
    <3>5. shown'[i] = s[i]
      BY <3>2, <3>3, <3>4
    <3> QED
      BY <1>6, <3>1, <3>5
  <2> QED
    BY <1>4, <1>7, <1>9, <2>1, <2>2
<1> QED
  BY <1>10, <1>11, <1>12, <1>13 DEF n

LEMMA QuietStep == Typed /\ ReadInv /\ QuietInv /\ [Next]_vars => QuietInv'
<1> SUFFICES ASSUME Typed, ReadInv, QuietInv, [Next]_vars, Quiet'
             PROVE  /\ reading' \in {"grades", "deliberations"} =>
                         Len(shown') = Start' /\ Start' <= Cardinality(present')
                    /\ reading' = "ended" => Len(shown') = Cardinality(present')
                    /\ reading' # "idle" => InPlace'
  BY DEF QuietInv
<1>1. Selected(log) \subseteq Selected(log)'
  BY PoolGrows
<1>2. reading # "idle" /\ present' = present => Quiet
  BY <1>1 DEF ReadInv, Quiet, Alone
<1>3. \A e : Newer(e, present)' = Newer(e, present')
  BY DEF Newer
<1>4. CASE UNCHANGED <<reading, page, shown, present>>
  <2>1. Start' = Start
    BY <1>4 DEF Start
  <2> QED
    BY <1>2, <1>3, <1>4, <2>1 DEF QuietInv, InPlace
<1>5. CASE Open
  <2>1. Start' = 0 /\ shown' = <<>> /\ reading' = "grades"
    BY <1>5, StartNat DEF Open, ReadInv, Typed
  <2>2. Cardinality(present') \in Nat
    <3>1. present' \subseteq log
      BY <1>5 DEF Open, Selected
    <3>2. IsFiniteSet(present')
      BY <3>1, FS_Subset DEF Typed, LogInv
    <3> QED
      BY <3>2, FS_CardinalityType
  <2> QED
    BY <2>1, <2>2 DEF InPlace
<1>6. CASE ReadGrades
  <2>1. Start' = Start
    BY <1>6, Together
  <2> QED
    BY <1>2, <1>3, <1>6, <2>1 DEF ReadGrades, QuietInv, InPlace
<1>7. CASE ReadUnlabelled
  BY <1>2, <1>3, <1>7 DEF ReadUnlabelled, QuietInv, InPlace
<1>8. CASE Show
  <2>1. present' = present /\ Quiet
    BY <1>2, <1>8 DEF Show
  <2> QED
    BY <1>3, <1>8, <2>1, QuietShow DEF InPlace
<1> QED
  BY <1>4, <1>5, <1>6, <1>7, <1>8 DEF Next, Tick, Flush, CommitEntry, vars

(* Places that follow one another are in the order of the times. *)
LEMMA PlacesSorted ==
  ASSUME Typed, ReadInv, QuietInv, Quiet, reading = "ended"
  PROVE  shown \in Sorted(present)
<1> DEFINE n == Cardinality(present)
<1>1. present \subseteq log /\ IsFiniteSet(present) /\ \A e \in present : e.created \in Int
  BY LogFinite DEF Typed, Quiet
<1>2. /\ n \in Nat /\ Len(shown) = n
      /\ InPlace
  BY <1>1, FS_CardinalityType DEF QuietInv
<1>3. DOMAIN shown = 1..n
  BY <1>2, LenProperties DEF Typed, TypeOK
<1>4. shown \in [1..n -> present]
  <2>1. shown \in [1..Len(shown) -> log]
    BY LenProperties DEF Typed, TypeOK
  <2> QED
    BY <1>2, <1>3, <2>1 DEF InPlace
<1>5. ASSUME NEW i \in 1..n, NEW j \in 1..n, i < j
      PROVE  shown[i] # shown[j] /\ shown[i].created >= shown[j].created
  <2> DEFINE a == shown[i]
             b == shown[j]
  <2>1. /\ a \in present /\ b \in present
        /\ Cardinality(Newer(a, present)) = i - 1 /\ Cardinality(Newer(b, present)) = j - 1
    BY <1>2, <1>3 DEF InPlace
  <2>2. a.created \in Int /\ b.created \in Int
    BY <1>1, <2>1
  <2> HIDE DEF a, b
  <2>3. a # b
    BY <1>2, <1>5, <2>1
  <2>4. ~(a.created < b.created)
    <3> SUFFICES ASSUME a.created < b.created PROVE FALSE
      OBVIOUS
    <3>1. Newer(b, present) \subseteq Newer(a, present) /\ Newer(a, present) \subseteq present
      BY <1>1, <2>2 DEF Newer
    <3>2. IsFiniteSet(Newer(a, present))
      BY <1>1, <3>1, FS_Subset
    <3>3. Cardinality(Newer(b, present)) <= Cardinality(Newer(a, present))
      BY <3>1, <3>2, FS_Subset
    <3> QED
      BY <1>2, <1>5, <2>1, <3>3
  <2> QED
    BY <2>2, <2>3, <2>4 DEF a, b
<1> QED
  BY <1>3, <1>4, <1>5 DEF Sorted

(* Without commits meanwhile and without equal times, the pages together   *)
(* are the entries of the filter, each once, the latest first.             *)
THEOREM QuietExact == Spec => []QuietReadingExact
<1> DEFINE Inv == Typed /\ ReadInv /\ QuietInv
<1>1. Init => QuietInv
  BY DEF Init, QuietInv
<1>2. Inv /\ [Next]_vars => Inv'
  BY TypedStep, ReadStep, QuietStep
<1>3. Inv => QuietReadingExact
  BY PlacesSorted DEF QuietReadingExact, Quiet
<1> QED
  BY <1>1, <1>2, <1>3, InitReading, PTL DEF Spec
=============================================================================

---------------------------- MODULE GradeEngine ----------------------------
(***************************************************************************)
(* The grade calculation engine: pure functions over the inputs of one     *)
(* pupil, in exact arithmetic.  Scores and maxima are in hundredths, the   *)
(* precision of their columns, and a percentage is kept as the fraction    *)
(* points / possible, since the engine's 28 digits separate any two        *)
(* different fractions of such numbers.                                    *)
(***************************************************************************)
EXTENDS Integers, Sequences, FiniteSets, SequencesExt

CONSTANT None  \* no score entered, no maximum, no percentage

Percentages == [points : Nat, possible : Nat \ {0}]
Fraction(points, possible) ==
  IF possible > 0 THEN [points |-> points, possible |-> possible] ELSE None

Below(p, q) == p.points * q.possible < q.points * p.possible
Same(p, q) == p.points * q.possible = q.points * p.possible

(* A percentage against a number of hundredths of a percent. *)
BelowPercent(p, hundredths) == 10000 * p.points < hundredths * p.possible

(* quantize_percentage: hundredths of a percent, halves rounded up. *)
Quantize(p) == (20000 * p.points + p.possible) \div (2 * p.possible)

(* Slip: the points are ranked, not the percentage. *)
ShownPoints(p) == IF p = None THEN None ELSE Fraction(p.points, 10000)

(* A quantized percentage is a percentage again. *)
Shown(p) == IF p = None THEN None ELSE Fraction(Quantize(p), 10000)

-----------------------------------------------------------------------------
ValidGrade(input) ==
  input.is_numeric =>
    /\ input.max_score # None /\ input.max_score > 0 /\ input.coefficient > 0
    /\ input.score # None => input.score \in 0 .. input.max_score

(* Slip: a zero is taken for a missing grade. *)
ContributesNonZero(input) ==
  input.included /\ input.is_numeric /\ input.score # None /\ input.score # 0

Contributes(input) == input.included /\ input.is_numeric /\ input.score # None

Breakdown(input) ==
  [groupe |-> input.groupe,
   points |-> IF Contributes(input) THEN input.score * input.coefficient ELSE 0,
   possible |-> IF Contributes(input) THEN input.max_score * input.coefficient ELSE 0,
   included |-> Contributes(input)]

(* What a sequence of numbers adds up to. *)
SumOf(values) ==
  LET upto[n \in 0 .. Len(values)] == IF n = 0 THEN 0 ELSE upto[n - 1] + values[n]
  IN upto[Len(values)]

Total(entries) ==
  LET points == SumOf([i \in DOMAIN entries |-> entries[i].points])
      possible == SumOf([i \in DOMAIN entries |-> entries[i].possible])
  IN [points |-> points, possible |-> possible, percentage |-> Fraction(points, possible)]

(* A grade that is missing or excluded leaves both sides of the fraction.  *)
Breakdowns(inputs) == [i \in DOMAIN inputs |-> Breakdown(inputs[i])]
PeriodTotal(inputs) == Total(Breakdowns(inputs))

(* Slip: only the group of the previous line is remembered. *)
GroupOrderByRun(breakdown) ==
  LET order[n \in 0 .. Len(breakdown)] ==
        IF n = 0 THEN <<>>
        ELSE LET seen == order[n - 1]
                 last == IF n = 1 THEN breakdown[n] ELSE breakdown[n - 1]
             IN IF ~breakdown[n].included \/ (n > 1 /\ last.groupe = breakdown[n].groupe)
                THEN seen ELSE Append(seen, breakdown[n].groupe)
  IN order[Len(breakdown)]

(* The groups that have an included line, in first-seen order. *)
GroupOrder(breakdown) ==
  LET order[n \in 0 .. Len(breakdown)] ==
        IF n = 0 THEN <<>>
        ELSE LET seen == order[n - 1]
             IN IF ~breakdown[n].included \/ breakdown[n].groupe \in ToSet(seen)
                THEN seen ELSE Append(seen, breakdown[n].groupe)
  IN order[Len(breakdown)]

(* The entries that are added to the sums of a group, the others as zero.  *)
OfGroup(breakdown, groupe) ==
  [i \in DOMAIN breakdown |->
     IF breakdown[i].included /\ breakdown[i].groupe = groupe THEN breakdown[i]
     ELSE [breakdown[i] EXCEPT !.points = 0, !.possible = 0]]

GroupSubtotals(breakdown) ==
  LET order == GroupOrder(breakdown)
  IN [i \in DOMAIN order |->
        [groupe |-> order[i], total |-> Total(OfGroup(breakdown, order[i]))]]

-----------------------------------------------------------------------------
(* The entries that have a percentage, with their places in the list. *)
Rankable(entries) ==
  {r \in {[index |-> i, entry |-> entries[i]] : i \in DOMAIN entries} :
     r.entry.percentage # None}

(* list.sort(reverse=True) is stable: the highest percentage first, equal  *)
(* ones in the order of the list.                                          *)
Ahead(a, b) ==
  \/ Below(b.entry.percentage, a.entry.percentage)
  \/ Same(a.entry.percentage, b.entry.percentage) /\ a.index < b.index

Sorted(rankable) ==
  LET place(a) == Cardinality({b \in rankable : b = a \/ Ahead(b, a)})
  IN [n \in 1 .. Cardinality(rankable) |-> (CHOOSE a \in rankable : place(a) = n).entry]

(* Slip: dense ranking, 1-2-2-3. *)
RankedDensely(entries) ==
  LET sorted == Sorted(Rankable(entries))
      rank[n \in DOMAIN sorted] ==
        IF n = 1 THEN 1
        ELSE IF Same(sorted[n].percentage, sorted[n - 1].percentage) THEN rank[n - 1]
        ELSE rank[n - 1] + 1
  IN [n \in DOMAIN sorted |-> [id |-> sorted[n].id, rank |-> rank[n]]]

(* Entries [id, percentage]; the rank of an entry is its place in the      *)
(* sorted list, or the rank of the previous entry when they are equal.     *)
Ranked(entries) ==
  LET sorted == Sorted(Rankable(entries))
      rank[n \in DOMAIN sorted] ==
        IF n > 1 /\ Same(sorted[n].percentage, sorted[n - 1].percentage)
        THEN rank[n - 1] ELSE n
  IN [n \in DOMAIN sorted |-> [id |-> sorted[n].id, rank |-> rank[n]]]
=============================================================================

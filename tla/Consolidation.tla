--------------------------- MODULE Consolidation ---------------------------
(***************************************************************************)
(* The two pages computed from the grades of one class and period: the     *)
(* results page with its bulletins, and the consolidation on which the     *)
(* direction deliberates.  Grades arrive one at a time, as the sync route  *)
(* commits them, and the pages are what a load would show: the properties  *)
(* compare them with each other, and before and after an entry.            *)
(***************************************************************************)
EXTENDS GradeEngine, FiniteSets

CONSTANTS
  Pupils,        \* the enrolled pupils, in the order of the query
  Grille,        \* the active grid lines, in display order
  Threshold,     \* DeliberationPolicy.passing_threshold_percent, in hundredths
  Eliminatory,   \* TenantConfig.eliminatory_course_codes
  MaxFailures,   \* TenantConfig.max_allowed_failures, or None
  Scores,        \* Scores[l]: the scores a teacher may enter on line l
  Statut,        \* content of a row that explains why there is no score
  Appreciation,  \* content of a row that holds a text
  Absent,        \* there is no row
  FirstGrades    \* contents of the grid when the model starts

Lines == DOMAIN Grille
Enrolled == ToSet(Pupils)
GrilleLines ==
  [code : STRING, groupe : STRING, ponderation : Nat \ {0}, maximum : Nat \ {0},
   entre_dans_total_general : BOOLEAN, groupe_entre_dans_total_general : BOOLEAN,
   note_par_appreciation : BOOLEAN]
Contents == Nat \cup {Statut, Appreciation, Absent}

(* The check constraints of the tables, and a grid that starts with grades *)
(* its lines can hold.                                                     *)
ASSUME ConsolidationAssumption ==
  /\ Pupils \in Seq(Enrolled) /\ \A i, j \in DOMAIN Pupils : Pupils[i] = Pupils[j] => i = j
  /\ Grille \in Seq(GrilleLines)
  /\ Threshold \in Nat /\ MaxFailures \in Nat \cup {None}
  /\ \A l \in Lines : Scores[l] \subseteq Nat
  /\ \A c \in {Statut, Appreciation, Absent, None} : c \notin Nat
  /\ None \notin Percentages
  /\ FirstGrades \subseteq [Enrolled -> [Lines -> Contents]]
  /\ \A g \in FirstGrades, p \in Enrolled, l \in Lines :
       g[p][l] \in Nat => g[p][l] <= Grille[l].maximum

-----------------------------------------------------------------------------
(* What the engine is given, for the grades g. *)

Score(content) == IF content \in Nat THEN content ELSE None

Input(line, content) ==
  [groupe |-> line.groupe, coefficient |-> line.ponderation,
   max_score |-> IF line.note_par_appreciation THEN None ELSE line.maximum,
   score |-> Score(content), is_numeric |-> ~line.note_par_appreciation,
   included |-> line.entre_dans_total_general /\ line.groupe_entre_dans_total_general]

ConsolidationInputs(g, p) == [l \in Lines |-> Input(Grille[l], g[p][l])]

(* Slip: the results page counts a statut as a zero. *)
ResultInputsZero(g, p) ==
  [l \in Lines |-> [Input(Grille[l], g[p][l]) EXCEPT
     !.included = TRUE, !.score = IF g[p][l] = Statut THEN 0 ELSE @]]

(* result_context leaves included to its default. *)
ResultInputs(g, p) ==
  [l \in Lines |-> [Input(Grille[l], g[p][l]) EXCEPT !.included = TRUE]]

-----------------------------------------------------------------------------
(* The pages. *)

Fails(input) ==
  /\ input.is_numeric /\ input.score # None
  /\ BelowPercent(Fraction(input.score, input.max_score), Threshold)

HardBlock(inputs) ==
  LET failing == {l \in Lines : Fails(inputs[l])}
  IN \/ \E l \in failing : Grille[l].code \in Eliminatory
     \/ MaxFailures # None /\ Cardinality(failing) > MaxFailures

AutomaticDecision(percentage, blocked) ==
  CASE percentage = None -> "MANUAL"
    [] percentage # None /\ (blocked \/ BelowPercent(percentage, Threshold)) -> "DEFERRED"
    [] OTHER -> "ADMITTED"

Buckets == {<<0, 2000>>, <<2000, 4000>>, <<4000, 6000>>, <<6000, 8000>>, <<8000, 10001>>}

(* _distribution: the buckets that count a percentage. *)
Counting(percentage) ==
  {bucket \in Buckets :
     percentage # None /\ ~BelowPercent(percentage, bucket[1])
       /\ BelowPercent(percentage, bucket[2])}

ConsolidationRow(inputs) ==
  LET total == PeriodTotal(inputs)
      blocked == HardBlock(inputs)
  IN [percentage |-> total.percentage, shown |-> Shown(total.percentage),
      blocked |-> blocked, automatic |-> AutomaticDecision(total.percentage, blocked),
      counted |-> Counting(total.percentage)]

ResultRow(inputs) ==
  LET total == PeriodTotal(inputs)
  IN [percentage |-> total.percentage, shown |-> Shown(total.percentage),
      points |-> total.points, possible |-> total.possible]

(* The rank each pupil is shown with: those who have no percentage come    *)
(* after all the others.                                                   *)
RankOf(ranked) ==
  LET ranks == ToSet(ranked)
  IN [p \in Enrolled |->
     LET own == {entry \in ranks : entry.id = p}
     IN IF own = {} THEN Len(Pupils) + 1 ELSE (CHOOSE entry \in own : TRUE).rank]

Entries(rows, field) ==
  [i \in DOMAIN Pupils |-> [id |-> Pupils[i], percentage |-> rows[Pupils[i]][field]]]

(* The consolidation ranks the percentages it shows, already rounded; the  *)
(* results page ranks the exact ones.                                      *)
Ranks(rows, field) == RankOf(Ranked(Entries(rows, field)))

Consolidation(g) ==
  LET rows == [p \in Enrolled |-> ConsolidationRow(ConsolidationInputs(g, p))]
  IN [rows |-> rows, rank |-> Ranks(rows, "shown")]

ResultsPage(g) ==
  LET rows == [p \in Enrolled |-> ResultRow(ResultInputs(g, p))]
  IN [rows |-> rows, rank |-> Ranks(rows, "percentage")]

-----------------------------------------------------------------------------
VARIABLES
  grades,         \* grades[p][l]: content of the row of pupil p on line l
  consolidation,  \* the consolidation page, loaded now
  results         \* the results page, loaded now
pageVars == <<grades, consolidation, results>>

PagesInit ==
  /\ grades \in FirstGrades
  /\ consolidation = Consolidation(grades) /\ results = ResultsPage(grades)

(* Slip: the maximum is not looked at. *)
AcceptableAny(l, score) == ~Grille[l].note_par_appreciation

Acceptable(l, score) ==
  ~Grille[l].note_par_appreciation /\ score <= Grille[l].maximum

(* The sync route commits one score.  It accepts none on an appreciation   *)
(* line and none above the maximum; no route erases a grade.               *)
Enter(p, l, score) ==
  /\ Acceptable(l, score)
  /\ score # grades[p][l]
  /\ grades' = [grades EXCEPT ![p][l] = score]
  /\ consolidation' = Consolidation(grades') /\ results' = ResultsPage(grades')

PagesNext == \E p \in Enrolled, l \in Lines : \E score \in Scores[l] : Enter(p, l, score)
PagesSpec == PagesInit /\ [][PagesNext]_pageVars

-----------------------------------------------------------------------------
(* Type invariant: the grid holds what its lines can hold, and the engine, *)
(* which validates every input again, never refuses a stored grade.        *)
PagesTyped ==
  /\ grades \in [Enrolled -> [Lines -> Contents]]
  /\ \A p \in Enrolled : \A l \in Lines : ValidGrade(ConsolidationInputs(grades, p)[l])

(* Standard competition ranking, 1-2-2-4: the loop over the sorted list    *)
(* gives every pupil who has a percentage one more than the number of      *)
(* pupils strictly ahead, on either page.                                  *)
Competition(page, field) ==
  LET rankable == {p \in Enrolled : page.rows[p][field] # None}
      ahead(p) == {q \in rankable : Below(page.rows[p][field], page.rows[q][field])}
  IN \A p \in Enrolled :
       page.rank[p] = IF p \in rankable THEN 1 + Cardinality(ahead(p)) ELSE Len(Pupils) + 1

CompetitionRanks ==
  Competition(consolidation, "shown") /\ Competition(results, "percentage")

(* The engine's subtotals by group are a partition of the general total    *)
(* of the same breakdown: each group once, and together they give the      *)
(* points and the maximum of the period (compute_group_subtotals against   *)
(* compute_period_total).                                                  *)
SubtotalsAddUp ==
  \A p \in Enrolled :
    LET row == results.rows[p]
        subtotals == GroupSubtotals(Breakdowns(ResultInputs(grades, p)))
    IN /\ \A i, j \in DOMAIN subtotals : i # j => subtotals[i].groupe # subtotals[j].groupe
       /\ SumOf([i \in DOMAIN subtotals |-> subtotals[i].total.points]) = row.points
       /\ SumOf([i \in DOMAIN subtotals |-> subtotals[i].total.possible]) = row.possible

(* The decision is taken on the exact percentage and the rank on the       *)
(* rounded one, yet they never contradict each other: a pupil deferred for *)
(* the average alone is not ranked before an admitted one.                 *)
RankFollowsDecision ==
  \A p, q \in Enrolled :
    LET deferred == consolidation.rows[q]
    IN /\ consolidation.rows[p].automatic = "ADMITTED"
       /\ deferred.automatic = "DEFERRED" /\ ~deferred.blocked
       => consolidation.rank[p] <= consolidation.rank[q]

(* In a class with no score on a line outside the general total the two    *)
(* pages order the pupils alike: rounding may tie two of them, it never    *)
(* exchanges them, and the same pupils come last, unranked.                *)
PagesOrderAlike ==
  (\A p \in Enrolled, l \in Lines :
     Input(Grille[l], grades[p][l]).included \/ Score(grades[p][l]) = None)
  => \A p, q \in Enrolled :
       consolidation.rank[p] < consolidation.rank[q] => results.rank[p] < results.rank[q]

(* Raising a score never hurts: the pupil's percentage does not fall, no   *)
(* admission is lost, the own rank does not get worse, nobody else's       *)
(* percentage changes and nobody else's rank gets better.                  *)
Raises(p, l) ==
  /\ Score(grades[p][l]) # None /\ Score(grades'[p][l]) # None
  /\ grades[p][l] < grades'[p][l]

HigherScoreNeverHurts ==
  [][\A p \in Enrolled, l \in Lines : Raises(p, l) =>
       LET before == consolidation.rows
           after == consolidation'.rows
       IN /\ before[p].percentage # None => ~Below(after[p].percentage, before[p].percentage)
          /\ before[p].automatic = "ADMITTED" => after[p].automatic = "ADMITTED"
          /\ consolidation'.rank[p] <= consolidation.rank[p]
          /\ \A q \in Enrolled \ {p} :
               /\ after[q].percentage = before[q].percentage
               /\ consolidation'.rank[q] >= consolidation.rank[q]]_pageVars
=============================================================================

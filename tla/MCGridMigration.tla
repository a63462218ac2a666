--------------------------- MODULE MCGridMigration ---------------------------
(***************************************************************************)
(* A small school: three courses in two classes, one scale or two, which   *)
(* may be siblings of one level; a pupil with the highest score of each    *)
(* course, a teacher for some of them.                                     *)
(***************************************************************************)
EXTENDS GridMigration, TLC

CONSTANTS a, b, cA, cB, n1, n2, y1, y2, p1, p2, p3, t1, k1, k2

MCYearOf == p1 :> y1 @@ p2 :> y1 @@ p3 :> y2

CourseRows == [classe : Classes, code : Codes, coefficient : {1}, max : Scales]
Contents(rows, level, assigned) ==
  [level |-> level, courses |-> rows,
   taught |-> {[teacher |-> t1, classe |-> rows[c].classe, ref |-> c] :
                 c \in assigned \cap DOMAIN rows},
   graded |-> {[classe |-> rows[c].classe, periode |-> p1, score |-> rows[c].max,
                ref |-> c] : c \in DOMAIN rows},
   logged |-> {[classe |-> rows[c].classe, ref |-> c] : c \in DOMAIN rows}]

(* Two or three courses, the first one of code a in class cA. *)
MCLegacies ==
  {d \in {Contents(rows, level, assigned) :
            rows \in {f \in [Catalog -> CourseRows] \cup [{1, 2} -> CourseRows] :
                        f[1].classe = cA /\ f[1].code = a},
            level \in {[c \in Classes |-> n1], cA :> n1 @@ cB :> n2},
            assigned \in {{1, 2}, Catalog}} : WellFormed(d)}

Callers == Permutations(Calls)
=============================================================================

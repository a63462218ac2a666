-------------------------- MODULE Titulariat_proofs --------------------------
(***************************************************************************)
(* Proofs about Titulariat: however nominations overlap, the class is not  *)
(* left without a titulaire and no attribution is answered in vain; and as *)
(* long as nominations do not overlap, its history is in sync.             *)
(***************************************************************************)
EXTENDS Titulariat, SequenceTheorems, TLAPS

(* The rows a nomination writes. *)
LEMMA RowsTyped ==
  ASSUME TypeOK, NEW k \in Calls
  PROVE  /\ Opened(k) \in Stretches
         /\ \A i \in DOMAIN history : Closed(k)[i] \in Stretches
<1>1. read[k].moment \in Nat /\ want[k].teacher \in Teachers
  BY TitulariatAssumption DEF TypeOK, Times, Wants
<1>2. Opened(k) \in Stretches
  BY <1>1 DEF Opened, Stretches
<1>3. ASSUME NEW i \in DOMAIN history PROVE Closed(k)[i] \in Stretches
  <2>1. history[i] \in Stretches
    BY ElementOfSeq, LenProperties DEF TypeOK
  <2> QED
    BY <1>1, <2>1 DEF Closed, Stretches
<1> QED
  BY <1>2, <1>3

(* What storing a nomination does to the history. *)
LEMMA HistoryGrows ==
  ASSUME TypeOK, NEW k \in Calls, StoreTitulaire(k)
  PROVE  /\ Len(history) \in Nat /\ DOMAIN history = 1..Len(history)
         /\ DOMAIN history' = 1..(Len(history) + 1)
         /\ Len(history') = Len(history) + 1
         /\ history' \in Seq(Stretches)
         /\ \A i \in 1..Len(history) : history'[i] = Closed(k)[i]
         /\ history'[Len(history) + 1] = Opened(k)
<1> DEFINE n == Len(history)
           closed == Closed(k)
           opened == Opened(k)
<1>1. n \in Nat /\ DOMAIN history = 1..n
  BY LenProperties DEF TypeOK
<1>2. closed \in [1..n -> Stretches] /\ opened \in Stretches
  BY <1>1, RowsTyped DEF Closed
<1>3. history' = Append(closed, opened)
  BY DEF StoreTitulaire
<1> HIDE DEF n, closed, opened
<1>4. closed \in Seq(Stretches) /\ Len(closed) = n
  BY <1>1, <1>2
<1>5. /\ history' \in Seq(Stretches) /\ Len(history') = n + 1
      /\ \A i \in 1..n : history'[i] = closed[i]
      /\ history'[n + 1] = opened
  BY <1>1, <1>2, <1>3, <1>4
<1>6. DOMAIN history' = 1..(n + 1)
  BY <1>5, LenProperties
<1> QED
  BY <1>1, <1>5, <1>6 DEF n, closed, opened

(* Nothing else touches the history. *)
LEMMA HistoryStep ==
  ASSUME [Next]_vars, <<history, titulaire>>' # <<history, titulaire>>
  PROVE  \E k \in Calls : StoreTitulaire(k)
BY DEF Next, vars, call, Nomination, Attribution, AskTitulaire, Refuse, Stamp, FindOpen,
   AskAttribution, Search, Attribute, AttributeCollision, Crash, Tick

LEMMA InitTypeOK == Init => TypeOK
<1> SUFFICES ASSUME Init PROVE TypeOK
  OBVIOUS
<1>1. 0 \in Times /\ titulaire \in Teachers \cup {Nobody}
  BY TitulariatAssumption DEF Init, Times
<1>2. history \in Seq(Stretches)
  <2>1. CASE history = <<>>
    BY <2>1
  <2>2. CASE history # <<>>
    <3>1. PICK t \in Teachers : history = <<[teacher |-> t, debut |-> 0, fin |-> Open]>>
      BY <2>2 DEF Init
    <3>2. [teacher |-> t, debut |-> 0, fin |-> Open] \in Stretches
      BY DEF Stretches
    <3> QED
      BY <3>1, <3>2
  <2> QED
    BY <2>1, <2>2
<1>3. want \in [Calls -> Wants]
  <2>1. \E w \in Wants : TRUE
    <3>1. PICK t \in Teachers, l \in Lines : TRUE
      BY TitulariatAssumption
    <3>2. [teacher |-> t, line |-> l] \in Wants
      BY DEF Wants
    <3> QED
      BY <3>2
  <2>2. (CHOOSE w \in Wants : TRUE) \in Wants
    BY <2>1
  <2> QED
    BY <2>2 DEF Init
<1>4. read \in [Calls -> [titulaire : Teachers \cup {Nobody}, moment : Times,
                          row : Nat, presence : Presence]]
  BY <1>1 DEF Init, Unread, Presence
<1> QED
  BY <1>1, <1>2, <1>3, <1>4 DEF Init, TypeOK, Places

LEMMA CallTypeOK ==
  ASSUME TypeOK, NEW k \in Calls, Nomination(k) \/ Attribution(k) \/ Refuse(k) \/ Crash(k)
  PROVE  TypeOK'
<1> USE DEF Go, Places, Nominating, Attributing
<1>1. Unread \in [titulaire : Teachers \cup {Nobody}, moment : Times, row : Nat,
                  presence : Presence]
  BY TitulariatAssumption DEF Unread, Times, Presence
<1>2. Len(history) \in Nat /\ OpenRows \subseteq Nat
  BY LenProperties DEF TypeOK, OpenRows
<1>3. CASE \E t \in Teachers : AskTitulaire(k, t)
  <2>1. PICK t \in Teachers : AskTitulaire(k, t)
    BY <1>3
  <2>2. want[k] \in Wants /\ read[k] \in [titulaire : Teachers \cup {Nobody},
                                       moment : Times, row : Nat, presence : Presence]
    BY DEF TypeOK
  <2>3. want' \in [Calls -> Wants]
    BY <2>1, <2>2 DEF AskTitulaire, TypeOK, Wants
  <2>4. read' \in [Calls -> [titulaire : Teachers \cup {Nobody}, moment : Times,
                             row : Nat, presence : Presence]]
    BY <2>1, <2>2 DEF AskTitulaire, TypeOK
  <2> QED
    BY <2>1, <2>3, <2>4 DEF AskTitulaire, TypeOK
<1>4. CASE Stamp(k)
  BY <1>4 DEF Stamp, TypeOK
<1>5. CASE FindOpen(k)
  <2>1. PICK i \in Nat : read' = [read EXCEPT ![k].row = i]
    BY <1>2, <1>5 DEF FindOpen
  <2>2. read' \in [Calls -> [titulaire : Teachers \cup {Nobody}, moment : Times,
                             row : Nat, presence : Presence]]
    BY <2>1 DEF TypeOK
  <2> QED
    BY <1>5, <2>2 DEF FindOpen, TypeOK
<1>6. CASE StoreTitulaire(k)
  <2>1. titulaire' \in Teachers \cup {Nobody}
    BY <1>6 DEF StoreTitulaire, TypeOK, Wants
  <2> QED
    BY <1>1, <1>6, <2>1, HistoryGrows DEF StoreTitulaire, TypeOK, Forget
<1>7. CASE \E t \in Teachers, l \in Lines : AskAttribution(k, t, l)
  BY <1>7 DEF AskAttribution, TypeOK, Wants
<1>8. CASE Search(k)
  <2>1. attribution[<<want[k].teacher, want[k].line>>] \in Presence
    BY DEF TypeOK, Wants
  <2> QED
    BY <1>8, <2>1 DEF Search, TypeOK
<1>9. CASE Attribute(k)
  BY <1>1, <1>9 DEF Attribute, TypeOK, Forget, Presence
<1>10. CASE AttributeCollision(k)
  BY <1>1, <1>10 DEF AttributeCollision, TypeOK, Forget
<1>11. CASE Refuse(k)
  BY <1>11 DEF Refuse, TypeOK
<1>12. CASE Crash(k)
  BY <1>1, <1>12 DEF Crash, TypeOK, Forget
<1> QED
  BY <1>3, <1>4, <1>5, <1>6, <1>7, <1>8, <1>9, <1>10, <1>11, <1>12 DEF Nomination, Attribution

LEMMA NextTypeOK == TypeOK /\ [Next]_vars => TypeOK'
<1> SUFFICES ASSUME TypeOK, [Next]_vars PROVE TypeOK'
  OBVIOUS
<1>1. CASE \E k \in Calls : Nomination(k) \/ Attribution(k) \/ Refuse(k) \/ Crash(k)
  BY <1>1, CallTypeOK
<1>2. CASE Tick
  BY <1>2, TitulariatAssumption DEF Tick, TypeOK, call, Times
<1>3. CASE UNCHANGED vars
  BY <1>3 DEF vars, call, TypeOK
<1> QED
  BY <1>1, <1>2, <1>3 DEF Next

(* The variables of Titulariat keep their types. *)
THEOREM TypeCorrect == Spec => []TypeOK
BY InitTypeOK, NextTypeOK, PTL DEF Spec

-----------------------------------------------------------------------------
(* No closing leaves the class without a titulaire.  The row a nomination  *)
(* opens covers every instant from the moment it was stamped with, and a   *)
(* row it closes at that moment still covers the instants before it.       *)
THEOREM NeverVacant == Spec => []NoGap
<1>1. Init => NoGap
  <2> SUFFICES ASSUME Init, NEW i \in DOMAIN history, NEW t \in history[i].debut..MaxTime
               PROVE  \E j \in DOMAIN history : Covers(history[j], t)
    BY DEF NoGap
  <2>1. PICK u \in Teachers : history = <<[teacher |-> u, debut |-> 0, fin |-> Open]>>
    BY DEF Init
  <2>2. i = 1
    BY <2>1
  <2> QED
    BY <2>1, <2>2, TitulariatAssumption DEF Covers
<1>2. TypeOK /\ NoGap /\ [Next]_vars => NoGap'
  <2> SUFFICES ASSUME TypeOK, NoGap, [Next]_vars PROVE NoGap'
    OBVIOUS
  <2>1. CASE history' = history
    BY <2>1 DEF NoGap
  <2>2. CASE history' # history
    <3>1. PICK k \in Calls : StoreTitulaire(k)
      BY <2>2, HistoryStep
    <3> DEFINE n == Len(history)
               m == read[k].moment
    <3>2. m \in Nat /\ MaxTime \in Nat
      BY TitulariatAssumption DEF TypeOK, Times
    <3>3. \A i \in DOMAIN history : history[i].debut \in Nat
      <4> SUFFICES ASSUME NEW i \in DOMAIN history PROVE history[i].debut \in Nat
        OBVIOUS
      <4>1. history[i] \in Stretches
        BY ElementOfSeq, LenProperties DEF TypeOK
      <4> QED
        BY <4>1 DEF Stretches
    <3>4. ASSUME NEW i \in DOMAIN history', NEW t \in history'[i].debut..MaxTime
          PROVE  \E j \in DOMAIN history' : Covers(history'[j], t)
      <4>1. CASE t >= m
        <5>1. history'[n + 1] = Opened(k) /\ n + 1 \in DOMAIN history'
          BY <3>1, HistoryGrows
        <5> QED
          BY <4>1, <5>1 DEF Opened, Covers
      <4>2. CASE t < m
        <5>1. i \in DOMAIN history /\ history'[i].debut = history[i].debut
          <6>1. i = n + 1 => history'[i].debut = m
            <7>1. Opened(k).debut = m
              BY DEF Opened
            <7>2. history'[n + 1] = Opened(k)
              BY <3>1, HistoryGrows
            <7> QED
              BY <7>1, <7>2
          <6>2. i # n + 1
            BY <3>2, <4>2, <6>1
          <6>3. i \in 1..n
            BY <3>1, <6>2, HistoryGrows
          <6>4. i \in DOMAIN history /\ history'[i] = Closed(k)[i]
            BY <3>1, <6>3, HistoryGrows
          <6>5. history[i] \in Stretches
            BY <6>4, ElementOfSeq, LenProperties DEF TypeOK
          <6>6. Closed(k)[i].debut = history[i].debut
            BY <6>4, <6>5 DEF Closed, Stretches
          <6> QED
            BY <6>4, <6>6
        <5>2. t \in history[i].debut..MaxTime
          BY <5>1
        <5>3. PICK j \in DOMAIN history : Covers(history[j], t)
          BY <5>1, <5>2 DEF NoGap
        <5>4. j \in DOMAIN history' /\ history'[j] = Closed(k)[j]
          BY <3>1, HistoryGrows
        <5>5. Covers(Closed(k)[j], t)
          <6>1. CASE j = read[k].row
            <7>1. history[j] \in Stretches
              BY ElementOfSeq, LenProperties DEF TypeOK
            <7>2. Closed(k)[j].debut = history[j].debut /\ Closed(k)[j].fin = m
              BY <6>1, <7>1 DEF Closed, Stretches
            <7> QED
              BY <4>2, <5>3, <7>2 DEF Covers
          <6>2. CASE j # read[k].row
            BY <5>3, <6>2 DEF Closed
          <6> QED
            BY <6>1, <6>2
        <5> QED
          BY <5>4, <5>5
      <4>3. t \in Int /\ m \in Int
        <5>1. history'[i].debut \in Nat
          <6>1. history'[i] \in Stretches
            BY <3>1, HistoryGrows, ElementOfSeq
          <6> QED
            BY <6>1 DEF Stretches
        <5> QED
          BY <3>2, <5>1
      <4> QED
        BY <4>1, <4>2, <4>3
    <3> QED
      BY <3>4 DEF NoGap
  <2> QED
    BY <2>1, <2>2
<1> QED
  BY <1>1, <1>2, TypeCorrect, PTL DEF Spec
-----------------------------------------------------------------------------
(* A call that found no attribution and is about to insert one: by then    *)
(* nobody can have archived it, a row that exists is an active one.        *)
InsertSafe ==
  \A k \in Calls : at[k] = "attribute" /\ read[k].presence = "none" =>
    attribution[<<want[k].teacher, want[k].line>>] \in {"none", "active"}

(* Attributions are only ever made active. *)
LEMMA AttributionsKept ==
  ASSUME TypeOK, [Next]_vars
  PROVE  \A c \in Teachers \X Lines : \/ attribution'[c] = attribution[c]
                                      \/ attribution'[c] = "active"
<1>1. CASE \E k \in Calls : Attribute(k)
  BY <1>1 DEF Attribute, TypeOK
<1>2. CASE ~\E k \in Calls : Attribute(k)
  BY <1>2 DEF Next, vars, call, Nomination, Attribution, AskTitulaire, Refuse, Stamp, FindOpen,
     StoreTitulaire, AskAttribution, Search, AttributeCollision, Crash, Tick
<1> QED
  BY <1>1, <1>2

(* A step of call k leaves the other calls alone, and the steps of nobody  *)
(* leave them all alone.                                                   *)
LEMMA OthersStay ==
  ASSUME TypeOK, [Next]_vars, NEW j \in Calls
  PROVE  \/ Nomination(j) \/ Attribution(j) \/ Refuse(j) \/ Crash(j)
         \/ at'[j] = at[j] /\ want'[j] = want[j] /\ read'[j] = read[j]
<1>1. ASSUME NEW k \in Calls, k # j,
             Nomination(k) \/ Attribution(k) \/ Refuse(k) \/ Crash(k)
      PROVE  at'[j] = at[j] /\ want'[j] = want[j] /\ read'[j] = read[j]
  BY <1>1 DEF Nomination, Attribution, AskTitulaire, Refuse, Stamp, FindOpen, StoreTitulaire,
     AskAttribution, Search, Attribute, AttributeCollision, Crash, Go, Forget, TypeOK
<1>2. CASE Tick \/ UNCHANGED vars
  BY <1>2 DEF Tick, vars, call
<1> QED
  BY <1>1, <1>2 DEF Next

(* Whoever is told that a line is attributed has it: a row that is found   *)
(* is restored, and where two calls insert it one row serves both.         *)
THEOREM AnsweredInTruth == Spec => []AttributionsAnswered
<1> DEFINE Inv == InsertSafe /\ AttributionsAnswered
<1>1. Init => Inv
  BY DEF Init, InsertSafe, AttributionsAnswered
<1>2. TypeOK /\ Inv /\ [Next]_vars => Inv'
  <2> SUFFICES ASSUME TypeOK, Inv, [Next]_vars, NEW j \in Calls
               PROVE  /\ at'[j] = "attribute" /\ read'[j].presence = "none" =>
                           attribution'[<<want'[j].teacher, want'[j].line>>] \in {"none", "active"}
                      /\ at'[j] \in {"attributed", "exists"} =>
                           attribution'[<<want'[j].teacher, want'[j].line>>] = "active"
    BY DEF InsertSafe, AttributionsAnswered, EstAttributaire
  <2> DEFINE cell == <<want[j].teacher, want[j].line>>
  <2>1. want[j] \in Wants /\ cell \in Teachers \X Lines
    BY DEF TypeOK, Wants
  <2>2. attribution'[cell] = attribution[cell] \/ attribution'[cell] = "active"
    BY <2>1, AttributionsKept
  <2>3. CASE at'[j] = at[j] /\ want'[j] = want[j] /\ read'[j] = read[j]
    BY <2>2, <2>3 DEF InsertSafe, AttributionsAnswered, EstAttributaire
  <2>4. CASE Nomination(j) \/ Refuse(j) \/ Crash(j) \/ \E t \in Teachers, l \in Lines : AskAttribution(j, t, l)
    BY <2>4 DEF Nomination, AskTitulaire, Refuse, Stamp, FindOpen, StoreTitulaire, AskAttribution,
       Crash, Go, TypeOK
  <2>5. CASE Search(j)
    <3>1. /\ at'[j] = "attribute" /\ want' = want /\ attribution' = attribution
          /\ read'[j].presence = attribution[cell]
      BY <2>5 DEF Search, Go, TypeOK
    <3> QED
      BY <3>1
  <2>6. CASE Attribute(j)
    <3>1. /\ at'[j] = "attributed" /\ want' = want
          /\ attribution' = [attribution EXCEPT ![cell] = "active"]
      BY <2>6 DEF Attribute, Go, TypeOK
    <3> QED
      BY <2>1, <3>1 DEF TypeOK
  <2>7. CASE AttributeCollision(j)
    <3>1. /\ at'[j] = "exists" /\ want' = want /\ attribution' = attribution
          /\ at[j] = "attribute" /\ read[j].presence = "none" /\ attribution[cell] # "none"
      BY <2>7 DEF AttributeCollision, Go, TypeOK
    <3> QED
      BY <3>1 DEF InsertSafe
  <2> QED
    BY <2>3, <2>4, <2>5, <2>6, <2>7, OthersStay DEF Attribution
<1>3. Inv => AttributionsAnswered
  OBVIOUS
<1> QED
  BY <1>1, <1>2, <1>3, TypeCorrect, PTL DEF Spec

-----------------------------------------------------------------------------
(* While nominations come one at a time: the rows follow each other, only  *)
(* the last one may be open, and the call under way still sees the class   *)
(* as it was when it began.                                                *)
InSync ==
  /\ history # <<>> => OpenRows = {Len(history)} /\ history[Len(history)].teacher = titulaire
  /\ \A i \in DOMAIN history \ {Len(history)} :
       history[i].debut <= history[i].fin /\ history[i].fin = history[i + 1].debut
  /\ \A i \in DOMAIN history : history[i].debut <= now

Alone ==
  \A k \in Calls : at[k] \in Nominating =>
    /\ \A j \in Calls : at[j] \in Nominating => j = k
    /\ read[k].titulaire = titulaire
    /\ at[k] \in {"find", "store"} => /\ read[k].moment <= now
                                      /\ \A i \in DOMAIN history : history[i].debut <= read[k].moment
    /\ at[k] = "store" => read[k].row = Len(history)

SerialInv == ~overlapped => InSync /\ Alone
(* A step that neither starts, advances nor stores a nomination. *)
LEMMA SerialElsewhere ==
  ASSUME TypeOK, SerialInv,
         UNCHANGED <<titulaire, history, overlapped>>, now' \in Times, now' >= now,
         \A k \in Calls : at'[k] \in Nominating => at'[k] = at[k] /\ read'[k] = read[k]
  PROVE  SerialInv'
<1> SUFFICES ASSUME ~overlapped PROVE InSync' /\ Alone'
  BY DEF SerialInv
<1>1. now \in Nat /\ now' \in Nat
  BY TitulariatAssumption DEF TypeOK, Times
<1>2. \A i \in DOMAIN history : history[i].debut \in Nat
  <2> SUFFICES ASSUME NEW i \in DOMAIN history PROVE history[i].debut \in Nat
    OBVIOUS
  <2>1. history[i] \in Stretches
    BY ElementOfSeq, LenProperties DEF TypeOK
  <2> QED
    BY <2>1 DEF Stretches
<1>3. InSync'
  <2>1. \A i \in DOMAIN history : history[i].debut <= now'
    BY <1>1, <1>2 DEF SerialInv, InSync
  <2> QED
    BY <2>1 DEF SerialInv, InSync, OpenRows
<1>4. Alone'
  <2> SUFFICES ASSUME NEW k \in Calls, at'[k] \in Nominating
               PROVE  /\ \A j \in Calls : at'[j] \in Nominating => j = k
                      /\ read'[k].titulaire = titulaire
                      /\ at'[k] \in {"find", "store"} =>
                           /\ read'[k].moment <= now'
                           /\ \A i \in DOMAIN history : history[i].debut <= read'[k].moment
                      /\ at'[k] = "store" => read'[k].row = Len(history)
    BY DEF Alone
  <2>1. at[k] \in Nominating /\ at'[k] = at[k] /\ read'[k] = read[k]
    OBVIOUS
  <2>2. read[k].moment \in Nat
    BY TitulariatAssumption DEF TypeOK, Times
  <2>3. read[k].moment <= now => read[k].moment <= now'
    BY <1>1, <2>2
  <2> QED
    BY <2>1, <2>3 DEF SerialInv, Alone
<1> QED
  BY <1>3, <1>4

LEMMA SerialStore ==
  ASSUME TypeOK, SerialInv, ~overlapped, NEW k \in Calls, StoreTitulaire(k)
  PROVE  InSync' /\ Alone'
<1> DEFINE n == Len(history)
           m == read[k].moment
<1>1. /\ InSync /\ Alone /\ at[k] = "store" /\ at' = [at EXCEPT ![k] = "nominated"]
      /\ now' = now
  BY DEF SerialInv, StoreTitulaire, Go
<1>2. /\ read[k].titulaire = titulaire /\ m <= now /\ read[k].row = n
      /\ \A i \in DOMAIN history : history[i].debut <= m
      /\ \A j \in Calls : at[j] \in Nominating => j = k
  BY <1>1 DEF Alone, Nominating
<1>3. m \in Nat /\ now \in Nat
  BY TitulariatAssumption DEF TypeOK, Times
<1>4. /\ n \in Nat /\ DOMAIN history = 1..n
      /\ DOMAIN history' = 1..(n + 1) /\ Len(history') = n + 1
      /\ \A i \in 1..n : history'[i] = Closed(k)[i]
      /\ history'[n + 1] = Opened(k)
  BY HistoryGrows
<1>5. /\ Opened(k).teacher = want[k].teacher /\ Opened(k).debut = m
      /\ Opened(k).fin = Open
  BY DEF Opened
<1>6. ASSUME NEW i \in 1..n
      PROVE  /\ history'[i].debut = history[i].debut
             /\ history'[i].fin = IF i = n THEN m ELSE history[i].fin
             /\ history[i].debut \in Nat
  <2>1. history[i] \in Stretches
    BY <1>4, ElementOfSeq DEF TypeOK
  <2>2. history'[i] = IF i = n THEN [history[i] EXCEPT !.fin = m] ELSE history[i]
    BY <1>2, <1>4 DEF Closed
  <2> QED
    BY <2>1, <2>2 DEF Stretches
<1>7. titulaire' = want[k].teacher
  BY <1>2 DEF StoreTitulaire
<1> HIDE DEF n, m
<1>8. ASSUME NEW i \in 1..n PROVE history'[i].fin # Open
  <2>1. CASE i = n
    BY <1>3, <1>6, <2>1, TitulariatAssumption
  <2>2. CASE i # n
    <3>1. i \in DOMAIN history /\ history # <<>>
      BY <1>4
    <3>2. OpenRows = {n}
      BY <1>1, <3>1 DEF InSync, n
    <3> QED
      BY <1>6, <2>2, <3>1, <3>2 DEF OpenRows
  <2> QED
    BY <2>1, <2>2
<1>9. OpenRows' = {n + 1}
  <2>1. \A i \in 1..(n + 1) : i = n + 1 \/ i \in 1..n
    BY <1>4
  <2>2. n + 1 \in 1..(n + 1)
    BY <1>4
  <2>3. OpenRows' = {i \in 1..(n + 1) : history'[i].fin = Open}
    BY <1>4 DEF OpenRows
  <2> QED
    BY <1>4, <1>5, <1>8, <2>1, <2>2, <2>3
<1>10. ASSUME NEW i \in DOMAIN history' \ {Len(history')}
       PROVE  history'[i].debut <= history'[i].fin /\ history'[i].fin = history'[i + 1].debut
  <2>1. i \in 1..n
    BY <1>4
  <2>2. CASE i = n
    BY <1>2, <1>4, <1>5, <1>6, <2>1, <2>2
  <2>3. CASE i # n
    <3>1. i + 1 \in 1..n /\ i \in DOMAIN history \ {Len(history)}
      BY <1>4, <2>1, <2>3 DEF n
    <3>2. history[i].debut <= history[i].fin /\ history[i].fin = history[i + 1].debut
      BY <1>1, <3>1 DEF InSync
    <3>3. history'[i].fin = history[i].fin /\ history'[i].debut = history[i].debut
      BY <1>6, <2>1, <2>3
    <3>4. history'[i + 1].debut = history[i + 1].debut
      BY <1>6, <3>1
    <3> QED
      BY <3>2, <3>3, <3>4
  <2> QED
    BY <2>2, <2>3
<1>11. ASSUME NEW i \in DOMAIN history' PROVE history'[i].debut <= now'
  <2>1. CASE i = n + 1
    BY <1>1, <1>2, <1>4, <1>5, <2>1
  <2>2. CASE i # n + 1
    <3>1. i \in 1..n
      BY <1>4, <2>2
    <3> QED
      BY <1>1, <1>4, <1>6, <3>1 DEF InSync
  <2> QED
    BY <2>1, <2>2
<1>12. InSync'
  BY <1>4, <1>5, <1>7, <1>9, <1>10, <1>11 DEF InSync
<1>13. Alone'
  BY <1>1, <1>2 DEF Alone, Nominating, TypeOK
<1> QED
  BY <1>12, <1>13

LEMMA SerialStep == TypeOK /\ SerialInv /\ [Next]_vars => SerialInv'
<1> SUFFICES ASSUME TypeOK, SerialInv, [Next]_vars, ~overlapped' PROVE SerialInv'
  BY DEF SerialInv
<1> USE DEF Nominating
<1>1. ASSUME NEW k \in Calls, NEW t \in Teachers, AskTitulaire(k, t) PROVE SerialInv'
  <2>1. /\ ~overlapped /\ \A j \in Calls : at[j] \notin Nominating
        /\ at' = [at EXCEPT ![k] = "stamp"]
        /\ read' = [read EXCEPT ![k].titulaire = titulaire]
        /\ UNCHANGED <<titulaire, history, now>>
    BY <1>1 DEF AskTitulaire, Go
  <2>2. InSync'
    BY <2>1 DEF SerialInv, InSync, OpenRows
  <2>3. \A j \in Calls : at'[j] \in Nominating => j = k
    BY <2>1 DEF TypeOK
  <2>4. at'[k] = "stamp" /\ read'[k].titulaire = titulaire
    BY <2>1 DEF TypeOK
  <2>5. Alone'
    BY <2>1, <2>3, <2>4 DEF Alone
  <2> QED
    BY <2>2, <2>5 DEF SerialInv
<1>2. ASSUME NEW k \in Calls, Stamp(k) PROVE SerialInv'
  <2>1. /\ ~overlapped /\ at[k] = "stamp" /\ at' = [at EXCEPT ![k] = "find"]
        /\ read' = [read EXCEPT ![k].moment = now]
        /\ UNCHANGED <<titulaire, history, now>>
    BY <1>2 DEF Stamp, Go
  <2>2. /\ at'[k] = "find" /\ read'[k].moment = now
        /\ read'[k].titulaire = read[k].titulaire
        /\ \A j \in Calls : at'[j] \in Nominating => j = k
    BY <2>1 DEF TypeOK, SerialInv, Alone
  <2>3. InSync'
    BY <2>1 DEF SerialInv, InSync, OpenRows
  <2>4. now <= now
    BY TitulariatAssumption DEF TypeOK, Times
  <2>5. Alone'
    BY <2>1, <2>2, <2>4 DEF Alone, SerialInv, InSync
  <2> QED
    BY <2>3, <2>5 DEF SerialInv
<1>3. ASSUME NEW k \in Calls, FindOpen(k) PROVE SerialInv'
  <2>1. /\ ~overlapped /\ at[k] = "find" /\ at' = [at EXCEPT ![k] = "store"]
        /\ UNCHANGED <<titulaire, history, now>>
    BY <1>3 DEF FindOpen, Go
  <2>2. PICK i \in IF OpenRows = {} THEN {0} ELSE OpenRows : read' = [read EXCEPT ![k].row = i]
    BY <1>3 DEF FindOpen
  <2>3. i = Len(history)
    <3>1. CASE history = <<>>
      BY <2>2, <3>1 DEF OpenRows
    <3>2. CASE history # <<>>
      BY <2>1, <2>2, <3>2 DEF SerialInv, InSync
    <3> QED
      BY <3>1, <3>2
  <2>4. /\ at'[k] = "store" /\ read'[k].row = Len(history)
        /\ read'[k].titulaire = read[k].titulaire /\ read'[k].moment = read[k].moment
        /\ \A j \in Calls : at'[j] \in Nominating => j = k
    BY <2>1, <2>2, <2>3 DEF TypeOK, SerialInv, Alone
  <2>5. InSync'
    BY <2>1 DEF SerialInv, InSync, OpenRows
  <2>6. Alone'
    BY <2>1, <2>4 DEF Alone, SerialInv
  <2> QED
    BY <2>5, <2>6 DEF SerialInv
<1>4. ASSUME NEW k \in Calls, StoreTitulaire(k) PROVE SerialInv'
  BY <1>4, SerialStore DEF StoreTitulaire, SerialInv
<1>5. now \in Times /\ now >= now
  BY TitulariatAssumption DEF TypeOK, Times
<1>6. ASSUME NEW k \in Calls, Attribution(k) \/ Refuse(k) \/ Crash(k) PROVE SerialInv'
  BY <1>5, <1>6, SerialElsewhere DEF Attribution, AskAttribution, Search, Attribute,
     AttributeCollision, Refuse, Crash, Go, Forget, TypeOK
<1>7. CASE Tick
  <2>1. now' \in Times /\ now' >= now
    BY <1>7, TitulariatAssumption DEF Tick, TypeOK, Times
  <2> QED
    BY <1>7, <2>1, SerialElsewhere DEF Tick, call
<1>8. CASE UNCHANGED vars
  BY <1>5, <1>8, SerialElsewhere DEF vars, call
<1> QED
  BY <1>1, <1>2, <1>3, <1>4, <1>6, <1>7, <1>8 DEF Next, Nomination

(* "Never concurrently": as long as nominations do not overlap, the rows   *)
(* of the history follow each other and the open one is the titulaire's.   *)
THEOREM SerialHistory == Spec => []InSyncUnlessOverlapped
<1>1. Init => SerialInv
  <2> SUFFICES ASSUME Init PROVE InSync /\ Alone
    BY DEF SerialInv
  <2>1. Alone
    BY DEF Init, Alone, Nominating
  <2>2. CASE history = <<>>
    BY <2>1, <2>2 DEF InSync
  <2>3. CASE history # <<>>
    <3>1. PICK u \in Teachers \cap {titulaire} :
            history = <<[teacher |-> u, debut |-> 0, fin |-> Open]>>
      BY <2>3 DEF Init
    <3>2. /\ DOMAIN history = {1} /\ Len(history) = 1
          /\ history[1].teacher = titulaire /\ history[1].debut = 0 /\ history[1].fin = Open
      BY <3>1
    <3>3. OpenRows = {1}
      BY <3>2 DEF OpenRows
    <3> QED
      BY <2>1, <3>2, <3>3 DEF InSync, Init
  <2> QED
    BY <2>1, <2>2, <2>3
<1>2. TypeOK /\ SerialInv => InSyncUnlessOverlapped
  <2> SUFFICES ASSUME TypeOK, InSync PROVE InSyncUnlessOverlapped
    BY DEF SerialInv, InSyncUnlessOverlapped
  <2>1. history # <<>> => Len(history) \in DOMAIN history
    BY LenProperties, EmptySeq DEF TypeOK
  <2> QED
    BY <2>1 DEF InSync, InSyncUnlessOverlapped
<1> QED
  BY <1>1, <1>2, SerialStep, TypeCorrect, PTL DEF Spec
=============================================================================

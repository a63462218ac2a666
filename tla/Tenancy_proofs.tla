---------------------------- MODULE Tenancy_proofs ----------------------------
(***************************************************************************)
(* Proofs about Provisioning and Tenancy: schools are created whole, and   *)
(* no request sees, writes or acts in another school, for any number of    *)
(* commands, requests, connections and hosts.                              *)
(***************************************************************************)
EXTENDS Tenancy, SequenceTheorems, FiniteSetTheorems, TLAPS

LEMMA Appended ==
  ASSUME NEW S, NEW s \in Seq(S), NEW e \in S
  PROVE  /\ Append(s, e) \in Seq(S)
         /\ Len(s) \in Nat /\ DOMAIN s = 1..Len(s)
         /\ Len(Append(s, e)) = Len(s) + 1
         /\ DOMAIN Append(s, e) = 1..(Len(s) + 1)
         /\ \A i \in 1..Len(s) : Append(s, e)[i] = s[i]
         /\ Append(s, e)[Len(s) + 1] = e
<1>1. Append(s, e) \in Seq(S) /\ Len(s) \in Nat
  OBVIOUS
<1> QED
  BY <1>1, LenProperties

(* The registry is in step: school i has row i of each table, and no two   *)
(* schools have a domain or a code in common.                              *)
RegistryInv ==
  /\ Len(configs) = Len(institutions) /\ \A i \in Schools : configs[i] = i
  /\ Len(years) = Len(institutions) /\ \A i \in Schools : years[i] = i
  /\ Len(users) = Len(institutions) /\ \A i \in Schools : users[i].ecole = i
  /\ \A i, j \in Schools : i # j => /\ institutions[i].domain # institutions[j].domain
                                    /\ institutions[i].code # institutions[j].code
  /\ Schools # {} => strategy

(* A flushed school holds its keys alone, and nobody has them committed. *)
Flushed == {"strategy", "seed", "commit"}
Fresh(k) == \A i \in Schools : /\ institutions[i].domain # want[k].domain
                               /\ institutions[i].code # want[k].code
KeysInv ==
  /\ \A k \in Commands : step[k] \in Flushed => SchoolKeys(want[k]) \subseteq held[k] /\ Fresh(k)
  /\ \A j, k \in Commands : j # k => held[j] \cap held[k] = {}

LEMMA InitProvisioning == ProvisioningInit => ProvisioningTyped /\ RegistryInv /\ KeysInv
<1> SUFFICES ASSUME ProvisioningInit PROVE ProvisioningTyped /\ RegistryInv /\ KeysInv
  OBVIOUS
<1>1. PICK s \in UNION {[1..m -> Wants] : m \in 0..2} :
        /\ \A i, j \in DOMAIN s : s[i].domain = s[j].domain \/ s[i].code = s[j].code => i = j
        /\ institutions = [i \in DOMAIN s |-> [domain |-> s[i].domain, code |-> s[i].code,
                                               custom |-> NoHost, active |-> TRUE]]
        /\ configs = [i \in DOMAIN s |-> i] /\ years = [i \in DOMAIN s |-> i]
        /\ users = [i \in DOMAIN s |-> [ecole |-> i]]
        /\ strategy \in {TRUE, s # <<>>}
  BY DEF ProvisioningInit
<1>2. PICK n \in 0..2 : s \in [1..n -> Wants]
  OBVIOUS
<1>3. /\ n \in Nat /\ DOMAIN s = 1..n
      /\ \A i \in 1..n : s[i] \in Wants /\ i \in Nat \ {0}
  BY <1>2
<1>4. institutions \in Seq(Institutions) /\ Len(institutions) = n /\ Schools = 1..n
  <2>1. institutions \in [1..n -> Institutions]
    BY <1>1, <1>3 DEF Institutions, Wants
  <2> QED
    BY <1>1, <1>3, <2>1 DEF Schools
<1>5. configs \in Seq(Nat) /\ years \in Seq(Nat) /\ Len(configs) = n /\ Len(years) = n
  BY <1>1, <1>3
<1>6. users \in Seq(Users) /\ Len(users) = n
  <2>1. users \in [1..n -> Users]
    BY <1>1, <1>3 DEF Users
  <2> QED
    BY <1>1, <1>3, <2>1
<1>7. strategy \in BOOLEAN /\ (Schools # {} => strategy)
  <2>1. CASE strategy = TRUE
    BY <2>1
  <2>2. CASE strategy = (s # <<>>)
    <3>1. s = <<>> => 1..n = {}
      BY <1>3
    <3> QED
      BY <1>4, <2>2, <3>1
  <2> QED
    BY <1>1, <2>1, <2>2
<1>8. ProvisioningTyped
  <2>1. /\ step \in [Commands -> {"idle"} \cup Working \cup Ends]
        /\ want \in [Commands -> Wants] /\ held \in [Commands -> SUBSET Keys]
    BY DEF ProvisioningInit
  <2>2. edits \in 0..MaxEdits
    BY ProvisioningAssumption DEF ProvisioningInit
  <2> QED
    BY <1>4, <1>5, <1>6, <1>7, <2>1, <2>2 DEF ProvisioningTyped
<1>9. RegistryInv
  BY <1>1, <1>4, <1>5, <1>6, <1>7 DEF RegistryInv
<1>10. KeysInv
  BY DEF ProvisioningInit, KeysInv, Flushed
<1> QED
  BY <1>8, <1>9, <1>10

-----------------------------------------------------------------------------
(* Creating a school. *)
LEMMA Created ==
  ASSUME ProvisioningTyped, NEW k \in Commands, CommitTenant(k)
  PROVE  /\ institutions' \in Seq(Institutions) /\ users' \in Seq(Users)
         /\ configs' \in Seq(Nat) /\ years' \in Seq(Nat)
         /\ Len(institutions) \in Nat /\ Len(institutions') = Len(institutions) + 1
         /\ Schools = 1..Len(institutions) /\ Schools' = 1..(Len(institutions) + 1)
         /\ Len(configs') = Len(configs) + 1 /\ Len(years') = Len(years) + 1
         /\ Len(users') = Len(users) + 1
         /\ \A i \in 1..Len(institutions) : institutions'[i] = institutions[i]
         /\ \A i \in 1..Len(configs) : configs'[i] = configs[i]
         /\ \A i \in 1..Len(years) : years'[i] = years[i]
         /\ \A i \in 1..Len(users) : users'[i] = users[i]
         /\ institutions'[Len(institutions) + 1] = NewSchool(k)
         /\ configs'[Len(configs) + 1] = Len(institutions) + 1
         /\ years'[Len(years) + 1] = Len(institutions) + 1
         /\ users'[Len(users) + 1] = [ecole |-> Len(institutions) + 1]
<1> DEFINE id == Len(institutions) + 1
<1>1. Len(institutions) \in Nat /\ id \in Nat /\ id # 0
  BY LenProperties DEF ProvisioningTyped
<1>2. NewSchool(k) \in Institutions
  BY DEF NewSchool, Institutions, ProvisioningTyped, Wants
<1>3. [ecole |-> id] \in Users
  BY <1>1 DEF Users
<1>4. /\ institutions' = Append(institutions, NewSchool(k))
      /\ configs' = Append(configs, id) /\ years' = Append(years, id)
      /\ users' = Append(users, [ecole |-> id])
  BY DEF CommitTenant
<1>5. /\ institutions \in Seq(Institutions) /\ users \in Seq(Users)
      /\ configs \in Seq(Nat) /\ years \in Seq(Nat)
  BY DEF ProvisioningTyped
<1>6. /\ institutions' \in Seq(Institutions) /\ Len(institutions') = id
      /\ Schools = 1..Len(institutions) /\ Schools' = 1..id
      /\ \A i \in 1..Len(institutions) : institutions'[i] = institutions[i]
      /\ institutions'[id] = NewSchool(k)
  BY <1>2, <1>4, <1>5, Appended DEF Schools
<1>7. /\ configs' \in Seq(Nat) /\ Len(configs') = Len(configs) + 1
      /\ \A i \in 1..Len(configs) : configs'[i] = configs[i]
      /\ configs'[Len(configs) + 1] = id
  BY <1>1, <1>4, <1>5, Appended
<1>8. /\ years' \in Seq(Nat) /\ Len(years') = Len(years) + 1
      /\ \A i \in 1..Len(years) : years'[i] = years[i]
      /\ years'[Len(years) + 1] = id
  BY <1>1, <1>4, <1>5, Appended
<1>9. /\ users' \in Seq(Users) /\ Len(users') = Len(users) + 1
      /\ \A i \in 1..Len(users) : users'[i] = users[i]
      /\ users'[Len(users) + 1] = [ecole |-> id]
  BY <1>3, <1>4, <1>5, Appended
<1> QED
  BY <1>1, <1>6, <1>7, <1>8, <1>9

(* A change made by hand keeps domains and codes. *)
LEMMA EditedSchool ==
  ASSUME ProvisioningTyped, NEW i \in Schools,
         Suspend(i) \/ \E h \in Hosts : SetCustomDomain(i, h)
  PROVE  /\ institutions' \in Seq(Institutions) /\ Len(institutions') = Len(institutions)
         /\ Schools' = Schools
         /\ \A j \in Schools : /\ institutions'[j].domain = institutions[j].domain
                               /\ institutions'[j].code = institutions[j].code
<1>1. /\ institutions \in Seq(Institutions) /\ institutions[i] \in Institutions
      /\ i \in 1..Len(institutions) /\ Schools = 1..Len(institutions)
  BY ElementOfSeq, LenProperties DEF ProvisioningTyped, Schools
<1>2. PICK s \in Institutions : /\ institutions' = [institutions EXCEPT ![i] = s]
                                /\ s.domain = institutions[i].domain
                                /\ s.code = institutions[i].code
  <2>1. CASE Suspend(i)
    <3> DEFINE s == [institutions[i] EXCEPT !.active = ~@]
    <3>1. s \in Institutions /\ s.domain = institutions[i].domain /\ s.code = institutions[i].code
      BY <1>1 DEF Institutions
    <3>2. institutions' = [institutions EXCEPT ![i] = s]
      BY <2>1 DEF Suspend
    <3> QED
      BY <3>1, <3>2
  <2>2. ASSUME NEW h \in Hosts, SetCustomDomain(i, h)
        PROVE  \E s \in Institutions : /\ institutions' = [institutions EXCEPT ![i] = s]
                                       /\ s.domain = institutions[i].domain
                                       /\ s.code = institutions[i].code
    <3> DEFINE s == [institutions[i] EXCEPT !.custom = h]
    <3>1. s \in Institutions /\ s.domain = institutions[i].domain /\ s.code = institutions[i].code
      BY <1>1 DEF Institutions
    <3>2. institutions' = [institutions EXCEPT ![i] = s]
      BY <2>2 DEF SetCustomDomain
    <3> QED
      BY <3>1, <3>2
  <2> QED
    BY <2>1, <2>2
<1>3. /\ institutions' \in Seq(Institutions) /\ Len(institutions') = Len(institutions)
      /\ \A j \in 1..Len(institutions) :
           institutions'[j] = IF j = i THEN s ELSE institutions[j]
  BY <1>1, <1>2, ExceptSeq
<1>4. Schools' = Schools
  BY <1>1, <1>3, LenProperties DEF Schools
<1> QED
  BY <1>1, <1>2, <1>3, <1>4

-----------------------------------------------------------------------------
LEMMA TypedStep ==
  ASSUME ProvisioningTyped, RegistryInv, KeysInv, ProvisioningStep
  PROVE  ProvisioningTyped'
<1> USE DEF Go, Working, Ends
<1>1. ASSUME NEW k \in Commands,
             AskTenant(k) \/ CheckCode(k) \/ SchoolCollision(k) \/ FindStrategy(k)
      PROVE  ProvisioningTyped'
  BY <1>1 DEF AskTenant, CheckCode, SchoolCollision, FindStrategy, ProvisioningTyped, registry
<1>2. ASSUME NEW k \in Commands, FlushInstitution(k) PROVE ProvisioningTyped'
  <2>1. SchoolKeys(want[k]) \subseteq Keys
    BY DEF SchoolKeys, Keys, ProvisioningTyped, Wants
  <2> QED
    BY <1>2, <2>1 DEF FlushInstitution, ProvisioningTyped, registry
<1>3. ASSUME NEW k \in Commands, SeedStrategy(k) PROVE ProvisioningTyped'
  <2>1. held[k] \cup {<<"key", "STANDARD">>} \in SUBSET Keys
    BY DEF Keys, ProvisioningTyped
  <2> QED
    BY <1>3, <2>1 DEF SeedStrategy, ProvisioningTyped, registry
<1>4. ASSUME NEW k \in Commands, StrategyCollision(k) \/ CrashCommand(k)
      PROVE  ProvisioningTyped'
  BY <1>4 DEF StrategyCollision, CrashCommand, ProvisioningTyped, registry
<1>5. ASSUME NEW k \in Commands, CommitTenant(k) PROVE ProvisioningTyped'
  <2>1. /\ institutions' \in Seq(Institutions) /\ users' \in Seq(Users)
        /\ configs' \in Seq(Nat) /\ years' \in Seq(Nat)
    BY <1>5, Created
  <2> QED
    BY <1>5, <2>1 DEF CommitTenant, ProvisioningTyped
<1>6. ASSUME NEW i \in Schools, Suspend(i) \/ \E h \in Hosts : SetCustomDomain(i, h)
      PROVE  ProvisioningTyped'
  <2>1. institutions' \in Seq(Institutions)
    BY <1>6, EditedSchool
  <2>2. edits' \in 0..MaxEdits
    BY <1>6, ProvisioningAssumption DEF Suspend, SetCustomDomain, Edit, ProvisioningTyped
  <2> QED
    BY <1>6, <2>1, <2>2 DEF Suspend, SetCustomDomain, command, ProvisioningTyped
<1> QED
  BY <1>1, <1>2, <1>3, <1>4, <1>5, <1>6 DEF ProvisioningStep, Provision

(* Only the COMMIT of a fresh school adds rows, one to each table. *)
LEMMA RegistryStep ==
  ASSUME ProvisioningTyped, RegistryInv, KeysInv, ProvisioningStep
  PROVE  RegistryInv'
<1>1. ASSUME UNCHANGED registry PROVE RegistryInv'
  BY <1>1 DEF registry, RegistryInv, Schools
<1>2. ASSUME NEW k \in Commands, CommitTenant(k) PROVE RegistryInv'
  <2> DEFINE n == Len(institutions)
  <2>1. n \in Nat /\ Schools = 1..n /\ Schools' = 1..(n + 1)
    BY <1>2, Created
  <2>2. Len(configs) = n /\ Len(years) = n /\ Len(users) = n
    BY DEF RegistryInv
  <2>3. /\ Len(institutions') = n + 1 /\ Len(configs') = n + 1
        /\ Len(years') = n + 1 /\ Len(users') = n + 1
        /\ \A i \in 1..n : /\ institutions'[i] = institutions[i] /\ configs'[i] = configs[i]
                           /\ years'[i] = years[i] /\ users'[i] = users[i]
        /\ institutions'[n + 1] = NewSchool(k) /\ configs'[n + 1] = n + 1
        /\ years'[n + 1] = n + 1 /\ users'[n + 1] = [ecole |-> n + 1]
    BY <1>2, <2>2, Created
  <2> HIDE DEF n
  <2>4. \A i \in 1..(n + 1) : i = n + 1 \/ i \in 1..n
    BY <2>1
  <2>5. \A i \in Schools' : configs'[i] = i /\ years'[i] = i /\ users'[i].ecole = i
    BY <2>1, <2>3, <2>4 DEF RegistryInv
  <2>6. /\ NewSchool(k).domain = want[k].domain /\ NewSchool(k).code = want[k].code
        /\ \A i \in 1..n : /\ institutions[i].domain # want[k].domain
                           /\ institutions[i].code # want[k].code
    <3>1. Fresh(k)
      BY <1>2 DEF CommitTenant, Go, KeysInv, Flushed
    <3> QED
      BY <2>1, <3>1 DEF NewSchool, Fresh
  <2>7. ASSUME NEW i \in Schools', NEW j \in Schools', i # j
        PROVE  /\ institutions'[i].domain # institutions'[j].domain
               /\ institutions'[i].code # institutions'[j].code
    <3>1. CASE i \in 1..n /\ j \in 1..n
      BY <2>1, <2>3, <2>7, <3>1 DEF RegistryInv
    <3>2. CASE i = n + 1 /\ j \in 1..n
      BY <2>3, <2>6, <3>2
    <3>3. CASE j = n + 1 /\ i \in 1..n
      BY <2>3, <2>6, <3>3
    <3> QED
      BY <2>1, <2>4, <2>7, <3>1, <3>2, <3>3
  <2>8. strategy'
    BY <1>2 DEF CommitTenant
  <2> QED
    BY <2>3, <2>5, <2>7, <2>8 DEF RegistryInv
<1>3. ASSUME NEW i \in Schools, Suspend(i) \/ \E h \in Hosts : SetCustomDomain(i, h)
      PROVE  RegistryInv'
  <2>1. UNCHANGED <<configs, years, users, strategy>>
    BY <1>3 DEF Suspend, SetCustomDomain
  <2> QED
    BY <1>3, <2>1, EditedSchool DEF RegistryInv
<1> QED
  BY <1>1, <1>2, <1>3 DEF ProvisioningStep, Provision, AskTenant, CheckCode, FlushInstitution,
     SchoolCollision, FindStrategy, SeedStrategy, StrategyCollision, CrashCommand

(* Keys are kept by a command that takes none, and one that drops its own  *)
(* is no longer flushed.                                                   *)
LEMMA KeysKept ==
  ASSUME ProvisioningTyped, KeysInv, NEW k \in Commands,
         institutions' = institutions, want' = want,
         \A j \in Commands \ {k} : step'[j] = step[j] /\ held'[j] = held[j],
         \/ step'[k] \notin Flushed /\ held'[k] \subseteq held[k]
         \/ step[k] \in Flushed /\ held'[k] = held[k]
  PROVE  KeysInv'
<1>1. ASSUME NEW j \in Commands, step'[j] \in Flushed
      PROVE  SchoolKeys(want[j]) \subseteq held'[j] /\ Fresh(j)
  BY <1>1 DEF KeysInv
<1>2. ASSUME NEW i \in Commands, NEW j \in Commands, i # j PROVE held'[i] \cap held'[j] = {}
  <2>1. held'[i] \subseteq held[i] /\ held'[j] \subseteq held[j]
    OBVIOUS
  <2>2. held[i] \cap held[j] = {}
    BY <1>2 DEF KeysInv
  <2> QED
    BY <2>1, <2>2
<1> QED
  BY <1>1, <1>2 DEF KeysInv, Fresh, Schools

(* Flushed schools have no key in common, so a COMMIT collides with none. *)
LEMMA KeysStep ==
  ASSUME ProvisioningTyped, RegistryInv, KeysInv, ProvisioningStep
  PROVE  KeysInv'
<1> USE DEF Go
<1>1. ASSUME NEW k \in Commands, AskTenant(k) \/ CheckCode(k) \/ SchoolCollision(k)
      PROVE  KeysInv'
  <2>1. /\ institutions' = institutions /\ want' = want /\ held' = held
        /\ step'[k] \notin Flushed
        /\ \A j \in Commands \ {k} : step'[j] = step[j]
    BY <1>1 DEF AskTenant, CheckCode, SchoolCollision, registry, ProvisioningTyped, Flushed
  <2> QED
    BY <2>1, KeysKept
<1>2. ASSUME NEW k \in Commands, FindStrategy(k) PROVE KeysInv'
  <2>1. /\ institutions' = institutions /\ want' = want /\ held' = held
        /\ step[k] \in Flushed
        /\ \A j \in Commands \ {k} : step'[j] = step[j]
    BY <1>2 DEF FindStrategy, registry, ProvisioningTyped, Flushed
  <2> QED
    BY <2>1, KeysKept
<1>3. ASSUME NEW k \in Commands, StrategyCollision(k) \/ CrashCommand(k) PROVE KeysInv'
  <2>1. /\ institutions' = institutions /\ want' = want /\ held'[k] = {}
        /\ step'[k] \notin Flushed
        /\ \A j \in Commands \ {k} : step'[j] = step[j] /\ held'[j] = held[j]
    BY <1>3 DEF StrategyCollision, CrashCommand, registry, ProvisioningTyped, Flushed
  <2> QED
    BY <2>1, KeysKept
<1>4. ASSUME NEW k \in Commands, FlushInstitution(k) PROVE KeysInv'
  <2>1. /\ institutions' = institutions /\ want' = want
        /\ held'[k] = SchoolKeys(want[k])
        /\ \A j \in Commands \ {k} : step'[j] = step[j] /\ held'[j] = held[j]
    BY <1>4 DEF FlushInstitution, registry, ProvisioningTyped
  <2>2. \A j \in Commands \ {k} : SchoolKeys(want[k]) \cap held[j] = {}
    BY <1>4 DEF FlushInstitution, HeldByOthers
  <2>3. Fresh(k)
    BY <1>4 DEF FlushInstitution, DomainTaken, CodeTaken, Fresh
  <2>4. \A j \in Commands : step'[j] \in Flushed => SchoolKeys(want[j]) \subseteq held'[j] /\ Fresh(j)
    BY <2>1, <2>3 DEF KeysInv
  <2>5. \A i, j \in Commands : i # j => held'[i] \cap held'[j] = {}
    BY <2>1, <2>2 DEF KeysInv
  <2> QED
    BY <2>1, <2>4, <2>5 DEF KeysInv, Fresh, Schools
<1>5. ASSUME NEW k \in Commands, SeedStrategy(k) PROVE KeysInv'
  <2>1. /\ institutions' = institutions /\ want' = want /\ step[k] \in Flushed
        /\ held'[k] = held[k] \cup {<<"key", "STANDARD">>}
        /\ \A j \in Commands \ {k} : step'[j] = step[j] /\ held'[j] = held[j]
    BY <1>5 DEF SeedStrategy, registry, ProvisioningTyped, Flushed
  <2>2. \A j \in Commands \ {k} : <<"key", "STANDARD">> \notin held[j]
    BY <1>5 DEF SeedStrategy, HeldByOthers
  <2>3. \A j \in Commands : step'[j] \in Flushed => SchoolKeys(want[j]) \subseteq held'[j] /\ Fresh(j)
    BY <2>1 DEF KeysInv
  <2>4. \A i, j \in Commands : i # j => held'[i] \cap held'[j] = {}
    BY <2>1, <2>2 DEF KeysInv
  <2> QED
    BY <2>1, <2>3, <2>4 DEF KeysInv, Fresh, Schools
<1>6. ASSUME NEW k \in Commands, CommitTenant(k) PROVE KeysInv'
  <2>1. /\ want' = want /\ held'[k] = {} /\ step[k] \in Flushed /\ step'[k] \notin Flushed
        /\ \A j \in Commands \ {k} : step'[j] = step[j] /\ held'[j] = held[j]
    BY <1>6 DEF CommitTenant, ProvisioningTyped, Flushed
  <2>2. ASSUME NEW j \in Commands, step'[j] \in Flushed
        PROVE  SchoolKeys(want[j]) \subseteq held'[j]
    BY <2>1, <2>2 DEF KeysInv
  <2>3. ASSUME NEW j \in Commands, step'[j] \in Flushed, NEW i \in Schools'
        PROVE  /\ institutions'[i].domain # want[j].domain
               /\ institutions'[i].code # want[j].code
    <3>1. j # k /\ step[j] \in Flushed
      BY <2>1, <2>3
    <3>2. held[j] \cap held[k] = {} /\ Fresh(j)
      BY <3>1 DEF KeysInv
    <3>3. SchoolKeys(want[j]) \cap SchoolKeys(want[k]) = {}
      BY <2>1, <3>1, <3>2 DEF KeysInv
    <3>4. want[j].domain # want[k].domain /\ want[j].code # want[k].code
      BY <3>3 DEF SchoolKeys
    <3>5. \/ institutions'[i] = NewSchool(k)
          \/ i \in Schools /\ institutions'[i] = institutions[i]
      <4>1. /\ Schools = 1..Len(institutions) /\ Schools' = 1..(Len(institutions) + 1)
            /\ \A l \in 1..Len(institutions) : institutions'[l] = institutions[l]
            /\ institutions'[Len(institutions) + 1] = NewSchool(k) /\ Len(institutions) \in Nat
        BY <1>6, Created
      <4> QED
        BY <4>1
    <3> QED
      BY <3>2, <3>4, <3>5 DEF Fresh, NewSchool
  <2>4. \A i, j \in Commands : i # j => held'[i] \cap held'[j] = {}
    BY <2>1 DEF KeysInv
  <2>5. \A j \in Commands : step'[j] \in Flushed => Fresh(j)'
    BY <2>1, <2>3 DEF Fresh
  <2> QED
    BY <2>1, <2>2, <2>4, <2>5 DEF KeysInv
<1>7. ASSUME NEW i \in Schools, Suspend(i) \/ \E h \in Hosts : SetCustomDomain(i, h)
      PROVE  KeysInv'
  <2>1. step' = step /\ want' = want /\ held' = held
    BY <1>7 DEF Suspend, SetCustomDomain, command
  <2>2. /\ Schools' = Schools
        /\ \A j \in Schools : /\ institutions'[j].domain = institutions[j].domain
                              /\ institutions'[j].code = institutions[j].code
    BY <1>7, EditedSchool
  <2> QED
    BY <2>1, <2>2 DEF KeysInv, Fresh
<1> QED
  BY <1>1, <1>2, <1>3, <1>4, <1>5, <1>6, <1>7 DEF ProvisioningStep, Provision

-----------------------------------------------------------------------------
ProvisioningInv == ProvisioningTyped /\ RegistryInv /\ KeysInv

(* Accounts and schools are only ever added. *)
Grown ==
  /\ Len(institutions) \in Nat /\ Len(institutions') \in Nat /\ Len(users) \in Nat
  /\ Len(users') \in Nat
  /\ Len(institutions) <= Len(institutions') /\ Len(users) <= Len(users')
  /\ Schools = 1..Len(institutions) /\ Schools' = 1..Len(institutions')
  /\ DOMAIN users = 1..Len(users) /\ DOMAIN users' = 1..Len(users')
  /\ \A u \in DOMAIN users : users'[u] = users[u]

LEMMA ProvisioningKept ==
  ASSUME ProvisioningInv, [Next]_vars
  PROVE  ProvisioningInv'
<1>1. CASE UNCHANGED provisioning
  BY <1>1 DEF provisioning, registry, command, ProvisioningInv, ProvisioningTyped, RegistryInv,
     KeysInv, Schools, Fresh
<1>2. CASE ProvisioningStep
  BY <1>2, TypedStep, RegistryStep, KeysStep DEF ProvisioningInv
<1>3. ASSUME NEW r \in Requests, Handling(r) PROVE UNCHANGED provisioning
  BY <1>3 DEF Handling, Arrive, Resolve, NotFound, LoadUser, RejectSession, Save, RollBack, Answer, Begin,
     Login
<1> QED
  BY <1>1, <1>2, <1>3 DEF Next, vars

LEMMA RegistryGrows ==
  ASSUME ProvisioningInv, ProvisioningStep
  PROVE  Grown
<1>0. /\ Len(institutions) \in Nat /\ Schools = 1..Len(institutions)
      /\ Len(users) \in Nat /\ DOMAIN users = 1..Len(users)
  BY LenProperties DEF ProvisioningInv, ProvisioningTyped, Schools
<1>1. ASSUME UNCHANGED registry PROVE Grown
  BY <1>0, <1>1 DEF Grown, registry, Schools
<1>2. ASSUME NEW k \in Commands, CommitTenant(k) PROVE Grown
  <2>1. ProvisioningTyped /\ users' \in Seq(Users)
    BY <1>2, Created DEF ProvisioningInv
  <2>2. Len(users') \in Nat /\ DOMAIN users' = 1..Len(users')
    BY <2>1, LenProperties
  <2>3. /\ Len(institutions') = Len(institutions) + 1 /\ Schools' = 1..(Len(institutions) + 1)
        /\ Len(users') = Len(users) + 1
        /\ \A u \in 1..Len(users) : users'[u] = users[u]
    BY <1>2, <2>1, Created
  <2> QED
    BY <1>0, <2>2, <2>3 DEF Grown
<1>3. ASSUME NEW i \in Schools, Suspend(i) \/ \E h \in Hosts : SetCustomDomain(i, h)
      PROVE  Grown
  <2>1. users' = users
    BY <1>3 DEF Suspend, SetCustomDomain
  <2>2. Len(institutions') = Len(institutions) /\ Schools' = Schools
    BY <1>3, EditedSchool DEF ProvisioningInv
  <2> QED
    BY <1>0, <2>1, <2>2 DEF Grown
<1> QED
  BY <1>1, <1>2, <1>3 DEF ProvisioningStep, Provision, AskTenant, CheckCode, FlushInstitution,
     SchoolCollision, FindStrategy, SeedStrategy, StrategyCollision, CrashCommand

(* TypeOK is invariant: accounts, schools and connections that requests,   *)
(* rows and the audit log name exist (Tenancy).                            *)
THEOREM TypeCorrect == Spec => []TypeOK
<1>1. Init => TypeOK /\ ProvisioningInv
  <2> SUFFICES ASSUME Init PROVE TypeOK /\ ProvisioningInv
    OBVIOUS
  <2>1. ProvisioningInv
    BY InitProvisioning DEF Init, ProvisioningInv
  <2>2. Len(institutions) \in Nat /\ Len(users) \in Nat
    BY <2>1, LenProperties DEF ProvisioningInv, ProvisioningTyped
  <2>3. 0 \in 0..Len(institutions) /\ 0 \in 0..Len(users)
    BY <2>2
  <2> QED
    BY <2>1, <2>3 DEF Init, TypeOK, ProvisioningInv
<1>2. ASSUME TypeOK, ProvisioningInv, [Next]_vars PROVE TypeOK' /\ ProvisioningInv'
  <2>1. ProvisioningInv'
    BY <1>2, ProvisioningKept
  <2>2. CASE UNCHANGED vars
    BY <1>2, <2>1, <2>2 DEF vars, provisioning, registry, request, TypeOK, Schools, ProvisioningInv
  <2>3. CASE ProvisioningStep /\ UNCHANGED <<enforced, setting, request, rows, audits>>
    <3>1. Grown
      BY <1>2, <2>3, RegistryGrows
    <3>2. /\ 0..Len(institutions) \subseteq 0..Len(institutions')
          /\ 0..Len(users) \subseteq 0..Len(users')
          /\ Schools \subseteq Schools' /\ DOMAIN users \subseteq DOMAIN users'
      BY <3>1 DEF Grown
    <3>3. /\ rows \subseteq [ecole : Schools', by : DOMAIN users']
          /\ audits \subseteq [ecole : Schools', actor : DOMAIN users']
      BY <1>2, <3>2 DEF TypeOK
    <3>4. /\ setting \in [Connections -> 0..Len(institutions')]
          /\ cookie \in [Requests -> 0..Len(users')] /\ actor \in [Requests -> 0..Len(users')]
          /\ tenant \in [Requests -> 0..Len(institutions')]
          /\ local \in [Requests -> 0..Len(institutions')]
      BY <1>2, <3>2 DEF TypeOK
    <3> QED
      BY <1>2, <2>1, <2>3, <3>3, <3>4 DEF TypeOK, request, ProvisioningInv
  <2>4. ASSUME NEW r \in Requests, Handling(r) PROVE TypeOK'
    <3>1. UNCHANGED provisioning /\ UNCHANGED enforced
      BY <2>4 DEF Handling, Arrive, Resolve, NotFound, LoadUser, RejectSession, Save, RollBack, Answer,
         Begin, Login
    <3>2. UNCHANGED <<institutions, users, Schools>>
      BY <3>1 DEF provisioning, registry, Schools
    <3>3. /\ Len(institutions) \in Nat /\ Schools = 1..Len(institutions)
          /\ Len(users) \in Nat /\ DOMAIN users = 1..Len(users)
      BY <1>2, LenProperties DEF ProvisioningInv, ProvisioningTyped, Schools
    <3>4. 0 \in 0..Len(institutions) /\ 0 \in 0..Len(users)
      BY <3>3
    <3>5. at' \in [Requests -> {"idle", "load", "handle", "again", "later", "done"}]
      BY <1>2, <2>4 DEF TypeOK, Handling, Arrive, Resolve, NotFound, LoadUser, RejectSession, Save, RollBack,
         Answer, Begin, Login, Move, Goes, End
    <3>6. \A h \in Hosts \cup PlatformHosts : Matches(h) \subseteq 0..Len(institutions)
      BY <3>3 DEF Matches
    <3>7. \A u \in Loaded(r) : u \in DOMAIN users
      BY DEF Loaded
    <3>8. cookie' \in [Requests -> 0..Len(users)]
      <4>1. CASE \E u \in DOMAIN users : Login(r, u)
        BY <1>2, <3>3, <4>1 DEF TypeOK, Login
      <4> QED
        BY <1>2, <2>4, <3>4, <4>1 DEF TypeOK, Handling, Arrive, Resolve, NotFound, LoadUser,
           RejectSession, Save, RollBack, Answer, Begin, End
    <3>9. actor' \in [Requests -> 0..Len(users)]
      <4>1. CASE LoadUser(r)
        BY <1>2, <3>3, <3>4, <3>7, <4>1 DEF TypeOK, LoadUser
      <4>2. CASE \E u \in DOMAIN users : Login(r, u)
        BY <1>2, <3>3, <4>2 DEF TypeOK, Login
      <4> QED
        BY <1>2, <2>4, <3>4, <4>1, <4>2 DEF TypeOK, Handling, Arrive, Resolve, NotFound,
           RejectSession, Save, RollBack, Answer, Begin, End
    <3>10. tenant' \in [Requests -> 0..Len(institutions)]
      BY <1>2, <2>4, <3>3, <3>4, <3>6 DEF TypeOK, Handling, Arrive, Resolve, NotFound, LoadUser,
         RejectSession, Save, RollBack, Answer, Begin, Login, End
    <3>11. conn' \in [Requests -> Connections \cup {NoConnection}]
      BY <1>2, <2>4 DEF TypeOK, Handling, Arrive, Resolve, NotFound, LoadUser, RejectSession, Save, RollBack,
         Answer, Begin, Login, Take, Free, Commit, Release
    <3>12. /\ local' \in [Requests -> 0..Len(institutions)]
           /\ setting' \in [Connections -> 0..Len(institutions)]
      <4>1. CASE UNCHANGED local /\ UNCHANGED setting
        BY <1>2, <4>1 DEF TypeOK
      <4>2. CASE Release(r) /\ UNCHANGED setting
        BY <1>2, <3>4, <4>2 DEF TypeOK, Release
      <4>3. CASE Commit(r)
        BY <1>2, <3>4, <4>3 DEF TypeOK, Release, Commit
      <4>4. ASSUME NEW c \in Connections, NEW u, NEW i \in 0..Len(institutions),
                   Resolve(r, c, u, i)
            PROVE  /\ local' \in [Requests -> 0..Len(institutions)]
                   /\ setting' \in [Connections -> 0..Len(institutions)]
        BY <1>2, <4>4 DEF TypeOK, Resolve
      <4>5. ASSUME NEW c \in Connections, Begin(r, c)
            PROVE  /\ local' \in [Requests -> 0..Len(institutions)]
                   /\ setting' \in [Connections -> 0..Len(institutions)]
        BY <1>2, <4>5 DEF TypeOK, Begin
      <4>6. ASSUME NEW c \in Connections, NEW u, NEW h \in Hosts \cup PlatformHosts,
                   Arrive(r, h, c, u)
            PROVE  \E i \in 0..Len(institutions) : Resolve(r, c, u, i)
        BY <3>4, <3>6, <4>6 DEF Arrive
      <4> QED
        BY <2>4, <4>1, <4>2, <4>3, <4>4, <4>5, <4>6 DEF Handling, NotFound, LoadUser,
           RejectSession, Save, RollBack, Answer, Login
    <3>13. rows' \subseteq [ecole : Schools, by : DOMAIN users]
      <4>1. CASE Save(r)
        <5>1. tenant[r] \in Schools /\ actor[r] \in DOMAIN users
          BY <1>2, <3>3, <4>1 DEF Save, TypeOK
        <5> QED
          BY <1>2, <4>1, <5>1 DEF Save, TypeOK
      <4> QED
        BY <1>2, <2>4, <4>1 DEF TypeOK, Handling, Arrive, Resolve, NotFound, LoadUser,
           RejectSession, RollBack, Answer, Begin, Login
    <3>14. audits' \subseteq [ecole : Schools, actor : DOMAIN users]
      <4>1. CASE RejectSession(r)
        <5>1. ASSUME NEW u \in Foreign(r) PROVE tenant[r] \in Schools /\ u \in DOMAIN users
          BY <1>2, <3>3, <3>7 DEF Foreign, TypeOK
        <5> QED
          BY <1>2, <4>1, <5>1 DEF RejectSession, TypeOK
      <4> QED
        BY <1>2, <2>4, <4>1 DEF TypeOK, Handling, Arrive, Resolve, NotFound, LoadUser, Save, RollBack,
           Answer, Begin, Login
    <3> QED
      BY <1>2, <2>1, <3>1, <3>2, <3>5, <3>8, <3>9, <3>10, <3>11, <3>12, <3>13, <3>14
         DEF TypeOK, ProvisioningInv
  <2> QED
    BY <1>2, <2>1, <2>2, <2>3, <2>4 DEF Next
<1> QED
  BY <1>1, <1>2, PTL DEF Spec

LEMMA ProvisioningAlways == Spec => []ProvisioningInv
<1>1. Init => ProvisioningInv
  BY InitProvisioning DEF Init, ProvisioningInv
<1>2. ProvisioningInv /\ [Next]_vars => ProvisioningInv'
  BY ProvisioningKept
<1> QED
  BY <1>1, <1>2, PTL DEF Spec

(* A school that can be resolved is whole and alone on its domain and its  *)
(* code, whatever commands overlap, collide or die (provision_tenant).     *)
THEOREM WholeSchools == Spec => []SchoolsWhole
<1>1. ASSUME ProvisioningInv PROVE SchoolsWhole
  <2>1. /\ Schools = 1..Len(institutions) /\ DOMAIN configs = 1..Len(configs)
        /\ DOMAIN years = 1..Len(years) /\ DOMAIN users = 1..Len(users)
    BY <1>1, LenProperties DEF ProvisioningInv, ProvisioningTyped, Schools
  <2>2. DOMAIN configs = Schools /\ DOMAIN years = Schools /\ DOMAIN users = Schools
    BY <1>1, <2>1 DEF ProvisioningInv, RegistryInv
  <2>3. ASSUME NEW i \in Schools
        PROVE  /\ Cardinality(Exported(configs, i)) = 1 /\ Cardinality(Exported(years, i)) = 1
               /\ \E u \in DOMAIN users : users[u].ecole = i
               /\ \A j \in Schools \ {i} : /\ institutions[i].domain # institutions[j].domain
                                           /\ institutions[i].code # institutions[j].code
    <3>1. Exported(configs, i) = {i} /\ Exported(years, i) = {i}
      BY <1>1, <2>2 DEF Exported, ProvisioningInv, RegistryInv
    <3>2. users[i].ecole = i
      BY <1>1 DEF ProvisioningInv, RegistryInv
    <3>3. \A j \in Schools \ {i} : /\ institutions[i].domain # institutions[j].domain
                                   /\ institutions[i].code # institutions[j].code
      BY <1>1 DEF ProvisioningInv, RegistryInv
    <3> QED
      BY <2>2, <3>1, <3>2, <3>3, FS_Singleton
  <2>4. \A u \in DOMAIN users : users[u].ecole \in Schools
    BY <1>1, <2>2 DEF ProvisioningInv, RegistryInv
  <2>5. Schools # {} => strategy
    BY <1>1 DEF ProvisioningInv, RegistryInv
  <2> QED
    BY <2>3, <2>4, <2>5 DEF SchoolsWhole
<1> QED
  BY <1>1, ProvisioningAlways, PTL

-----------------------------------------------------------------------------
(* What isolation rests on: in its first transaction the variable of a     *)
(* request's transaction is its school, nobody is known before the session *)
(* is compared, and then only the account the session names, of the school.*)
Scoped(r) ==
  /\ at[r] \in {"load", "handle"} => local[r] = tenant[r]
  /\ at[r] \in {"idle", "load"} => actor[r] = 0
  /\ tenant[r] # 0 /\ actor[r] # 0 => users[actor[r]].ecole = tenant[r]
  /\ Honoured(r)

Recorded ==
  /\ \A w \in rows : users[w.by].ecole = w.ecole
  /\ \A a \in audits : users[a.actor].ecole # a.ecole

IsolationInv == (\A r \in Requests : Scoped(r)) /\ Recorded

LEMMA IsolationStep ==
  ASSUME TypeOK, ProvisioningInv, IsolationInv, [Next]_vars
  PROVE  IsolationInv'
<1>1. CASE UNCHANGED vars
  BY <1>1 DEF vars, provisioning, registry, request, IsolationInv, Scoped, Honoured, Recorded
<1>2. CASE ProvisioningStep /\ UNCHANGED <<enforced, setting, request, rows, audits>>
  <2>1. \A u \in DOMAIN users : users'[u] = users[u]
    BY <1>2, RegistryGrows DEF Grown
  <2>2. DOMAIN users = 1..Len(users) /\ Len(users) \in Nat
    BY LenProperties DEF ProvisioningInv, ProvisioningTyped
  <2>3. ASSUME NEW r \in Requests PROVE Scoped(r)'
    <3>1. /\ actor[r] # 0 => actor[r] \in DOMAIN users
          /\ cookie[r] # 0 => cookie[r] \in DOMAIN users
      BY <2>2 DEF TypeOK
    <3> QED
      BY <1>2, <2>1, <3>1 DEF IsolationInv, Scoped, Honoured, request
  <2>4. Recorded'
    BY <1>2, <2>1 DEF IsolationInv, Recorded, TypeOK
  <2> QED
    BY <2>3, <2>4 DEF IsolationInv
<1>3. ASSUME NEW r \in Requests, Handling(r) PROVE IsolationInv'
  <2>1. users' = users /\ enforced' = enforced
    BY <1>3 DEF Handling, Arrive, Resolve, NotFound, LoadUser, RejectSession, Save, RollBack, Answer, Begin,
       Login, provisioning, registry
  <2>2. ASSUME NEW q \in Requests, q # r PROVE Scoped(q)'
    <3>1. /\ at'[q] = at[q] /\ tenant'[q] = tenant[q] /\ actor'[q] = actor[q]
          /\ local'[q] = local[q] /\ cookie'[q] = cookie[q]
      BY <1>3, <2>2 DEF TypeOK, Handling, Arrive, Resolve, NotFound, LoadUser, RejectSession, Save, RollBack,
         Answer, Begin, Login, Move, Goes, End, Commit, Release
    <3> QED
      BY <2>1, <3>1 DEF IsolationInv, Scoped, Honoured
  <2> USE DEF TypeOK, Move, Goes, End
  <2>3. ASSUME NEW c \in Connections, NEW u, NEW i, Resolve(r, c, u, i)
        PROVE  Scoped(r)' /\ UNCHANGED <<rows, audits>>
    BY <2>3 DEF Resolve, IsolationInv, Scoped, Honoured
  <2>4. ASSUME NEW h \in Hosts, NotFound(r, h) PROVE Scoped(r)' /\ UNCHANGED <<rows, audits>>
    BY <2>4 DEF NotFound, Scoped, Honoured
  <2>5. CASE LoadUser(r)
    <3>1. PICK u \in IF Loaded(r) = {} THEN {0} ELSE Loaded(r) : actor' = [actor EXCEPT ![r] = u]
      BY <2>5 DEF LoadUser
    <3>2. u # 0 => u \in Loaded(r) /\ u \notin Foreign(r)
      BY <2>5, <3>1 DEF LoadUser
    <3>3. tenant[r] # 0 /\ u # 0 => users[u].ecole = tenant[r]
      BY <3>2 DEF Foreign
    <3>5. Honoured(r)'
      <4>1. /\ at[r] = "load" /\ local[r] = tenant[r] /\ actor'[r] = u
            /\ tenant' = tenant /\ cookie' = cookie
        BY <2>5, <3>1 DEF LoadUser, IsolationInv, Scoped
      <4>2. SUFFICES ASSUME tenant[r] # 0, cookie[r] # 0
                     PROVE  IF users[cookie[r]].ecole = tenant[r] THEN u = cookie[r]
                                                                  ELSE enforced /\ u = 0
        BY <2>1, <4>1 DEF Honoured
      <4>3. cookie[r] \in DOMAIN users
        <5>1. DOMAIN users = 1..Len(users) /\ Len(users) \in Nat
          BY LenProperties DEF ProvisioningInv, ProvisioningTyped
        <5> QED
          BY <4>2, <5>1
      <4>4. CASE users[cookie[r]].ecole = tenant[r]
        <5>1. Loaded(r) = {cookie[r]}
          BY <4>1, <4>2, <4>3, <4>4 DEF Loaded, Policy
        <5> QED
          BY <3>1, <4>4, <5>1
      <4>5. CASE users[cookie[r]].ecole # tenant[r]
        <5>1. Loaded(r) = {}
          BY <2>5, <4>2, <4>5 DEF LoadUser, Foreign, Loaded
        <5>2. enforced
          BY <4>3, <5>1 DEF Loaded, Policy
        <5> QED
          BY <3>1, <4>5, <5>1, <5>2
      <4> QED
        BY <4>4, <4>5
    <3>4. Scoped(r)'
      BY <2>1, <2>5, <3>1, <3>3, <3>5 DEF LoadUser, IsolationInv, Scoped
    <3> QED
      BY <2>1, <2>2, <2>5, <3>4 DEF LoadUser, IsolationInv, Recorded
  <2>6. CASE RejectSession(r)
    <3>1. PICK u \in Foreign(r) : audits' = audits \cup {[ecole |-> tenant[r], actor |-> u]}
      BY <2>6 DEF RejectSession
    <3>2. Scoped(r)' /\ UNCHANGED rows
      BY <2>6 DEF RejectSession, Scoped, Honoured
    <3> QED
      BY <2>1, <2>2, <3>1, <3>2 DEF IsolationInv, Recorded, Foreign
  <2>7. CASE Save(r)
    <3>1. Scoped(r)' /\ UNCHANGED audits
      BY <2>1, <2>7 DEF Save, IsolationInv, Scoped, Honoured
    <3>2. /\ rows' \in {rows, rows \cup {[ecole |-> tenant[r], by |-> actor[r]]}}
          /\ users[actor[r]].ecole = tenant[r]
      BY <2>7 DEF Save, IsolationInv, Scoped
    <3> QED
      BY <2>1, <2>2, <3>1, <3>2 DEF IsolationInv, Recorded
  <2>8. CASE Answer(r)
    <3>1. Scoped(r)' /\ UNCHANGED <<rows, audits>>
      BY <2>8 DEF Answer, Scoped, Honoured
    <3> QED
      BY <2>1, <2>2, <3>1 DEF IsolationInv, Recorded
  <2>9. ASSUME NEW c \in Connections, Begin(r, c) PROVE Scoped(r)' /\ UNCHANGED <<rows, audits>>
    BY <2>1, <2>9 DEF Begin, IsolationInv, Scoped, Honoured
  <2>10. ASSUME NEW u \in DOMAIN users, Login(r, u) PROVE Scoped(r)' /\ UNCHANGED <<rows, audits>>
    <3>1. users[u].ecole = tenant[r]
      BY <2>10 DEF Login, Visible, Criterion
    <3> QED
      BY <2>1, <2>10, <3>1 DEF Login, IsolationInv, Scoped, Honoured
  <2>11. CASE RollBack(r)
    <3>1. Scoped(r)' /\ UNCHANGED <<rows, audits>>
      BY <2>1, <2>11 DEF RollBack, IsolationInv, Scoped, Honoured
    <3> QED
      BY <2>1, <2>2, <3>1 DEF IsolationInv, Recorded
  <2>12. CASE Scoped(r)' /\ UNCHANGED <<rows, audits>>
    BY <2>1, <2>2, <2>12 DEF IsolationInv, Recorded
  <2> QED
    BY <1>3, <2>3, <2>4, <2>5, <2>6, <2>7, <2>8, <2>9, <2>10, <2>11, <2>12 DEF Handling, Arrive
<1> QED
  BY <1>1, <1>2, <1>3 DEF Next

LEMMA IsolationAlways == Spec => [](TypeOK /\ IsolationInv)
<1>1. Init => IsolationInv
  BY DEF Init, IsolationInv, Scoped, Honoured, Recorded
<1>2. TypeOK /\ ProvisioningInv /\ IsolationInv /\ [Next]_vars => IsolationInv'
  BY IsolationStep
<1> QED
  BY <1>1, <1>2, TypeCorrect, ProvisioningAlways, PTL DEF Spec

(* A query returns rows of the request's own school only, and what is      *)
(* written belongs to a school of its author (_apply_tenant_isolation).    *)
THEOREM RowsStayHome == Spec => []OwnRowsOnly
<1>1. IsolationInv => OwnRowsOnly
  BY DEF IsolationInv, Recorded, OwnRowsOnly, Visible, OwnAccounts, Criterion
<1> QED
  BY <1>1, IsolationAlways, PTL

(* A session of the school is honoured to the end of the request, and one  *)
(* of another school is hidden by the policies or refused, for any number  *)
(* of requests and connections (load_user, resolve_tenant).                *)
THEOREM SessionsAreHonoured == Spec => []SessionsHonoured
<1>1. IsolationInv => SessionsHonoured
  BY DEF IsolationInv, Scoped, SessionsHonoured
<1> QED
  BY <1>1, IsolationAlways, PTL

(* Nobody acts in a school that is not his own, and the log of a school    *)
(* holds only real divergences (_reject_cross_tenant_session).             *)
THEOREM SessionsKept == Spec => []SessionsStayHome
<1>1. IsolationInv => SessionsStayHome
  BY DEF IsolationInv, Scoped, Recorded, SessionsStayHome
<1> QED
  BY <1>1, IsolationAlways, PTL
=============================================================================

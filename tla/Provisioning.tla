---------------------------- MODULE Provisioning ----------------------------
(***************************************************************************)
(* The registry of schools (institutions) and `flask tenant create`        *)
(* (provision_tenant): a school, its configuration, its first academic     *)
(* year and its direction account, in one transaction.                     *)
(*                                                                         *)
(* Commands may run at once, each in a process and a transaction of its    *)
(* own (READ COMMITTED), with the role that owns the tables.  A flushed    *)
(* row holds its unique keys until the COMMIT: another insert of one of    *)
(* them waits, and fails if the holder commits.  A school is named by its  *)
(* id, the index in institutions.                                          *)
(***************************************************************************)
EXTENDS Naturals, Sequences, FiniteSets

CONSTANTS
  Commands,   \* runs of `flask tenant create`
  Hosts,      \* domains of schools
  ShortCodes, \* short codes
  NoHost,     \* custom_domain NULL
  MaxEdits    \* bound on the changes made by hand in institutions

VARIABLES
  institutions,  \* committed schools
  configs,       \* committed tenant_configs, by their school
  years,         \* committed academic_years, by their school
  users,         \* committed users; the first of a school is its direction
  strategy,      \* STANDARD is in calculation_strategies
  step,          \* step[k]: where command k is
  want,          \* want[k]: the domain and the code k was given
  held,          \* held[k]: the unique keys of the rows k has flushed
  edits          \* how many changes were made by hand

registry == <<institutions, configs, years, users, strategy>>
command == <<step, want, held>>
provisioning == <<registry, command, edits>>

Institutions == [domain : Hosts, code : ShortCodes, custom : Hosts \cup {NoHost},
                 active : BOOLEAN]
Users == [ecole : Nat \ {0}]
Wants == [domain : Hosts, code : ShortCodes]
Keys == ({"domain"} \X Hosts) \cup ({"short_code"} \X ShortCodes) \cup {<<"key", "STANDARD">>}
Working == {"code", "insert", "strategy", "seed", "commit"}
Ends == {"created", "refused", "failed"}

ASSUME ProvisioningAssumption == NoHost \notin Hosts /\ MaxEdits \in Nat

ProvisioningTyped ==
  /\ institutions \in Seq(Institutions)
  /\ configs \in Seq(Nat) /\ years \in Seq(Nat)
  /\ users \in Seq(Users)
  /\ strategy \in BOOLEAN
  /\ step \in [Commands -> {"idle"} \cup Working \cup Ends]
  /\ want \in [Commands -> Wants]
  /\ held \in [Commands -> SUBSET Keys]
  /\ edits \in 0..MaxEdits

Schools == DOMAIN institutions

(* Schools already provisioned, each of a domain and a code of its own. *)
ProvisioningInit ==
  /\ \E s \in UNION {[1..n -> Wants] : n \in 0..2} :
       /\ \A i, j \in DOMAIN s : s[i].domain = s[j].domain \/ s[i].code = s[j].code => i = j
       /\ institutions = [i \in DOMAIN s |-> [domain |-> s[i].domain, code |-> s[i].code,
                                              custom |-> NoHost, active |-> TRUE]]
       /\ configs = [i \in DOMAIN s |-> i] /\ years = [i \in DOMAIN s |-> i]
       /\ users = [i \in DOMAIN s |-> [ecole |-> i]]
       /\ strategy \in {TRUE, s # <<>>}
  /\ step = [k \in Commands |-> "idle"]
  /\ want \in [Commands -> Wants]
  /\ held = [k \in Commands |-> {}]
  /\ edits = 0

-----------------------------------------------------------------------------
Go(k, from, to) == step[k] = from /\ step' = [step EXCEPT ![k] = to]
DomainTaken(d) == \E i \in Schools : institutions[i].domain = d
CodeTaken(c) == \E i \in Schools : institutions[i].code = c
HeldByOthers(k) == UNION {held[j] : j \in Commands \ {k}}
SchoolKeys(w) == {<<"domain", w.domain>>, <<"short_code", w.code>>}

(* "domain already in use": custom domains are not looked at. *)
AskTenant(k) ==
  /\ Go(k, "idle", IF DomainTaken(want[k].domain) THEN "refused" ELSE "code")
  /\ UNCHANGED <<registry, want, held, edits>>

(* "short_code already in use" *)
CheckCode(k) ==
  /\ Go(k, "code", IF CodeTaken(want[k].code) THEN "refused" ELSE "insert")
  /\ UNCHANGED <<registry, want, held, edits>>

(* The flush that assigns institution.id. *)
FlushInstitution(k) ==
  /\ SchoolKeys(want[k]) \cap HeldByOthers(k) = {}
  /\ ~DomainTaken(want[k].domain) /\ ~CodeTaken(want[k].code)
  /\ Go(k, "insert", "strategy")
  /\ held' = [held EXCEPT ![k] = SchoolKeys(want[k])]
  /\ UNCHANGED <<registry, want, edits>>

(* The school was created since the checks: an IntegrityError, which no    *)
(* one catches.                                                            *)
SchoolCollision(k) ==
  /\ DomainTaken(want[k].domain) \/ CodeTaken(want[k].code)
  /\ Go(k, "insert", "failed")
  /\ UNCHANGED <<registry, want, held, edits>>

(* _ensure_standard_strategy *)
FindStrategy(k) ==
  /\ Go(k, "strategy", IF strategy THEN "commit" ELSE "seed")
  /\ UNCHANGED <<registry, want, held, edits>>

SeedStrategy(k) ==
  /\ <<"key", "STANDARD">> \notin HeldByOthers(k)
  /\ ~strategy
  /\ Go(k, "seed", "commit")
  /\ held' = [held EXCEPT ![k] = @ \cup {<<"key", "STANDARD">>}]
  /\ UNCHANGED <<registry, want, edits>>

(* Another command created the strategy since: an IntegrityError. *)
StrategyCollision(k) ==
  /\ strategy
  /\ Go(k, "seed", "failed")
  /\ held' = [held EXCEPT ![k] = {}]
  /\ UNCHANGED <<registry, want, edits>>

NewSchool(k) == [domain |-> want[k].domain, code |-> want[k].code,
                 custom |-> NoHost, active |-> TRUE]

(* Slip: the account waits for a second transaction. *)
CommitSchoolOnly(k) ==
  LET id == Len(institutions) + 1
  IN  /\ Go(k, "commit", "created")
      /\ institutions' = Append(institutions, NewSchool(k))
      /\ configs' = Append(configs, id) /\ years' = Append(years, id)
      /\ strategy' = TRUE
      /\ held' = [held EXCEPT ![k] = {}]
      /\ UNCHANGED <<users, want, edits>>

(* TenantConfig, AcademicYear and the direction account are written with   *)
(* the COMMIT; the unique keys of these rows contain the new id.           *)
CommitTenant(k) ==
  LET id == Len(institutions) + 1
  IN  /\ Go(k, "commit", "created")
      /\ institutions' = Append(institutions, NewSchool(k))
      /\ configs' = Append(configs, id) /\ years' = Append(years, id)
      /\ users' = Append(users, [ecole |-> id])
      /\ strategy' = TRUE
      /\ held' = [held EXCEPT ![k] = {}]
      /\ UNCHANGED <<want, edits>>

(* The command dies: the transaction is rolled back. *)
CrashCommand(k) ==
  /\ step[k] \in Working
  /\ step' = [step EXCEPT ![k] = "failed"]
  /\ held' = [held EXCEPT ![k] = {}]
  /\ UNCHANGED <<registry, want, edits>>

-----------------------------------------------------------------------------
(* By hand, in a shell or in the database: no command does it. *)
Edit == edits < MaxEdits /\ edits' = edits + 1

(* custom_domain is unique among custom domains only. *)
SetCustomDomain(i, h) ==
  /\ Edit
  /\ \A j \in Schools : institutions[j].custom # h
  /\ institutions' = [institutions EXCEPT ![i].custom = h]
  /\ UNCHANGED <<configs, years, users, strategy, command>>

Suspend(i) ==
  /\ Edit
  /\ institutions' = [institutions EXCEPT ![i].active = ~@]
  /\ UNCHANGED <<configs, years, users, strategy, command>>

Provision(k) ==
  \/ AskTenant(k) \/ CheckCode(k)
  \/ FlushInstitution(k) \/ SchoolCollision(k)
  \/ FindStrategy(k) \/ SeedStrategy(k) \/ StrategyCollision(k)
  \/ CommitTenant(k) \/ CrashCommand(k)

ProvisioningStep ==
  \/ \E k \in Commands : Provision(k)
  \/ \E i \in Schools : Suspend(i) \/ \E h \in Hosts : SetCustomDomain(i, h)

-----------------------------------------------------------------------------
(* export_tenant: the rows of a table that belong to a school, read with   *)
(* skip_tenant_filter and an explicit ecole_id.                            *)
Exported(table, id) == {i \in DOMAIN table : table[i] = id}

(* "In one transaction": however commands overlap, collide and die, a      *)
(* school that can be resolved is whole, with one configuration, one year  *)
(* and a direction account, no two schools have a domain or a code in      *)
(* common, and nothing belongs to a school that does not exist.            *)
SchoolsWhole ==
  /\ \A i \in Schools :
       /\ Cardinality(Exported(configs, i)) = 1 /\ Cardinality(Exported(years, i)) = 1
       /\ \E u \in DOMAIN users : users[u].ecole = i
       /\ \A j \in Schools \ {i} : /\ institutions[i].domain # institutions[j].domain
                                   /\ institutions[i].code # institutions[j].code
  /\ \A u \in DOMAIN users : users[u].ecole \in Schools
  /\ Schools # {} => strategy
=============================================================================

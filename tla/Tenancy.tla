------------------------------- MODULE Tenancy -------------------------------
(***************************************************************************)
(* The isolation of schools: a request's host is resolved to a school      *)
(* (resolve_tenant), its session's account is compared with that school,   *)
(* and every query passes two layers, the criterion the ORM adds           *)
(* (_apply_tenant_isolation) and the row level security policies of        *)
(* PostgreSQL, which read a variable of the database session.              *)
(*                                                                         *)
(* Requests run in threads of one process and share its pool.  A COMMIT    *)
(* gives the connection back with the variable as set; the next            *)
(* transaction of the request takes any free connection, with the variable *)
(* its last committed user left there.  A rollback undoes set_config, and  *)
(* two handlers go on after one.                                           *)
(***************************************************************************)
EXTENDS Provisioning

CONSTANTS
  Requests,      \* requests, each handled once
  PlatformHosts, \* hosts that begin with admin. or console.
  Connections,   \* connections of the pool
  NoConnection

VARIABLES
  enforced,  \* the web process's role does not own the tables
  setting,   \* setting[c]: app.current_ecole_id of c, 0 when unset or ''
  at,        \* at[r]: where request r is
  cookie,    \* cookie[r]: the account its session names, or 0
  tenant,    \* tenant[r]: g.current_ecole_id, 0 for None
  actor,     \* actor[r]: current_user, 0 when anonymous
  conn,      \* conn[r]: the connection of its transaction
  local,     \* local[r]: app.current_ecole_id in its transaction
  rows,      \* rows written by handlers: their school and their author
  audits     \* TenantAccessAuditLog

request == <<at, cookie, tenant, actor, conn, local>>
vars == <<provisioning, enforced, setting, request, rows, audits>>

ASSUME TenancyAssumption ==
  /\ NoConnection \notin Connections
  /\ PlatformHosts \cap Hosts = {} /\ NoHost \notin PlatformHosts

TypeOK ==
  /\ ProvisioningTyped
  /\ enforced \in BOOLEAN
  /\ setting \in [Connections -> 0..Len(institutions)]
  /\ at \in [Requests -> {"idle", "load", "handle", "again", "later",
                        "done"}]
  /\ cookie \in [Requests -> 0..Len(users)] /\ actor \in [Requests -> 0..Len(users)]
  /\ tenant \in [Requests -> 0..Len(institutions)]
  /\ conn \in [Requests -> Connections \cup {NoConnection}]
  /\ local \in [Requests -> 0..Len(institutions)]
  /\ rows \subseteq [ecole : Schools, by : DOMAIN users]
  /\ audits \subseteq [ecole : Schools, actor : DOMAIN users]

Init ==
  /\ ProvisioningInit
  /\ enforced \in BOOLEAN
  /\ setting = [c \in Connections |-> 0]
  /\ at = [r \in Requests |-> "idle"]
  /\ cookie = [r \in Requests |-> 0] /\ actor = [r \in Requests |-> 0]
  /\ tenant = [r \in Requests |-> 0] /\ local = [r \in Requests |-> 0]
  /\ conn = [r \in Requests |-> NoConnection]
  /\ rows = {} /\ audits = {}

Free == Connections \ {conn[r] : r \in Requests}
Matches(h) == {i \in Schools : institutions[i].domain = h \/ institutions[i].custom = h}

-----------------------------------------------------------------------------
(* Slip: the criterion is not added. *)
CriterionMissing(r, ecole) == TRUE

(* The criterion of the ORM: false() when no school is resolved. *)
Criterion(r, ecole) == tenant[r] # 0 /\ ecole = tenant[r]

(* Policy tenant_isolation; its USING also decides which rows may be       *)
(* inserted.  It does not apply to the owner of the tables.                *)
Policy(r, ecole) == enforced => local[r] # 0 /\ ecole = local[r]

(* The accounts a query of r sees, here for any table. *)
Visible(r) ==
  {u \in DOMAIN users : Criterion(r, users[u].ecole) /\ Policy(r, users[u].ecole)}

OwnAccounts(r) == {u \in DOMAIN users : users[u].ecole = tenant[r]}

-----------------------------------------------------------------------------
Move(r, from, to) == at[r] = from /\ at' = [at EXCEPT ![r] = to]
Take(r, c) == c \in Free /\ conn' = [conn EXCEPT ![r] = c]
Release(r) == /\ conn' = [conn EXCEPT ![r] = NoConnection]
              /\ local' = [local EXCEPT ![r] = 0]

(* COMMIT: the connection goes back to the pool with its variable. *)
Commit(r) == setting' = [setting EXCEPT ![conn[r]] = local[r]] /\ Release(r)

(* A handler ends one transaction and goes on. *)
Goes(r) == Move(r, "handle", "again") \/ Move(r, "later", "again")

(* The request ends; what it had in mind goes with it. *)
End(r, from) ==
  /\ Move(r, from, "done")
  /\ cookie' = [cookie EXCEPT ![r] = 0] /\ actor' = [actor EXCEPT ![r] = 0]
  /\ tenant' = [tenant EXCEPT ![r] = 0]

(* Slip: the variable is not set. *)
ResolveUnset(r, c, u, i) ==
  /\ Move(r, "idle", "load")
  /\ Take(r, c)
  /\ cookie' = [cookie EXCEPT ![r] = u]
  /\ tenant' = [tenant EXCEPT ![r] = i]
  /\ local' = [local EXCEPT ![r] = setting[c]]
  /\ UNCHANGED <<provisioning, enforced, setting, actor, rows, audits>>

(* resolve_tenant finds school i, 0 on a platform host. *)
Resolve(r, c, u, i) ==
  /\ Move(r, "idle", "load")
  /\ Take(r, c)
  /\ cookie' = [cookie EXCEPT ![r] = u]
  /\ tenant' = [tenant EXCEPT ![r] = i]
  /\ local' = [local EXCEPT ![r] = i]
  /\ UNCHANGED <<provisioning, enforced, setting, actor, rows, audits>>

(* .first() takes any of the schools of the host; 404 when there is none   *)
(* or it is suspended.                                                     *)
Arrive(r, h, c, u) ==
  \/ h \in PlatformHosts /\ Resolve(r, c, u, 0)
  \/ \E i \in Matches(h) : institutions[i].active /\ Resolve(r, c, u, i)

NotFound(r, h) ==
  /\ h \notin PlatformHosts
  /\ Matches(h) = {} \/ \E i \in Matches(h) : ~institutions[i].active
  /\ End(r, "idle")
  /\ UNCHANGED <<provisioning, enforced, setting, conn, local, rows, audits>>

(* load_user skips the criterion, not the policy. *)
Loaded(r) == {u \in {cookie[r]} \cap DOMAIN users : Policy(r, users[u].ecole)}

(* Slip: the session is not compared with the school. *)
ForeignNone(r) == {}

(* The account of a session that is not of the resolved school. *)
Foreign(r) == {u \in Loaded(r) : tenant[r] # 0 /\ users[u].ecole # tenant[r]}

LoadUser(r) ==
  /\ Foreign(r) = {}
  /\ Move(r, "load", "handle")
  /\ \E u \in IF Loaded(r) = {} THEN {0} ELSE Loaded(r) : actor' = [actor EXCEPT ![r] = u]
  /\ UNCHANGED <<provisioning, enforced, setting, cookie, tenant, conn, local, rows, audits>>

(* _reject_cross_tenant_session: the event is committed in the log of the  *)
(* resolved school, the session dropped, the answer 403.                   *)
RejectSession(r) ==
  \E u \in Foreign(r) :
    /\ End(r, "load")
    /\ audits' = audits \cup {[ecole |-> tenant[r], actor |-> u]}
    /\ Commit(r)
    /\ UNCHANGED <<provisioning, enforced, rows>>

(* A handler commits a row it has written, its ecole_id taken from the     *)
(* request, or nothing; it may go on, as the sync route does after each    *)
(* change.                                                                 *)
MayWrite(r) == actor[r] # 0 /\ tenant[r] # 0 /\ Policy(r, tenant[r])

Save(r) ==
  /\ actor[r] # 0 /\ tenant[r] # 0
  /\ Goes(r)
  /\ \/ MayWrite(r) /\ rows' = rows \cup {[ecole |-> tenant[r], by |-> actor[r]]}
     \/ UNCHANGED rows
  /\ Commit(r)
  /\ UNCHANGED <<provisioning, enforced, cookie, tenant, actor, audits>>

(* The row exists already: IntegrityError, rollback, and the handler goes  *)
(* on, with the next change or with its page.                              *)
RollBack(r) ==
  /\ MayWrite(r)
  /\ Goes(r)
  /\ Release(r)
  /\ UNCHANGED <<provisioning, enforced, setting, cookie, tenant, actor, rows, audits>>

(* The next transaction of the request. *)
Begin(r, c) ==
  /\ Move(r, "again", "later")
  /\ Take(r, c)
  /\ local' = [local EXCEPT ![r] = setting[c]]
  /\ UNCHANGED <<provisioning, enforced, setting, cookie, tenant, actor, rows, audits>>

(* POST /auth/login: an account of the school that its query sees, by its  *)
(* email; the session names it, and last_login_at is committed.            *)
Login(r, u) ==
  /\ actor[r] = 0 /\ u \in Visible(r)
  /\ Goes(r)
  /\ actor' = [actor EXCEPT ![r] = u]
  /\ cookie' = [cookie EXCEPT ![r] = u]
  /\ Commit(r)
  /\ UNCHANGED <<provisioning, enforced, tenant, rows, audits>>

(* The answer, whatever it is; what was not committed is rolled back. *)
Answer(r) ==
  /\ \E from \in {"handle", "again", "later"} : End(r, from)
  /\ Release(r)
  /\ UNCHANGED <<provisioning, enforced, setting, rows, audits>>

Handling(r) ==
  \/ \E c \in Connections, u \in 0..Len(users), h \in Hosts \cup PlatformHosts :
       Arrive(r, h, c, u)
  \/ \E h \in Hosts : NotFound(r, h)
  \/ LoadUser(r) \/ RejectSession(r)
  \/ Save(r) \/ RollBack(r) \/ Answer(r)
  \/ \E c \in Connections : Begin(r, c)
  \/ \E u \in DOMAIN users : Login(r, u)

Next ==
  \/ \E r \in Requests : Handling(r)
  \/ /\ ProvisioningStep
     /\ UNCHANGED <<enforced, setting, request, rows, audits>>

Spec == Init /\ [][Next]_vars

-----------------------------------------------------------------------------
InTransaction(r) == at[r] \in {"handle", "later"}

(* No request ever sees a row of another school, with the policies or      *)
(* without, in its first transaction or after a commit that left it a      *)
(* connection of another school; a request without a school sees nothing.  *)
(* What is written belongs to a school of its author.                      *)
OwnRowsOnly ==
  /\ \A r \in Requests : InTransaction(r) => Visible(r) \subseteq OwnAccounts(r)
  /\ \A w \in rows : users[w.by].ecole = w.ecole

Honoured(r) ==
  at[r] \in {"handle", "again", "later"} /\ tenant[r] # 0 /\ cookie[r] # 0 =>
    IF users[cookie[r]].ecole = tenant[r] THEN actor[r] = cookie[r]
                                          ELSE enforced /\ actor[r] = 0

(* Whatever other requests left on the connection it got, a request whose  *)
(* session names an account of its school is handled as that account, to   *)
(* its end and through its commits and rollbacks; one whose session names  *)
(* another school's is handled, as anonymous, only where the policies hid  *)
(* that account, and is refused and logged everywhere else (load_user,     *)
(* resolve_tenant).                                                        *)
SessionsHonoured == \A r \in Requests : Honoured(r)

(* "Any divergence between the two is rejected": nobody acts in a school   *)
(* that is not his, and the log of a school holds only real divergences.   *)
SessionsStayHome ==
  /\ \A r \in Requests : InTransaction(r) /\ tenant[r] # 0 /\ actor[r] # 0 =>
       users[actor[r]].ecole = tenant[r]
  /\ \A a \in audits : users[a.actor].ecole # a.ecole
=============================================================================

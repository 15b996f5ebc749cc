------------------------------ MODULE TenantUsers ------------------------------
(***************************************************************************)
(* The accounts of a tenant's users in the CRM, as TenantOpsService manages *)
(* them (createTenantUser ... revokeTenantSession), together with what      *)
(* TenantsService.suspend and unsuspend do to the same rows, and with its   *)
(* update, remove and restore, which write the status of the tenant too.    *)
(*                                                                         *)
(* Every operation reads the tenant in the platform database, then the row  *)
(* in the CRM's, then writes, then adds a row to the audit trail: four      *)
(* awaited calls, one action each.  Nothing keeps a row from changing       *)
(* between the read and the write.                                         *)
(*                                                                         *)
(* A user is known by the e-mail, which is unique.  The column version of   *)
(* the CRM's user is only ever incremented, and is left out; so are the     *)
(* fields that updateTenantUser alone writes.  passwordHistory is a set: the *)
(* code keeps the last ten, more than a behaviour here has.                 *)
(***************************************************************************)
EXTENDS Integers

CONSTANTS
  Users,     \* the e-mails
  Requests   \* the operations of a behaviour

ASSUME SomeUser == Users # {}

\* Operations have names of their own.
ASSUME RequestNames == Requests \cap {"none", "seed"} = {}

VARIABLES
  status,       \* Tenant.status, version and isDeleted, in the platform database
  org,          \* Organization.status, in the CRM
  user,         \* the user rows of the CRM
  session,      \* the sessions of the CRM that are not revoked
  systemRole,   \* whether the organization has the role a new user is given
  req,          \* the handlers
  past          \* what the properties remember (history)

rows == <<status, org, user, session, systemRole>>
vars == <<status, org, user, session, systemRole, req, past>>

-----------------------------------------------------------------------------
(* Rows.  A password is the request that set it, or the seed's.             *)

Passwords == Requests \cup {"seed"}

\* by is the request that inserted the row, "none" where there is no row.
Rows == [active: BOOLEAN, locked: BOOLEAN, version: Nat, password: Passwords,
         history: SUBSET Passwords, assigned: BOOLEAN, by: Passwords \cup {"none"}]

Absent == [active |-> FALSE, locked |-> FALSE, version |-> 0, password |-> "seed",
           history |-> {}, assigned |-> FALSE, by |-> "none"]

\* A session carries the passwordVersion of its login; password is history.
Sessions == [user: Users, version: Nat, password: Passwords]

Status == {"ACTIVE", "SUSPENDED", "DELETED"}
TenantRow == [status: Status, version: Nat, deleted: BOOLEAN]

NewTenant == [status |-> "ACTIVE", version |-> 0, deleted |-> FALSE]

Exists(u) == user[u].by # "none"

\* The CRM accepts a token that carries the passwordVersion of its user.
Accepted(s) == Exists(s.user) /\ s.version = user[s.user].version

-----------------------------------------------------------------------------
(* Handlers.  seen is the row of the user as it was read, tenant the        *)
(* tenant's.  A handler ends in done, refused or failed; one whose process  *)
(* has died, or whose call has thrown, has failed where it was.             *)

AccountKinds == {"update", "enable", "disable", "reset", "logout", "delete", "revoke"}

\* Of the operations on the tenant, two change the status in both databases, and
\* three in the platform's alone: update (here "edit"), remove and restore.
CrmKinds == {"suspend", "unsuspend"}
TenantKinds == CrmKinds \cup {"edit", "remove", "restore"}
Kinds == AccountKinds \cup TenantKinds \cup {"create", "none"}

Ended == {"done", "refused", "failed"}
PC == {"idle", "row", "write", "role", "assign", "platform", "crm", "compensate", "audit"} \cup Ended

Request == [pc: PC, kind: Kinds, user: Users, seen: Rows, tenant: TenantRow]

At(r, pc) == req[r].pc = pc
Running(r) == req[r].pc \notin {"idle"} \cup Ended
Doing(r, kind) == At(r, "write") /\ req[r].kind = kind
Goto(r, pc) == req' = [req EXCEPT ![r].pc = pc]

\* What a handler has read is of no use after its last write.
Nothing == [pc |-> "idle", kind |-> "none", user |-> CHOOSE u \in Users : TRUE,
            seen |-> Absent, tenant |-> NewTenant]
End(r, pc) == req' = [req EXCEPT ![r] = [Nothing EXCEPT !.pc = pc]]

Seen(r) == req[r].seen
Target(r) == req[r].user

\* The row that was read is still there: the e-mail may be another row's.
Same(r) == Exists(Target(r)) /\ user[Target(r)].by = Seen(r).by

-----------------------------------------------------------------------------
(* History.                                                                 *)
(*   granted   users that were created or enabled since the organization    *)
(*             was suspended                                                *)
(*   opened    users that were unlocked and neither locked by the CRM since *)
(*             nor being disabled at the time                               *)
(*   replaced  the passwords that the user has had before                   *)
(*   raced     resets that were written while another one was under way     *)
(*   apart     the status was changed by an operation that leaves the CRM    *)
(*             alone, and no suspend or unsuspend has reached the CRM since   *)
(*   crossed   the status was changed while a suspend or an unsuspend was     *)
(*             between its two databases, or one was cut short there          *)

Past == [granted: SUBSET Users, opened: SUBSET Users, replaced: [Users -> SUBSET Passwords],
         raced: SUBSET Passwords, apart: BOOLEAN, crossed: BOOLEAN]

\* A disable of u is about to write back that u is locked.
RelockUnderWay(u) == \E q \in Requests : Doing(q, "disable") /\ Target(q) = u /\ Seen(q).locked

Unlocked(u) == IF RelockUnderWay(u) THEN past.opened \ {u} ELSE past.opened \cup {u}

ResetUnderWay(r) == \E q \in Requests \ {r} : Doing(q, "reset") /\ Target(q) = Target(r)

\* A suspend or an unsuspend has written the platform's row, and not yet the
\* CRM's or the platform's again.
Between(r) == req[r].pc \in {"crm", "compensate"}

-----------------------------------------------------------------------------
(* The reads.                                                               *)

\* What the operations ask of the tenant; its status does not matter to
\* ensureTenant.
Admits(kind) ==
  /\ status.deleted <=> kind = "restore"
  /\ kind = "suspend" => status.status # "SUSPENDED"
  /\ kind = "unsuspend" => status.status = "SUSPENDED"

\* ensureTenant, or the read of an operation on the tenant, which goes by the
\* version.  The tenant may be missing or not linked.
TenantRead(r) ==
  \E kind \in Kinds \ {"none"}, u \in Users :
    /\ At(r, "idle")
    /\ \/ End(r, "refused")
       \/ /\ Admits(kind)
          /\ req' = [req EXCEPT ![r] = [pc |-> IF kind \in TenantKinds THEN "platform" ELSE "row",
                                        kind |-> kind, user |-> u, seen |-> Absent,
                                        tenant |-> IF kind \in TenantKinds THEN status ELSE NewTenant]]
    /\ UNCHANGED <<rows, past>>

\* A create wants the e-mail free, every other operation wants the user.
RowRead(r) ==
  /\ At(r, "row")
  /\ IF Exists(Target(r)) = (req[r].kind # "create")
       THEN req' = [req EXCEPT ![r] = [@ EXCEPT !.pc = "write", !.seen = user[Target(r)]]]
       ELSE End(r, "refused")
  /\ UNCHANGED <<rows, past>>

-----------------------------------------------------------------------------
(* The writes.  A write by id of a row that is gone fails.                  *)

Write(r, row) == user' = [user EXCEPT ![Target(r)] = row]

\* createTenantUser: the insert, which the unique e-mail may refuse.
Insert(r) ==
  \E active \in BOOLEAN :
    /\ Doing(r, "create")
    /\ ~Exists(Target(r))
    /\ Write(r, [active |-> active, locked |-> FALSE, version |-> 0, password |-> r,
                 history |-> {}, assigned |-> FALSE, by |-> r])
    /\ Goto(r, "role")
    /\ past' = [past EXCEPT !.granted = @ \cup {Target(r)}, !.replaced[Target(r)] = {}]
    /\ UNCHANGED <<status, org, session, systemRole>>

\* Mutant: the role is looked up, and the assignment left to somebody else.
SystemRoleReadOnly(r) ==
  /\ At(r, "role")
  /\ End(r, "audit")
  /\ UNCHANGED <<rows, past>>

\* The role of the user's code is looked up; without it the user gets none.
SystemRoleRead(r) ==
  /\ At(r, "role")
  /\ IF systemRole THEN Goto(r, "assign") ELSE End(r, "audit")
  /\ UNCHANGED <<rows, past>>

\* The assignment, which fails when the user is gone.
Assign(r) ==
  /\ At(r, "assign")
  /\ Exists(Target(r)) /\ user[Target(r)].by = r
  /\ Write(r, [user[Target(r)] EXCEPT !.assigned = TRUE])
  /\ End(r, "audit")
  /\ UNCHANGED <<status, org, session, systemRole, past>>

\* Mutant: updateTenantUser writes back the whole row that it has read.
UpdateWholeRow(r) ==
  /\ Doing(r, "update")
  /\ Same(r)
  /\ Write(r, Seen(r))
  /\ End(r, "audit")
  /\ UNCHANGED <<status, org, session, systemRole, past>>

\* updateTenantUser: name, mobile, department and designation.
Update(r) ==
  /\ Doing(r, "update")
  /\ Same(r)
  /\ End(r, "audit")
  /\ UNCHANGED <<rows, past>>

\* setTenantUserActive(true).
Enable(r) ==
  /\ Doing(r, "enable")
  /\ Same(r)
  /\ Write(r, [user[Target(r)] EXCEPT !.active = TRUE, !.locked = FALSE])
  /\ End(r, "audit")
  /\ past' = [past EXCEPT !.granted = @ \cup {Target(r)}, !.opened = Unlocked(Target(r))]
  /\ UNCHANGED <<status, org, session, systemRole>>

\* setTenantUserActive(false): the lock is written back as it was read.
Disable(r) ==
  /\ Doing(r, "disable")
  /\ Same(r)
  /\ Write(r, [user[Target(r)] EXCEPT !.active = FALSE, !.locked = Seen(r).locked])
  /\ End(r, "audit")
  /\ UNCHANGED <<status, org, session, systemRole, past>>

\* The row after a reset that found seen.
AfterReset(r, row, seen) ==
  [row EXCEPT !.password = r, !.history = seen.history \cup {seen.password},
              !.version = @ + 1, !.locked = FALSE]

ResetBy(r, row) ==
  /\ Doing(r, "reset")
  /\ Same(r)
  /\ Write(r, row)
  /\ End(r, "audit")
  /\ past' = [past EXCEPT !.replaced[Target(r)] = @ \cup {user[Target(r)].password},
                          !.raced = IF ResetUnderWay(r) THEN @ \cup {r} ELSE @,
                          !.opened = Unlocked(Target(r))]
  /\ UNCHANGED <<status, org, session, systemRole>>

\* Mutant: the new passwordVersion is counted from the row that was read.
ResetCountsFromRead(r) ==
  ResetBy(r, [AfterReset(r, user[Target(r)], Seen(r)) EXCEPT !.version = Seen(r).version + 1])

\* Mutant: passwordVersion is decremented.
ResetDecrements(r) == ResetBy(r, [AfterReset(r, user[Target(r)], Seen(r)) EXCEPT !.version = user[Target(r)].version - 1])

\* Mutant: the history is begun anew.
ResetForgets(r) == ResetBy(r, [AfterReset(r, user[Target(r)], Seen(r)) EXCEPT !.history = {Seen(r).password}])

\* resetTenantUserPassword: the history comes from the row that was read, the
\* passwordVersion is incremented in the database.
Reset(r) == ResetBy(r, AfterReset(r, user[Target(r)], Seen(r)))

\* forceLogoutTenantUser: one transaction.
ForceLogout(r) ==
  /\ Doing(r, "logout")
  /\ Same(r)
  /\ session' = {s \in session : s.user # Target(r)}
  /\ End(r, "audit")
  /\ UNCHANGED <<status, org, user, systemRole, past>>

\* softDeleteTenantUser: the row is deleted, and all that refers to it.
Delete(r) ==
  /\ Doing(r, "delete")
  /\ Same(r)
  /\ Write(r, Absent)
  /\ session' = {s \in session : s.user # Target(r)}
  /\ End(r, "audit")
  /\ past' = [past EXCEPT !.granted = @ \ {Target(r)},
                          !.opened = @ \ {Target(r)}, !.replaced[Target(r)] = {}]
  /\ UNCHANGED <<status, org, systemRole>>

\* revokeTenantSession: one session, which may be revoked already, and its
\* refresh tokens, in one transaction.
RevokeSession(r) ==
  /\ Doing(r, "revoke")
  /\ Same(r)
  /\ \E revoked \in {{}} \cup {{s} : s \in session} :
       /\ \A s \in revoked : s.user = Target(r)
       /\ session' = session \ revoked
  /\ End(r, "audit")
  /\ UNCHANGED <<status, org, user, systemRole, past>>

-----------------------------------------------------------------------------
(* The operations on the tenant, as far as they touch these rows.           *)

Current(r) == status.version = req[r].tenant.version

\* The platform's row has another version than was read.
Conflict(r) ==
  /\ At(r, "platform") /\ req[r].kind \in CrmKinds \cup {"edit"}
  /\ ~Current(r)
  /\ End(r, "refused")
  /\ UNCHANGED <<rows, past>>

NewStatus(kind) == IF kind = "suspend" THEN "SUSPENDED" ELSE "ACTIVE"

CrossedNow == past.crossed \/ \E q \in Requests : Between(q)

\* suspend and unsuspend: first the platform's row.
PlatformWrite(r) ==
  /\ At(r, "platform") /\ req[r].kind \in CrmKinds
  /\ Current(r)
  /\ status' = [status EXCEPT !.status = NewStatus(req[r].kind), !.version = status.version + 1]
  /\ Goto(r, "crm")
  /\ past' = [past EXCEPT !.crossed = CrossedNow]
  /\ UNCHANGED <<org, user, session, systemRole>>

\* update, remove and restore: the platform's row is all they write.
PlatformOnly(r, row) ==
  /\ status' = row
  /\ End(r, "audit")
  /\ past' = IF row.status = status.status THEN past
             ELSE [past EXCEPT !.apart = TRUE, !.crossed = CrossedNow]
  /\ UNCHANGED <<org, user, session, systemRole>>

\* update, with any status in its body or the one that is there.
Edit(r) ==
  /\ At(r, "platform") /\ req[r].kind = "edit"
  /\ Current(r)
  /\ \E s \in Status : PlatformOnly(r, [status EXCEPT !.status = s, !.version = status.version + 1])

\* remove and restore, whatever the version is.
SoftDelete(r) ==
  /\ At(r, "platform") /\ req[r].kind = "remove"
  /\ PlatformOnly(r, [status EXCEPT !.status = "DELETED", !.deleted = TRUE])

Restore(r) ==
  /\ At(r, "platform") /\ req[r].kind = "restore"
  /\ PlatformOnly(r, [status EXCEPT !.status = "ACTIVE", !.deleted = FALSE])

\* Mutant: the sessions of the organization are left alone.
CrmSuspendKeepsSessions(r) ==
  /\ At(r, "crm") /\ req[r].kind = "suspend"
  /\ org' = "Suspended"
  /\ user' = [u \in Users |-> IF Exists(u) THEN [user[u] EXCEPT !.active = FALSE] ELSE Absent]
  /\ past' = [past EXCEPT !.granted = {}, !.apart = FALSE]
  /\ End(r, "audit")
  /\ UNCHANGED <<status, session, systemRole>>

\* One transaction: the organization, its users, its sessions and its tokens.
CrmSuspend(r) ==
  /\ At(r, "crm") /\ req[r].kind = "suspend"
  /\ org' = "Suspended"
  /\ user' = [u \in Users |-> IF Exists(u) THEN [user[u] EXCEPT !.active = FALSE] ELSE Absent]
  /\ session' = {}
  /\ past' = [past EXCEPT !.granted = {}, !.apart = FALSE]
  /\ End(r, "audit")
  /\ UNCHANGED <<status, systemRole>>

\* One transaction: the organization, and every user that is not locked.
CrmUnsuspend(r) ==
  /\ At(r, "crm") /\ req[r].kind = "unsuspend"
  /\ org' = "Active"
  /\ user' = [u \in Users |-> IF Exists(u) /\ ~user[u].locked
                                THEN [user[u] EXCEPT !.active = TRUE] ELSE user[u]]
  /\ past' = [past EXCEPT !.apart = FALSE]
  /\ End(r, "audit")
  /\ UNCHANGED <<status, session, systemRole>>

CrmRollback(r) ==
  /\ At(r, "crm")
  /\ Goto(r, "compensate")
  /\ UNCHANGED <<rows, past>>

\* Mutant: the failure is reported, and the status stays.
CompensateNothing(r) ==
  /\ At(r, "compensate")
  /\ End(r, "refused")
  /\ UNCHANGED <<rows, past>>

\* The other status, whatever the row has become.
Compensate(r) ==
  /\ At(r, "compensate")
  /\ status' = [status EXCEPT !.status = IF req[r].kind = "suspend" THEN "ACTIVE" ELSE "SUSPENDED",
                              !.version = status.version + 1]
  /\ End(r, "refused")
  /\ UNCHANGED <<org, user, session, systemRole, past>>

-----------------------------------------------------------------------------
(* The end of an operation.                                                 *)

\* AuditService.record, after the change is committed, and the answer.
Record(r) ==
  /\ At(r, "audit")
  /\ End(r, "done")
  /\ UNCHANGED <<rows, past>>

\* A call throws, or the process dies.
Fail(r) ==
  /\ Running(r)
  /\ End(r, "failed")
  /\ past' = [past EXCEPT !.crossed = @ \/ Between(r)]
  /\ UNCHANGED rows

-----------------------------------------------------------------------------
(* The CRM's own application.                                               *)

CrmLogin(u) ==
  /\ Exists(u) /\ user[u].active /\ ~user[u].locked
  /\ session' = session \cup {[user |-> u, version |-> user[u].version, password |-> user[u].password]}
  /\ UNCHANGED <<status, org, user, systemRole, req, past>>

\* Too many wrong passwords.
CrmLock(u) ==
  /\ Exists(u) /\ ~user[u].locked
  /\ user' = [user EXCEPT ![u].locked = TRUE]
  /\ past' = [past EXCEPT !.opened = @ \ {u}]
  /\ UNCHANGED <<status, org, session, systemRole, req>>

-----------------------------------------------------------------------------

Seeded == [Absent EXCEPT !.active = TRUE, !.assigned = TRUE, !.by = "seed"]

\* A linked tenant, with or without its users and its system role.  It has the
\* status that the body of its creation asked for; the organization is active.
Init ==
  /\ \E s \in Status : status = [NewTenant EXCEPT !.status = s]
  /\ org = "Active"
  /\ user \in [Users -> {Absent, Seeded}]
  /\ session = {}
  /\ systemRole \in BOOLEAN
  /\ req = [r \in Requests |-> Nothing]
  /\ past = [granted |-> {}, opened |-> {}, raced |-> {},
             apart |-> status.status # "ACTIVE", crossed |-> FALSE,
             replaced |-> [u \in Users |-> {}]]

Step(r) ==
  \/ TenantRead(r) \/ RowRead(r)
  \/ Insert(r) \/ SystemRoleRead(r) \/ Assign(r)
  \/ Update(r) \/ Enable(r) \/ Disable(r) \/ Reset(r)
  \/ ForceLogout(r) \/ Delete(r) \/ RevokeSession(r)
  \/ Conflict(r) \/ PlatformWrite(r) \/ Edit(r) \/ SoftDelete(r) \/ Restore(r)
  \/ CrmSuspend(r) \/ CrmUnsuspend(r) \/ CrmRollback(r) \/ Compensate(r)
  \/ Record(r) \/ Fail(r)

\* Clients need not send the requests that are left.
AllServed == (\A r \in Requests : ~Running(r)) /\ UNCHANGED vars

Next ==
  \/ \E r \in Requests : Step(r)
  \/ \E u \in Users : CrmLogin(u) \/ CrmLock(u)
  \/ AllServed

Spec == Init /\ [][Next]_vars

-----------------------------------------------------------------------------
(* Properties.                                                             *)

TypeOK ==
  /\ status \in TenantRow
  /\ org \in {"Active", "Suspended"}
  /\ user \in [Users -> Rows]
  /\ session \subseteq Sessions
  /\ systemRole \in BOOLEAN
  /\ req \in [Requests -> Request]
  /\ past \in Past

\* A reset ends the tokens of the passwords before it, whatever other resets
\* are under way: a session whose passwordVersion the CRM accepts was begun
\* with the password that the user has now.  (resetTenantUserPassword bumps
\* passwordVersion "so previously issued JWTs ... are rejected".)
ResetEndsOldTokens == \A s \in session : Accepted(s) => s.password = user[s.user].password

\* In an organization that the CRM has suspended, nobody has a session who was
\* not created or enabled by an administrator after the suspension.  (suspend
\* disables every user and revokes every session in one transaction, and
\* createTenantUser and setTenantUserActive do not look at the status.)
SuspensionEndsSessions == org = "Suspended" => \A s \in session : s.user \in past.granted

\* A user who was unlocked, by a reset or by being enabled, stays unlocked until
\* the CRM locks him again, unless a disable that had read the lock was under
\* way.  (setTenantUserActive writes back isLocked as it was read.)
UnlockHolds == \A u \in past.opened : Exists(u) /\ ~user[u].locked

\* Every password a user has had is in his history, except the ones that were
\* set while another reset had already read the row.  (resetTenantUserPassword
\* builds passwordHistory from the row it has read.)
HistoryKeepsReplaced ==
  \A u \in Users : Exists(u) => past.replaced[u] \subseteq user[u].history \cup past.raced

\* A user without the role of his code is being given it, or his creation has
\* failed on the way, and a second try finds the e-mail taken.
\* (createTenantUser inserts the user and the assignment in two calls.)
NoRolelessUser ==
  \A u \in Users : Exists(u) /\ ~user[u].assigned /\ systemRole =>
    \E r \in Requests : user[u].by = r /\ req[r].pc \in {"role", "assign", "failed"}

\* The platform and the CRM agree on whether the tenant is suspended, however
\* many suspends and unsuspends race and fail in the CRM, as long as none is
\* between the two databases, with two exceptions.  The code breaks the
\* agreement itself where an operation that leaves the CRM alone was the last to
\* change the status (apart: create or update with a status, remove, restore),
\* and loses it where the status was changed while a suspend or an unsuspend was
\* between the databases, or one died there (crossed).  (The versioned writes of
\* suspend and unsuspend, and the compensating writes of both.)
StatusesAgree ==
  ~past.apart /\ ~past.crossed /\ (\A r \in Requests : ~Between(r)) =>
    (status.status = "SUSPENDED" <=> org = "Suspended")

=============================================================================

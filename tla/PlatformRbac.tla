------------------------------ MODULE PlatformRbac ------------------------------
(***************************************************************************)
(* Who may do what on the platform: the accounts of its administrators      *)
(* (UsersService), their roles, the permissions of the roles (RolesService) *)
(* and what the guards make of them (JwtAuthGuard, PermissionsGuard).       *)
(*                                                                         *)
(* Every awaited call is an action.  Lookups that can only refuse, and the  *)
(* audit records, which nobody reads, are not: Fail stands for a refusal by *)
(* such a lookup too.  A role is known by its name; the rest of its form,   *)
(* isActive included, is read by no guard, and is left out.  Sessions and   *)
(* passwords are PlatformAuth's.                                            *)
(***************************************************************************)
EXTENDS Integers

CONSTANTS
  Users,     \* the accounts
  Roles,     \* the roles
  System,    \* the roles of the seed, which are not deleted
  Wild,      \* SUPER_ADMIN, whose holders may do everything
  Perms,     \* the catalog of permissions
  Requests   \* the operations of a behaviour

ASSUME Seeds == Wild \subseteq System /\ System \subseteq Roles /\ "seed" \notin Requests
ASSUME SomeUserAndRole == Users # {} /\ Roles # {}

VARIABLES
  account,   \* the PlatformUser rows
  role,      \* the PlatformRole rows: none, live or deleted
  perm,      \* the RolePermission rows
  holds,     \* the PlatformUserRole rows
  req,       \* the handlers
  past       \* what the properties remember (history)

rows == <<account, role, perm, holds>>
vars == <<account, role, perm, holds, req, past>>

-----------------------------------------------------------------------------
(* Rows.  by is the request that last wrote the fields of the form.         *)

Writers == Requests \cup {"seed"}
RowStates == {"none", "live", "deleted"}
Account == [state: RowStates, active: BOOLEAN, version: Nat, by: Writers]

RolesOf(u) == {n \in Roles : <<u, n>> \in holds}
PermsOf(n) == {p \in Perms : <<n, p>> \in perm}

\* What the guards look at: not at isDeleted, of the user or of the role.
Accepts(u) == account[u].state # "none" /\ account[u].active

\* What the holder of these roles may do.
Permissions(roles) == IF roles \cap Wild # {} THEN Perms ELSE UNION {PermsOf(n) : n \in roles}

-----------------------------------------------------------------------------
(* Handlers.  wantedRoles and wantedPerms are the body's; an empty list of  *)
(* roles is taken for none.  found is what the rows of the user or the role *)
(* were when they were read.                                                *)

UserKinds == {"createUser", "updateUser", "removeUser", "restoreUser", "suspend", "unsuspend"}
RoleKinds == {"createRole", "updateRole", "removeRole", "setPermissions"}

PC == {"idle", "insert", "write", "held", "drop", "give", "perms", "replace", "count", "delete", "ended"}

Request == [pc: PC, kind: UserKinds \cup RoleKinds \cup {"none"}, user: Users, role: Roles,
            wantedRoles: SUBSET Roles, wantedPerms: SUBSET Perms, replaces: BOOLEAN,
            active: SUBSET BOOLEAN, seen: Account,
            foundRoles: SUBSET Roles, foundPerms: SUBSET Perms]

Absent == [state |-> "none", active |-> FALSE, version |-> 0, by |-> "seed"]

Nothing == [pc |-> "idle", kind |-> "none", user |-> CHOOSE u \in Users : TRUE,
            role |-> CHOOSE n \in Roles : TRUE, wantedRoles |-> {}, wantedPerms |-> {},
            replaces |-> FALSE, active |-> {}, seen |-> Absent, foundRoles |-> {}, foundPerms |-> {}]

At(r, pc) == req[r].pc = pc
Doing(r, kind, pc) == At(r, pc) /\ req[r].kind = kind
Running(r) == req[r].pc \notin {"idle", "ended"}
Goto(r, pc) == req' = [req EXCEPT ![r].pc = pc]

\* Answered or not, with success or not.
End(r) == req' = [req EXCEPT ![r] = [Nothing EXCEPT !.pc = "ended"]]

-----------------------------------------------------------------------------
(* History.                                                                 *)
(*   overtaken    handlers under way whose user's or role's rows another    *)
(*                handler has changed since they read them                  *)
(*   askedRoles   the bodies that a user's roles may come from: that of the *)
(*   askedPerms   last change, and of what overlapped it; a role's likewise *)
(*   cut          users whose roles were deleted and not given              *)
(*   revived      users who were enabled by a handler that had read them    *)
(*                before they were deleted                                  *)
(*   refilled     roles that were deleted while their permissions were      *)
(*                being replaced                                            *)

Past == [overtaken: SUBSET Requests, cut: SUBSET Users, revived: SUBSET Users,
         refilled: SUBSET Roles, askedRoles: [Users -> SUBSET SUBSET Roles],
         askedPerms: [Roles -> SUBSET SUBSET Perms]]

AssigningOthers(r) == {q \in Requests \ {r} : req[q].pc \in {"drop", "give"} /\ req[q].user = req[r].user}
ReplacingOthers(r) == {q \in Requests \ {r} : At(q, "replace") /\ req[q].role = req[r].role}

AskedWith(r, asked, body) == IF r \in past.overtaken THEN asked \cup {body} ELSE {body}

\* The user was deleted after r read him.
GoneSince(r) == req[r].seen.state = "live" /\ account[req[r].user].state = "deleted"

\* r changes the roles of its user, or the permissions of its role.
RolesChange(r, last) ==
  past' = [past EXCEPT !.overtaken = (@ \cup AssigningOthers(r)) \ (IF last THEN {r} ELSE {}),
                       !.askedRoles[req[r].user] = AskedWith(r, @, req[r].wantedRoles)]

PermsChange(r) ==
  past' = [past EXCEPT !.overtaken = (@ \cup ReplacingOthers(r)) \ {r},
                       !.askedPerms[req[r].role] = AskedWith(r, @, req[r].wantedPerms)]

-----------------------------------------------------------------------------
(* UsersService.                                                            *)

\* The body is refused, or there is no such row.
Refuse(r) ==
  /\ At(r, "idle")
  /\ End(r)
  /\ UNCHANGED <<rows, past>>

\* create: the e-mail is looked up, among deleted users too.
CreateUserRead(r) ==
  \E u \in Users, wanted \in SUBSET Roles :
    /\ At(r, "idle")
    /\ account[u].state = "none"
    /\ req' = [req EXCEPT ![r] = [Nothing EXCEPT !.pc = "insert", !.kind = "createUser", !.user = u,
                                                 !.wantedRoles = wanted]]
    /\ UNCHANGED <<rows, past>>

AfterForm(r) == IF req[r].wantedRoles = {} THEN End(r) ELSE Goto(r, "held")

InsertUser(r) ==
  LET u == req[r].user IN
  /\ Doing(r, "createUser", "insert")
  /\ account[u].state = "none"
  /\ account' = [account EXCEPT ![u] = [state |-> "live", active |-> TRUE, version |-> 1, by |-> r]]
  /\ AfterForm(r)
  /\ UNCHANGED <<role, perm, holds, past>>

\* update: the version of the body, if any, is the one that is read.
UpdateUserRead(r) ==
  \E u \in Users, wanted \in SUBSET Roles, active \in {{}, {TRUE}, {FALSE}} :
    /\ At(r, "idle")
    /\ account[u].state = "live"
    /\ req' = [req EXCEPT ![r] = [Nothing EXCEPT !.pc = "write", !.kind = "updateUser", !.user = u,
                                    !.wantedRoles = wanted, !.active = active, !.seen = account[u]]]
    /\ UNCHANGED <<rows, past>>

\* The write of the body, whoever holds the row.
FormWrite(r) ==
  LET u == req[r].user
      enabled == IF req[r].active = {} THEN account[u].active ELSE TRUE \in req[r].active
  IN
  /\ account' = [account EXCEPT ![u] =
       [@ EXCEPT !.active = enabled, !.version = account[u].version + 1, !.by = r]]
  /\ past' = [past EXCEPT !.revived =
                IF TRUE \in req[r].active /\ GoneSince(r) THEN @ \cup {u} ELSE @]
  /\ AfterForm(r)

\* Mutant: the row is written by its id.
UpdateUserById(r) ==
  /\ Doing(r, "updateUser", "write")
  /\ FormWrite(r)
  /\ UNCHANGED <<role, perm, holds>>

\* The row, if it has the version that was read.
UpdateUser(r) ==
  /\ Doing(r, "updateUser", "write")
  /\ IF account[req[r].user].version = req[r].seen.version
       THEN FormWrite(r)
       ELSE UNCHANGED <<account, past>> /\ End(r)
  /\ UNCHANGED <<role, perm, holds>>

\* Mutant: a deleted user is found as any other.
SwitchReadAny(r) ==
  \E u \in Users, kind \in {"removeUser", "restoreUser", "suspend", "unsuspend"} :
    /\ At(r, "idle")
    /\ account[u].state # "none"
    /\ req' = [req EXCEPT ![r] = [Nothing EXCEPT !.pc = "write", !.kind = kind, !.user = u,
                                                 !.seen = [Absent EXCEPT !.state = account[u].state]]]
    /\ UNCHANGED <<rows, past>>

\* remove, restore, suspend and unsuspend.
SwitchRead(r) ==
  \E u \in Users, kind \in {"removeUser", "restoreUser", "suspend", "unsuspend"} :
    /\ At(r, "idle")
    /\ account[u].state = (IF kind = "restoreUser" THEN "deleted" ELSE "live")
    /\ req' = [req EXCEPT ![r] = [Nothing EXCEPT !.pc = "write", !.kind = kind, !.user = u,
                                                 !.seen = [Absent EXCEPT !.state = account[u].state]]]
    /\ UNCHANGED <<rows, past>>

\* By id, whatever the row has become.
SwitchWrite(r) ==
  LET u == req[r].user
      kind == req[r].kind
  IN
  /\ At(r, "write") /\ kind \in {"removeUser", "restoreUser", "suspend", "unsuspend"}
  /\ account' = [account EXCEPT ![u] =
       [@ EXCEPT !.active = kind \in {"restoreUser", "unsuspend"},
                 !.state = CASE kind = "removeUser" -> "deleted"
                             [] kind = "restoreUser" -> "live"
                             [] OTHER -> account[u].state]]
  /\ past' = [past EXCEPT !.revived =
                IF kind = "unsuspend" /\ GoneSince(r) THEN @ \cup {u} ELSE @ \ {u}]
  /\ End(r)
  /\ UNCHANGED <<role, perm, holds>>

-----------------------------------------------------------------------------
(* UsersService.assignRoles: three calls.  Nobody looks whether a role is   *)
(* deleted.                                                                 *)

ToDrop(r) == req[r].foundRoles \ req[r].wantedRoles
ToGive(r) == req[r].wantedRoles \ req[r].foundRoles

HeldRead(r) ==
  LET found == RolesOf(req[r].user)
      wanted == req[r].wantedRoles
  IN
  /\ At(r, "held")
  /\ IF found = wanted THEN End(r)
     ELSE req' = [req EXCEPT ![r] = [@ EXCEPT !.foundRoles = found,
                                              !.pc = IF found \subseteq wanted THEN "give" ELSE "drop"]]
  /\ UNCHANGED <<rows, past>>

\* Mutant: all that the user had is dropped, and only what is new given.
DropAll(r) ==
  /\ At(r, "drop")
  /\ holds' = holds \ ({req[r].user} \X req[r].foundRoles)
  /\ RolesChange(r, ToGive(r) = {})
  /\ IF ToGive(r) = {} THEN End(r) ELSE Goto(r, "give")
  /\ UNCHANGED <<account, role, perm>>

\* What the body has not, which may have gone already.
Drop(r) ==
  /\ At(r, "drop")
  /\ holds' = holds \ ({req[r].user} \X ToDrop(r))
  /\ RolesChange(r, ToGive(r) = {})
  /\ IF ToGive(r) = {} THEN End(r) ELSE Goto(r, "give")
  /\ UNCHANGED <<account, role, perm>>

\* One statement: a row that is there, or a role that is not, fails it.
Give(r) ==
  /\ At(r, "give")
  /\ ToGive(r) \cap RolesOf(req[r].user) = {}
  /\ \A n \in ToGive(r) : role[n] # "none"
  /\ holds' = holds \cup ({req[r].user} \X ToGive(r))
  /\ RolesChange(r, TRUE)
  /\ End(r)
  /\ UNCHANGED <<account, role, perm>>

-----------------------------------------------------------------------------
(* RolesService.                                                            *)

\* create: the name is looked up, among deleted roles too.
CreateRoleRead(r) ==
  \E n \in Roles, wanted \in SUBSET Perms :
    /\ At(r, "idle")
    /\ role[n] = "none"
    /\ req' = [req EXCEPT ![r] = [Nothing EXCEPT !.pc = "insert", !.kind = "createRole", !.role = n,
                                                 !.wantedPerms = wanted, !.replaces = TRUE]]
    /\ UNCHANGED <<rows, past>>

InsertRole(r) ==
  /\ Doing(r, "createRole", "insert")
  /\ role[req[r].role] = "none"
  /\ role' = [role EXCEPT ![req[r].role] = "live"]
  /\ Goto(r, "perms")
  /\ UNCHANGED <<account, perm, holds, past>>

\* What comes after the read of the role.
RoleCall == [updateRole |-> "write", setPermissions |-> "perms", removeRole |-> "count"]

\* update, assignPermissions and remove.  The version of update's body is
\* compared with the row's, which is 1 for ever, and says nothing.
RoleRead(r) ==
  \E n \in Roles, kind \in RoleKinds \ {"createRole"}, wanted \in SUBSET Perms, replaces \in BOOLEAN :
    /\ At(r, "idle")
    /\ role[n] = "live"
    /\ kind = "removeRole" => n \notin System
    /\ kind # "updateRole" => (replaces <=> kind = "setPermissions")
    /\ ~replaces => wanted = {}
    /\ req' = [req EXCEPT ![r] =
         [Nothing EXCEPT !.pc = RoleCall[kind], !.kind = kind, !.role = n,
                         !.wantedPerms = wanted, !.replaces = replaces]]
    /\ UNCHANGED <<rows, past>>

\* By id, whatever the row has become.
UpdateRole(r) ==
  /\ Doing(r, "updateRole", "write")
  /\ IF req[r].replaces THEN Goto(r, "perms") ELSE End(r)
  /\ UNCHANGED <<rows, past>>

\* replacePermissions: what the role has, and then one transaction.
PermsRead(r) ==
  /\ At(r, "perms")
  /\ req' = [req EXCEPT ![r] = [@ EXCEPT !.pc = "replace", !.foundPerms = PermsOf(req[r].role)]]
  /\ UNCHANGED <<rows, past>>

\* Mutant: what the role had, and the body does not, stays.
ReplaceAddsOnly(r) ==
  LET n == req[r].role IN
  /\ At(r, "replace")
  /\ perm' = perm \cup ({n} \X req[r].wantedPerms)
  /\ PermsChange(r)
  /\ End(r)
  /\ UNCHANGED <<account, role, holds>>

\* A permission that the role has got since fails the transaction.
Replace(r) ==
  LET n == req[r].role
      toRemove == req[r].foundPerms \ req[r].wantedPerms
      toAdd == req[r].wantedPerms \ req[r].foundPerms
  IN
  /\ At(r, "replace")
  /\ toAdd \cap PermsOf(n) = {}
  /\ perm' = (perm \ ({n} \X toRemove)) \cup ({n} \X toAdd)
  /\ PermsChange(r)
  /\ End(r)
  /\ UNCHANGED <<account, role, holds>>

\* A role that somebody holds is not removed.
CountHolders(r) ==
  /\ At(r, "count")
  /\ IF \E u \in Users : req[r].role \in RolesOf(u) THEN End(r) ELSE Goto(r, "delete")
  /\ UNCHANGED <<rows, past>>

\* Handlers that may yet write the permissions of a role.
MayRefill(n) ==
  \E q \in Requests : req[q].role = n /\ req[q].replaces /\ req[q].pc \in {"write", "perms", "replace"}

DeletedWith(r, left) ==
  LET n == req[r].role IN
  /\ At(r, "delete")
  /\ role' = [role EXCEPT ![n] = "deleted"]
  /\ perm' = left
  /\ past' = [past EXCEPT !.overtaken = @ \cup ReplacingOthers(r),
                          !.askedPerms[n] = {{}},
                          !.refilled = IF MayRefill(n) THEN @ \cup {n} ELSE @]
  /\ End(r)
  /\ UNCHANGED <<account, holds>>

\* Mutant: the permissions are left to the cascade, which a soft delete has not.
DeleteRoleOnly(r) == DeletedWith(r, perm)

\* One transaction.
DeleteRole(r) == DeletedWith(r, {x \in perm : x[1] # req[r].role})

-----------------------------------------------------------------------------

\* A call throws, a lookup refuses, or the process dies.
Fail(r) ==
  /\ Running(r)
  /\ past' = [past EXCEPT !.overtaken = @ \ {r},
                          !.cut = IF At(r, "give") THEN @ \cup {req[r].user} ELSE @]
  /\ End(r)
  /\ UNCHANGED rows

\* Some account and role or none, and the roles of the seed: SUPER_ADMIN is
\* given every permission.
Init ==
  /\ account \in [Users -> {Absent, [Absent EXCEPT !.state = "live", !.active = TRUE, !.version = 1]}]
  /\ role \in {f \in [Roles -> {"none", "live"}] : \A n \in System : f[n] = "live"}
  /\ perm \in {f \in SUBSET (Roles \X Perms) :
                 /\ \A x \in f : role[x[1]] = "live"
                 /\ Wild \X Perms \subseteq f}
  /\ holds \in {f \in SUBSET (Users \X Roles) :
                  \A x \in f : account[x[1]].state = "live" /\ role[x[2]] = "live"}
  /\ req = [r \in Requests |-> Nothing]
  /\ past = [overtaken |-> {}, cut |-> {}, revived |-> {}, refilled |-> {},
             askedRoles |-> [u \in Users |-> {RolesOf(u)}], askedPerms |-> [n \in Roles |-> {PermsOf(n)}]]

Step(r) ==
  \/ Refuse(r)
  \/ CreateUserRead(r) \/ InsertUser(r) \/ UpdateUserRead(r) \/ UpdateUser(r)
  \/ SwitchRead(r) \/ SwitchWrite(r)
  \/ HeldRead(r) \/ Drop(r) \/ Give(r)
  \/ CreateRoleRead(r) \/ InsertRole(r) \/ RoleRead(r) \/ UpdateRole(r)
  \/ PermsRead(r) \/ Replace(r)
  \/ CountHolders(r) \/ DeleteRole(r)
  \/ Fail(r)

\* Clients need not send the requests that are left.
AllServed == (\A r \in Requests : ~Running(r)) /\ UNCHANGED vars

Next == (\E r \in Requests : Step(r)) \/ AllServed

Spec == Init /\ [][Next]_vars

-----------------------------------------------------------------------------
(* Properties.                                                             *)

TypeOK ==
  /\ account \in [Users -> Account]
  /\ role \in [Roles -> RowStates]
  /\ perm \subseteq Roles \X Perms
  /\ holds \subseteq Users \X Roles
  /\ req \in [Requests -> Request]
  /\ past \in Past

\* The guards let nobody in who is deleted, although they look at isActive
\* alone, unless a handler that had read him before enabled him after.
\* (remove, restore, suspend, unsuspend and update write one column or both.)
DeletedUserIsOut ==
  \A u \in Users : account[u].state = "deleted" /\ Accepts(u) => u \in past.revived

\* A deleted role gives nothing to whoever holds it, although the guard does
\* not look whether it is deleted, and a user may be given it before and after,
\* unless its permissions were being replaced while it was deleted.
\* (remove deletes the permissions with the role, and not the assignments.)
DeletedRoleGrantsNothing ==
  \A n \in Roles : role[n] = "deleted" => Permissions({n}) = {} \/ n \in past.refilled

\* However replacements of a role's permissions race, it has no permission that
\* none of them asked for, and every one that all of them asked for.
\* (replacePermissions writes the difference to what it has read.)
RolePermissionsAsAsked ==
  \A n \in Roles : /\ PermsOf(n) \subseteq UNION past.askedPerms[n]
                   /\ \A p \in Perms : (\A body \in past.askedPerms[n] : p \in body) => p \in PermsOf(n)

Giving(u) == \E r \in Requests : At(r, "give") /\ req[r].user = u

\* The same of a user's roles; those that all asked for he may lack while they
\* are being given, and after a failure between the two writes.
\* (assignRoles deletes and creates without a transaction.)
UserRolesAsAsked ==
  \A u \in Users :
    /\ RolesOf(u) \subseteq UNION past.askedRoles[u]
    /\ Giving(u) \/ u \in past.cut
         \/ \A n \in Roles : (\A body \in past.askedRoles[u] : n \in body) => n \in RolesOf(u)

\* An update of an account's form is written over the form that it has read.
\* (The version of the row is in the where clause of update.)
NoLostAccountUpdate ==
  [][\A u \in Users, r \in Requests :
       Doing(r, "updateUser", "write") /\ req[r].user = u /\ account[u].by # r /\ account'[u].by = r
         => req[r].seen.by = account[u].by]_vars
=============================================================================

------------------------------ MODULE TenantRoles ------------------------------
(***************************************************************************)
(* What the users of a tenant may do in the CRM: their roles, the overrides *)
(* of their permissions and modules (TenantOpsService), the pool of         *)
(* permissions that the tenant may give at all (PermissionScopeService),    *)
(* and the permissions that the CRM has calculated and cached for a user.   *)
(*                                                                         *)
(* An operation reads the tenant, its role and the pool in calls of their   *)
(* own, and then writes.  A transaction runs at the database's default      *)
(* isolation: its DELETE sees what is committed when it begins, and what    *)
(* others commit before its INSERT stays.                                  *)
(*                                                                         *)
(* A role is known by its name, which is unique in the organization, of     *)
(* deleted roles too.  Left out are updateTenantRole, which writes name and *)
(* description, roles that inherit, which nothing here makes, and the       *)
(* deletion of a user, which takes all his rows with it (TenantUsers).      *)
(***************************************************************************)
EXTENDS Integers, FiniteSets

CONSTANTS
  Users,     \* the users that the tenant has or will have
  Founders,  \* the users that it has at the beginning
  Names,     \* names of roles
  Owning,    \* the names whose code makes a user an owner (toCrmUserRole): OWNER,
             \* COMPANY_OWNER and, with the same rights, SUPER_ADMIN
  System,    \* the roles that provisioning made
  Perms,     \* the catalog of permissions
  Modules,   \* the modules of the CRM
  ModuleOf,  \* the module of a permission
  Enabled,   \* the modules that the organization has enabled
  Actors,    \* what administrators may do: [wild, manages, perms]
  Requests   \* the operations of a behaviour

ASSUME Catalog ==
  /\ ModuleOf \in [Perms -> Modules]
  /\ Enabled \subseteq Modules
  /\ Founders \subseteq Users /\ Owning \subseteq Names /\ System \subseteq Names
  /\ Perms \cap Modules = {}
  /\ Actors \subseteq [wild: BOOLEAN, manages: BOOLEAN, perms: SUBSET Perms]
  /\ "seed" \notin Requests

ASSUME SomeOfEach == Users # {} /\ Names # {} /\ Actors # {}

VARIABLES
  member,  \* the users of the organization
  role,    \* the roles of the organization
  holds,   \* the UserRoleAssignment rows
  rows,    \* the UserPermission and UserModuleAccess rows
  owner,   \* the users whose own role is OWNER
  pool,    \* Tenant.permissionPool: what is allowed and not denied
  cache,   \* effectivePermissions, where lastPermissionCalculation is set
  req,     \* the handlers
  past     \* what the properties remember (history)

crm == <<member, role, holds, rows, owner, cache>>
vars == <<member, role, holds, rows, owner, pool, cache, req, past>>

-----------------------------------------------------------------------------
(* Rows.                                                                    *)

Keys == Perms \cup Modules

Role == [state: {"none", "live", "deleted"}, perms: SUBSET Perms]

\* A row is not the row that another request put in its place.
Writers == Requests \cup {"seed"}
Assignment == [user: Users, name: Names, by: Writers]
Override == [user: Users, key: Keys, yes: BOOLEAN, by: Writers]

RolesOf(u) == {n \in Names : \E a \in holds : a.user = u /\ a.name = n}

\* The permissions of the user's roles, and those that were granted to him.
Given(u) ==
  (UNION {role[n].perms : n \in RolesOf(u)})
    \cup {p \in Perms : \E o \in rows : o.user = u /\ o.key = p /\ o.yes}

Denied(u, key) == \E o \in rows : o.user = u /\ o.key = key /\ ~o.yes
Allowed(u, key) == \E o \in rows : o.user = u /\ o.key = key /\ o.yes

\* A denied module is shut, an allowed one open, any other as the organization has it.
Open(u, module) == ~Denied(u, module) /\ (Allowed(u, module) \/ module \in Enabled)

\* getEffectivePermissionsForUser.  An owner's is the whole catalog.
Effective(u) ==
  IF u \in owner THEN Perms
  ELSE {p \in Given(u) : ~Denied(u, p) /\ Open(u, ModuleOf[p])}

-----------------------------------------------------------------------------
(* Handlers.  cleared are the rows that the DELETE of the transaction saw,  *)
(* holders the users whose cache is to be cleared.                          *)

Checked == {"assign", "permissions", "rolePermissions"}
OfUser == {"join", "assign", "remove", "permissions", "modules"}
OfRole == {"join", "assign", "create", "clone", "delete", "rolePermissions"}
Kinds == OfUser \cup OfRole \cup {"pool", "none"}

PC == {"idle", "insert", "role", "check", "delete", "write", "holders", "clear", "ended"}

Request == [pc: PC, kind: Kinds, actor: Actors, user: Users, name: Names,
            granted: SUBSET Keys, denied: SUBSET Keys,
            clearedRoles: SUBSET Assignment, cleared: SUBSET Override, holders: SUBSET Users]

At(r, pc, kind) == req[r].pc = pc /\ req[r].kind = kind
Running(r) == req[r].pc \notin {"idle", "ended"}
Goto(r, pc) == req' = [req EXCEPT ![r].pc = pc]

Nothing == [pc |-> "idle", kind |-> "none", actor |-> CHOOSE a \in Actors : TRUE,
            user |-> CHOOSE u \in Users : TRUE, name |-> CHOOSE n \in Names : TRUE,
            granted |-> {}, denied |-> {}, clearedRoles |-> {}, cleared |-> {}, holders |-> {}]

\* Answered or not, with success or not.
End(r) == req' = [req EXCEPT ![r] = [Nothing EXCEPT !.pc = "ended"]]

-----------------------------------------------------------------------------
(* History.                                                                 *)
(*   withdrawn  permissions that have been taken out of the pool            *)
(*   first      what each user was given at the beginning or at his creation *)
(*   wild       a request of a super administrator has been served          *)
(*   twice      users of whom two requests wrote the roles at once          *)
(*   orphaned   users who lost a role that was deleted, or were being given *)
(*              one while it was deleted                                    *)
(*   uncleared  users whose role changed in a request that then failed, or  *)
(*              whose permissions were calculated amid their creation         *)

Past == [withdrawn: SUBSET Perms, first: [Users -> SUBSET Perms], wild: BOOLEAN,
         twice: SUBSET Users, orphaned: SUBSET Users, uncleared: SUBSET Users]

\* Another request has yet to insert a role of u.
AssignUnderWay(r, u) ==
  \E q \in Requests \ {r} :
    /\ At(q, "write", "assign") \/ At(q, "role", "join") \/ At(q, "write", "join")
    /\ req[q].user = u

-----------------------------------------------------------------------------
(* Reads and checks.                                                        *)

\* The body: the overrides of a user, or the permissions of a role.
Bodies(kind) ==
  CASE kind = "permissions" -> {b \in (SUBSET Perms) \X (SUBSET Perms) : b[1] \cap b[2] = {}}
    [] kind = "modules" -> {b \in (SUBSET Modules) \X (SUBSET Modules) : b[1] \cap b[2] = {}}
    [] kind \in {"rolePermissions", "create", "pool"} -> {<<g, {}>> : g \in SUBSET Perms}
    [] OTHER -> {<<{}, {}>>}

FirstStep(kind) ==
  CASE kind \in {"assign", "delete", "clone", "rolePermissions", "create"} -> "role"
    [] kind = "join" -> "insert"
    [] kind = "permissions" -> "check"
    [] kind = "modules" -> "delete"
    [] kind \in {"remove", "pool"} -> "write"

\* What an operation does not look at is not chosen.
Choices(kind, kinds, set, default) == IF kind \in kinds THEN set ELSE {default}

BeginWith(r, kind, actor, u, n, body) ==
  /\ req[r].pc = "idle"
  /\ req' = [req EXCEPT ![r] = [Nothing EXCEPT !.pc = FirstStep(kind), !.kind = kind,
               !.actor = actor, !.user = u, !.name = n, !.granted = body[1], !.denied = body[2]]]
  /\ past' = [past EXCEPT !.wild = @ \/ (kind \in Checked /\ actor.wild)]
  /\ UNCHANGED <<crm, pool>>

\* ensureTenant and the read of the user, whom createTenantUser wants not to be
\* there and any other operation of a user wants there.
Begin(r) ==
  \E kind \in Kinds \ {"none"} :
    \E actor \in Choices(kind, Checked, Actors, Nothing.actor),
       u \in Choices(kind, OfUser, Users, Nothing.user),
       n \in Choices(kind, OfRole, Names, Nothing.name),
       body \in Bodies(kind) :
         /\ kind \in OfUser => ((u \in member) <=> (kind # "join"))
         /\ BeginWith(r, kind, actor, u, n, body)

\* The tenant or the user is missing.
Refuse(r) ==
  /\ req[r].pc = "idle"
  /\ End(r)
  /\ UNCHANGED <<crm, pool, past>>

\* Mutant: the pool is all that is looked at.
MayGrantInPool(actor, perms) == perms \subseteq pool

\* validatePermissionsInPool and validateActorCanGrant.
MayGrant(actor, perms) ==
  /\ actor.wild \/ (actor.manages /\ perms \subseteq actor.perms)
  /\ perms \subseteq pool

\* Mutant: a role is assigned without a look at its permissions.
RoleReadUnchecked(r) ==
  /\ req[r].pc = "role" /\ req[r].kind = "assign"
  /\ IF role[req[r].name].state = "live" THEN Goto(r, "delete") ELSE End(r)
  /\ UNCHANGED <<crm, pool, past>>

\* The role of an assignment: its permissions, if any, are then checked.
RoleRead(r) ==
  /\ At(r, "role", "assign")
  /\ LET seen == role[req[r].name] IN
       IF seen.state # "live" THEN End(r)
       ELSE req' = [req EXCEPT ![r] = [@ EXCEPT !.pc = IF seen.perms = {} THEN "delete" ELSE "check",
                                                !.granted = seen.perms]]
  /\ UNCHANGED <<crm, pool, past>>

\* The role whose permissions are to be set, or which is to be deleted: then
\* its holders are counted.  A system role is not deleted.
EditedRoleRead(r) ==
  /\ req[r].pc = "role" /\ req[r].kind \in {"rolePermissions", "delete"}
  /\ IF role[req[r].name].state # "live" \/ (req[r].kind = "delete" /\ req[r].name \in System)
       THEN End(r)
       ELSE Goto(r, IF req[r].kind = "delete" THEN "holders" ELSE "check")
  /\ UNCHANGED <<crm, pool, past>>

\* One read of the pool; the check of the actor makes a second.
Check(r) ==
  /\ req[r].pc = "check"
  /\ IF MayGrant(req[r].actor, req[r].granted \cup req[r].denied)
       THEN Goto(r, IF req[r].kind = "rolePermissions" THEN "write" ELSE "delete")
       ELSE End(r)
  /\ UNCHANGED <<crm, pool, past>>

-----------------------------------------------------------------------------
(* A new user: createTenantUser, which checks no permission.                *)

\* The user, whose own role the code in the body says.  The unique e-mail may
\* refuse him.
JoinInsert(r) ==
  LET u == req[r].user IN
  /\ At(r, "insert", "join")
  /\ u \notin member
  /\ member' = member \cup {u}
  /\ owner' = IF req[r].name \in Owning THEN owner \cup {u} ELSE owner
  /\ Goto(r, "role")
  /\ UNCHANGED <<role, holds, rows, cache, pool, past>>

\* The system role of that code, if there is one.
JoinRoleRead(r) ==
  /\ At(r, "role", "join")
  /\ IF req[r].name \in System /\ role[req[r].name].state = "live" THEN Goto(r, "write") ELSE End(r)
  /\ UNCHANGED <<crm, pool, past>>

\* The assignment, which leaves the user's cache as it is.
JoinAssign(r) ==
  LET u == req[r].user
      n == req[r].name
  IN
  /\ At(r, "write", "join")
  /\ n \notin RolesOf(u)
  /\ holds' = holds \cup {[user |-> u, name |-> n, by |-> r]}
  /\ past' = [past EXCEPT !.first[u] = @ \cup role[n].perms,
                          !.uncleared = IF cache[u].known THEN @ \cup {u} ELSE @]
  /\ End(r)
  /\ UNCHANGED <<member, role, rows, owner, cache, pool>>

-----------------------------------------------------------------------------
(* The role of a user.                                                      *)

Forget(users) == cache' = [u \in Users |-> IF u \in users THEN [known |-> FALSE, perms |-> {}] ELSE cache[u]]

\* Mutant: the assignments that are there are not deleted.
AssignDeleteNone(r) ==
  /\ At(r, "delete", "assign")
  /\ Goto(r, "write")
  /\ past' = [past EXCEPT !.twice = IF AssignUnderWay(r, req[r].user) THEN @ \cup {req[r].user} ELSE @]
  /\ UNCHANGED <<crm, pool>>

\* The DELETE of the transaction of assignTenantUserRole.
AssignDelete(r) ==
  /\ At(r, "delete", "assign")
  /\ req' = [req EXCEPT ![r] = [@ EXCEPT !.pc = "write",
                                !.clearedRoles = {a \in holds : a.user = req[r].user}]]
  /\ past' = [past EXCEPT !.twice = IF AssignUnderWay(r, req[r].user) THEN @ \cup {req[r].user} ELSE @]
  /\ UNCHANGED <<crm, pool>>

\* Its INSERT, which a row of another request may refuse, and the user's own
\* role and cache.
AssignCommit(r) ==
  LET u == req[r].user
      n == req[r].name
      kept == holds \ req[r].clearedRoles
  IN
  /\ At(r, "write", "assign")
  /\ ~\E a \in kept : a.user = u /\ a.name = n
  /\ holds' = kept \cup {[user |-> u, name |-> n, by |-> r]}
  /\ owner' = IF n \in Owning THEN owner \cup {u} ELSE owner \ {u}
  /\ Forget({u})
  /\ End(r)
  /\ UNCHANGED <<member, role, rows, pool, past>>

\* removeTenantUserRole.
Remove(r) ==
  /\ At(r, "write", "remove")
  /\ holds' = {a \in holds : a.user # req[r].user}
  /\ owner' = owner \ {req[r].user}
  /\ Forget({req[r].user})
  /\ End(r)
  /\ UNCHANGED <<member, role, rows, pool, past>>

-----------------------------------------------------------------------------
(* The overrides of a user: setTenantUserPermissions and                    *)
(* setTenantUserModules, on a table each.                                   *)

Table(kind) == IF kind = "permissions" THEN Perms ELSE Modules

OverridesDelete(r) ==
  /\ req[r].pc = "delete" /\ req[r].kind \in {"permissions", "modules"}
  /\ req' = [req EXCEPT ![r] = [@ EXCEPT !.pc = "write",
       !.cleared = {o \in rows : o.user = req[r].user /\ o.key \in Table(req[r].kind)}]]
  /\ UNCHANGED <<crm, pool, past>>

NewRows(r) ==
  [user: {req[r].user}, key: req[r].granted, yes: {TRUE}, by: {r}]
    \cup [user: {req[r].user}, key: req[r].denied, yes: {FALSE}, by: {r}]

OverridesCommit(r) ==
  LET kept == rows \ req[r].cleared IN
  /\ req[r].pc = "write" /\ req[r].kind \in {"permissions", "modules"}
  /\ ~\E o \in kept, new \in NewRows(r) : o.user = new.user /\ o.key = new.key
  /\ rows' = kept \cup NewRows(r)
  /\ Forget({req[r].user})
  /\ End(r)
  /\ UNCHANGED <<member, role, holds, owner, pool, past>>

-----------------------------------------------------------------------------
(* The roles of the organization.                                           *)

\* createTenantRole looks for a live role of the name, and then inserts; the
\* permissions of the body are not checked against the pool or the actor.
Create(r) ==
  /\ At(r, "role", "create")
  /\ IF role[req[r].name].state = "live" THEN End(r) ELSE Goto(r, "write")
  /\ UNCHANGED <<crm, pool, past>>

\* The row of a deleted role still has the name.
CreateInsert(r) ==
  /\ At(r, "write", "create")
  /\ role[req[r].name].state = "none"
  /\ role' = [role EXCEPT ![req[r].name] = [state |-> "live", perms |-> req[r].granted]]
  /\ End(r)
  /\ UNCHANGED <<member, holds, rows, owner, cache, pool, past>>

\* cloneTenantRole: the role that is read.
CloneRead(r) ==
  /\ At(r, "role", "clone")
  /\ IF role[req[r].name].state # "live" THEN End(r)
     ELSE req' = [req EXCEPT ![r] = [@ EXCEPT !.pc = "write", !.granted = role[req[r].name].perms]]
  /\ UNCHANGED <<crm, pool, past>>

\* The copy gets a name and a code of its own, if the name is free.
CloneInsert(r) ==
  /\ At(r, "write", "clone")
  /\ \E n \in Names \ (System \cup Owning \cup {req[r].name}) :
       /\ role[n].state = "none"
       /\ role' = [role EXCEPT ![n] = [state |-> "live", perms |-> req[r].granted]]
  /\ End(r)
  /\ UNCHANGED <<member, holds, rows, owner, cache, pool, past>>

\* Mutant: the role is marked deleted before its holders are counted.
DeleteBeforeCount(r) ==
  LET n == req[r].name IN
  /\ At(r, "holders", "delete")
  /\ role' = [role EXCEPT ![n].state = "deleted"]
  /\ IF \E u \in Users : n \in RolesOf(u) THEN End(r) ELSE Goto(r, "write")
  /\ UNCHANGED <<member, holds, rows, owner, cache, pool, past>>

\* deleteTenantRole: a role that somebody holds is not deleted.
DeleteCount(r) ==
  /\ At(r, "holders", "delete")
  /\ IF \E u \in Users : req[r].name \in RolesOf(u) THEN End(r) ELSE Goto(r, "write")
  /\ UNCHANGED <<crm, pool, past>>

\* Users whose assignment has read the role.
BeingGiven(n) ==
  {req[q].user : q \in {q \in Requests : req[q].kind = "assign" /\ req[q].pc # "role" /\ req[q].name = n}}

\* The role and what assignments it may have got: the caches stay.
DeleteCommit(r) ==
  LET n == req[r].name
      kept == {a \in holds : a.name # n}
  IN
  /\ At(r, "write", "delete")
  /\ role' = [role EXCEPT ![n].state = "deleted"]
  /\ holds' = kept
  /\ past' = [past EXCEPT !.orphaned = @ \cup BeingGiven(n) \cup {a.user : a \in holds \ kept}]
  /\ End(r)
  /\ UNCHANGED <<member, rows, owner, cache, pool>>

\* setTenantRolePermissions: the role, then its holders, then their caches.
RoleWrite(r) ==
  /\ At(r, "write", "rolePermissions")
  /\ role' = [role EXCEPT ![req[r].name].perms = req[r].granted]
  /\ Goto(r, "holders")
  /\ UNCHANGED <<member, holds, rows, owner, cache, pool, past>>

\* Mutant: nobody's cache is cleared.
HoldersNone(r) ==
  /\ At(r, "holders", "rolePermissions")
  /\ End(r)
  /\ UNCHANGED <<crm, pool, past>>

HoldersRead(r) ==
  /\ At(r, "holders", "rolePermissions")
  /\ req' = [req EXCEPT ![r] = [@ EXCEPT !.pc = "clear",
                                !.holders = {u \in Users : req[r].name \in RolesOf(u)}]]
  /\ UNCHANGED <<crm, pool, past>>

Clear(r) ==
  /\ At(r, "clear", "rolePermissions")
  /\ Forget(req[r].holders)
  /\ End(r)
  /\ UNCHANGED <<member, role, holds, rows, owner, pool, past>>

\* A call throws, or the process dies: a transaction is rolled back.
Fail(r) ==
  /\ Running(r)
  /\ past' = [past EXCEPT !.uncleared =
       IF req[r].kind = "rolePermissions" /\ req[r].pc \in {"holders", "clear"}
         THEN @ \cup {u \in Users : req[r].name \in RolesOf(u)} \cup req[r].holders ELSE @]
  /\ End(r)
  /\ UNCHANGED <<crm, pool>>

-----------------------------------------------------------------------------
(* The pool, and the CRM.                                                   *)

\* setTenantPermissionPool, after the checks of the body.
PoolWrite(r) ==
  /\ At(r, "write", "pool")
  /\ pool' = req[r].granted
  /\ past' = [past EXCEPT !.withdrawn = @ \cup (pool \ req[r].granted)]
  /\ End(r)
  /\ UNCHANGED crm

\* The CRM calculates the permissions of a user, and keeps them.
CrmCalculate(u) ==
  /\ u \in member /\ ~cache[u].known
  /\ cache' = [cache EXCEPT ![u] = [known |-> TRUE, perms |-> Effective(u)]]
  /\ UNCHANGED <<member, role, holds, rows, owner, pool, req, past>>

-----------------------------------------------------------------------------

\* The roles that provisioning made, and others; one user has one of them, or none.
Init ==
  /\ member = Founders
  /\ role \in {f \in [Names -> Role] : \A n \in Names :
                 \/ f[n].state = "live"
                 \/ n \notin System /\ f[n] = [state |-> "none", perms |-> {}]}
  /\ holds \in {{}} \cup {{[user |-> u, name |-> n, by |-> "seed"]} : u \in member, n \in {n \in Names : role[n].state = "live"}}
  /\ rows = {} /\ owner = {u \in Users : RolesOf(u) \cap Owning # {}}
  /\ pool \in SUBSET Perms
  /\ cache = [u \in Users |-> [known |-> FALSE, perms |-> {}]]
  /\ req = [r \in Requests |-> Nothing]
  /\ past = [withdrawn |-> {}, first |-> [u \in Users |-> Given(u)], wild |-> FALSE,
             twice |-> {}, orphaned |-> {}, uncleared |-> {}]

Step(r) ==
  \/ Begin(r) \/ Refuse(r) \/ RoleRead(r) \/ EditedRoleRead(r) \/ Check(r)
  \/ JoinInsert(r) \/ JoinRoleRead(r) \/ JoinAssign(r)
  \/ AssignDelete(r) \/ AssignCommit(r) \/ Remove(r)
  \/ OverridesDelete(r) \/ OverridesCommit(r)
  \/ Create(r) \/ CreateInsert(r) \/ CloneRead(r) \/ CloneInsert(r)
  \/ DeleteCount(r) \/ DeleteCommit(r)
  \/ RoleWrite(r) \/ HoldersRead(r) \/ Clear(r)
  \/ PoolWrite(r)
  \/ Fail(r)

\* Clients need not send the requests that are left.
AllServed == (\A r \in Requests : ~Running(r)) /\ UNCHANGED vars

Next ==
  \/ \E r \in Requests : Step(r)
  \/ \E u \in Users : CrmCalculate(u)
  \/ AllServed

Spec == Init /\ [][Next]_vars

-----------------------------------------------------------------------------
(* Properties.                                                             *)

TypeOK ==
  /\ member \subseteq Users
  /\ role \in [Names -> Role]
  /\ holds \subseteq Assignment
  /\ rows \subseteq Override
  /\ owner \subseteq Users
  /\ pool \subseteq Perms
  /\ cache \in [Users -> [known: BOOLEAN, perms: SUBSET Perms]]
  /\ req \in [Requests -> Request]
  /\ past \in Past

\* A role's permissions have been written and its holders' caches not yet.
BeingCleared(u) ==
  \E r \in Requests : /\ req[r].kind = "rolePermissions" /\ req[r].pc \in {"holders", "clear"}
                      /\ u \in req[r].holders \/ req[r].name \in RolesOf(u)

\* The permissions that the CRM goes by are the ones that the rows say, except
\* while setTenantRolePermissions is between its write and its last, after it
\* failed there, for a user whose role was deleted under him, and for one whom the
\* CRM asked for while he was being created.  (Every other operation clears the
\* cache of its user in the transaction that writes; setTenantRolePermissions reads
\* the holders after it has written the role; createTenantUser clears nothing.)
CacheFollowsRights ==
  \A u \in Users : cache[u].known =>
    \/ cache[u].perms = Effective(u)
    \/ BeingCleared(u)
    \/ u \in past.uncleared \cup past.orphaned

\* A user has one role, unless two requests gave him one at the same time.
\* (assignTenantUserRole deletes the assignments and inserts one, createTenantUser
\* inserts one, and the only unique key is of user and role.)
OneRolePerUser == \A u \in Users : Cardinality(RolesOf(u)) <= 1 \/ u \in past.twice

\* Nobody holds a deleted role, unless he was being given it while it was
\* deleted.  (deleteTenantRole counts the holders, and deletes the assignments
\* that have been made since.)
NobodyHoldsDeletedRole ==
  \A u \in Users, n \in Names : n \in RolesOf(u) /\ role[n].state = "deleted" => u \in past.orphaned

\* Whatever roles are made, copied, changed and assigned, and whatever is
\* granted, a user is given nothing outside the tenant's pool, except what he
\* had at the beginning, the system role that he was created with, and what was
\* in the pool and has been taken out.  (validatePermissionsInPool;
\* createTenantRole does not call it, and assignTenantUserRole does.)
GivenWithinPool == \A u \in Users : Given(u) \subseteq pool \cup past.withdrawn \cup past.first[u]

\* What one administrator or another may give who is not a super administrator.
Grantable == UNION {a.perms : a \in {b \in Actors : ~b.wild}}

\* Administrators who are not super administrators bring a permission that none of
\* them has to a user in two ways only: they create him with a system role that has
\* it, or they make him an owner, who has the whole catalog.  Nothing else they do,
\* in whatever order, puts one into his rows, into what is calculated from them, or
\* into what the CRM has cached for him.  Both ways are open to an administrator
\* who has nothing: createTenantUser checks no permission of the role whose code it
\* is sent, and a role coded OWNER that has no permissions, which createTenantRole
\* makes for anybody, is assigned without a check.  (validateActorCanGrant, which
\* says that it "prevents privilege escalation".)
NoOtherEscalation ==
  ~past.wild => \A u \in Users :
    LET ceiling == past.first[u] \cup Grantable IN
    /\ Given(u) \subseteq ceiling
    /\ u \in owner \/ (Effective(u) \cup cache[u].perms) \subseteq ceiling
=============================================================================

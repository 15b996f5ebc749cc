------------------------- MODULE PlatformRbac_proofs -------------------------
(***************************************************************************)
(* Proofs about PlatformRbac: type correctness, what deletion of users and  *)
(* roles leaves, what racing replacements leave, and that no update of an   *)
(* account is lost, for any numbers of users, roles and operations.         *)
(***************************************************************************)
EXTENDS PlatformRbac, TLAPS

-----------------------------------------------------------------------------
(* Type correctness.                                                       *)

LEMMA AbsentType ==
  /\ Absent \in Account
  /\ [Absent EXCEPT !.state = "live", !.active = TRUE, !.version = 1] \in Account
  BY DEF Absent, Account, RowStates, Writers

LEMMA NothingType == Nothing \in Request
<1>1. (CHOOSE u \in Users : TRUE) \in Users /\ (CHOOSE n \in Roles : TRUE) \in Roles
  BY SomeUserAndRole
<1> QED
  BY <1>1, AbsentType DEF Nothing, Request, PC

LEMMA EndType ==
  ASSUME TypeOK, NEW r \in Requests, End(r)
  PROVE  req' \in [Requests -> Request]
<1>1. [Nothing EXCEPT !.pc = "ended"] \in Request
  BY NothingType DEF Request, PC
<1> QED
  BY <1>1 DEF End, TypeOK

LEMMA GotoType ==
  ASSUME TypeOK, NEW r \in Requests, NEW pc \in PC, Goto(r, pc)
  PROVE  req' \in [Requests -> Request]
<1>1. [req[r] EXCEPT !.pc = pc] \in Request
  BY DEF Request, TypeOK
<1> QED
  BY <1>1 DEF Goto, TypeOK

LEMMA FieldTypes ==
  ASSUME TypeOK, NEW r \in Requests
  PROVE  /\ req[r].user \in Users /\ req[r].role \in Roles /\ req[r].pc \in PC
         /\ req[r].wantedRoles \subseteq Roles /\ req[r].foundRoles \subseteq Roles
         /\ req[r].wantedPerms \subseteq Perms /\ req[r].foundPerms \subseteq Perms
         /\ req[r].seen \in Account /\ account[req[r].user] \in Account
         /\ req[r].active \subseteq BOOLEAN
  BY DEF TypeOK, Request

LEMMA TypeInit == Init => TypeOK
<1> SUFFICES ASSUME Init PROVE TypeOK
  OBVIOUS
<1>1. account \in [Users -> Account] /\ req \in [Requests -> Request]
  BY AbsentType, NothingType DEF Init
<1>2. role \in [Roles -> RowStates] /\ perm \subseteq Roles \X Perms /\ holds \subseteq Users \X Roles
  BY DEF Init, RowStates
<1>3. \A u \in Users : RolesOf(u) \subseteq Roles
  BY DEF RolesOf
<1>4. \A n \in Roles : PermsOf(n) \subseteq Perms
  BY DEF PermsOf
<1>5. past \in Past
  BY <1>3, <1>4 DEF Init, Past
<1> QED
  BY <1>1, <1>2, <1>5 DEF TypeOK

LEMMA TypeReads ==
  ASSUME TypeOK, NEW r \in Requests,
         \/ Refuse(r) \/ CreateUserRead(r) \/ UpdateUserRead(r) \/ SwitchRead(r)
         \/ CreateRoleRead(r) \/ RoleRead(r)
  PROVE  TypeOK'
<1> SUFFICES req' \in [Requests -> Request]
  BY DEF Refuse, CreateUserRead, UpdateUserRead, SwitchRead, CreateRoleRead, RoleRead, rows, TypeOK
<1>1. CASE Refuse(r)
  BY <1>1, EndType DEF Refuse
<1>2. CASE CreateUserRead(r)
  <2>1. PICK u \in Users, wanted \in SUBSET Roles :
          req' = [req EXCEPT ![r] = [Nothing EXCEPT !.pc = "insert", !.kind = "createUser", !.user = u,
                                                    !.wantedRoles = wanted]]
    BY <1>2 DEF CreateUserRead
  <2>2. [Nothing EXCEPT !.pc = "insert", !.kind = "createUser", !.user = u, !.wantedRoles = wanted] \in Request
    BY NothingType DEF Request, PC, UserKinds
  <2> QED
    BY <2>1, <2>2 DEF TypeOK
<1>3. CASE UpdateUserRead(r)
  <2>1. PICK u \in Users, wanted \in SUBSET Roles, active \in {{}, {TRUE}, {FALSE}} :
          req' = [req EXCEPT ![r] = [Nothing EXCEPT !.pc = "write", !.kind = "updateUser", !.user = u,
                                    !.wantedRoles = wanted, !.active = active, !.seen = account[u]]]
    BY <1>3 DEF UpdateUserRead
  <2>2. account[u] \in Account /\ active \in SUBSET BOOLEAN
    BY DEF TypeOK
  <2>3. [Nothing EXCEPT !.pc = "write", !.kind = "updateUser", !.user = u,
                        !.wantedRoles = wanted, !.active = active, !.seen = account[u]] \in Request
    BY <2>2, NothingType DEF Request, PC, UserKinds
  <2> QED
    BY <2>1, <2>3 DEF TypeOK
<1>4. CASE SwitchRead(r)
  <2>1. PICK u \in Users, kind \in {"removeUser", "restoreUser", "suspend", "unsuspend"} :
          req' = [req EXCEPT ![r] = [Nothing EXCEPT !.pc = "write", !.kind = kind, !.user = u,
                                                    !.seen = [Absent EXCEPT !.state = account[u].state]]]
    BY <1>4 DEF SwitchRead
  <2> DEFINE seen == [Absent EXCEPT !.state = account[u].state]
  <2>2. seen \in Account
    BY AbsentType DEF TypeOK, Account
  <2> HIDE DEF seen
  <2>3. [Nothing EXCEPT !.pc = "write", !.kind = kind, !.user = u, !.seen = seen] \in Request
    BY <2>2, NothingType DEF Request, PC, UserKinds
  <2> QED
    BY <2>1, <2>3 DEF TypeOK, seen
<1>5. CASE CreateRoleRead(r)
  <2>1. PICK n \in Roles, wanted \in SUBSET Perms :
          req' = [req EXCEPT ![r] = [Nothing EXCEPT !.pc = "insert", !.kind = "createRole", !.role = n,
                                                    !.wantedPerms = wanted, !.replaces = TRUE]]
    BY <1>5 DEF CreateRoleRead
  <2>2. [Nothing EXCEPT !.pc = "insert", !.kind = "createRole", !.role = n,
                        !.wantedPerms = wanted, !.replaces = TRUE] \in Request
    BY NothingType DEF Request, PC, RoleKinds
  <2> QED
    BY <2>1, <2>2 DEF TypeOK
<1>6. CASE RoleRead(r)
  <2>1. PICK n \in Roles, kind \in RoleKinds \ {"createRole"}, wanted \in SUBSET Perms, replaces \in BOOLEAN :
          req' = [req EXCEPT ![r] = [Nothing EXCEPT !.pc = RoleCall[kind], !.kind = kind, !.role = n,
                                                    !.wantedPerms = wanted, !.replaces = replaces]]
    BY <1>6 DEF RoleRead
  <2>2. RoleCall[kind] \in PC /\ kind \in RoleKinds
    BY DEF RoleCall, RoleKinds, PC
  <2>3. [Nothing EXCEPT !.pc = RoleCall[kind], !.kind = kind, !.role = n,
                        !.wantedPerms = wanted, !.replaces = replaces] \in Request
    BY <2>2, NothingType DEF Request
  <2> QED
    BY <2>1, <2>3 DEF TypeOK
<1> QED
  BY <1>1, <1>2, <1>3, <1>4, <1>5, <1>6

LEMMA TypeAccounts ==
  ASSUME TypeOK, NEW r \in Requests, InsertUser(r) \/ UpdateUser(r) \/ SwitchWrite(r)
  PROVE  TypeOK'
<1> USE FieldTypes
<1>0. ASSUME AfterForm(r)
      PROVE  req' \in [Requests -> Request]
  BY <1>0, EndType, GotoType DEF AfterForm, PC
<1>1. CASE InsertUser(r)
  <2>1. [state |-> "live", active |-> TRUE, version |-> 1, by |-> r] \in Account
    BY DEF Account, RowStates, Writers
  <2> QED
    BY <1>0, <1>1, <2>1 DEF InsertUser, TypeOK
<1>2. CASE UpdateUser(r)
  <2>1. CASE FormWrite(r) /\ UNCHANGED <<role, perm, holds>>
    <3> DEFINE u == req[r].user
               enabled == IF req[r].active = {} THEN account[u].active ELSE TRUE \in req[r].active
               revived == IF TRUE \in req[r].active /\ GoneSince(r) THEN past.revived \cup {u} ELSE past.revived
    <3>0. account[u].active \in BOOLEAN /\ (TRUE \in req[r].active) \in BOOLEAN
      BY DEF Account
    <3>a. enabled \in BOOLEAN
      BY <3>0
    <3>1. u \in Users /\ account[u] \in Account /\ account[u].version + 1 \in Nat
      BY DEF Account
    <3> HIDE DEF enabled
    <3>2. [account[u] EXCEPT !.active = enabled, !.version = account[u].version + 1, !.by = r] \in Account
      BY <3>1, <3>a DEF Account, Writers
    <3>3. account' = [account EXCEPT ![u] =
                        [account[u] EXCEPT !.active = enabled, !.version = account[u].version + 1, !.by = r]]
      BY <2>1 DEF FormWrite, enabled
    <3>4. account' \in [Users -> Account]
      BY <3>2, <3>3 DEF TypeOK
    <3>5. past' = [past EXCEPT !.revived = revived] /\ revived \subseteq Users
      BY <2>1 DEF FormWrite, TypeOK, Past
    <3>6. past' \in Past
      BY <3>5 DEF TypeOK, Past
    <3> QED
      BY <1>0, <2>1, <3>4, <3>6 DEF FormWrite, TypeOK
  <2>2. CASE UNCHANGED <<account, past>> /\ End(r) /\ UNCHANGED <<role, perm, holds>>
    BY <2>2, EndType DEF TypeOK
  <2> QED
    BY <1>2, <2>1, <2>2 DEF UpdateUser
<1>3. CASE SwitchWrite(r)
  <2> DEFINE u == req[r].user
             kind == req[r].kind
             active == kind \in {"restoreUser", "unsuspend"}
             state == CASE kind = "removeUser" -> "deleted"
                        [] kind = "restoreUser" -> "live"
                        [] OTHER -> account[u].state
             revived == IF kind = "unsuspend" /\ GoneSince(r) THEN past.revived \cup {u} ELSE past.revived \ {u}
  <2>1. active \in BOOLEAN /\ state \in RowStates /\ revived \subseteq Users
    BY DEF Account, RowStates, TypeOK, Past
  <2>2. /\ account' = [account EXCEPT ![u] = [account[u] EXCEPT !.active = active, !.state = state]]
        /\ past' = [past EXCEPT !.revived = revived]
    BY <1>3 DEF SwitchWrite
  <2> HIDE DEF active, state, revived
  <2>3. [account[u] EXCEPT !.active = active, !.state = state] \in Account
    BY <2>1 DEF Account
  <2>4. account' \in [Users -> Account]
    BY <2>2, <2>3 DEF TypeOK
  <2>5. past' \in Past
    BY <2>1, <2>2 DEF TypeOK, Past
  <2>6. req' \in [Requests -> Request]
    BY <1>3, EndType DEF SwitchWrite
  <2> QED
    BY <1>3, <2>4, <2>5, <2>6 DEF SwitchWrite, TypeOK
<1> QED
  BY <1>1, <1>2, <1>3

LEMMA RolesChangeType ==
  ASSUME TypeOK, NEW r \in Requests, NEW last \in BOOLEAN, RolesChange(r, last)
  PROVE  past' \in Past
<1> DEFINE overtaken == (past.overtaken \cup AssigningOthers(r)) \ (IF last THEN {r} ELSE {})
           asked == AskedWith(r, past.askedRoles[req[r].user], req[r].wantedRoles)
<1>1. overtaken \subseteq Requests /\ asked \subseteq SUBSET Roles
  BY FieldTypes DEF TypeOK, Past, AssigningOthers, AskedWith
<1>2. past' = [past EXCEPT !.overtaken = overtaken, !.askedRoles = [past.askedRoles EXCEPT ![req[r].user] = asked]]
  BY DEF RolesChange, TypeOK, Past
<1> HIDE DEF overtaken, asked
<1> QED
  BY <1>1, <1>2, FieldTypes DEF TypeOK, Past

LEMMA PermsChangeType ==
  ASSUME TypeOK, NEW r \in Requests, PermsChange(r)
  PROVE  past' \in Past
<1> DEFINE overtaken == (past.overtaken \cup ReplacingOthers(r)) \ {r}
           asked == AskedWith(r, past.askedPerms[req[r].role], req[r].wantedPerms)
<1>1. overtaken \subseteq Requests /\ asked \subseteq SUBSET Perms
  BY FieldTypes DEF TypeOK, Past, ReplacingOthers, AskedWith
<1>2. past' = [past EXCEPT !.overtaken = overtaken, !.askedPerms = [past.askedPerms EXCEPT ![req[r].role] = asked]]
  BY DEF PermsChange, TypeOK, Past
<1> HIDE DEF overtaken, asked
<1> QED
  BY <1>1, <1>2, FieldTypes DEF TypeOK, Past

LEMMA FoundType ==
  ASSUME TypeOK, NEW r \in Requests, NEW pc \in PC,
         NEW foundRoles \in SUBSET Roles, NEW foundPerms \in SUBSET Perms
  PROVE  /\ [req[r] EXCEPT !.foundRoles = foundRoles, !.pc = pc] \in Request
         /\ [req[r] EXCEPT !.pc = pc, !.foundPerms = foundPerms] \in Request
<1>1. req[r] \in Request
  BY DEF TypeOK
<1>2. [req[r] EXCEPT !.foundRoles = foundRoles, !.pc = pc] \in Request
  BY <1>1 DEF Request
<1>3. [req[r] EXCEPT !.pc = pc, !.foundPerms = foundPerms] \in Request
  BY <1>1 DEF Request
<1> QED
  BY <1>2, <1>3

LEMMA TypeRoles ==
  ASSUME TypeOK, NEW r \in Requests,
         \/ HeldRead(r) \/ Drop(r) \/ Give(r) \/ InsertRole(r) \/ UpdateRole(r)
         \/ PermsRead(r) \/ Replace(r) \/ CountHolders(r) \/ DeleteRole(r)
  PROVE  TypeOK'
<1> USE FieldTypes
<1>1. CASE HeldRead(r)
  <2>1. CASE End(r)
    BY <1>1, <2>1, EndType DEF HeldRead, rows, TypeOK
  <2>2. CASE \E pc \in {"give", "drop"} :
               req' = [req EXCEPT ![r] = [req[r] EXCEPT !.foundRoles = RolesOf(req[r].user), !.pc = pc]]
    <3>1. PICK pc \in {"give", "drop"} :
            req' = [req EXCEPT ![r] = [req[r] EXCEPT !.foundRoles = RolesOf(req[r].user), !.pc = pc]]
      BY <2>2
    <3> DEFINE found == RolesOf(req[r].user)
    <3>2. found \subseteq Roles /\ pc \in PC
      BY DEF RolesOf, PC
    <3> HIDE DEF found
    <3>3. [req[r] EXCEPT !.foundRoles = found, !.pc = pc] \in Request
      BY <3>2, FoundType
    <3> QED
      BY <1>1, <3>1, <3>3 DEF HeldRead, rows, TypeOK, found
  <2> QED
    BY <1>1, <2>1, <2>2 DEF HeldRead
<1>2. CASE Drop(r)
  <2>1. holds' \subseteq Users \X Roles
    BY <1>2 DEF Drop, TypeOK
  <2>2. req' \in [Requests -> Request]
    BY <1>2, EndType, GotoType DEF Drop, PC
  <2>3. (ToGive(r) = {}) \in BOOLEAN
    OBVIOUS
  <2>4. past' \in Past
    BY <1>2, <2>3, RolesChangeType DEF Drop
  <2> QED
    BY <1>2, <2>1, <2>2, <2>4 DEF Drop, TypeOK
<1>3. CASE Give(r)
  <2>1. holds' \subseteq Users \X Roles
    BY <1>3 DEF Give, TypeOK, ToGive
  <2>2. req' \in [Requests -> Request] /\ past' \in Past
    BY <1>3, EndType, RolesChangeType DEF Give
  <2> QED
    BY <1>3, <2>1, <2>2 DEF Give, TypeOK
<1>4. CASE InsertRole(r)
  BY <1>4, GotoType DEF InsertRole, TypeOK, RowStates, PC
<1>5. CASE UpdateRole(r) \/ CountHolders(r)
  <2>1. req' \in [Requests -> Request]
    BY <1>5, EndType, GotoType DEF UpdateRole, CountHolders, PC
  <2> QED
    BY <1>5, <2>1 DEF UpdateRole, CountHolders, rows, TypeOK
<1>6. CASE PermsRead(r)
  <2> DEFINE found == PermsOf(req[r].role)
  <2>1. found \subseteq Perms
    BY DEF PermsOf
  <2> HIDE DEF found
  <2>2. [req[r] EXCEPT !.pc = "replace", !.foundPerms = found] \in Request
    BY <2>1, FoundType DEF PC
  <2> QED
    BY <1>6, <2>2 DEF PermsRead, rows, TypeOK, found
<1>7. CASE Replace(r)
  <2>1. perm' \subseteq Roles \X Perms
    BY <1>7 DEF Replace, TypeOK
  <2>2. req' \in [Requests -> Request] /\ past' \in Past
    BY <1>7, EndType, PermsChangeType DEF Replace
  <2> QED
    BY <1>7, <2>1, <2>2 DEF Replace, TypeOK
<1>8. CASE DeleteRole(r)
  <2> DEFINE n == req[r].role
             overtaken == past.overtaken \cup ReplacingOthers(r)
             refilled == IF MayRefill(n) THEN past.refilled \cup {n} ELSE past.refilled
  <2>1. overtaken \subseteq Requests /\ refilled \subseteq Roles
    BY DEF TypeOK, Past, ReplacingOthers
  <2>2. past' = [past EXCEPT !.overtaken = overtaken, !.refilled = refilled,
                             !.askedPerms = [past.askedPerms EXCEPT ![n] = {{}}]]
    BY <1>8 DEF DeleteRole, DeletedWith, TypeOK, Past
  <2> HIDE DEF overtaken, refilled
  <2>3. past' \in Past
    BY <2>1, <2>2 DEF TypeOK, Past
  <2>4. role' \in [Roles -> RowStates] /\ perm' \subseteq Roles \X Perms
    BY <1>8 DEF DeleteRole, DeletedWith, TypeOK, RowStates
  <2>5. req' \in [Requests -> Request]
    BY <1>8, EndType DEF DeleteRole, DeletedWith
  <2> QED
    BY <1>8, <2>3, <2>4, <2>5 DEF DeleteRole, DeletedWith, TypeOK
<1> QED
  BY <1>1, <1>2, <1>3, <1>4, <1>5, <1>6, <1>7, <1>8

LEMMA TypeFail ==
  ASSUME TypeOK, NEW r \in Requests, Fail(r)
  PROVE  TypeOK'
<1> DEFINE cut == IF At(r, "give") THEN past.cut \cup {req[r].user} ELSE past.cut
<1>1. past' = [past EXCEPT !.overtaken = past.overtaken \ {r}, !.cut = cut] /\ cut \subseteq Users
  BY FieldTypes DEF Fail, TypeOK, Past
<1> HIDE DEF cut
<1>2. past' \in Past
  BY <1>1 DEF TypeOK, Past
<1> QED
  BY <1>2, EndType DEF Fail, rows, TypeOK

LEMMA TypeStep ==
  ASSUME TypeOK, [Next]_vars
  PROVE  TypeOK'
<1>1. ASSUME NEW r \in Requests, Step(r)
      PROVE  TypeOK'
  BY <1>1, TypeReads, TypeAccounts, TypeRoles, TypeFail DEF Step
<1>2. CASE UNCHANGED vars
  BY <1>2 DEF vars, TypeOK
<1> QED
  BY <1>1, <1>2 DEF Next, AllServed

\* The state of every row and handler has its type.
THEOREM TypeCorrect == Spec => []TypeOK
<1>1. Init => TypeOK
  BY TypeInit
<1>2. TypeOK /\ [Next]_vars => TypeOK'
  BY TypeStep
<1> QED
  BY <1>1, <1>2, PTL DEF Spec

-----------------------------------------------------------------------------
(* What the properties rest on.                                            *)

\* What the position of a handler says of its body and its rows.
Flows ==
  \A r \in Requests :
    /\ At(r, "write") /\ req[r].kind \in UserKinds \ {"restoreUser"} => req[r].seen.state = "live"
    /\ req[r].pc \in {"count", "delete"} => req[r].role \notin System
    /\ req[r].pc \in {"perms", "replace"} => req[r].replaces
    /\ Doing(r, "createRole", "insert") => req[r].replaces

\* Versions only grow: the form that was read is the row's, or older.
FormsRead ==
  \A r \in Requests :
    Doing(r, "updateUser", "write") =>
      LET a == account[req[r].user]
          seen == req[r].seen
      IN /\ a.state # "none"
         /\ seen.version <= a.version
         /\ seen.version = a.version => seen.by = a.by

\* Roles of the seed are not deleted; a deleted role that may be filled again is known.
Refills ==
  \A n \in Roles : role[n] = "deleted" => n \notin System /\ (MayRefill(n) => n \in past.refilled)

\* What a handler has found is still there, unless it was overtaken.
PermsFound ==
  \A r \in Requests \ past.overtaken : At(r, "replace") => PermsOf(req[r].role) = req[r].foundPerms

RolesFound ==
  \A r \in Requests \ past.overtaken :
    /\ At(r, "drop") => RolesOf(req[r].user) = req[r].foundRoles
    /\ At(r, "give") => RolesOf(req[r].user) = req[r].foundRoles \cap req[r].wantedRoles

\* A user has what all have asked for, or is about to be given it, or a gift failed.
RolesDue ==
  \A u \in Users, n \in Roles :
    (\A body \in past.askedRoles[u] : n \in body) =>
      \/ n \in RolesOf(u) \/ u \in past.cut
      \/ \E r \in Requests : At(r, "give") /\ req[r].user = u /\ n \in ToGive(r)

RolesAsked == \A u \in Users : RolesOf(u) \subseteq UNION past.askedRoles[u]

Accounts == FormsRead /\ DeletedUserIsOut
RolePerms == Refills /\ DeletedRoleGrantsNothing /\ PermsFound /\ RolePermissionsAsAsked
UserRoles == RolesFound /\ RolesDue /\ RolesAsked

IInv == TypeOK /\ Flows /\ Accounts /\ RolePerms /\ UserRoles

-----------------------------------------------------------------------------
(* What a step does to the handlers.                                        *)

\* The handler goes on: all but its position stays.
GoesTo(r, pc) == req'[r] = [req[r] EXCEPT !.pc = pc]

Ends(r) == req'[r].pc = "ended" /\ req'[r].kind = "none" /\ ~req'[r].replaces

Begins(r) ==
  /\ At(r, "idle")
  /\ \/ req'[r].pc = "insert" /\ req'[r].kind = "createUser" /\ ~req'[r].replaces
     \/ req'[r].pc = "insert" /\ req'[r].kind = "createRole" /\ req'[r].replaces
     \/ /\ req'[r].pc = "write" /\ req'[r].kind = "updateUser" /\ ~req'[r].replaces
        /\ req'[r].seen = account[req'[r].user] /\ account[req'[r].user].state = "live"
     \/ /\ req'[r].pc = "write" /\ req'[r].kind \in {"removeUser", "restoreUser", "suspend", "unsuspend"}
        /\ req'[r].kind # "restoreUser" => req'[r].seen.state = "live"
        /\ ~req'[r].replaces
     \/ /\ req'[r].kind \in RoleKinds \ {"createRole"} /\ req'[r].pc = RoleCall[req'[r].kind]
        /\ role[req'[r].role] = "live"
        /\ req'[r].kind = "removeRole" => req'[r].role \notin System
        /\ req'[r].kind = "setPermissions" => req'[r].replaces

Moves(r) ==
  \/ Begins(r) \/ Ends(r)
  \/ At(r, "insert") /\ req[r].kind = "createUser" /\ GoesTo(r, "held")
  \/ At(r, "insert") /\ req[r].kind = "createRole" /\ GoesTo(r, "perms")
  \/ At(r, "write") /\ req[r].kind = "updateUser" /\ GoesTo(r, "held")
  \/ At(r, "write") /\ req[r].kind = "updateRole" /\ req[r].replaces /\ GoesTo(r, "perms")
  \/ At(r, "held") /\ \E pc \in {"give", "drop"} :
       /\ req'[r] = [req[r] EXCEPT !.foundRoles = RolesOf(req[r].user), !.pc = pc]
       /\ pc = "give" => RolesOf(req[r].user) \subseteq req[r].wantedRoles
  \/ At(r, "drop") /\ GoesTo(r, "give")
  \/ At(r, "perms") /\ req'[r] = [req[r] EXCEPT !.pc = "replace", !.foundPerms = PermsOf(req[r].role)]
  \/ At(r, "count") /\ GoesTo(r, "delete")

LEMMA EndEffect ==
  ASSUME TypeOK, NEW r \in Requests, End(r)
  PROVE  Ends(r) /\ \A q \in Requests \ {r} : req'[q] = req[q]
  BY DEF End, Ends, TypeOK, Nothing

LEMMA GotoEffect ==
  ASSUME TypeOK, NEW r \in Requests, NEW pc, Goto(r, pc)
  PROVE  GoesTo(r, pc) /\ \A q \in Requests \ {r} : req'[q] = req[q]
  BY DEF Goto, GoesTo, TypeOK

LEMMA StepMoves ==
  ASSUME TypeOK, NEW r \in Requests, Step(r)
  PROVE  Moves(r) /\ \A q \in Requests \ {r} : req'[q] = req[q]
<1> SUFFICES Moves(r) /\ \A q \in Requests \ {r} : req'[q] = req[q]
  OBVIOUS
<1>1. CASE End(r)
  BY <1>1, EndEffect DEF Moves
<1>2. CASE CreateUserRead(r)
  <2>1. PICK u \in Users, wanted \in SUBSET Roles :
          req' = [req EXCEPT ![r] = [Nothing EXCEPT !.pc = "insert", !.kind = "createUser", !.user = u,
                                                    !.wantedRoles = wanted]]
    BY <1>2 DEF CreateUserRead
  <2> QED
    BY <1>2, <2>1 DEF CreateUserRead, Moves, Begins, Nothing, TypeOK
<1>3. CASE UpdateUserRead(r)
  <2>1. PICK u \in Users, wanted \in SUBSET Roles, active \in {{}, {TRUE}, {FALSE}} :
          /\ account[u].state = "live"
          /\ req' = [req EXCEPT ![r] = [Nothing EXCEPT !.pc = "write", !.kind = "updateUser", !.user = u,
                                    !.wantedRoles = wanted, !.active = active, !.seen = account[u]]]
    BY <1>3 DEF UpdateUserRead
  <2> QED
    BY <1>3, <2>1 DEF UpdateUserRead, Moves, Begins, Nothing, TypeOK
<1>4. CASE SwitchRead(r)
  <2>1. PICK u \in Users, kind \in {"removeUser", "restoreUser", "suspend", "unsuspend"} :
          /\ account[u].state = (IF kind = "restoreUser" THEN "deleted" ELSE "live")
          /\ req' = [req EXCEPT ![r] = [Nothing EXCEPT !.pc = "write", !.kind = kind, !.user = u,
                                                       !.seen = [Absent EXCEPT !.state = account[u].state]]]
    BY <1>4 DEF SwitchRead
  <2>2. [Absent EXCEPT !.state = account[u].state].state = account[u].state
    BY DEF Absent
  <2> QED
    BY <1>4, <2>1, <2>2 DEF SwitchRead, Moves, Begins, Nothing, TypeOK
<1>5. CASE CreateRoleRead(r)
  <2>1. PICK n \in Roles, wanted \in SUBSET Perms :
          req' = [req EXCEPT ![r] = [Nothing EXCEPT !.pc = "insert", !.kind = "createRole", !.role = n,
                                                    !.wantedPerms = wanted, !.replaces = TRUE]]
    BY <1>5 DEF CreateRoleRead
  <2> QED
    BY <1>5, <2>1 DEF CreateRoleRead, Moves, Begins, Nothing, TypeOK
<1>6. CASE RoleRead(r)
  <2>1. PICK n \in Roles, kind \in RoleKinds \ {"createRole"}, wanted \in SUBSET Perms, replaces \in BOOLEAN :
          /\ At(r, "idle") /\ role[n] = "live"
          /\ kind = "removeRole" => n \notin System
          /\ kind # "updateRole" => (replaces <=> kind = "setPermissions")
          /\ req' = [req EXCEPT ![r] = [Nothing EXCEPT !.pc = RoleCall[kind], !.kind = kind, !.role = n,
                                                    !.wantedPerms = wanted, !.replaces = replaces]]
    BY ZenonT(40), <1>6 DEF RoleRead
  <2>2. /\ req'[r].kind = kind /\ req'[r].pc = RoleCall[kind] /\ req'[r].role = n /\ req'[r].replaces = replaces
        /\ \A q \in Requests \ {r} : req'[q] = req[q]
    BY <2>1 DEF Nothing, TypeOK
  <2> QED
    BY <2>1, <2>2 DEF Moves, Begins
<1>7. CASE HeldRead(r) /\ ~End(r)
  <2>1. PICK pc \in {"give", "drop"} :
          /\ req' = [req EXCEPT ![r] = [req[r] EXCEPT !.foundRoles = RolesOf(req[r].user), !.pc = pc]]
          /\ pc = "give" => RolesOf(req[r].user) \subseteq req[r].wantedRoles
    BY <1>7 DEF HeldRead
  <2> QED
    BY <1>7, <2>1 DEF HeldRead, Moves, TypeOK
<1>8. CASE PermsRead(r)
  BY <1>8 DEF PermsRead, Moves, TypeOK
<1>9. CASE (InsertUser(r) \/ UpdateUser(r) \/ Drop(r) \/ InsertRole(r) \/ UpdateRole(r) \/ CountHolders(r)) /\ ~End(r)
  <2>1. \/ Goto(r, "held") /\ At(r, "insert") /\ req[r].kind = "createUser"
        \/ Goto(r, "held") /\ At(r, "write") /\ req[r].kind = "updateUser"
        \/ Goto(r, "give") /\ At(r, "drop")
        \/ Goto(r, "perms") /\ At(r, "insert") /\ req[r].kind = "createRole"
        \/ Goto(r, "perms") /\ At(r, "write") /\ req[r].kind = "updateRole" /\ req[r].replaces
        \/ Goto(r, "delete") /\ At(r, "count")
    BY <1>9 DEF InsertUser, UpdateUser, FormWrite, AfterForm, Drop, InsertRole, UpdateRole, CountHolders, Doing
  <2> QED
    BY <2>1, GotoEffect DEF Moves
<1>10. CASE Refuse(r) \/ SwitchWrite(r) \/ Give(r) \/ Replace(r) \/ DeleteRole(r) \/ Fail(r)
  <2>1. End(r)
    BY <1>10 DEF Refuse, SwitchWrite, Give, Replace, DeleteRole, DeletedWith, Fail
  <2> QED
    BY <1>1, <2>1
<1> QED
  BY <1>1, <1>2, <1>3, <1>4, <1>5, <1>6, <1>7, <1>8, <1>9, <1>10 DEF Step

LEMMA FlowsStep ==
  ASSUME TypeOK, Flows, NEW r \in Requests, Step(r)
  PROVE  Flows'
<1>1. Moves(r) /\ \A q \in Requests \ {r} : req'[q] = req[q]
  BY StepMoves
<1>2. /\ req'[r].pc = "write" /\ req'[r].kind \in UserKinds \ {"restoreUser"} => req'[r].seen.state = "live"
      /\ req'[r].pc \in {"count", "delete"} => req'[r].role \notin System
      /\ req'[r].pc \in {"perms", "replace"} => req'[r].replaces
      /\ req'[r].kind = "createRole" /\ req'[r].pc = "insert" => req'[r].replaces
  <2>0. req[r] \in Request
    BY DEF TypeOK
  <2>1. CASE Begins(r)
    BY <2>1 DEF Begins, UserKinds, RoleKinds, RoleCall
  <2>2. CASE Ends(r)
    BY <2>2 DEF Ends
  <2>3. CASE ~Begins(r) /\ ~Ends(r)
    BY ZenonT(40), <1>1, <2>0, <2>3 DEF Moves, GoesTo, Flows, At, Doing, Request
  <2> QED
    BY <2>1, <2>2, <2>3
<1>3. ASSUME NEW q \in Requests, q # r
      PROVE  /\ req'[q].pc = "write" /\ req'[q].kind \in UserKinds \ {"restoreUser"} => req'[q].seen.state = "live"
             /\ req'[q].pc \in {"count", "delete"} => req'[q].role \notin System
             /\ req'[q].pc \in {"perms", "replace"} => req'[q].replaces
             /\ req'[q].kind = "createRole" /\ req'[q].pc = "insert" => req'[q].replaces
  BY <1>1, <1>3 DEF Flows, At, Doing
<1> QED
  BY <1>2, <1>3 DEF Flows, At, Doing

-----------------------------------------------------------------------------
(* Accounts.                                                               *)

Enabled(r) == IF req[r].active = {} THEN account[req[r].user].active ELSE TRUE \in req[r].active

LEMMA AccountSteps ==
  ASSUME TypeOK, NEW r \in Requests, Step(r), NEW u \in Users
  PROVE  \/ account'[u] = account[u] /\ ~(SwitchWrite(r) /\ u = req[r].user)
         \/ /\ InsertUser(r) /\ u = req[r].user
            /\ account[u].state = "none" /\ account'[u].state = "live" /\ account'[u].by = r
         \/ /\ UpdateUser(r) /\ u = req[r].user /\ FormWrite(r)
            /\ account[u].version = req[r].seen.version
            /\ account'[u].version = account[u].version + 1 /\ account'[u].by = r
            /\ account'[u].state = account[u].state /\ account'[u].active = Enabled(r)
         \/ /\ SwitchWrite(r) /\ u = req[r].user
            /\ account'[u].version = account[u].version /\ account'[u].by = account[u].by
            /\ account'[u].active = (req[r].kind \in {"restoreUser", "unsuspend"})
            /\ account'[u].state = CASE req[r].kind = "removeUser" -> "deleted"
                                     [] req[r].kind = "restoreUser" -> "live"
                                     [] OTHER -> account[u].state
<1>0. req[r].user \in Users /\ account[u] \in Account
  BY FieldTypes DEF TypeOK
<1>1. CASE InsertUser(r)
  <2>1. ~SwitchWrite(r)
    BY <1>1 DEF InsertUser, SwitchWrite, Doing, At
  <2> QED
    BY <1>0, <1>1, <2>1 DEF InsertUser, TypeOK
<1>2. CASE UpdateUser(r) /\ FormWrite(r) /\ account[req[r].user].version = req[r].seen.version
  <2>1. account' = [account EXCEPT ![req[r].user] =
          [account[req[r].user] EXCEPT !.active = Enabled(r), !.version = account[req[r].user].version + 1, !.by = r]]
    BY <1>2 DEF FormWrite, Enabled
  <2>2. CASE u = req[r].user
    BY <1>0, <1>2, <2>1, <2>2 DEF TypeOK, Account
  <2>3. CASE u # req[r].user
    BY <1>0, <2>1, <2>3 DEF TypeOK
  <2> QED
    BY <2>2, <2>3
<1>3. CASE SwitchWrite(r)
  <2> DEFINE active == req[r].kind \in {"restoreUser", "unsuspend"}
             state == CASE req[r].kind = "removeUser" -> "deleted"
                        [] req[r].kind = "restoreUser" -> "live"
                        [] OTHER -> account[req[r].user].state
  <2>1. account' = [account EXCEPT ![req[r].user] = [account[req[r].user] EXCEPT !.active = active, !.state = state]]
    BY <1>3 DEF SwitchWrite
  <2> HIDE DEF active, state
  <2>2. CASE u = req[r].user
    <3>1. /\ account'[u].version = account[u].version /\ account'[u].by = account[u].by
          /\ account'[u].active = active /\ account'[u].state = state
      BY <1>0, <2>1, <2>2 DEF TypeOK, Account
    <3> QED
      BY <1>3, <2>2, <3>1 DEF active, state
  <2>3. CASE u # req[r].user
    BY <1>0, <2>1, <2>3 DEF TypeOK
  <2> QED
    BY <2>2, <2>3
<1>4. CASE ~InsertUser(r) /\ ~SwitchWrite(r) /\ ~(UpdateUser(r) /\ FormWrite(r) /\ account[req[r].user].version = req[r].seen.version)
  <2>1. account' = account
    BY <1>4 DEF Step, Refuse, CreateUserRead, UpdateUserRead, UpdateUser, SwitchRead, HeldRead, Drop, Give,
       CreateRoleRead, InsertRole, RoleRead, UpdateRole, PermsRead, Replace, CountHolders, DeleteRole,
       DeletedWith, Fail, rows
  <2> QED
    BY <1>4, <2>1
<1> QED
  BY <1>1, <1>2, <1>3, <1>4

LEMMA FormsReadStep ==
  ASSUME TypeOK, FormsRead, NEW r \in Requests, Step(r)
  PROVE  FormsRead'
<1> SUFFICES ASSUME NEW q \in Requests, req'[q].pc = "write", req'[q].kind = "updateUser"
             PROVE  LET a == account'[req'[q].user]
                        seen == req'[q].seen
                    IN /\ a.state # "none"
                       /\ seen.version <= a.version
                       /\ seen.version = a.version => seen.by = a.by
  BY DEF FormsRead, At, Doing
<1> DEFINE u == req'[q].user
<1>1. Moves(r) /\ \A o \in Requests \ {r} : req'[o] = req[o]
  BY StepMoves
<1>2. req[q] \in Request /\ req[r] \in Request
  BY DEF TypeOK
<1>3. CASE q = r
  <2>1. Begins(r)
    BY <1>1, <1>2, <1>3 DEF Moves, GoesTo, Ends, Request
  <2>2. At(r, "idle") /\ req'[r].seen = account[u] /\ account[u].state = "live"
    BY <1>3, <2>1 DEF Begins, RoleKinds
  <2>3. u \in Users
    BY <1>3, TypeStep DEF Next, TypeOK, Request
  <2>4. account'[u] = account[u]
    BY <2>2, <2>3, AccountSteps DEF InsertUser, UpdateUser, SwitchWrite, Doing, At
  <2>5. account[u].version \in Nat
    BY <2>3 DEF TypeOK, Account
  <2> QED
    BY <1>3, <2>2, <2>4, <2>5
<1>4. CASE q # r
  <2>1. req'[q] = req[q]
    BY <1>1, <1>4
  <2>2. u \in Users /\ account[u] \in Account /\ req[q].seen \in Account
    BY <2>1, FieldTypes DEF TypeOK
  <2>3. /\ account[u].state # "none"
        /\ req[q].seen.version <= account[u].version
        /\ req[q].seen.version = account[u].version => req[q].seen.by = account[u].by
    BY <2>1 DEF FormsRead, At, Doing
  <2>4. \/ account'[u].version = account[u].version /\ account'[u].by = account[u].by
        \/ account'[u].version = account[u].version + 1
    BY <2>2, <2>3, AccountSteps
  <2>5. account'[u].state # "none"
    BY <2>2, <2>3, AccountSteps
  <2> QED
    BY <2>1, <2>2, <2>3, <2>4, <2>5 DEF Account
<1> QED
  BY <1>3, <1>4

\* Whom a step revives, and whom it takes from the revived.
LEMMA RevivedSteps ==
  ASSUME TypeOK, NEW r \in Requests, Step(r), NEW u \in Users
  PROVE  /\ u \in past.revived => u \in past'.revived \/ (SwitchWrite(r) /\ u = req[r].user)
         /\ u = req[r].user /\ GoneSince(r) =>
              /\ UpdateUser(r) /\ FormWrite(r) /\ TRUE \in req[r].active => u \in past'.revived
              /\ SwitchWrite(r) /\ req[r].kind = "unsuspend" => u \in past'.revived
<1>1. CASE UpdateUser(r) /\ FormWrite(r)
  <2>1. past'.revived = IF TRUE \in req[r].active /\ GoneSince(r) THEN past.revived \cup {req[r].user} ELSE past.revived
    BY <1>1 DEF FormWrite, TypeOK, Past
  <2>2. ~SwitchWrite(r)
    BY <1>1 DEF UpdateUser, SwitchWrite, Doing
  <2> QED
    BY <2>1, <2>2
<1>2. CASE SwitchWrite(r)
  <2>1. past'.revived = IF req[r].kind = "unsuspend" /\ GoneSince(r)
                          THEN past.revived \cup {req[r].user} ELSE past.revived \ {req[r].user}
    BY <1>2 DEF SwitchWrite, TypeOK, Past
  <2>2. ~UpdateUser(r)
    BY <1>2 DEF UpdateUser, SwitchWrite, Doing
  <2> QED
    BY <1>2, <2>1, <2>2
<1>3. CASE ~(UpdateUser(r) /\ FormWrite(r)) /\ ~SwitchWrite(r)
  <2>1. CASE Drop(r) \/ Give(r)
    <3>1. PICK last \in BOOLEAN : RolesChange(r, last)
      BY <2>1 DEF Drop, Give
    <3> QED
      BY <1>3, <3>1 DEF RolesChange, TypeOK, Past
  <2>2. CASE Replace(r)
    BY <1>3, <2>2 DEF Replace, PermsChange, TypeOK, Past
  <2>3. CASE DeleteRole(r)
    BY <1>3, <2>3 DEF DeleteRole, DeletedWith, TypeOK, Past
  <2>4. CASE Fail(r)
    BY <1>3, <2>4 DEF Fail, TypeOK, Past
  <2>5. CASE ~Drop(r) /\ ~Give(r) /\ ~Replace(r) /\ ~DeleteRole(r) /\ ~Fail(r)
    <3>1. past' = past
      BY <1>3, <2>5 DEF Step, Refuse, CreateUserRead, InsertUser, UpdateUserRead, UpdateUser, SwitchRead, HeldRead,
         CreateRoleRead, InsertRole, RoleRead, UpdateRole, PermsRead, CountHolders
    <3> QED
      BY <1>3, <3>1
  <2> QED
    BY <2>1, <2>2, <2>3, <2>4, <2>5
<1> QED
  BY <1>1, <1>2, <1>3

LEMMA DeletedUserIsOutStep ==
  ASSUME TypeOK, Flows, DeletedUserIsOut, NEW r \in Requests, Step(r)
  PROVE  DeletedUserIsOut'
<1> SUFFICES ASSUME NEW u \in Users, account'[u].state = "deleted", account'[u].active
             PROVE  u \in past'.revived
  BY DEF DeletedUserIsOut, Accepts
<1>0. account[u] \in Account /\ req[r] \in Request
  BY DEF TypeOK
<1>1. CASE account'[u] = account[u] /\ ~(SwitchWrite(r) /\ u = req[r].user)
  BY <1>1, RevivedSteps DEF DeletedUserIsOut, Accepts
<1>2. CASE /\ UpdateUser(r) /\ u = req[r].user /\ FormWrite(r)
           /\ account'[u].state = account[u].state /\ account'[u].active = Enabled(r)
  <2>1. CASE req[r].active = {}
    <3>1. account[u].active /\ account[u].state = "deleted"
      BY <1>2, <2>1 DEF Enabled
    <3>2. ~SwitchWrite(r)
      BY <1>2 DEF UpdateUser, SwitchWrite, Doing
    <3> QED
      BY <3>1, <3>2, RevivedSteps DEF DeletedUserIsOut, Accepts
  <2>2. CASE req[r].active # {}
    <3>1. TRUE \in req[r].active
      BY <1>2, <2>2 DEF Enabled
    <3>2. GoneSince(r)
      BY <1>2 DEF UpdateUser, Doing, Flows, UserKinds, GoneSince
    <3> QED
      BY <1>2, <3>1, <3>2, RevivedSteps
  <2> QED
    BY <2>1, <2>2
<1>3. CASE /\ SwitchWrite(r) /\ u = req[r].user
           /\ account'[u].active = (req[r].kind \in {"restoreUser", "unsuspend"})
           /\ account'[u].state = CASE req[r].kind = "removeUser" -> "deleted"
                                     [] req[r].kind = "restoreUser" -> "live"
                                     [] OTHER -> account[u].state
  <2>1. req[r].kind = "unsuspend" /\ account[u].state = "deleted"
    BY <1>3
  <2>2. GoneSince(r)
    BY <1>3, <2>1 DEF SwitchWrite, Flows, UserKinds, GoneSince
  <2> QED
    BY <1>3, <2>1, <2>2, RevivedSteps
<1> QED
  BY <1>1, <1>2, <1>3, AccountSteps

-----------------------------------------------------------------------------
(* What a step does to the history.                                        *)

LEMMA RolesChangeEffect ==
  ASSUME TypeOK, NEW r \in Requests, NEW last \in BOOLEAN, RolesChange(r, last)
  PROVE  /\ past'.overtaken = (past.overtaken \cup AssigningOthers(r)) \ (IF last THEN {r} ELSE {})
         /\ past'.askedRoles[req[r].user] = AskedWith(r, past.askedRoles[req[r].user], req[r].wantedRoles)
         /\ \A u \in Users \ {req[r].user} : past'.askedRoles[u] = past.askedRoles[u]
         /\ past'.askedPerms = past.askedPerms /\ past'.refilled = past.refilled /\ past'.cut = past.cut
<1> DEFINE overtaken == (past.overtaken \cup AssigningOthers(r)) \ (IF last THEN {r} ELSE {})
           asked == AskedWith(r, past.askedRoles[req[r].user], req[r].wantedRoles)
<1>1. past' = [past EXCEPT !.overtaken = overtaken, !.askedRoles = [past.askedRoles EXCEPT ![req[r].user] = asked]]
  BY DEF RolesChange, TypeOK, Past
<1> HIDE DEF overtaken, asked
<1>2. /\ past'.overtaken = overtaken /\ past'.askedRoles[req[r].user] = asked
      /\ \A u \in Users \ {req[r].user} : past'.askedRoles[u] = past.askedRoles[u]
      /\ past'.askedPerms = past.askedPerms /\ past'.refilled = past.refilled /\ past'.cut = past.cut
  BY <1>1, FieldTypes DEF TypeOK, Past
<1> QED
  BY <1>2 DEF overtaken, asked

LEMMA ReplaceEffect ==
  ASSUME TypeOK, NEW r \in Requests, Replace(r)
  PROVE  /\ past'.overtaken = (past.overtaken \cup ReplacingOthers(r)) \ {r}
         /\ past'.askedPerms[req[r].role] = AskedWith(r, past.askedPerms[req[r].role], req[r].wantedPerms)
         /\ \A n \in Roles \ {req[r].role} : past'.askedPerms[n] = past.askedPerms[n]
         /\ past'.askedRoles = past.askedRoles /\ past'.refilled = past.refilled /\ past'.cut = past.cut
<1> DEFINE overtaken == (past.overtaken \cup ReplacingOthers(r)) \ {r}
           asked == AskedWith(r, past.askedPerms[req[r].role], req[r].wantedPerms)
<1>1. past' = [past EXCEPT !.overtaken = overtaken, !.askedPerms = [past.askedPerms EXCEPT ![req[r].role] = asked]]
  BY DEF Replace, PermsChange, TypeOK, Past
<1> HIDE DEF overtaken, asked
<1>2. /\ past'.overtaken = overtaken /\ past'.askedPerms[req[r].role] = asked
      /\ \A n \in Roles \ {req[r].role} : past'.askedPerms[n] = past.askedPerms[n]
      /\ past'.askedRoles = past.askedRoles /\ past'.refilled = past.refilled /\ past'.cut = past.cut
  BY <1>1, FieldTypes DEF TypeOK, Past
<1> QED
  BY <1>2 DEF overtaken, asked

LEMMA DeleteEffect ==
  ASSUME TypeOK, NEW r \in Requests, DeleteRole(r)
  PROVE  /\ past'.overtaken = past.overtaken \cup ReplacingOthers(r)
         /\ past'.askedPerms[req[r].role] = {{}}
         /\ \A n \in Roles \ {req[r].role} : past'.askedPerms[n] = past.askedPerms[n]
         /\ past.refilled \subseteq past'.refilled
         /\ MayRefill(req[r].role) => req[r].role \in past'.refilled
         /\ past'.askedRoles = past.askedRoles /\ past'.cut = past.cut
<1> DEFINE overtaken == past.overtaken \cup ReplacingOthers(r)
           refilled == IF MayRefill(req[r].role) THEN past.refilled \cup {req[r].role} ELSE past.refilled
<1>1. past' = [past EXCEPT !.overtaken = overtaken, !.refilled = refilled,
                           !.askedPerms = [past.askedPerms EXCEPT ![req[r].role] = {{}}]]
  BY DEF DeleteRole, DeletedWith, TypeOK, Past
<1> HIDE DEF overtaken, refilled
<1>2. /\ past'.overtaken = overtaken /\ past'.askedPerms[req[r].role] = {{}}
      /\ \A n \in Roles \ {req[r].role} : past'.askedPerms[n] = past.askedPerms[n]
      /\ past'.refilled = refilled
      /\ past'.askedRoles = past.askedRoles /\ past'.cut = past.cut
  BY <1>1, FieldTypes DEF TypeOK, Past
<1> QED
  BY <1>2 DEF overtaken, refilled

LEMMA FailEffect ==
  ASSUME TypeOK, NEW r \in Requests, Fail(r)
  PROVE  /\ past'.overtaken = past.overtaken \ {r}
         /\ past.cut \subseteq past'.cut /\ (At(r, "give") => req[r].user \in past'.cut)
         /\ past'.askedRoles = past.askedRoles /\ past'.askedPerms = past.askedPerms
         /\ past'.refilled = past.refilled
<1> DEFINE cut == IF At(r, "give") THEN past.cut \cup {req[r].user} ELSE past.cut
<1>1. past' = [past EXCEPT !.overtaken = past.overtaken \ {r}, !.cut = cut]
  BY DEF Fail, TypeOK, Past
<1> HIDE DEF cut
<1>2. /\ past'.overtaken = past.overtaken \ {r} /\ past'.cut = cut
      /\ past'.askedRoles = past.askedRoles /\ past'.askedPerms = past.askedPerms
      /\ past'.refilled = past.refilled
  BY <1>1 DEF TypeOK, Past
<1> QED
  BY <1>2 DEF cut

LEMMA OtherEffect ==
  ASSUME TypeOK, NEW r \in Requests, Step(r),
         ~Drop(r), ~Give(r), ~Replace(r), ~DeleteRole(r), ~Fail(r)
  PROVE  /\ past'.overtaken = past.overtaken /\ past'.cut = past.cut /\ past'.refilled = past.refilled
         /\ past'.askedRoles = past.askedRoles /\ past'.askedPerms = past.askedPerms
<1>1. CASE UpdateUser(r) /\ FormWrite(r)
  BY <1>1 DEF FormWrite, TypeOK, Past
<1>2. CASE SwitchWrite(r)
  BY <1>2 DEF SwitchWrite, TypeOK, Past
<1>3. CASE ~(UpdateUser(r) /\ FormWrite(r)) /\ ~SwitchWrite(r)
  <2>1. past' = past
    BY <1>3 DEF Step, Refuse, CreateUserRead, InsertUser, UpdateUserRead, UpdateUser, SwitchRead, HeldRead,
       CreateRoleRead, InsertRole, RoleRead, UpdateRole, PermsRead, CountHolders
  <2> QED
    BY <2>1
<1> QED
  BY <1>1, <1>2, <1>3

\* What all steps have in common.
LEMMA PastSteps ==
  ASSUME TypeOK, NEW r \in Requests, Step(r)
  PROVE  /\ \A q \in past.overtaken : q \in past'.overtaken \/ (q = r /\ Ends(r))
         /\ past.cut \subseteq past'.cut /\ past.refilled \subseteq past'.refilled
         /\ Replace(r) \/ DeleteRole(r) \/ past'.askedPerms = past.askedPerms
         /\ Drop(r) \/ Give(r) \/ past'.askedRoles = past.askedRoles
<1>1. CASE Drop(r) \/ Give(r)
  <2>1. PICK last \in BOOLEAN : RolesChange(r, last) /\ (last => End(r))
    BY <1>1 DEF Drop, Give
  <2> QED
    BY <1>1, <2>1, RolesChangeEffect, EndEffect
<1>2. CASE Replace(r)
  <2>1. Ends(r)
    BY <1>2, EndEffect DEF Replace
  <2> QED
    BY <1>2, <2>1, ReplaceEffect
<1>3. CASE DeleteRole(r)
  BY <1>3, DeleteEffect
<1>4. CASE Fail(r)
  <2>1. Ends(r)
    BY <1>4, EndEffect DEF Fail
  <2> QED
    BY <1>4, <2>1, FailEffect
<1> QED
  BY <1>1, <1>2, <1>3, <1>4, OtherEffect

-----------------------------------------------------------------------------
(* Permissions of roles.                                                   *)

LEMMA ReplaceRows ==
  ASSUME TypeOK, NEW r \in Requests, Replace(r)
  PROVE  /\ role' = role
         /\ \A n \in Roles \ {req[r].role} : PermsOf(n)' = PermsOf(n)
         /\ \A n \in Roles : n = req[r].role =>
              PermsOf(n)' = (PermsOf(n) \ (req[r].foundPerms \ req[r].wantedPerms))
                              \cup (req[r].wantedPerms \ req[r].foundPerms)
  BY FieldTypes DEF Replace, PermsOf

LEMMA DeleteRows ==
  ASSUME TypeOK, NEW r \in Requests, DeleteRole(r)
  PROVE  /\ \A n \in Roles \ {req[r].role} : PermsOf(n)' = PermsOf(n) /\ role'[n] = role[n]
         /\ \A n \in Roles : n = req[r].role => PermsOf(n)' = {}
  BY FieldTypes DEF DeleteRole, DeletedWith, PermsOf, TypeOK

LEMMA OtherRows ==
  ASSUME TypeOK, NEW r \in Requests, Step(r), ~Replace(r), ~DeleteRole(r)
  PROVE  /\ \A n \in Roles : PermsOf(n)' = PermsOf(n)
         /\ \A n \in Roles : role'[n] = "deleted" => role[n] = "deleted"
<1>1. perm' = perm
  BY DEF Step, Refuse, CreateUserRead, InsertUser, UpdateUserRead, UpdateUser, SwitchRead, SwitchWrite, HeldRead,
     Drop, Give, CreateRoleRead, InsertRole, RoleRead, UpdateRole, PermsRead, CountHolders, Fail, rows
<1>2. CASE InsertRole(r)
  BY <1>1, <1>2, FieldTypes DEF InsertRole, PermsOf, TypeOK
<1>3. CASE ~InsertRole(r)
  <2>1. role' = role
    BY <1>3 DEF Step, Refuse, CreateUserRead, InsertUser, UpdateUserRead, UpdateUser, SwitchRead, SwitchWrite, HeldRead,
       Drop, Give, CreateRoleRead, RoleRead, UpdateRole, PermsRead, CountHolders, Fail, rows
  <2> QED
    BY <1>1, <2>1 DEF PermsOf
<1> QED
  BY <1>2, <1>3

LEMMA RefillsStep ==
  ASSUME TypeOK, Flows, Refills, NEW r \in Requests, Step(r)
  PROVE  Refills'
<1> SUFFICES ASSUME NEW n \in Roles, role'[n] = "deleted"
             PROVE  n \notin System /\ (MayRefill(n)' => n \in past'.refilled)
  BY DEF Refills
<1>1. Moves(r) /\ \A q \in Requests \ {r} : req'[q] = req[q]
  BY StepMoves
<1>2. CASE DeleteRole(r) /\ n = req[r].role
  <2>1. n \notin System
    BY <1>2 DEF DeleteRole, DeletedWith, Flows, At
  <2>2. ~req'[r].replaces
    BY <1>2, EndEffect DEF DeleteRole, DeletedWith, Ends
  <2>3. MayRefill(n)' => MayRefill(n)
    BY <1>1, <2>2 DEF MayRefill
  <2> QED
    BY <1>2, <2>1, <2>3, DeleteEffect
<1>3. CASE ~(DeleteRole(r) /\ n = req[r].role)
  <2>1. role[n] = "deleted"
    BY <1>3, ReplaceRows, DeleteRows, OtherRows
  <2>2. ASSUME req'[r].role = n, req'[r].replaces, req'[r].pc \in {"write", "perms", "replace"}
        PROVE  MayRefill(n)
    <3>0. req[r] \in Request
      BY DEF TypeOK
    <3>1. ~Begins(r) /\ ~Ends(r)
      BY <2>1, <2>2 DEF Begins, Ends
    <3>2. ~(At(r, "insert") /\ req[r].kind = "createRole" /\ GoesTo(r, "perms"))
      <4>1. SUFFICES ASSUME At(r, "insert"), req[r].kind = "createRole", GoesTo(r, "perms")
                     PROVE  FALSE
        OBVIOUS
      <4>2. req'[r].pc = "perms" /\ req'[r].role = req[r].role
        BY <3>0, <4>1 DEF GoesTo, Request
      <4>3. InsertRole(r)
        BY <3>1, <4>1, <4>2, EndEffect DEF Step, Refuse, CreateUserRead, InsertUser, UpdateUserRead, UpdateUser,
           SwitchRead, SwitchWrite, HeldRead, Drop, Give, CreateRoleRead, RoleRead, UpdateRole, PermsRead, Replace,
           CountHolders, DeleteRole, DeletedWith, Fail, Doing, At
      <4> QED
        BY <2>2, <4>2, <4>3 DEF InsertRole, TypeOK
    <3>3. req[r].role = n /\ req[r].replaces /\ req[r].pc \in {"write", "perms"}
      BY <1>1, <2>2, <3>0, <3>1, <3>2 DEF Moves, GoesTo, Request, At
    <3> QED
      BY <3>3 DEF MayRefill
  <2>3. MayRefill(n)' => MayRefill(n)
    BY <1>1, <2>2 DEF MayRefill
  <2> QED
    BY <2>1, <2>3, PastSteps DEF Refills
<1> QED
  BY <1>2, <1>3

LEMMA GrantsOfOne ==
  ASSUME NEW n \in Roles, n \notin Wild
  PROVE  Permissions({n}) = PermsOf(n)
  BY DEF Permissions

LEMMA DeletedRoleGrantsNothingStep ==
  ASSUME TypeOK, Flows, Refills, DeletedRoleGrantsNothing, NEW r \in Requests, Step(r)
  PROVE  DeletedRoleGrantsNothing'
<1> SUFFICES ASSUME NEW n \in Roles, role'[n] = "deleted"
             PROVE  Permissions({n})' = {} \/ n \in past'.refilled
  BY DEF DeletedRoleGrantsNothing
<1>1. n \notin Wild
  BY RefillsStep, Seeds DEF Refills
<1>2. Permissions({n}) = PermsOf(n) /\ Permissions({n})' = PermsOf(n)'
  BY <1>1, GrantsOfOne DEF Permissions
<1>3. CASE DeleteRole(r) /\ n = req[r].role
  BY <1>2, <1>3, DeleteRows
<1>4. CASE Replace(r) /\ n = req[r].role
  <2>1. role[n] = "deleted" /\ MayRefill(n)
    BY <1>4, ReplaceRows DEF Replace, Flows, MayRefill, At
  <2> QED
    BY <2>1, PastSteps DEF Refills
<1>5. CASE ~(DeleteRole(r) /\ n = req[r].role) /\ ~(Replace(r) /\ n = req[r].role)
  <2>1. role[n] = "deleted" /\ PermsOf(n)' = PermsOf(n)
    BY <1>5, ReplaceRows, DeleteRows, OtherRows
  <2> QED
    BY <1>2, <2>1, PastSteps DEF DeletedRoleGrantsNothing
<1> QED
  BY <1>3, <1>4, <1>5

LEMMA PermsFoundStep ==
  ASSUME TypeOK, PermsFound, NEW r \in Requests, Step(r)
  PROVE  PermsFound'
<1> SUFFICES ASSUME NEW q \in Requests, q \notin past'.overtaken, req'[q].pc = "replace",
                    NEW n \in Roles, n = req'[q].role
             PROVE  PermsOf(n)' = req'[q].foundPerms
  <2>1. \A q \in Requests : req'[q].role \in Roles
    BY TypeStep DEF Next, TypeOK, Request
  <2> QED
    BY <2>1 DEF PermsFound, At, PermsOf
<1>1. Moves(r) /\ \A o \in Requests \ {r} : req'[o] = req[o]
  BY StepMoves
<1>2. req[r] \in Request /\ req[q] \in Request /\ req[q].role \in Roles /\ req[r].role \in Roles
  BY DEF TypeOK, Request
<1>3. CASE q = r
  <2>1. ~Begins(r) /\ ~Ends(r)
    BY <1>3 DEF Begins, Ends, RoleKinds, RoleCall
  <2>2. At(r, "perms") /\ req'[r] = [req[r] EXCEPT !.pc = "replace", !.foundPerms = PermsOf(req[r].role)]
    BY <1>1, <1>2, <1>3, <2>1 DEF Moves, GoesTo, Request
  <2>3. ~Replace(r) /\ ~DeleteRole(r)
    BY <2>2 DEF Replace, DeleteRole, DeletedWith, At
  <2>4. req'[r].role = req[r].role /\ req'[r].foundPerms = PermsOf(req[r].role)
    BY <1>2, <2>2 DEF Request
  <2> QED
    BY <1>2, <1>3, <2>3, <2>4, OtherRows
<1>4. CASE q # r
  <2>1. req'[q] = req[q] /\ At(q, "replace")
    BY <1>1, <1>4 DEF At
  <2>2. q \notin past.overtaken
    BY <1>4, PastSteps
  <2>3. (Replace(r) \/ DeleteRole(r)) => req[q].role # req[r].role
    BY <1>4, <2>1, ReplaceEffect, DeleteEffect DEF ReplacingOthers
  <2>4. PermsOf(n)' = PermsOf(n)
    BY <1>2, <2>1, <2>3, ReplaceRows, DeleteRows, OtherRows
  <2> QED
    BY <2>1, <2>2, <2>4 DEF PermsFound
<1> QED
  BY <1>3, <1>4

LEMMA RolePermissionsStep ==
  ASSUME TypeOK, PermsFound, RolePermissionsAsAsked, NEW r \in Requests, Step(r)
  PROVE  RolePermissionsAsAsked'
<1> SUFFICES ASSUME NEW n \in Roles
             PROVE  /\ PermsOf(n)' \subseteq UNION past'.askedPerms[n]
                    /\ \A p \in Perms : (\A body \in past'.askedPerms[n] : p \in body) => p \in PermsOf(n)'
  BY DEF RolePermissionsAsAsked
<1>1. CASE Replace(r) /\ n = req[r].role
  <2>1. CASE r \in past.overtaken
    <3>1. past'.askedPerms[n] = past.askedPerms[n] \cup {req[r].wantedPerms}
      BY <1>1, <2>1, ReplaceEffect DEF AskedWith
    <3> QED
      BY <1>1, <3>1, ReplaceRows DEF RolePermissionsAsAsked
  <2>2. CASE r \notin past.overtaken
    <3>1. past'.askedPerms[n] = {req[r].wantedPerms}
      BY <1>1, <2>2, ReplaceEffect DEF AskedWith
    <3>2. PermsOf(n) = req[r].foundPerms
      BY <1>1, <2>2 DEF PermsFound, Replace
    <3>3. PermsOf(n)' = (req[r].foundPerms \ (req[r].foundPerms \ req[r].wantedPerms))
                          \cup (req[r].wantedPerms \ req[r].foundPerms)
      BY <1>1, <3>2, ReplaceRows
    <3>4. PermsOf(n)' = req[r].wantedPerms
      BY <3>3
    <3> QED
      BY <3>1, <3>4
  <2> QED
    BY <2>1, <2>2
<1>2. CASE DeleteRole(r) /\ n = req[r].role
  BY <1>2, DeleteRows, DeleteEffect
<1>3. CASE ~(DeleteRole(r) /\ n = req[r].role) /\ ~(Replace(r) /\ n = req[r].role)
  <2>1. PermsOf(n)' = PermsOf(n) /\ past'.askedPerms[n] = past.askedPerms[n]
    BY <1>3, ReplaceRows, DeleteRows, OtherRows, ReplaceEffect, DeleteEffect, PastSteps
  <2> QED
    BY <2>1 DEF RolePermissionsAsAsked
<1> QED
  BY <1>1, <1>2, <1>3

-----------------------------------------------------------------------------
(* Roles of users.                                                         *)

LEMMA DropRows ==
  ASSUME TypeOK, NEW r \in Requests, Drop(r)
  PROVE  /\ \A u \in Users \ {req[r].user} : RolesOf(u)' = RolesOf(u)
         /\ \A u \in Users : u = req[r].user => RolesOf(u)' = RolesOf(u) \ ToDrop(r)
  BY FieldTypes DEF Drop, RolesOf

LEMMA GiveRows ==
  ASSUME TypeOK, NEW r \in Requests, Give(r)
  PROVE  /\ \A u \in Users \ {req[r].user} : RolesOf(u)' = RolesOf(u)
         /\ \A u \in Users : u = req[r].user => RolesOf(u)' = RolesOf(u) \cup ToGive(r)
  BY FieldTypes DEF Give, RolesOf, ToGive

LEMMA OtherHolds ==
  ASSUME TypeOK, NEW r \in Requests, Step(r), ~Drop(r), ~Give(r)
  PROVE  \A u \in Users : RolesOf(u)' = RolesOf(u)
<1>1. holds' = holds
  BY DEF Step, Refuse, CreateUserRead, InsertUser, UpdateUserRead, UpdateUser, SwitchRead, SwitchWrite, HeldRead,
     CreateRoleRead, InsertRole, RoleRead, UpdateRole, PermsRead, Replace, CountHolders, DeleteRole, DeletedWith,
     Fail, rows
<1> QED
  BY <1>1 DEF RolesOf

\* A change overtakes the others that have read the same user's roles.
LEMMA Overtakes ==
  ASSUME TypeOK, NEW r \in Requests, Drop(r) \/ Give(r), NEW q \in Requests \ {r},
         req[q].pc \in {"drop", "give"}, req[q].user = req[r].user
  PROVE  q \in past'.overtaken
<1>1. PICK last \in BOOLEAN : RolesChange(r, last)
  BY DEF Drop, Give
<1> QED
  BY <1>1, RolesChangeEffect DEF AssigningOthers

\* What the roles of the user of Drop or Give may come from.
LEMMA AskedAfter ==
  ASSUME TypeOK, NEW r \in Requests, Drop(r) \/ Give(r)
  PROVE  /\ past'.askedRoles[req[r].user] = AskedWith(r, past.askedRoles[req[r].user], req[r].wantedRoles)
         /\ \A u \in Users \ {req[r].user} : past'.askedRoles[u] = past.askedRoles[u]
<1>1. PICK last \in BOOLEAN : RolesChange(r, last)
  BY DEF Drop, Give
<1> QED
  BY <1>1, RolesChangeEffect

LEMMA RolesFoundStep ==
  ASSUME TypeOK, RolesFound, NEW r \in Requests, Step(r)
  PROVE  RolesFound'
<1> SUFFICES ASSUME NEW q \in Requests, q \notin past'.overtaken, NEW u \in Users, u = req'[q].user
             PROVE  /\ req'[q].pc = "drop" => RolesOf(u)' = req'[q].foundRoles
                    /\ req'[q].pc = "give" => RolesOf(u)' = req'[q].foundRoles \cap req'[q].wantedRoles
  <2>1. \A q \in Requests : req'[q].user \in Users
    BY TypeStep DEF Next, TypeOK, Request
  <2> QED
    BY <2>1 DEF RolesFound, At, RolesOf
<1>1. Moves(r) /\ \A o \in Requests \ {r} : req'[o] = req[o]
  BY StepMoves
<1>2. req[r] \in Request /\ req[q] \in Request /\ req[q].user \in Users /\ req[r].user \in Users
  BY DEF TypeOK, Request
<1>3. CASE q = r /\ req'[q].pc \in {"drop", "give"}
  <2>1. ~Begins(r) /\ ~Ends(r)
    BY <1>3 DEF Begins, Ends, RoleKinds, RoleCall
  <2>2. CASE At(r, "held")
    <3>1. /\ req'[r].user = req[r].user /\ req'[r].foundRoles = RolesOf(req[r].user)
          /\ req'[r].wantedRoles = req[r].wantedRoles
          /\ req'[r].pc = "give" => RolesOf(req[r].user) \subseteq req[r].wantedRoles
      BY <1>1, <1>2, <1>3, <2>1, <2>2 DEF Moves, GoesTo, Request, At
    <3>2. ~Drop(r) /\ ~Give(r)
      BY <2>2 DEF Drop, Give, At
    <3>3. RolesOf(u)' = RolesOf(u) /\ u = req[r].user
      BY <1>3, <3>1, <3>2, OtherHolds
    <3> QED
      BY <1>3, <3>1, <3>3
  <2>3. CASE ~At(r, "held")
    <3>1. At(r, "drop") /\ GoesTo(r, "give")
      BY <1>1, <1>2, <1>3, <2>1, <2>3 DEF Moves, GoesTo, Request
    <3>2. /\ req'[r].user = req[r].user /\ req'[r].foundRoles = req[r].foundRoles
          /\ req'[r].wantedRoles = req[r].wantedRoles /\ req'[r].pc = "give"
      BY <1>2, <3>1 DEF GoesTo, Request
    <3>3. Drop(r)
      BY <2>1, <3>1, EndEffect DEF Step, Refuse, CreateUserRead, InsertUser, UpdateUserRead, UpdateUser, SwitchRead,
         SwitchWrite, HeldRead, Give, CreateRoleRead, InsertRole, RoleRead, UpdateRole, PermsRead, Replace,
         CountHolders, DeleteRole, DeletedWith, Fail, Doing, At
    <3>4. r \notin past.overtaken
      BY <1>3, <2>1, PastSteps
    <3>5. RolesOf(u) = req[r].foundRoles /\ u = req[r].user
      BY <1>3, <3>1, <3>2, <3>4 DEF RolesFound
    <3>6. RolesOf(u)' = req[r].foundRoles \ (req[r].foundRoles \ req[r].wantedRoles)
      BY <3>3, <3>5, DropRows DEF ToDrop
    <3> QED
      BY <1>3, <3>2, <3>6
  <2> QED
    BY <2>2, <2>3
<1>4. CASE q # r /\ req'[q].pc \in {"drop", "give"}
  <2>1. req'[q] = req[q]
    BY <1>1, <1>4
  <2>2. q \notin past.overtaken
    BY <1>4, PastSteps
  <2>3. (Drop(r) \/ Give(r)) => req[q].user # req[r].user
    BY <1>4, <2>1, Overtakes
  <2>4. RolesOf(u)' = RolesOf(u)
    BY <2>1, <2>3, DropRows, GiveRows, OtherHolds
  <2> QED
    BY <2>1, <2>2, <2>4 DEF RolesFound, At
<1> QED
  BY <1>3, <1>4

\* The roles of its user after Drop or Give, whom nobody has overtaken.
LEMMA NotOvertaken ==
  ASSUME TypeOK, RolesFound, NEW r \in Requests \ past.overtaken, NEW u \in Users, u = req[r].user
  PROVE  /\ Drop(r) => RolesOf(u)' = req[r].foundRoles \cap req[r].wantedRoles
         /\ Give(r) => RolesOf(u)' = req[r].wantedRoles
<1>1. CASE Drop(r)
  <2>1. RolesOf(u)' = req[r].foundRoles \ (req[r].foundRoles \ req[r].wantedRoles)
    BY <1>1, DropRows DEF ToDrop, RolesFound, Drop
  <2> QED
    BY <1>1, <2>1 DEF Drop, Give, At
<1>2. CASE Give(r)
  <2>1. RolesOf(u)' = (req[r].foundRoles \cap req[r].wantedRoles) \cup (req[r].wantedRoles \ req[r].foundRoles)
    BY <1>2, GiveRows DEF ToGive, RolesFound, Give
  <2> QED
    BY <1>2, <2>1 DEF Drop, Give, At
<1> QED
  BY <1>1, <1>2

LEMMA RolesAskedStep ==
  ASSUME TypeOK, RolesFound, RolesAsked, NEW r \in Requests, Step(r)
  PROVE  RolesAsked'
<1> SUFFICES ASSUME NEW u \in Users
             PROVE  RolesOf(u)' \subseteq UNION past'.askedRoles[u]
  BY DEF RolesAsked
<1>1. CASE (Drop(r) \/ Give(r)) /\ u = req[r].user /\ r \notin past.overtaken
  <2>1. past'.askedRoles[u] = {req[r].wantedRoles}
    BY <1>1, AskedAfter DEF AskedWith
  <2>2. RolesOf(u)' \subseteq req[r].wantedRoles
    BY <1>1, NotOvertaken
  <2> QED
    BY <2>1, <2>2
<1>2. CASE (Drop(r) \/ Give(r)) /\ u = req[r].user /\ r \in past.overtaken
  <2>1. past'.askedRoles[u] = past.askedRoles[u] \cup {req[r].wantedRoles}
    BY <1>2, AskedAfter DEF AskedWith
  <2>2. RolesOf(u)' \subseteq RolesOf(u) \cup req[r].wantedRoles
    BY <1>2, DropRows, GiveRows DEF ToGive
  <2> QED
    BY <2>1, <2>2 DEF RolesAsked
<1>3. CASE ~((Drop(r) \/ Give(r)) /\ u = req[r].user)
  <2>1. RolesOf(u)' = RolesOf(u) /\ past'.askedRoles[u] = past.askedRoles[u]
    BY <1>3, DropRows, GiveRows, OtherHolds, AskedAfter, PastSteps
  <2> QED
    BY <2>1 DEF RolesAsked
<1> QED
  BY <1>1, <1>2, <1>3

LEMMA RolesDueStep ==
  ASSUME TypeOK, RolesFound, RolesDue, NEW r \in Requests, Step(r)
  PROVE  RolesDue'
<1> DEFINE Given(n, u) == \E q \in Requests : req'[q].pc = "give" /\ req'[q].user = u
                                 /\ n \in req'[q].wantedRoles \ req'[q].foundRoles
<1> SUFFICES ASSUME NEW u \in Users, NEW n \in Roles, \A body \in past'.askedRoles[u] : n \in body
             PROVE  n \in RolesOf(u)' \/ u \in past'.cut \/ Given(n, u)
  BY DEF RolesDue, At, ToGive
<1>1. Moves(r) /\ \A q \in Requests \ {r} : req'[q] = req[q]
  BY StepMoves
<1>2. req[r] \in Request
  BY DEF TypeOK
<1>3. CASE (Drop(r) \/ Give(r)) /\ u = req[r].user /\ r \notin past.overtaken
  <2>1. n \in req[r].wantedRoles
    BY <1>3, AskedAfter DEF AskedWith
  <2>2. CASE Drop(r) /\ n \notin req[r].foundRoles
    <3>1. Goto(r, "give")
      BY <2>1, <2>2 DEF Drop, ToGive
    <3>2. req'[r] = [req[r] EXCEPT !.pc = "give"]
      BY <3>1, GotoEffect DEF GoesTo
    <3> QED
      BY <1>2, <1>3, <2>1, <2>2, <3>2 DEF Request
  <2> QED
    BY <1>3, <2>1, <2>2, NotOvertaken
<1>4. ASSUME \A body \in past.askedRoles[u] : n \in body,
             n \in RolesOf(u) => n \in RolesOf(u)',
             At(r, "give") /\ req[r].user = u /\ n \in ToGive(r) => n \in RolesOf(u)' \/ u \in past'.cut
      PROVE  n \in RolesOf(u)' \/ u \in past'.cut \/ Given(n, u)
  <2>1. CASE \E q \in Requests : At(q, "give") /\ req[q].user = u /\ n \in ToGive(q)
    <3>1. PICK q \in Requests : At(q, "give") /\ req[q].user = u /\ n \in ToGive(q)
      BY <2>1
    <3> QED
      BY <1>1, <1>4, <3>1 DEF At, ToGive
  <2> QED
    BY <1>4, <2>1, PastSteps DEF RolesDue
<1>5. CASE (Drop(r) \/ Give(r)) /\ u = req[r].user /\ r \in past.overtaken
  <2>1. (\A body \in past.askedRoles[u] : n \in body) /\ n \in req[r].wantedRoles
    BY <1>5, AskedAfter DEF AskedWith
  <2>2. n \in RolesOf(u) => n \in RolesOf(u)'
    BY <1>5, <2>1, DropRows, GiveRows DEF ToDrop
  <2>3. At(r, "give") /\ req[r].user = u /\ n \in ToGive(r) => n \in RolesOf(u)' \/ u \in past'.cut
    BY <1>5, GiveRows DEF Drop, At
  <2> QED
    BY <1>4, <2>1, <2>2, <2>3
<1>6. CASE ~((Drop(r) \/ Give(r)) /\ u = req[r].user)
  <2>1. RolesOf(u)' = RolesOf(u) /\ past'.askedRoles[u] = past.askedRoles[u]
    BY <1>6, DropRows, GiveRows, OtherHolds, AskedAfter, PastSteps
  <2>2. ASSUME At(r, "give"), req[r].user = u
        PROVE  u \in past'.cut
    <3>1. Fail(r)
      BY <1>6, <2>2 DEF Step, Refuse, CreateUserRead, InsertUser, UpdateUserRead, UpdateUser, SwitchRead,
         SwitchWrite, HeldRead, Drop, CreateRoleRead, InsertRole, RoleRead, UpdateRole, PermsRead, Replace,
         CountHolders, DeleteRole, DeletedWith, Doing, At
    <3> QED
      BY <2>2, <3>1, FailEffect
  <2> QED
    BY <1>4, <2>1, <2>2
<1> QED
  BY <1>3, <1>5, <1>6

-----------------------------------------------------------------------------
(* The theorems.                                                           *)

LEMMA InitIInv == Init => IInv
<1> SUFFICES ASSUME Init PROVE IInv
  OBVIOUS
<1>1. TypeOK
  BY TypeInit
<1>2. \A r \in Requests : req[r].pc = "idle" /\ req[r].kind = "none" /\ ~req[r].replaces
  BY DEF Init, Nothing
<1>3. \A n \in Roles : role[n] # "deleted"
  BY DEF Init
<1>4. \A u \in Users : account[u].state # "deleted"
  <2>1. Absent.state = "none" /\ [Absent EXCEPT !.state = "live", !.active = TRUE, !.version = 1].state = "live"
    BY DEF Absent
  <2> QED
    BY <2>1 DEF Init
<1>5. /\ \A u \in Users : past.askedRoles[u] = {RolesOf(u)}
      /\ \A n \in Roles : past.askedPerms[n] = {PermsOf(n)}
  BY DEF Init
<1>6. Flows /\ Accounts
  BY <1>2, <1>4 DEF Flows, Accounts, FormsRead, DeletedUserIsOut, At, Doing
<1>7. RolePerms
  BY <1>2, <1>3, <1>5 DEF RolePerms, Refills, DeletedRoleGrantsNothing, PermsFound, RolePermissionsAsAsked, At
<1>8. UserRoles
  BY <1>2, <1>5 DEF UserRoles, RolesFound, RolesDue, RolesAsked, At
<1> QED
  BY <1>1, <1>6, <1>7, <1>8 DEF IInv

LEMMA StutterIInv ==
  ASSUME IInv, UNCHANGED vars
  PROVE  IInv'
<1>1. /\ account' = account /\ role' = role /\ perm' = perm /\ holds' = holds
      /\ req' = req /\ past' = past
  BY DEF vars
<1>2. TypeOK' /\ Flows'
  BY <1>1 DEF IInv, TypeOK, Flows, At, Doing
<1>3. Accounts'
  BY <1>1 DEF IInv, Accounts, FormsRead, DeletedUserIsOut, Accepts, At, Doing
<1>4. Refills' /\ PermsFound' /\ RolePermissionsAsAsked'
  BY <1>1 DEF IInv, RolePerms, Refills, MayRefill, PermsFound, RolePermissionsAsAsked, PermsOf, At
<1>5. DeletedRoleGrantsNothing'
  BY <1>1 DEF IInv, RolePerms, DeletedRoleGrantsNothing, Permissions, PermsOf
<1>6. UserRoles'
  BY <1>1 DEF IInv, UserRoles, RolesFound, RolesDue, RolesAsked, RolesOf, ToGive, At
<1> QED
  BY <1>2, <1>3, <1>4, <1>5, <1>6 DEF IInv, RolePerms

LEMMA Inductive == IInv /\ [Next]_vars => IInv'
<1> SUFFICES ASSUME IInv, [Next]_vars PROVE IInv'
  OBVIOUS
<1>1. ASSUME NEW r \in Requests, Step(r)
      PROVE  IInv'
  <2>1. TypeOK'
    BY TypeStep DEF IInv
  <2>2. Flows' /\ Accounts'
    BY <1>1, FlowsStep, FormsReadStep, DeletedUserIsOutStep DEF IInv, Accounts
  <2>3. RolePerms'
    BY <1>1, RefillsStep, DeletedRoleGrantsNothingStep, PermsFoundStep, RolePermissionsStep DEF IInv, RolePerms
  <2>4. UserRoles'
    BY <1>1, RolesFoundStep, RolesDueStep, RolesAskedStep DEF IInv, UserRoles
  <2> QED
    BY <2>1, <2>2, <2>3, <2>4 DEF IInv
<1> QED
  BY <1>1, StutterIInv DEF Next, AllServed

\* The guards let no deleted administrator in whom no handler that had read him
\* before has enabled since (JwtAuthGuard looks at isActive alone).
THEOREM DeletedUsersAreOut == Spec => []DeletedUserIsOut
<1>1. IInv => DeletedUserIsOut
  BY DEF IInv, Accounts
<1> QED
  BY <1>1, InitIInv, Inductive, PTL DEF Spec

\* A deleted role grants nothing to whoever still holds it, unless its permissions
\* were being replaced when it was deleted (RolesService.remove).
THEOREM DeletedRolesGrantNothing == Spec => []DeletedRoleGrantsNothing
<1>1. IInv => DeletedRoleGrantsNothing
  BY DEF IInv, RolePerms
<1> QED
  BY <1>1, InitIInv, Inductive, PTL DEF Spec

\* Racing replacements of a role's permissions leave none that nobody asked for,
\* and every one that all asked for (RolesService.replacePermissions).
THEOREM RolePermissionsAreAsAsked == Spec => []RolePermissionsAsAsked
<1>1. IInv => RolePermissionsAsAsked
  BY DEF IInv, RolePerms
<1> QED
  BY <1>1, InitIInv, Inductive, PTL DEF Spec

\* The same of a user's roles, but for the time between the two writes of
\* UsersService.assignRoles and for a failure there.
THEOREM UserRolesAreAsAsked == Spec => []UserRolesAsAsked
<1>1. IInv => UserRolesAsAsked
  BY DEF IInv, UserRoles, RolesDue, RolesAsked, UserRolesAsAsked, Giving
<1> QED
  BY <1>1, InitIInv, Inductive, PTL DEF Spec

\* No update of an account's form is written over one that it has not read
\* (the version in the where clause of UsersService.update).
THEOREM AccountUpdatesAreKept == Spec => NoLostAccountUpdate
<1> DEFINE Kept == \A u \in Users, r \in Requests :
       Doing(r, "updateUser", "write") /\ req[r].user = u /\ account[u].by # r /\ account'[u].by = r
         => req[r].seen.by = account[u].by
<1>1. IInv /\ [Next]_vars => [Kept]_vars
  <2> SUFFICES ASSUME IInv, NEW o \in Requests, Step(o), NEW u \in Users, NEW r \in Requests,
                      Doing(r, "updateUser", "write"), req[r].user = u,
                      account[u].by # r, account'[u].by = r
               PROVE  req[r].seen.by = account[u].by
    BY DEF Next, AllServed
  <2>1. InsertUser(o) => o # r
    BY DEF InsertUser, Doing
  <2>2. UpdateUser(o) /\ account[u].version = req[o].seen.version /\ account'[u].by = o
    BY <2>1, AccountSteps DEF IInv
  <2>3. o = r
    <3>1. account'[u].by = o
      BY <2>2
    <3> QED
      BY <3>1
  <2> QED
    BY <2>2, <2>3 DEF IInv, Accounts, FormsRead
<1> QED
  BY <1>1, InitIInv, Inductive, PTL DEF Spec, NoLostAccountUpdate
=============================================================================

--------------------------- MODULE TenantRoles_proofs ---------------------------
(***************************************************************************)
(* Proofs about TenantRoles: type correctness, what the pool and the        *)
(* granting actors bound, what the cache of the CRM is good for, and who    *)
(* holds which roles, for any numbers of users, roles, permissions and      *)
(* operations.                                                              *)
(***************************************************************************)
EXTENDS TenantRoles, FiniteSetTheorems, TLAPS

-----------------------------------------------------------------------------
(* What a handler's position says of its body.                             *)

\* Bodies are of the right kind, the rows that were cleared the user's own, and
\* a super administrator's request is known.
BodiedOf(r) ==
  /\ req[r].kind # "modules" => req[r].granted \subseteq Perms /\ req[r].denied \subseteq Perms
  /\ req[r].kind = "modules" => req[r].granted \subseteq Modules
  /\ req[r].kind \in Checked /\ req[r].actor.wild => past.wild
  /\ req[r].pc = "check" => req[r].kind \in Checked
  /\ \A a \in req[r].clearedRoles : a.user = req[r].user
  /\ \A o \in req[r].cleared : o.user = req[r].user

Bodied == \A r \in Requests : BodiedOf(r)

-----------------------------------------------------------------------------
(* The inductive invariant.                                                *)

\* What may have been given: a permission that is or was in the pool and, as
\* long as no super administrator was served, that another administrator has.
Givable(p) ==
  /\ p \in pool \cup past.withdrawn
  /\ past.wild \/ \E a \in Actors : ~a.wild /\ p \in a.perms

\* Past its check, a request gives nothing else; the role that it assigns is
\* there, and may since have got what others were allowed to give.
GrantingOf(r) ==
  /\ At(r, "delete", "permissions") \/ At(r, "write", "permissions") \/ At(r, "write", "rolePermissions")
       => \A p \in req[r].granted : Givable(p)
  /\ req[r].kind = "assign" /\ req[r].pc # "role"
       => /\ role[req[r].name].state # "none"
          /\ \A p \in role[req[r].name].perms : Givable(p) \/ (req[r].pc = "check" /\ p \in req[r].granted)

Granting == \A r \in Requests : GrantingOf(r)

\* A role that is held has been made, and what a user is given was given to him
\* at the beginning or may have been given since.
Holding ==
  /\ \A u \in Users : \A n \in RolesOf(u) : role[n].state # "none"
  /\ \A u \in Users : \A p \in Given(u) : Givable(p) \/ p \in past.first[u]

\* Of two requests that assign, after their DELETE, a role to one user, the
\* second found the first; one that is alone has seen all of the user's rows.
Assigning ==
  /\ \A r, q \in Requests :
       r # q /\ At(r, "write", "assign") /\ At(q, "write", "assign") /\ req[r].user = req[q].user
         => req[r].user \in past.twice
  /\ \A r \in Requests :
       At(r, "write", "assign") /\ req[r].user \notin past.twice
         => \A a \in holds : a.user = req[r].user => a \in req[r].clearedRoles
  /\ \A a, b \in holds : a.user = b.user /\ a.user \notin past.twice => a.name = b.name

\* A user is there, and his first role yet to be inserted.
Joins(r) == At(r, "role", "join") \/ At(r, "write", "join")

\* A user who is created was not there: nobody else creates him, and he has no
\* role and is given none unless an assignment is under way as well.  The role is
\* one of the system, which nobody deletes.
Joining ==
  /\ \A a \in holds : a.user \in member
  /\ \A r \in Requests : req[r].kind = "assign" \/ Joins(r) => req[r].user \in member
  /\ \A r, q \in Requests : r # q /\ Joins(r) /\ Joins(q) => req[r].user # req[q].user
  /\ \A r, q \in Requests :
       Joins(r) /\ At(q, "write", "assign") /\ req[r].user = req[q].user => req[r].user \in past.twice
  /\ \A r \in Requests : Joins(r) /\ req[r].user \notin past.twice => \A a \in holds : a.user # req[r].user
  /\ \A r \in Requests :
       At(r, "write", "join") => req[r].name \in System /\ role[req[r].name].state = "live"
  /\ \A r \in Requests : At(r, "holders", "delete") \/ At(r, "write", "delete") => req[r].name \notin System

\* A role that is deleted is being given, and held, by no one else.
Deleted ==
  /\ \A r \in Requests :
       req[r].kind = "assign" /\ req[r].pc # "role" /\ role[req[r].name].state = "deleted"
         => req[r].user \in past.orphaned
  /\ \A a \in holds : role[a.name].state = "deleted" => a.user \in past.orphaned

\* A role's permissions have been written and the cache of this user is yet to
\* be cleared, as a holder who is read next or who has been read.
ToBeCleared(u) ==
  \E r \in Requests : \/ At(r, "holders", "rolePermissions") /\ req[r].name \in RolesOf(u)
                      \/ At(r, "clear", "rolePermissions") /\ u \in req[r].holders

Cached ==
  \A u \in Users : cache[u].known =>
    \/ cache[u].perms = Effective(u)
    \/ ToBeCleared(u)
    \/ u \in past.uncleared \cup past.orphaned

\* The CRM has calculated something for those only who are there; of one who is no
\* owner, nothing that he was not given.
Remembered ==
  \A u \in Users :
    /\ cache[u].known => u \in member
    /\ u \in owner \/ \A p \in cache[u].perms : Givable(p) \/ p \in past.first[u]

IInv ==
  TypeOK /\ Bodied /\ Granting /\ Holding /\ Joining /\ Assigning /\ Deleted /\ Cached /\ Remembered

-----------------------------------------------------------------------------
(* Type correctness.                                                       *)

LEMMA NothingType == Nothing \in Request
<1>1. /\ (CHOOSE a \in Actors : TRUE) \in Actors /\ (CHOOSE u \in Users : TRUE) \in Users
      /\ (CHOOSE n \in Names : TRUE) \in Names
  BY SomeOfEach
<1> QED
  BY <1>1 DEF Nothing, Request, PC, Kinds

LEMMA FieldTypes ==
  ASSUME TypeOK, NEW r \in Requests
  PROVE  /\ req[r].user \in Users /\ req[r].name \in Names /\ req[r].actor \in Actors
         /\ req[r].pc \in PC /\ req[r].kind \in Kinds
         /\ req[r].granted \subseteq Keys /\ req[r].denied \subseteq Keys
         /\ req[r].clearedRoles \subseteq Assignment /\ req[r].cleared \subseteq Override
         /\ req[r].holders \subseteq Users
         /\ role[req[r].name].perms \subseteq Perms /\ role[req[r].name] \in Role
  BY DEF TypeOK, Request, Role

LEMMA EndType ==
  ASSUME TypeOK, NEW r \in Requests, End(r)
  PROVE  req' \in [Requests -> Request]
<1>1. [Nothing EXCEPT !.pc = "ended"] \in Request
  BY NothingType DEF Request, PC
<1> QED
  BY <1>1 DEF End, TypeOK

LEMMA GotoType ==
  ASSUME TypeOK, NEW r \in Requests, NEW pc \in PC, Goto(r, pc)
  PROVE  req' \in [Requests -> Request]
<1>1. [req[r] EXCEPT !.pc = pc] \in Request
  BY DEF Request, TypeOK
<1> QED
  BY <1>1 DEF Goto, TypeOK

LEMMA ReadType ==
  ASSUME TypeOK, NEW r \in Requests, NEW pc \in PC, NEW granted \in SUBSET Keys,
         NEW clearedRoles \in SUBSET Assignment, NEW cleared \in SUBSET Override, NEW holders \in SUBSET Users
  PROVE  /\ [req[r] EXCEPT !.pc = pc, !.granted = granted] \in Request
         /\ [req[r] EXCEPT !.pc = pc, !.clearedRoles = clearedRoles] \in Request
         /\ [req[r] EXCEPT !.pc = pc, !.cleared = cleared] \in Request
         /\ [req[r] EXCEPT !.pc = pc, !.holders = holders] \in Request
<1>0. req[r] \in Request
  BY DEF TypeOK
<1>1. [req[r] EXCEPT !.pc = pc, !.granted = granted] \in Request
  BY <1>0 DEF Request
<1>2. [req[r] EXCEPT !.pc = pc, !.clearedRoles = clearedRoles] \in Request
  BY <1>0 DEF Request
<1>3. [req[r] EXCEPT !.pc = pc, !.cleared = cleared] \in Request
  BY <1>0 DEF Request
<1>4. [req[r] EXCEPT !.pc = pc, !.holders = holders] \in Request
  BY <1>0 DEF Request
<1> QED
  BY <1>1, <1>2, <1>3, <1>4

\* Where what is given comes from.
LEMMA GivenFrom ==
  ASSUME NEW u, NEW p
  PROVE  p \in Given(u) <=> \/ \E n \in RolesOf(u) : p \in role[n].perms
                           \/ (p \in Perms /\ \E o \in rows : o.user = u /\ o.key = p /\ o.yes)
<1> DEFINE Sets == {role[n].perms : n \in RolesOf(u)}
<1>1. ASSUME NEW n \in RolesOf(u), p \in role[n].perms
      PROVE  p \in UNION Sets
  <2>1. role[n].perms \in Sets
    OBVIOUS
  <2> QED
    BY <1>1, <2>1
<1>2. ASSUME p \in UNION Sets
      PROVE  \E n \in RolesOf(u) : p \in role[n].perms
  <2>1. PICK set \in Sets : p \in set
    BY <1>2
  <2> QED
    BY <2>1
<1> DEFINE Granted == {q \in Perms : \E o \in rows : o.user = u /\ o.key = q /\ o.yes}
<1>3. p \in UNION Sets <=> \E n \in RolesOf(u) : p \in role[n].perms
  BY <1>1, <1>2
<1>4. p \in Granted <=> (p \in Perms /\ \E o \in rows : o.user = u /\ o.key = p /\ o.yes)
  BY Zenon
<1>5. p \in Given(u) <=> (p \in UNION Sets \/ p \in Granted)
  BY Zenon DEF Given
<1> HIDE DEF Sets, Granted
<1> QED
  BY <1>3, <1>4, <1>5

LEMMA GivenFromNext ==
  ASSUME NEW u, NEW p
  PROVE  (p \in Given(u) <=> \/ \E n \in RolesOf(u) : p \in role[n].perms
                            \/ (p \in Perms /\ \E o \in rows : o.user = u /\ o.key = p /\ o.yes))'
<1>1. p \in Given(u) <=> \/ \E n \in RolesOf(u) : p \in role[n].perms
                        \/ (p \in Perms /\ \E o \in rows : o.user = u /\ o.key = p /\ o.yes)
  BY GivenFrom
<1> QED
  BY <1>1, PTL

LEMMA GivenType ==
  ASSUME TypeOK, NEW u \in Users
  PROVE  Given(u) \subseteq Perms /\ Effective(u) \subseteq Perms
<1>0. \A n \in Names : role[n].perms \subseteq Perms
  BY DEF TypeOK, Role
<1>1. Given(u) \subseteq Perms
  <2>1. RolesOf(u) \subseteq Names
    BY DEF RolesOf
  <2> QED
    BY <1>0, <2>1, GivenFrom
<1> QED
  BY <1>1 DEF Effective

\* A body is what its kind says.
LEMMA BodyType ==
  ASSUME NEW kind \in Kinds \ {"none"}, NEW body \in Bodies(kind)
  PROVE  /\ body[1] \subseteq Keys /\ body[2] \subseteq Keys
         /\ kind # "modules" => body[1] \subseteq Perms /\ body[2] \subseteq Perms
         /\ kind = "modules" => body[1] \subseteq Modules
<1>1. CASE kind = "permissions"
  BY <1>1 DEF Bodies, Keys
<1>2. CASE kind = "modules"
  BY <1>2 DEF Bodies, Keys
<1>3. CASE kind \in {"rolePermissions", "create", "pool"}
  BY <1>3 DEF Bodies, Keys
<1>4. CASE kind \notin {"permissions", "modules", "rolePermissions", "create", "pool"}
  BY <1>4 DEF Bodies
<1> QED
  BY <1>1, <1>2, <1>3, <1>4

LEMMA FirstType ==
  ASSUME NEW kind \in Kinds \ {"none"}
  PROVE  FirstStep(kind) \in {"insert", "role", "check", "delete", "write"}
  BY DEF FirstStep, Kinds, OfUser, OfRole

\* A handler begins.
Begins(r) ==
  \E kind \in Kinds \ {"none"}, actor \in Actors, u \in Users, n \in Names :
    \E body \in Bodies(kind) : BeginWith(r, kind, actor, u, n, body)

\* An operation of a user finds him, and createTenantUser does not.
LEMMA BeginFinds ==
  ASSUME NEW r \in Requests, Begin(r)
  PROVE  \E kind \in Kinds \ {"none"}, actor \in Actors, u \in Users, n \in Names :
           /\ kind \in OfUser => ((u \in member) <=> (kind # "join"))
           /\ \E body \in Bodies(kind) : BeginWith(r, kind, actor, u, n, body)
<1>1. Nothing.actor \in Actors /\ Nothing.user \in Users /\ Nothing.name \in Names
  BY NothingType DEF Request
<1>2. \A kind, kinds : /\ Choices(kind, kinds, Actors, Nothing.actor) \subseteq Actors
                       /\ Choices(kind, kinds, Users, Nothing.user) \subseteq Users
                       /\ Choices(kind, kinds, Names, Nothing.name) \subseteq Names
  BY <1>1 DEF Choices
<1>3. PICK kind \in Kinds \ {"none"} :
        \E actor \in Choices(kind, Checked, Actors, Nothing.actor),
           u \in Choices(kind, OfUser, Users, Nothing.user),
           n \in Choices(kind, OfRole, Names, Nothing.name),
           body \in Bodies(kind) :
             /\ kind \in OfUser => ((u \in member) <=> (kind # "join"))
             /\ BeginWith(r, kind, actor, u, n, body)
  BY DEF Begin
<1> QED
  BY <1>2, <1>3

LEMMA BeginBegins ==
  ASSUME NEW r \in Requests, Begin(r)
  PROVE  Begins(r)
  BY BeginFinds DEF Begins

LEMMA TypeBegin ==
  ASSUME TypeOK, NEW r \in Requests, Begins(r)
  PROVE  req' \in [Requests -> Request] /\ past' \in Past
<1>1. PICK kind \in Kinds \ {"none"}, actor \in Actors, u \in Users, n \in Names :
        \E body \in Bodies(kind) : BeginWith(r, kind, actor, u, n, body)
  BY DEF Begins
<1>2. PICK body \in Bodies(kind) : BeginWith(r, kind, actor, u, n, body)
  BY <1>1
<1> DEFINE pc == FirstStep(kind)
           granted == body[1]
           denied == body[2]
           wild == past.wild \/ (kind \in Checked /\ actor.wild)
<1>3. pc \in PC /\ granted \subseteq Keys /\ denied \subseteq Keys
  BY BodyType, FirstType DEF PC
<1>4. wild \in BOOLEAN
  OBVIOUS
<1>5. /\ req' = [req EXCEPT ![r] = [Nothing EXCEPT !.pc = pc, !.kind = kind, !.actor = actor, !.user = u,
                                                  !.name = n, !.granted = granted, !.denied = denied]]
      /\ past' = [past EXCEPT !.wild = wild]
  BY <1>2 DEF BeginWith
<1> HIDE DEF pc, granted, denied, wild
<1>6. [Nothing EXCEPT !.pc = pc, !.kind = kind, !.actor = actor, !.user = u,
                      !.name = n, !.granted = granted, !.denied = denied] \in Request
  BY <1>3, NothingType DEF Request
<1>7. past' \in Past
  BY <1>4, <1>5 DEF TypeOK, Past
<1> QED
  BY <1>5, <1>6, <1>7 DEF TypeOK

LEMMA TypeReads ==
  ASSUME TypeOK, NEW r \in Requests,
         \/ Begin(r) \/ Refuse(r) \/ RoleRead(r) \/ EditedRoleRead(r) \/ Check(r)
         \/ JoinRoleRead(r) \/ OverridesDelete(r) \/ Create(r) \/ CloneRead(r) \/ DeleteCount(r) \/ HoldersRead(r)
  PROVE  TypeOK'
<1> USE FieldTypes
<1> SUFFICES req' \in [Requests -> Request] /\ past' \in Past
  BY DEF Begin, BeginWith, Refuse, RoleRead, EditedRoleRead, Check, JoinRoleRead, OverridesDelete, Create,
     CloneRead, DeleteCount, HoldersRead, crm, TypeOK
<1>1. CASE Begin(r)
  BY <1>1, BeginBegins, TypeBegin
<1>2. CASE past' = past /\ End(r)
  BY <1>2, EndType DEF TypeOK
<1>3. CASE past' = past /\ \E pc \in PC : Goto(r, pc)
  BY <1>3, GotoType DEF TypeOK
<1>4. CASE RoleRead(r) /\ ~End(r)
  <2> DEFINE granted == role[req[r].name].perms
             pc == IF granted = {} THEN "delete" ELSE "check"
  <2>1. granted \in SUBSET Keys /\ pc \in PC
    BY DEF Keys, PC
  <2>2. req' = [req EXCEPT ![r] = [req[r] EXCEPT !.pc = pc, !.granted = granted]] /\ past' = past
    BY <1>4 DEF RoleRead
  <2> HIDE DEF pc, granted
  <2>3. [req[r] EXCEPT !.pc = pc, !.granted = granted] \in Request
    BY <2>1, ReadType
  <2> QED
    BY <2>2, <2>3 DEF TypeOK
<1>5. CASE CloneRead(r) /\ ~End(r)
  <2> DEFINE granted == role[req[r].name].perms
  <2>1. granted \in SUBSET Keys /\ "write" \in PC
    BY DEF Keys, PC
  <2>2. req' = [req EXCEPT ![r] = [req[r] EXCEPT !.pc = "write", !.granted = granted]] /\ past' = past
    BY <1>5 DEF CloneRead
  <2> HIDE DEF granted
  <2>3. [req[r] EXCEPT !.pc = "write", !.granted = granted] \in Request
    BY <2>1, ReadType
  <2> QED
    BY <2>2, <2>3 DEF TypeOK
<1>6. CASE OverridesDelete(r)
  <2> DEFINE cleared == {o \in rows : o.user = req[r].user /\ o.key \in Table(req[r].kind)}
  <2>1. cleared \in SUBSET Override /\ "write" \in PC
    BY DEF PC, TypeOK
  <2>2. req' = [req EXCEPT ![r] = [req[r] EXCEPT !.pc = "write", !.cleared = cleared]] /\ past' = past
    BY <1>6 DEF OverridesDelete
  <2> HIDE DEF cleared
  <2>3. [req[r] EXCEPT !.pc = "write", !.cleared = cleared] \in Request
    BY <2>1, ReadType
  <2> QED
    BY <2>2, <2>3 DEF TypeOK
<1>7. CASE HoldersRead(r)
  <2> DEFINE holders == {u \in Users : req[r].name \in RolesOf(u)}
  <2>1. holders \in SUBSET Users /\ "clear" \in PC
    BY DEF PC
  <2>2. req' = [req EXCEPT ![r] = [req[r] EXCEPT !.pc = "clear", !.holders = holders]] /\ past' = past
    BY <1>7 DEF HoldersRead
  <2> HIDE DEF holders
  <2>3. [req[r] EXCEPT !.pc = "clear", !.holders = holders] \in Request
    BY <2>1, ReadType
  <2> QED
    BY <2>2, <2>3 DEF TypeOK
<1>8. CASE EditedRoleRead(r) \/ Check(r) \/ JoinRoleRead(r) \/ Create(r) \/ DeleteCount(r)
  <2>1. past' = past /\ (End(r) \/ \E pc \in {"holders", "check", "write", "delete"} : Goto(r, pc))
    BY <1>8 DEF EditedRoleRead, Check, JoinRoleRead, Create, DeleteCount
  <2>2. {"holders", "check", "write", "delete"} \subseteq PC
    BY DEF PC
  <2> QED
    BY <1>2, <1>3, <2>1, <2>2
<1>9. CASE Refuse(r)
  BY <1>2, <1>9 DEF Refuse
<1>10. CASE (RoleRead(r) \/ CloneRead(r)) /\ End(r)
  BY <1>2, <1>10 DEF RoleRead, CloneRead
<1> QED
  BY <1>1, <1>4, <1>5, <1>6, <1>7, <1>8, <1>9, <1>10

LEMMA ForgetType ==
  ASSUME NEW users, cache \in [Users -> [known: BOOLEAN, perms: SUBSET Perms]], Forget(users)
  PROVE  cache' \in [Users -> [known: BOOLEAN, perms: SUBSET Perms]]
  BY DEF Forget

LEMMA JoinWrites ==
  ASSUME TypeOK, NEW r \in Requests, JoinAssign(r)
  PROVE  LET u == req[r].user
             n == req[r].name
         IN  /\ past' \in Past
             /\ past'.first = [past.first EXCEPT ![u] = past.first[u] \cup role[n].perms]
             /\ past'.uncleared = (IF cache[u].known THEN past.uncleared \cup {u} ELSE past.uncleared)
             /\ past'.withdrawn = past.withdrawn /\ past'.wild = past.wild /\ past'.twice = past.twice
             /\ past'.orphaned = past.orphaned
<1> DEFINE u == req[r].user
           n == req[r].name
           first == [past.first EXCEPT ![u] = past.first[u] \cup role[n].perms]
           uncleared == IF cache[u].known THEN past.uncleared \cup {u} ELSE past.uncleared
<1>1. past \in Past /\ u \in Users /\ role[n].perms \subseteq Perms
  BY FieldTypes DEF TypeOK
<1>2. first \in [Users -> SUBSET Perms] /\ uncleared \subseteq Users
  BY <1>1 DEF Past
<1>3. past' = [past EXCEPT !.first = first, !.uncleared = uncleared]
  BY DEF JoinAssign
<1> HIDE DEF first, uncleared
<1>4. past' \in Past /\ past'.first = first /\ past'.uncleared = uncleared
  BY <1>1, <1>2, <1>3 DEF Past
<1>5. /\ past'.withdrawn = past.withdrawn /\ past'.wild = past.wild /\ past'.twice = past.twice
      /\ past'.orphaned = past.orphaned
  BY <1>1, <1>3 DEF Past
<1> QED
  BY <1>4, <1>5 DEF first, uncleared

LEMMA TypeWrites ==
  ASSUME TypeOK, Bodied, NEW r \in Requests,
         \/ JoinInsert(r) \/ JoinAssign(r) \/ AssignDelete(r) \/ AssignCommit(r) \/ Remove(r) \/ OverridesCommit(r)
         \/ CreateInsert(r) \/ CloneInsert(r) \/ DeleteCommit(r) \/ RoleWrite(r) \/ Clear(r)
         \/ PoolWrite(r) \/ Fail(r)
  PROVE  TypeOK'
<1> USE FieldTypes
<1>1. CASE AssignDelete(r)
  <2> DEFINE clearedRoles == {a \in holds : a.user = req[r].user}
             twice == IF AssignUnderWay(r, req[r].user) THEN past.twice \cup {req[r].user} ELSE past.twice
  <2>1. clearedRoles \in SUBSET Assignment /\ "write" \in PC /\ twice \subseteq Users
    BY DEF PC, TypeOK, Past
  <2>2. /\ req' = [req EXCEPT ![r] = [req[r] EXCEPT !.pc = "write", !.clearedRoles = clearedRoles]]
        /\ past' = [past EXCEPT !.twice = twice]
    BY <1>1 DEF AssignDelete
  <2> HIDE DEF clearedRoles, twice
  <2>3. [req[r] EXCEPT !.pc = "write", !.clearedRoles = clearedRoles] \in Request
    BY <2>1, ReadType
  <2>4. past' \in Past
    BY <2>1, <2>2 DEF TypeOK, Past
  <2> QED
    BY <1>1, <2>2, <2>3, <2>4 DEF AssignDelete, crm, TypeOK
<1>2. CASE AssignCommit(r)
  <2>1. [user |-> req[r].user, name |-> req[r].name, by |-> r] \in Assignment
    BY DEF Assignment, Writers
  <2>2. holds' \subseteq Assignment /\ owner' \subseteq Users
    BY <1>2, <2>1 DEF AssignCommit, TypeOK
  <2>3. req' \in [Requests -> Request] /\ cache' \in [Users -> [known: BOOLEAN, perms: SUBSET Perms]]
    BY <1>2, EndType, ForgetType DEF AssignCommit, TypeOK
  <2> QED
    BY <1>2, <2>2, <2>3 DEF AssignCommit, TypeOK
<1>3. CASE Remove(r)
  <2>1. req' \in [Requests -> Request] /\ cache' \in [Users -> [known: BOOLEAN, perms: SUBSET Perms]]
    BY <1>3, EndType, ForgetType DEF Remove, TypeOK
  <2> QED
    BY <1>3, <2>1 DEF Remove, TypeOK
<1>4. CASE OverridesCommit(r)
  <2>1. NewRows(r) \subseteq Override
    BY DEF NewRows, Override, Writers
  <2>2. req' \in [Requests -> Request] /\ cache' \in [Users -> [known: BOOLEAN, perms: SUBSET Perms]]
    BY <1>4, EndType, ForgetType DEF OverridesCommit, TypeOK
  <2> QED
    BY <1>4, <2>1, <2>2 DEF OverridesCommit, TypeOK
<1>5. CASE CreateInsert(r) \/ CloneInsert(r)
  <2>1. req[r].granted \subseteq Perms
    BY <1>5 DEF CreateInsert, CloneInsert, At, Bodied, BodiedOf
  <2>2. [state |-> "live", perms |-> req[r].granted] \in Role
    BY <2>1 DEF Role
  <2>3. role' \in [Names -> Role] /\ req' \in [Requests -> Request]
    BY <1>5, <2>2, EndType DEF CreateInsert, CloneInsert, TypeOK
  <2> QED
    BY <1>5, <2>3 DEF CreateInsert, CloneInsert, TypeOK
<1>6. CASE DeleteCommit(r)
  <2> DEFINE orphaned == past.orphaned \cup BeingGiven(req[r].name)
                           \cup {a.user : a \in holds \ {a \in holds : a.name # req[r].name}}
  <2>1. orphaned \subseteq Users
    BY DEF BeingGiven, TypeOK, Past, Assignment
  <2>2. past' = [past EXCEPT !.orphaned = orphaned]
    BY <1>6 DEF DeleteCommit
  <2> HIDE DEF orphaned
  <2>3. past' \in Past
    BY <2>1, <2>2 DEF TypeOK, Past
  <2>4. role' = [role EXCEPT ![req[r].name] = [role[req[r].name] EXCEPT !.state = "deleted"]]
    BY <1>6 DEF DeleteCommit
  <2>5. role' \in [Names -> Role] /\ req' \in [Requests -> Request] /\ holds' \subseteq Assignment
    BY <1>6, <2>4, EndType DEF DeleteCommit, TypeOK, Role
  <2> QED
    BY <1>6, <2>3, <2>5 DEF DeleteCommit, TypeOK
<1>7. CASE RoleWrite(r)
  <2>1. req[r].granted \subseteq Perms
    BY <1>7 DEF RoleWrite, At, Bodied, BodiedOf
  <2>2. role' = [role EXCEPT ![req[r].name] = [role[req[r].name] EXCEPT !.perms = req[r].granted]]
    BY <1>7 DEF RoleWrite
  <2>3. role' \in [Names -> Role] /\ req' \in [Requests -> Request]
    BY <1>7, <2>1, <2>2, GotoType DEF RoleWrite, TypeOK, Role, PC
  <2> QED
    BY <1>7, <2>3 DEF RoleWrite, TypeOK
<1>8. CASE Clear(r)
  <2>1. req' \in [Requests -> Request] /\ cache' \in [Users -> [known: BOOLEAN, perms: SUBSET Perms]]
    BY <1>8, EndType, ForgetType DEF Clear, TypeOK
  <2> QED
    BY <1>8, <2>1 DEF Clear, TypeOK
<1>9. CASE PoolWrite(r)
  <2> DEFINE withdrawn == past.withdrawn \cup (pool \ req[r].granted)
  <2>1. req[r].granted \subseteq Perms
    BY <1>9 DEF PoolWrite, At, Bodied, BodiedOf
  <2>2. withdrawn \subseteq Perms /\ past' = [past EXCEPT !.withdrawn = withdrawn]
    BY <1>9 DEF PoolWrite, TypeOK, Past
  <2> HIDE DEF withdrawn
  <2>3. past' \in Past
    BY <2>2 DEF TypeOK, Past
  <2> QED
    BY <1>9, <2>1, <2>3, EndType DEF PoolWrite, crm, TypeOK
<1>10. CASE Fail(r)
  <2> DEFINE uncleared ==
        IF req[r].kind = "rolePermissions" /\ req[r].pc \in {"holders", "clear"}
          THEN past.uncleared \cup {u \in Users : req[r].name \in RolesOf(u)} \cup req[r].holders
          ELSE past.uncleared
  <2>1. uncleared \subseteq Users /\ past' = [past EXCEPT !.uncleared = uncleared]
    BY <1>10 DEF Fail, TypeOK, Past
  <2> HIDE DEF uncleared
  <2>2. past' \in Past
    BY <2>1 DEF TypeOK, Past
  <2> QED
    BY <1>10, <2>2, EndType DEF Fail, crm, TypeOK
<1>11. CASE JoinInsert(r)
  <2>1. req' \in [Requests -> Request] /\ owner' \subseteq Users /\ member' \subseteq Users
    BY <1>11, GotoType DEF JoinInsert, TypeOK, PC
  <2> QED
    BY <1>11, <2>1 DEF JoinInsert, TypeOK
<1>12. CASE JoinAssign(r)
  <2>1. [user |-> req[r].user, name |-> req[r].name, by |-> r] \in Assignment
    BY DEF Assignment, Writers
  <2>2. holds' \subseteq Assignment /\ req' \in [Requests -> Request]
    BY <1>12, <2>1, EndType DEF JoinAssign, TypeOK
  <2> QED
    BY <1>12, <2>2, JoinWrites DEF JoinAssign, TypeOK
<1> QED
  BY <1>1, <1>2, <1>3, <1>4, <1>5, <1>6, <1>7, <1>8, <1>9, <1>10, <1>11, <1>12

LEMMA TypeStep ==
  ASSUME TypeOK, Bodied, NEW r \in Requests, Step(r)
  PROVE  TypeOK'
  BY TypeReads, TypeWrites DEF Step

LEMMA TypeCalculate ==
  ASSUME TypeOK, NEW u \in Users, CrmCalculate(u)
  PROVE  TypeOK'
<1>1. [known |-> TRUE, perms |-> Effective(u)] \in [known: BOOLEAN, perms: SUBSET Perms]
  BY GivenType
<1> QED
  BY <1>1 DEF CrmCalculate, TypeOK

-----------------------------------------------------------------------------
(* What a step changes.                                                    *)

\* The history only grows.
LEMMA PastGrows ==
  ASSUME TypeOK, NEW r \in Requests, Step(r)
  PROVE  /\ past.withdrawn \subseteq past'.withdrawn /\ \A u \in Users : past.first[u] \subseteq past'.first[u]
         /\ past.wild => past'.wild
         /\ past.twice \subseteq past'.twice /\ past.orphaned \subseteq past'.orphaned
         /\ past.uncleared \subseteq past'.uncleared
<1>0. past \in Past
  BY DEF TypeOK
<1>1. CASE past' = past
  BY <1>1
<1>2. CASE Begin(r)
  <2>1. PICK kind \in Kinds \ {"none"}, actor \in Actors, u \in Users, n \in Names :
          \E body \in Bodies(kind) : BeginWith(r, kind, actor, u, n, body)
    BY <1>2, BeginBegins DEF Begins
  <2>2. past' = [past EXCEPT !.wild = past.wild \/ (kind \in Checked /\ actor.wild)]
    BY <2>1 DEF BeginWith
  <2> QED
    BY <1>0, <2>2 DEF Past
<1>3. CASE AssignDelete(r)
  BY <1>0, <1>3 DEF AssignDelete, Past
<1>4. CASE DeleteCommit(r)
  BY <1>0, <1>4 DEF DeleteCommit, Past
<1>5. CASE PoolWrite(r)
  BY <1>0, <1>5 DEF PoolWrite, Past
<1>6. CASE Fail(r)
  BY <1>0, <1>6 DEF Fail, Past
<1>7. CASE JoinAssign(r)
  <2>1. \A u \in Users : past.first[u] \subseteq past'.first[u]
    <3>1. DOMAIN past.first = Users
      BY <1>0 DEF Past
    <3>2. past'.first = [past.first EXCEPT ![req[r].user] = past.first[req[r].user] \cup role[req[r].name].perms]
      BY <1>7, JoinWrites
    <3> QED
      BY <3>1, <3>2
  <2>2. past.uncleared \subseteq past'.uncleared
    BY <1>7, JoinWrites
  <2> QED
    BY <1>7, <2>1, <2>2, JoinWrites
<1> QED
  BY <1>1, <1>2, <1>3, <1>4, <1>5, <1>6, <1>7 DEF Step, Refuse, RoleRead, EditedRoleRead, Check, JoinInsert,
     JoinRoleRead, AssignCommit, Remove, OverridesDelete, OverridesCommit, Create, CreateInsert, CloneRead, CloneInsert, DeleteCount, RoleWrite,
     HoldersRead, Clear

\* What may be given may still be given.
LEMMA GivableStays ==
  ASSUME TypeOK, NEW r \in Requests, Step(r), NEW p, Givable(p)
  PROVE  Givable(p)'
<1>1. pool \cup past.withdrawn \subseteq pool' \cup past'.withdrawn
  <2>1. CASE PoolWrite(r)
    BY <2>1 DEF PoolWrite, TypeOK, Past
  <2>2. CASE pool' = pool
    BY <2>2, PastGrows
  <2> QED
    BY <2>1, <2>2 DEF Step, Begin, BeginWith, Refuse, RoleRead, EditedRoleRead, Check, JoinInsert, JoinRoleRead,
       JoinAssign, AssignDelete, AssignCommit,
       Remove, OverridesDelete, OverridesCommit, Create, CreateInsert, CloneRead, CloneInsert, DeleteCount,
       DeleteCommit, RoleWrite, HoldersRead, Clear, Fail
<1> QED
  BY <1>1, PastGrows DEF Givable

LEMMA Others ==
  ASSUME TypeOK, NEW r \in Requests, Step(r), NEW q \in Requests, q # r
  PROVE  req'[q] = req[q]
<1>0. req \in [Requests -> Request]
  BY DEF TypeOK
<1>1. CASE End(r)
  BY <1>0, <1>1 DEF End
<1>2. CASE \E pc : Goto(r, pc)
  BY <1>0, <1>2 DEF Goto
<1>3. CASE Begin(r)
  <2>1. PICK kind \in Kinds \ {"none"}, actor \in Actors, u \in Users, n \in Names :
          \E body \in Bodies(kind) : BeginWith(r, kind, actor, u, n, body)
    BY <1>3, BeginBegins DEF Begins
  <2> QED
    BY <1>0, <2>1 DEF BeginWith
<1>4. CASE RoleRead(r) \/ AssignDelete(r) \/ OverridesDelete(r) \/ CloneRead(r) \/ HoldersRead(r)
  BY <1>0, <1>1, <1>4 DEF RoleRead, AssignDelete, OverridesDelete, CloneRead, HoldersRead
<1>5. CASE EditedRoleRead(r) \/ Check(r) \/ JoinInsert(r) \/ JoinRoleRead(r) \/ Create(r) \/ DeleteCount(r) \/ RoleWrite(r)
  BY <1>1, <1>2, <1>5 DEF EditedRoleRead, Check, JoinInsert, JoinRoleRead, Create, DeleteCount, RoleWrite
<1> QED
  BY <1>1, <1>3, <1>4, <1>5 DEF Step, Refuse, JoinAssign, AssignCommit, Remove, OverridesCommit, CreateInsert,
     CloneInsert, DeleteCommit, Clear, PoolWrite, Fail

LEMMA Ended ==
  ASSUME TypeOK, NEW r \in Requests, End(r)
  PROVE  /\ req'[r].pc = "ended" /\ req'[r].kind = "none" /\ req'[r].granted = {} /\ req'[r].denied = {}
         /\ req'[r].clearedRoles = {} /\ req'[r].cleared = {} /\ req'[r].holders = {}
  BY DEF End, Nothing, TypeOK

LEMMA Gone ==
  ASSUME TypeOK, NEW r \in Requests, NEW pc, Goto(r, pc)
  PROVE  /\ req'[r].pc = pc /\ req'[r].kind = req[r].kind /\ req'[r].actor = req[r].actor
         /\ req'[r].user = req[r].user /\ req'[r].name = req[r].name
         /\ req'[r].granted = req[r].granted /\ req'[r].denied = req[r].denied
         /\ req'[r].clearedRoles = req[r].clearedRoles /\ req'[r].cleared = req[r].cleared
         /\ req'[r].holders = req[r].holders
  BY DEF Goto, TypeOK, Request

\* A handler that keeps what it has read.
Keeps(r) ==
  /\ req'[r].kind = req[r].kind /\ req'[r].actor = req[r].actor
  /\ req'[r].user = req[r].user /\ req'[r].name = req[r].name /\ req'[r].denied = req[r].denied

LEMMA Kept ==
  ASSUME TypeOK, NEW r \in Requests, ~End(r),
         RoleRead(r) \/ AssignDelete(r) \/ OverridesDelete(r) \/ CloneRead(r) \/ HoldersRead(r)
  PROVE  /\ Keeps(r)
         /\ RoleRead(r) => /\ req'[r].pc \in {"check", "delete"} /\ req'[r].granted = role[req[r].name].perms
                           /\ role[req[r].name].perms # {} => req'[r].pc = "check"
                           /\ req'[r].clearedRoles = req[r].clearedRoles /\ req'[r].cleared = req[r].cleared
         /\ CloneRead(r) => /\ req'[r].pc = "write" /\ req'[r].granted = role[req[r].name].perms
                            /\ req'[r].clearedRoles = req[r].clearedRoles /\ req'[r].cleared = req[r].cleared
         /\ AssignDelete(r) => /\ req'[r].pc = "write" /\ req'[r].granted = req[r].granted
                               /\ req'[r].clearedRoles = {a \in holds : a.user = req[r].user}
                               /\ req'[r].cleared = req[r].cleared
         /\ OverridesDelete(r) => /\ req'[r].pc = "write" /\ req'[r].granted = req[r].granted
                                  /\ req'[r].clearedRoles = req[r].clearedRoles
                                  /\ \A o \in req'[r].cleared : o.user = req[r].user
         /\ HoldersRead(r) => /\ req'[r].pc = "clear" /\ req'[r].granted = req[r].granted
                              /\ req'[r].clearedRoles = req[r].clearedRoles /\ req'[r].cleared = req[r].cleared
                              /\ req'[r].holders = {u \in Users : req[r].name \in RolesOf(u)}
<1>0. req \in [Requests -> Request]
  BY DEF TypeOK
<1>1. CASE RoleRead(r)
  BY ZenonT(40), <1>0, <1>1 DEF RoleRead, AssignDelete, OverridesDelete, CloneRead, HoldersRead, At, Keeps, Request
<1>2. CASE CloneRead(r)
  BY ZenonT(40), <1>0, <1>2 DEF RoleRead, AssignDelete, OverridesDelete, CloneRead, HoldersRead, At, Keeps, Request
<1>3. CASE AssignDelete(r)
  BY <1>0, <1>3 DEF RoleRead, AssignDelete, OverridesDelete, CloneRead, HoldersRead, At, Keeps, Request
<1>4. CASE OverridesDelete(r)
  BY <1>0, <1>4 DEF RoleRead, AssignDelete, OverridesDelete, CloneRead, HoldersRead, At, Keeps, Request
<1>5. CASE HoldersRead(r)
  BY <1>0, <1>5 DEF RoleRead, AssignDelete, OverridesDelete, CloneRead, HoldersRead, At, Keeps, Request
<1> QED
  BY <1>1, <1>2, <1>3, <1>4, <1>5

LEMMA BodiedStep ==
  ASSUME TypeOK, Bodied, NEW r \in Requests, Step(r)
  PROVE  Bodied'
<1> SUFFICES ASSUME NEW q \in Requests
             PROVE  BodiedOf(q)'
  BY DEF Bodied
<1>0. BodiedOf(q) /\ BodiedOf(r) /\ (past.wild => past'.wild)
  BY PastGrows DEF Bodied
<1>1. CASE q # r
  BY <1>0, <1>1, Others DEF BodiedOf
<1>2. CASE q = r /\ End(r)
  BY <1>2, Ended DEF BodiedOf, Checked
<1>3. CASE q = r /\ Begin(r)
  <2>1. PICK kind \in Kinds \ {"none"}, actor \in Actors, u \in Users, n \in Names :
          \E body \in Bodies(kind) : BeginWith(r, kind, actor, u, n, body)
    BY <1>3, BeginBegins DEF Begins
  <2>2. PICK body \in Bodies(kind) : BeginWith(r, kind, actor, u, n, body)
    BY <2>1
  <2> DEFINE pc == FirstStep(kind)
             granted == body[1]
             denied == body[2]
  <2>3. /\ req' = [req EXCEPT ![r] = [Nothing EXCEPT !.pc = pc, !.kind = kind, !.actor = actor, !.user = u,
                                                    !.name = n, !.granted = granted, !.denied = denied]]
        /\ past' = [past EXCEPT !.wild = past.wild \/ (kind \in Checked /\ actor.wild)]
    BY <2>2 DEF BeginWith
  <2>4. /\ kind # "modules" => granted \subseteq Perms /\ denied \subseteq Perms
        /\ kind = "modules" => granted \subseteq Modules
    BY BodyType
  <2>5. pc = "check" => kind = "permissions"
    BY DEF FirstStep, Kinds, OfUser, OfRole
  <2> HIDE DEF pc, granted, denied
  <2>6. /\ req'[r].pc = pc /\ req'[r].kind = kind /\ req'[r].actor = actor
        /\ req'[r].granted = granted /\ req'[r].denied = denied
        /\ req'[r].clearedRoles = {} /\ req'[r].cleared = {}
    BY <2>3 DEF TypeOK, Nothing
  <2>7. kind \in Checked /\ actor.wild => past'.wild
    BY <2>3 DEF TypeOK, Past
  <2> QED
    BY <1>3, <2>4, <2>5, <2>6, <2>7 DEF BodiedOf, Checked
<1>4. CASE q = r /\ ~End(r) /\ (RoleRead(r) \/ AssignDelete(r) \/ OverridesDelete(r) \/ CloneRead(r) \/ HoldersRead(r))
  <2>1. \A n \in Names : role[n].perms \subseteq Perms
    BY DEF TypeOK, Role
  <2>2. CASE RoleRead(r) \/ CloneRead(r)
    <3>1. req[r].kind \in {"assign", "clone"} /\ (RoleRead(r) => req[r].kind \in Checked)
      BY <2>2 DEF RoleRead, CloneRead, At, Checked
    <3>2. Keeps(r) /\ req'[r].granted \subseteq Perms
      BY <1>4, <2>1, <2>2, Kept, FieldTypes
    <3> QED
      BY <1>0, <1>4, <2>2, <3>1, <3>2, Kept DEF BodiedOf, Keeps
  <2>3. CASE AssignDelete(r) \/ OverridesDelete(r) \/ HoldersRead(r)
    BY <1>0, <1>4, <2>3, Kept DEF BodiedOf, Keeps
  <2> QED
    BY <1>4, <2>2, <2>3
<1>5. CASE q = r /\ (EditedRoleRead(r) \/ Check(r) \/ JoinInsert(r) \/ JoinRoleRead(r) \/ Create(r) \/ DeleteCount(r) \/ RoleWrite(r))
  <2>1. \/ End(r)
        \/ \E pc : Goto(r, pc) /\ (pc = "check" => req[r].kind = "rolePermissions")
    BY <1>5 DEF EditedRoleRead, Check, JoinInsert, JoinRoleRead, Create, DeleteCount, RoleWrite, At
  <2>2. CASE End(r)
    BY <1>2, <1>5, <2>2
  <2>3. CASE \E pc : Goto(r, pc) /\ (pc = "check" => req[r].kind = "rolePermissions")
    BY <1>0, <1>5, <2>3, Gone DEF BodiedOf, Checked
  <2> QED
    BY <2>1, <2>2, <2>3
<1> QED
  BY <1>1, <1>2, <1>3, <1>4, <1>5 DEF Step, Refuse, JoinAssign, AssignCommit, Remove, OverridesCommit, CreateInsert,
     CloneInsert, DeleteCommit, Clear, PoolWrite, Fail

\* A role that has been made stays, and its permissions change only when they
\* are set.
LEMMA RoleSteps ==
  ASSUME TypeOK, NEW r \in Requests, Step(r), NEW n \in Names
  PROVE  /\ role[n].state # "none" => role'[n].state # "none"
         /\ role'[n].state = "deleted" => role[n].state = "deleted" \/ (DeleteCommit(r) /\ n = req[r].name)
         /\ role[n].state # "none" => \/ role'[n].perms = role[n].perms
                                      \/ RoleWrite(r) /\ n = req[r].name /\ role'[n].perms = req[r].granted
<1>0. role \in [Names -> Role]
  BY DEF TypeOK
<1>1. CASE role' = role
  BY <1>1
<1>2. CASE CreateInsert(r)
  BY <1>0, <1>2 DEF CreateInsert, Role
<1>3. CASE CloneInsert(r)
  BY <1>0, <1>3 DEF CloneInsert, Role
<1>4. CASE DeleteCommit(r)
  <2>1. role' = [role EXCEPT ![req[r].name] = [role[req[r].name] EXCEPT !.state = "deleted"]]
    BY <1>4 DEF DeleteCommit
  <2> QED
    BY <1>0, <1>4, <2>1 DEF Role
<1>5. CASE RoleWrite(r)
  <2>1. role' = [role EXCEPT ![req[r].name] = [role[req[r].name] EXCEPT !.perms = req[r].granted]]
    BY <1>5 DEF RoleWrite
  <2> QED
    BY <1>0, <1>5, <2>1 DEF Role
<1> QED
  BY <1>1, <1>2, <1>3, <1>4, <1>5 DEF Step, Begin, BeginWith, Refuse, RoleRead, EditedRoleRead, Check,
     JoinInsert, JoinRoleRead, JoinAssign, AssignDelete, AssignCommit, Remove, OverridesDelete, OverridesCommit, Create, CloneRead, DeleteCount, HoldersRead, Clear,
     PoolWrite, Fail, crm

\* Rows are made by the request that assigns a role, and else only deleted.
LEMMA HoldsSteps ==
  ASSUME NEW r \in Requests, Step(r)
  PROVE  holds' \subseteq holds \/ AssignCommit(r) \/ JoinAssign(r)
  BY DEF Step, Begin, BeginWith, Refuse, RoleRead, EditedRoleRead, Check, JoinInsert, JoinRoleRead, AssignDelete,
     Remove, OverridesDelete, OverridesCommit, Create, CreateInsert, CloneRead, CloneInsert, DeleteCount,
     DeleteCommit, RoleWrite, HoldersRead, Clear, PoolWrite, Fail, crm

LEMMA RolesGiven ==
  ASSUME NEW r \in Requests, Step(r), NEW u, NEW n \in RolesOf(u)'
  PROVE  n \in RolesOf(u) \/ ((AssignCommit(r) \/ JoinAssign(r)) /\ u = req[r].user /\ n = req[r].name)
<1>1. PICK a \in holds' : n \in Names /\ a.user = u /\ a.name = n
  BY DEF RolesOf
<1>2. CASE a \in holds
  BY <1>1, <1>2 DEF RolesOf
<1>3. CASE (AssignCommit(r) \/ JoinAssign(r)) /\ a \notin holds
  <2>1. a = [user |-> req[r].user, name |-> req[r].name, by |-> r]
    BY <1>1, <1>3 DEF AssignCommit, JoinAssign
  <2> QED
    BY <1>1, <1>3, <2>1
<1> QED
  BY <1>1, <1>2, <1>3, HoldsSteps

LEMMA RowsSteps ==
  ASSUME NEW r \in Requests, Step(r)
  PROVE  rows' = rows \/ OverridesCommit(r)
  BY DEF Step, Begin, BeginWith, Refuse, RoleRead, EditedRoleRead, Check, JoinInsert, JoinRoleRead, JoinAssign,
     AssignDelete, AssignCommit, Remove, OverridesDelete, Create, CreateInsert, CloneRead, CloneInsert, DeleteCount,
     DeleteCommit, RoleWrite, HoldersRead, Clear, PoolWrite, Fail, crm

LEMMA PermissionsGranted ==
  ASSUME TypeOK, Bodied, NEW r \in Requests, Step(r), NEW o \in rows', o.yes, o.key \in Perms
  PROVE  o \in rows \/ (At(r, "write", "permissions") /\ o.key \in req[r].granted)
<1>1. CASE o \notin rows
  <2>1. OverridesCommit(r) /\ o \in NewRows(r)
    BY <1>1, RowsSteps DEF OverridesCommit
  <2>2. o.key \in req[r].granted
    BY <2>1 DEF NewRows
  <2>3. req[r].kind # "modules"
    BY <2>2, Catalog DEF Bodied, BodiedOf
  <2> QED
    BY <2>1, <2>2, <2>3 DEF OverridesCommit, At
<1> QED
  BY <1>1

-----------------------------------------------------------------------------
(* What may be given.                                                      *)

LEMMA CheckGrants ==
  ASSUME TypeOK, Bodied, NEW r \in Requests, Check(r), ~End(r), NEW p \in req[r].granted
  PROVE  Givable(p)
<1>1. MayGrant(req[r].actor, req[r].granted \cup req[r].denied)
  BY DEF Check
<1>2. req[r].actor \in Actors /\ p \in pool
  BY <1>1, FieldTypes DEF MayGrant
<1>3. req[r].kind \in Checked
  BY DEF Check, Bodied, BodiedOf
<1>4. CASE req[r].actor.wild
  BY <1>2, <1>3, <1>4 DEF Givable, Bodied, BodiedOf
<1>5. CASE ~req[r].actor.wild
  BY <1>1, <1>2, <1>5 DEF Givable, MayGrant
<1> QED
  BY <1>4, <1>5

\* While a request stays where it is, others give its role what they may.
LEMMA GrantingOthers ==
  ASSUME TypeOK, Bodied, Granting, NEW r \in Requests, Step(r), NEW q \in Requests, req'[q] = req[q]
  PROVE  GrantingOf(q)'
<1>0. \A p : Givable(p) => Givable(p)'
  BY GivableStays
<1>1. ASSUME At(q, "delete", "permissions") \/ At(q, "write", "permissions") \/ At(q, "write", "rolePermissions"),
             NEW p \in req[q].granted
      PROVE  Givable(p)'
  BY <1>0, <1>1 DEF Granting, GrantingOf
<1>2. ASSUME req[q].kind = "assign", req[q].pc # "role"
      PROVE  /\ role'[req[q].name].state # "none"
             /\ \A p \in role'[req[q].name].perms : Givable(p)' \/ (req[q].pc = "check" /\ p \in req[q].granted)
  <2> DEFINE n == req[q].name
  <2>1. n \in Names
    BY FieldTypes
  <2>2. /\ role[n].state # "none"
        /\ \A p \in role[n].perms : Givable(p) \/ (req[q].pc = "check" /\ p \in req[q].granted)
    BY <1>2 DEF Granting, GrantingOf
  <2> HIDE DEF n
  <2>3. role'[n].state # "none"
    BY <2>1, <2>2, RoleSteps
  <2>4. CASE role'[n].perms = role[n].perms
    BY <1>0, <2>2, <2>3, <2>4 DEF n
  <2>5. CASE RoleWrite(r) /\ role'[n].perms = req[r].granted
    <3>1. \A p \in req[r].granted : Givable(p)
      BY <2>5 DEF RoleWrite, Granting, GrantingOf
    <3> QED
      BY <1>0, <2>3, <2>5, <3>1 DEF n
  <2> QED
    BY <2>1, <2>2, <2>4, <2>5, RoleSteps
<1> QED
  BY <1>1, <1>2 DEF GrantingOf, At

LEMMA GrantingStep ==
  ASSUME TypeOK, Bodied, Granting, NEW r \in Requests, Step(r)
  PROVE  Granting'
<1> SUFFICES ASSUME NEW q \in Requests
             PROVE  GrantingOf(q)'
  BY DEF Granting
<1>0. GrantingOf(r) /\ \A p : Givable(p) => Givable(p)'
  BY GivableStays DEF Granting
<1>1. CASE q # r
  BY <1>1, Others, GrantingOthers
<1>2. CASE q = r /\ End(r)
  BY <1>2, Ended DEF GrantingOf, At
<1>3. CASE q = r /\ Begin(r)
  <2>1. PICK kind \in Kinds \ {"none"}, actor \in Actors, u \in Users, n \in Names :
          \E body \in Bodies(kind) : BeginWith(r, kind, actor, u, n, body)
    BY <1>3, BeginBegins DEF Begins
  <2>2. req'[r].kind = kind /\ req'[r].pc = FirstStep(kind)
    BY <2>1 DEF BeginWith, TypeOK, Nothing
  <2>3. /\ kind = "assign" => FirstStep(kind) = "role"
        /\ kind = "permissions" => FirstStep(kind) = "check"
        /\ kind = "rolePermissions" => FirstStep(kind) = "role"
    BY DEF FirstStep
  <2> QED
    BY <1>3, <2>2, <2>3 DEF GrantingOf, At
<1>4. CASE q = r /\ RoleRead(r) /\ ~End(r)
  <2>1. role' = role /\ role[req[r].name].state # "none" /\ req[r].kind = "assign"
    BY <1>4 DEF RoleRead, crm, At
  <2>2. /\ req'[r].kind = "assign" /\ req'[r].name = req[r].name
        /\ req'[r].granted = role[req[r].name].perms
        /\ role[req[r].name].perms # {} => req'[r].pc = "check"
    BY <1>4, <2>1, Kept DEF Keeps
  <2> QED
    BY <1>4, <2>1, <2>2 DEF GrantingOf, At
<1>5. CASE q = r /\ (AssignDelete(r) \/ OverridesDelete(r)) /\ ~End(r)
  <2>1. /\ role' = role /\ Keeps(r) /\ req'[r].pc = "write" /\ req'[r].granted = req[r].granted
        /\ req[r].pc = "delete" /\ req[r].kind \in {"assign", "permissions", "modules"}
    BY <1>5, Kept DEF AssignDelete, OverridesDelete, crm, At
  <2> QED
    BY <1>0, <1>5, <2>1 DEF GrantingOf, At, Keeps
<1>6. CASE q = r /\ (CloneRead(r) \/ HoldersRead(r)) /\ ~End(r)
  <2>1. Keeps(r) /\ (req[r].kind = "clone" \/ (req[r].kind = "rolePermissions" /\ req'[r].pc = "clear"))
    BY <1>6, Kept DEF CloneRead, HoldersRead, At
  <2> QED
    BY <1>6, <2>1 DEF GrantingOf, At, Keeps
<1>7. CASE q = r /\ Check(r) /\ ~End(r)
  <2>1. \A p \in req[r].granted : Givable(p)'
    BY <1>0, <1>7, CheckGrants
  <2>2. /\ role' = role /\ req[r].pc = "check"
        /\ \E pc : Goto(r, pc)
    BY <1>7 DEF Check, crm
  <2>3. /\ req'[r].kind = req[r].kind /\ req'[r].name = req[r].name /\ req'[r].granted = req[r].granted
    BY <2>2, Gone
  <2> QED
    BY <1>0, <1>7, <2>1, <2>2, <2>3 DEF GrantingOf, At
<1>8. CASE q = r /\ ~End(r) /\ (EditedRoleRead(r) \/ JoinInsert(r) \/ JoinRoleRead(r) \/ Create(r) \/ DeleteCount(r) \/ RoleWrite(r))
  <2>1. \/ req[r].kind \in {"delete", "create", "join"} /\ \E pc : Goto(r, pc)
        \/ req[r].kind = "rolePermissions" /\ \E pc : pc # "write" /\ Goto(r, pc)
    BY <1>8 DEF EditedRoleRead, JoinInsert, JoinRoleRead, Create, DeleteCount, RoleWrite, At
  <2> QED
    BY <1>8, <2>1, Gone DEF GrantingOf, At
<1> QED
  BY <1>1, <1>2, <1>3, <1>4, <1>5, <1>6, <1>7, <1>8 DEF Step, Refuse, JoinAssign, AssignCommit, Remove,
     OverridesCommit, CreateInsert, CloneInsert, DeleteCommit, Clear, PoolWrite, Fail

LEMMA HoldingStep ==
  ASSUME TypeOK, Bodied, Granting, Holding, Joining, NEW r \in Requests, Step(r)
  PROVE  Holding'
<1>0. (\A p : Givable(p) => Givable(p)') /\ \A u \in Users : past.first[u] \subseteq past'.first[u]
  BY GivableStays, PastGrows
<1>1. ASSUME NEW u \in Users, NEW n \in RolesOf(u)'
      PROVE  role'[n].state # "none"
  <2>0. n \in Names
    BY DEF RolesOf
  <2>1. CASE n \in RolesOf(u)
    BY <2>0, <2>1, RoleSteps DEF Holding
  <2>2. CASE AssignCommit(r) /\ n = req[r].name
    <3>1. role[n].state # "none"
      BY <2>2 DEF AssignCommit, At, Granting, GrantingOf
    <3> QED
      BY <2>0, <3>1, RoleSteps
  <2>3. CASE JoinAssign(r) /\ n = req[r].name
    BY <2>3 DEF JoinAssign, At, Joining
  <2> QED
    BY <2>1, <2>2, <2>3, RolesGiven
<1>2. ASSUME NEW u \in Users, NEW p \in Given(u)'
      PROVE  Givable(p)' \/ p \in past'.first[u]
  <2>1. \/ \E n \in RolesOf(u)' : p \in role'[n].perms
        \/ p \in Perms /\ \E o \in rows' : o.user = u /\ o.key = p /\ o.yes
    BY <1>2, GivenFromNext
  <2>2. ASSUME NEW n \in RolesOf(u)', p \in role'[n].perms
        PROVE  Givable(p)' \/ p \in past'.first[u]
    <3>0. n \in Names
      BY DEF RolesOf
    <3>1. CASE RoleWrite(r) /\ n = req[r].name /\ role'[n].perms = req[r].granted
      BY <1>0, <2>2, <3>1 DEF RoleWrite, Granting, GrantingOf
    <3>2. CASE n \in RolesOf(u) /\ role'[n].perms = role[n].perms
      <4>1. p \in Given(u)
        BY <2>2, <3>2, GivenFrom
      <4> QED
        BY <1>0, <4>1 DEF Holding
    <3>3. CASE AssignCommit(r) /\ n = req[r].name /\ role'[n].perms = role[n].perms
      BY <1>0, <2>2, <3>3 DEF AssignCommit, At, Granting, GrantingOf
    <3>4. role[n].state # "none"
      <4>1. CASE n \in RolesOf(u)
        BY <4>1 DEF Holding
      <4>2. CASE AssignCommit(r) /\ n = req[r].name
        BY <4>2 DEF AssignCommit, At, Granting, GrantingOf
      <4>3. CASE JoinAssign(r) /\ n = req[r].name
        BY <4>3 DEF JoinAssign, At, Joining
      <4> QED
        BY <4>1, <4>2, <4>3, RolesGiven
    <3>5. CASE JoinAssign(r) /\ u = req[r].user /\ n = req[r].name /\ role'[n].perms = role[n].perms
      <4>1. past'.first[u] = past.first[u] \cup role[n].perms
        <5>1. DOMAIN past.first = Users
          BY DEF TypeOK, Past
        <5>2. past'.first = [past.first EXCEPT ![req[r].user] = past.first[req[r].user] \cup role[req[r].name].perms]
          BY <3>5, JoinWrites
        <5> QED
          BY <3>5, <5>1, <5>2
      <4> QED
        BY <2>2, <3>5, <4>1
    <3> QED
      BY <3>0, <3>1, <3>2, <3>3, <3>4, <3>5, RoleSteps, RolesGiven
  <2>3. ASSUME p \in Perms, NEW o \in rows', o.user = u, o.key = p, o.yes
        PROVE  Givable(p)' \/ p \in past'.first[u]
    <3>1. CASE o \in rows
      <4>1. p \in Given(u)
        BY <2>3, <3>1, GivenFrom
      <4> QED
        BY <1>0, <4>1 DEF Holding
    <3>2. CASE At(r, "write", "permissions") /\ o.key \in req[r].granted
      BY <1>0, <2>3, <3>2 DEF Granting, GrantingOf
    <3> QED
      BY <2>3, <3>1, <3>2, PermissionsGranted
  <2> QED
    BY <2>1, <2>2, <2>3
<1> QED
  BY <1>1, <1>2 DEF Holding

-----------------------------------------------------------------------------
(* Who holds which roles.                                                  *)

\* How a request that assigns goes on.
LEMMA AssignSteps ==
  ASSUME TypeOK, NEW r \in Requests, Step(r), req'[r].kind = "assign", req'[r].pc # "role"
  PROVE  /\ role' = role /\ holds' = holds
         /\ req'[r].kind = req[r].kind /\ req'[r].user = req[r].user /\ req'[r].name = req[r].name
         /\ \/ RoleRead(r) /\ role[req[r].name].state = "live" /\ req'[r].pc # "write"
            \/ Check(r) /\ req[r].pc # "role" /\ req'[r].pc # "write"
            \/ AssignDelete(r) /\ req[r].pc # "role"
<1>1. CASE End(r)
  BY <1>1, Ended
<1>2. CASE Begin(r)
  <2>1. PICK kind \in Kinds \ {"none"}, actor \in Actors, u \in Users, n \in Names :
          \E body \in Bodies(kind) : BeginWith(r, kind, actor, u, n, body)
    BY <1>2, BeginBegins DEF Begins
  <2>2. req'[r].kind = kind /\ req'[r].pc = FirstStep(kind)
    BY <2>1 DEF BeginWith, TypeOK, Nothing
  <2> QED
    BY <2>2 DEF FirstStep
<1>3. CASE RoleRead(r) /\ ~End(r)
  BY <1>3, Kept DEF RoleRead, Keeps, crm, At
<1>4. CASE AssignDelete(r) /\ ~End(r)
  BY <1>4, Kept DEF AssignDelete, Keeps, crm, At
<1>5. CASE (OverridesDelete(r) \/ CloneRead(r) \/ HoldersRead(r)) /\ ~End(r)
  <2>1. req[r].kind # "assign" /\ Keeps(r)
    BY <1>5, Kept DEF OverridesDelete, CloneRead, HoldersRead, At
  <2> QED
    BY <2>1 DEF Keeps
<1>6. CASE (EditedRoleRead(r) \/ JoinInsert(r) \/ JoinRoleRead(r) \/ Create(r) \/ DeleteCount(r) \/ RoleWrite(r)) /\ ~End(r)
  <2>1. req[r].kind # "assign" /\ \E pc : Goto(r, pc)
    BY <1>6 DEF EditedRoleRead, JoinInsert, JoinRoleRead, Create, DeleteCount, RoleWrite, At
  <2> QED
    BY <2>1, Gone
<1>7. CASE Check(r) /\ ~End(r)
  <2>1. /\ role' = role /\ holds' = holds /\ req[r].pc = "check"
        /\ Goto(r, IF req[r].kind = "rolePermissions" THEN "write" ELSE "delete")
    BY <1>7 DEF Check, crm
  <2> QED
    BY <1>7, <2>1, Gone
<1> QED
  BY <1>1, <1>2, <1>3, <1>4, <1>5, <1>6, <1>7 DEF Step, Refuse, JoinAssign, AssignCommit, Remove,
     OverridesCommit, CreateInsert, CloneInsert, DeleteCommit, Clear, PoolWrite, Fail

\* A handler that goes on stays with its operation.
LEMMA GoesOn ==
  ASSUME TypeOK, NEW r \in Requests, Step(r)
  PROVE  \/ End(r)
         \/ Begin(r)
         \/ req'[r].kind = req[r].kind /\ req'[r].user = req[r].user /\ req'[r].name = req[r].name
<1>1. CASE (RoleRead(r) \/ AssignDelete(r) \/ OverridesDelete(r) \/ CloneRead(r) \/ HoldersRead(r)) /\ ~End(r)
  BY <1>1, Kept DEF Keeps
<1>2. CASE EditedRoleRead(r) \/ Check(r) \/ JoinInsert(r) \/ JoinRoleRead(r) \/ Create(r) \/ DeleteCount(r) \/ RoleWrite(r)
  <2>1. End(r) \/ \E pc : Goto(r, pc)
    BY <1>2 DEF EditedRoleRead, Check, JoinInsert, JoinRoleRead, Create, DeleteCount, RoleWrite
  <2> QED
    BY <2>1, Gone
<1> QED
  BY <1>1, <1>2 DEF Step, Refuse, JoinAssign, AssignCommit, Remove, OverridesCommit, CreateInsert, CloneInsert,
     DeleteCommit, Clear, PoolWrite, Fail

\* Users are not taken away (in this module).
LEMMA MembersStay ==
  ASSUME NEW r \in Requests, Step(r)
  PROVE  member' = member \/ (JoinInsert(r) /\ member' = member \cup {req[r].user})
  BY DEF Step, Begin, BeginWith, Refuse, RoleRead, EditedRoleRead, Check, JoinInsert, JoinRoleRead, JoinAssign,
     AssignDelete, AssignCommit, Remove, OverridesDelete, OverridesCommit, Create, CreateInsert, CloneRead,
     CloneInsert, DeleteCount, DeleteCommit, RoleWrite, HoldersRead, Clear, PoolWrite, Fail, crm

\* How a request that begins is placed.
LEMMA BeginsAt ==
  ASSUME TypeOK, NEW r \in Requests, Begin(r)
  PROVE  /\ ~Joins(r)' /\ ~At(r, "holders", "delete")' /\ ~At(r, "write", "delete")'
         /\ req'[r].kind = "assign" => req'[r].user \in member
<1>1. PICK kind \in Kinds \ {"none"}, actor \in Actors, u \in Users, n \in Names :
        /\ kind \in OfUser => ((u \in member) <=> (kind # "join"))
        /\ \E body \in Bodies(kind) : BeginWith(r, kind, actor, u, n, body)
  BY BeginFinds
<1>2. req'[r].kind = kind /\ req'[r].pc = FirstStep(kind) /\ req'[r].user = u
  BY <1>1 DEF BeginWith, TypeOK, Nothing
<1>3. kind = "join" => FirstStep(kind) = "insert"
  BY DEF FirstStep
<1>4. kind = "delete" => FirstStep(kind) = "role"
  BY DEF FirstStep
<1>5. kind = "assign" => u \in member
  BY <1>1 DEF OfUser
<1> QED
  BY <1>2, <1>3, <1>4, <1>5 DEF Joins, At

\* How a request that creates a user goes on.
LEMMA JoinSteps ==
  ASSUME TypeOK, Bodied, NEW r \in Requests, Step(r), Joins(r)'
  PROVE  /\ role' = role /\ holds' = holds /\ past' = past
         /\ req'[r].user = req[r].user /\ req'[r].name = req[r].name
         /\ \/ JoinInsert(r) /\ req'[r].pc = "role"
            \/ JoinRoleRead(r) /\ Joins(r) /\ req[r].name \in System /\ role[req[r].name].state = "live"
<1>1. ~End(r) /\ ~Begin(r)
  BY Ended, BeginsAt DEF Joins, At
<1>2. req[r].kind = "join" /\ req'[r].user = req[r].user /\ req'[r].name = req[r].name
  BY <1>1, GoesOn DEF Joins, At
<1>3. ~Check(r)
  BY <1>2 DEF Check, Bodied, BodiedOf, Checked
<1>4. JoinInsert(r) \/ JoinRoleRead(r)
  BY <1>1, <1>2, <1>3 DEF Step, Refuse, RoleRead, EditedRoleRead, JoinAssign, AssignDelete, AssignCommit, Remove,
     OverridesDelete, OverridesCommit, Create, CreateInsert, CloneRead, CloneInsert, DeleteCount, DeleteCommit,
     RoleWrite, HoldersRead, Clear, PoolWrite, Fail, At
<1>5. CASE JoinInsert(r)
  BY <1>2, <1>5, Gone DEF JoinInsert
<1>6. CASE JoinRoleRead(r)
  BY <1>1, <1>2, <1>6 DEF JoinRoleRead, Joins, crm
<1> QED
  BY <1>4, <1>5, <1>6

LEMMA JoiningStep ==
  ASSUME TypeOK, Bodied, Joining, NEW r \in Requests, Step(r)
  PROVE  Joining'
<1>0. member \subseteq member' /\ past.twice \subseteq past'.twice
  BY MembersStay, PastGrows
<1>1. ASSUME NEW a \in holds'
      PROVE  a.user \in member'
  <2>1. CASE a \in holds
    BY <1>0, <2>1 DEF Joining
  <2>2. CASE a \notin holds
    <3>0. AssignCommit(r) \/ JoinAssign(r)
      BY <2>2, HoldsSteps
    <3>1. a.user = req[r].user
      BY <2>2, <3>0 DEF AssignCommit, JoinAssign
    <3>2. req[r].kind = "assign" \/ Joins(r)
      BY <3>0 DEF AssignCommit, JoinAssign, Joins, At
    <3> QED
      BY <1>0, <3>1, <3>2 DEF Joining
  <2> QED
    BY <2>1, <2>2
<1>2. ASSUME NEW q \in Requests, req'[q].kind = "assign"
      PROVE  req'[q].user \in member'
  <2>1. CASE q # r
    BY <1>0, <1>2, <2>1, Others DEF Joining
  <2>2. CASE q = r
    BY <1>0, <1>2, <2>2, GoesOn, Ended, BeginsAt DEF Joining
  <2> QED
    BY <2>1, <2>2
<1>3. ASSUME NEW q \in Requests, Joins(q)'
      PROVE  req'[q].user \in member'
  <2>1. CASE q # r
    BY <1>0, <1>3, <2>1, Others DEF Joining, Joins, At
  <2>2. CASE q = r /\ JoinInsert(r)
    BY <1>3, <2>2, JoinSteps DEF JoinInsert
  <2>3. CASE q = r /\ Joins(r)
    BY <1>0, <1>3, <2>3, JoinSteps DEF Joining
  <2> QED
    BY <1>3, <2>1, <2>2, <2>3, JoinSteps
<1>4. ASSUME NEW q \in Requests, q # r, Joins(r)', Joins(q)
      PROVE  req'[r].user # req[q].user
  <2>1. CASE JoinInsert(r)
    BY <1>4, <2>1, JoinSteps DEF JoinInsert, Joining
  <2>2. CASE Joins(r)
    BY <1>4, <2>2, JoinSteps DEF Joining
  <2> QED
    BY <1>4, <2>1, <2>2, JoinSteps
<1>5. ASSUME NEW p \in Requests, NEW q \in Requests, p # q, Joins(p)', Joins(q)'
      PROVE  req'[p].user # req'[q].user
  <2>1. CASE p # r /\ q # r
    BY <1>5, <2>1, Others DEF Joining, Joins, At
  <2>2. CASE p = r /\ q # r
    BY <1>4, <1>5, <2>2, Others DEF Joins, At
  <2>3. CASE p # r /\ q = r
    BY <1>4, <1>5, <2>3, Others DEF Joins, At
  <2> QED
    BY <1>5, <2>1, <2>2, <2>3
<1>6. ASSUME NEW p \in Requests, NEW q \in Requests, Joins(p)', At(q, "write", "assign")',
             req'[p].user = req'[q].user
      PROVE  req'[p].user \in past'.twice
  <2>0. p # q
    BY <1>6 DEF Joins, At
  <2>1. CASE p # r /\ q # r
    BY <1>0, <1>6, <2>1, Others DEF Joining, Joins, At
  <2>2. CASE p = r
    <3>0. req'[q] = req[q]
      BY <2>0, <2>2, Others
    <3>1. CASE JoinInsert(r)
      <4>1. req[q].user \in member
        BY <1>6, <3>0 DEF At, Joining
      <4> QED
        BY <1>6, <2>2, <3>0, <3>1, <4>1, JoinSteps DEF JoinInsert
    <3>2. CASE Joins(r)
      BY <1>0, <1>6, <2>2, <3>0, <3>2, JoinSteps DEF At, Joining
    <3> QED
      BY <1>6, <2>2, <3>1, <3>2, JoinSteps
  <2>3. CASE q = r
    <3>0. req'[p] = req[p]
      BY <2>0, <2>3, Others
    <3>1. AssignDelete(r) /\ req'[r].user = req[r].user
      BY <1>6, <2>3, AssignSteps DEF At
    <3>2. AssignUnderWay(r, req[r].user)
      BY <1>6, <2>0, <2>3, <3>0, <3>1 DEF AssignUnderWay, Joins, At
    <3> QED
      BY <1>6, <2>3, <3>1, <3>2 DEF AssignDelete, TypeOK, Past
  <2> QED
    BY <2>1, <2>2, <2>3
<1>7. ASSUME NEW q \in Requests, Joins(q)', req'[q].user \notin past'.twice, NEW a \in holds'
      PROVE  a.user # req'[q].user
  <2>1. CASE q = r
    <3>1. a \in holds /\ req'[r].user = req[r].user
      BY <1>7, <2>1, JoinSteps
    <3>2. CASE JoinInsert(r)
      BY <3>1, <2>1, <3>2 DEF JoinInsert, Joining
    <3>3. CASE Joins(r)
      BY <1>0, <1>7, <2>1, <3>1, <3>3 DEF Joining
    <3> QED
      BY <1>7, <2>1, <3>2, <3>3, JoinSteps
  <2>2. CASE q # r
    <3>0. req'[q] = req[q] /\ Joins(q)
      BY <1>7, <2>2, Others DEF Joins, At
    <3>1. CASE a \in holds
      BY <1>0, <1>7, <3>0, <3>1 DEF Joining
    <3>2. CASE a \notin holds /\ AssignCommit(r)
      <4>1. a.user = req[r].user /\ At(r, "write", "assign")
        BY <3>2 DEF AssignCommit
      <4> QED
        BY <1>0, <1>7, <3>0, <4>1 DEF Joining
    <3>3. CASE a \notin holds /\ JoinAssign(r)
      <4>1. a.user = req[r].user /\ Joins(r)
        BY <3>3 DEF JoinAssign, Joins
      <4> QED
        BY <2>2, <3>0, <4>1 DEF Joining
    <3> QED
      BY <3>1, <3>2, <3>3, HoldsSteps
  <2> QED
    BY <2>1, <2>2
<1>8. ASSUME NEW q \in Requests, At(q, "write", "join")'
      PROVE  req'[q].name \in System /\ role'[req'[q].name].state = "live"
  <2>1. CASE q = r
    <3>1. Joins(r)' /\ req'[r].pc # "role"
      BY <1>8, <2>1 DEF Joins, At
    <3> QED
      BY <2>1, <3>1, JoinSteps
  <2>2. CASE q # r
    <3>0. req'[q] = req[q] /\ req[q].name \in Names
      BY <2>2, Others, FieldTypes
    <3>1. req[q].name \in System /\ role[req[q].name].state = "live"
      BY <1>8, <3>0 DEF At, Joining
    <3>2. ~(DeleteCommit(r) /\ req[q].name = req[r].name)
      BY <3>1 DEF DeleteCommit, Joining
    <3>3. role'[req[q].name] \in Role
      BY <3>0, TypeStep DEF TypeOK
    <3> QED
      BY <3>0, <3>1, <3>2, <3>3, RoleSteps DEF Role
  <2> QED
    BY <2>1, <2>2
<1>9. ASSUME NEW q \in Requests, At(q, "holders", "delete")' \/ At(q, "write", "delete")'
      PROVE  req'[q].name \notin System
  <2>1. CASE q # r
    BY <1>9, <2>1, Others DEF At, Joining
  <2>2. CASE q = r
    <3>1. /\ ~End(r) /\ ~Begin(r) /\ req[r].kind = "delete" /\ req'[r].name = req[r].name
      BY <1>9, <2>2, GoesOn, Ended, BeginsAt DEF At
    <3>2. ~Check(r)
      BY <3>1 DEF Check, Bodied, BodiedOf, Checked
    <3>3. EditedRoleRead(r) \/ DeleteCount(r)
      BY <3>1, <3>2 DEF Step, Refuse, RoleRead, JoinInsert, JoinRoleRead, JoinAssign, AssignDelete, AssignCommit,
         Remove, OverridesDelete, OverridesCommit, Create, CreateInsert, CloneRead, CloneInsert, DeleteCommit,
         RoleWrite, HoldersRead, Clear, PoolWrite, Fail, At
    <3>4. req[r].name \notin System
      BY <3>1, <3>3 DEF EditedRoleRead, DeleteCount, Joining
    <3> QED
      BY <2>2, <3>1, <3>4
  <2> QED
    BY <2>1, <2>2
<1> QED
  BY <1>1, <1>2, <1>3, <1>5, <1>6, <1>7, <1>8, <1>9 DEF Joining

LEMMA AssigningStep ==
  ASSUME TypeOK, Joining, Assigning, NEW r \in Requests, Step(r)
  PROVE  Assigning'
<1>0. past.twice \subseteq past'.twice
  BY PastGrows
<1>1. ASSUME NEW q \in Requests, q # r, At(r, "write", "assign")', At(q, "write", "assign"), req[q].user = req'[r].user
      PROVE  req[q].user \in past'.twice
  <2>1. AssignDelete(r) /\ req'[r].user = req[r].user
    BY <1>1, AssignSteps DEF At
  <2>2. AssignUnderWay(r, req[r].user)
    BY <1>1, <2>1 DEF AssignUnderWay
  <2> QED
    BY <1>1, <2>1, <2>2 DEF AssignDelete, TypeOK, Past
<1>2. ASSUME NEW p \in Requests, NEW q \in Requests, p # q, At(p, "write", "assign")', At(q, "write", "assign")',
             req'[p].user = req'[q].user
      PROVE  req'[p].user \in past'.twice
  <2>1. CASE p # r /\ q # r
    BY <1>0, <1>2, <2>1, Others DEF At, Assigning
  <2>2. CASE p = r /\ q # r
    BY <1>1, <1>2, <2>2, Others DEF At
  <2>3. CASE p # r /\ q = r
    BY <1>1, <1>2, <2>3, Others DEF At
  <2> QED
    BY <1>2, <2>1, <2>2, <2>3
<1>3. ASSUME NEW q \in Requests, At(q, "write", "assign")', req'[q].user \notin past'.twice,
             NEW a \in holds', a.user = req'[q].user
      PROVE  a \in req'[q].clearedRoles
  <2>1. CASE q = r
    <3>1. AssignDelete(r) /\ holds' = holds /\ req'[r].user = req[r].user
      BY <1>3, <2>1, AssignSteps DEF At, AssignDelete, crm
    <3>2. ~End(r)
      BY <1>3, <2>1, Ended DEF At
    <3> QED
      BY <1>3, <2>1, <3>1, <3>2, Kept
  <2>2. CASE q # r /\ a \in holds
    BY <1>0, <1>3, <2>2, Others DEF At, Assigning
  <2>3. CASE q # r /\ a \notin holds
    <3>1. AssignCommit(r) \/ JoinAssign(r)
      BY <2>3, HoldsSteps
    <3>2. a.user = req[r].user
      BY <2>3, <3>1 DEF AssignCommit, JoinAssign
    <3>3. CASE AssignCommit(r)
      <4>1. req[r].user \in past.twice
        BY <1>3, <2>3, <3>2, <3>3, Others DEF AssignCommit, At, Assigning
      <4> QED
        BY <1>0, <1>3, <3>2, <4>1
    <3>4. CASE JoinAssign(r)
      <4>1. req[r].user \in past.twice
        <5>1. Joins(r)
          BY <3>4 DEF JoinAssign, Joins
        <5>2. req'[q] = req[q]
          BY <2>3, Others
        <5>3. At(q, "write", "assign") /\ req[r].user = req[q].user
          BY <1>3, <3>2, <5>2 DEF At
        <5> QED
          BY <5>1, <5>3 DEF Joining
      <4> QED
        BY <1>0, <1>3, <3>2, <4>1
    <3> QED
      BY <3>1, <3>3, <3>4
  <2> QED
    BY <2>1, <2>2, <2>3
<1>4. ASSUME NEW a \in holds', NEW b \in holds', a.user = b.user, a.user \notin past'.twice
      PROVE  a.name = b.name
  <2>1. CASE a \in holds /\ b \in holds /\ ~((AssignCommit(r) \/ JoinAssign(r)) /\ a.user = req[r].user)
    BY <1>0, <1>4, <2>1 DEF Assigning
  <2>2. CASE AssignCommit(r) /\ a.user = req[r].user
    <3> DEFINE new == [user |-> req[r].user, name |-> req[r].name, by |-> r]
    <3>1. holds' = (holds \ req[r].clearedRoles) \cup {new}
      BY <2>2 DEF AssignCommit
    <3>2. \A c \in holds : c.user = req[r].user => c \in req[r].clearedRoles
      BY <1>0, <1>4, <2>2 DEF AssignCommit, Assigning
    <3> HIDE DEF new
    <3>3. a = new /\ b = new
      BY <1>4, <2>2, <3>1, <3>2
    <3> QED
      BY <3>3
  <2>3. CASE JoinAssign(r) /\ a.user = req[r].user
    <3> DEFINE new == [user |-> req[r].user, name |-> req[r].name, by |-> r]
    <3>1. holds' = holds \cup {new}
      BY <2>3 DEF JoinAssign
    <3>2. \A c \in holds : c.user # req[r].user
      BY <1>0, <1>4, <2>3 DEF JoinAssign, Joins, Joining
    <3> HIDE DEF new
    <3>3. a = new /\ b = new
      BY <1>4, <2>3, <3>1, <3>2
    <3> QED
      BY <3>3
  <2>4. CASE a \notin holds \/ b \notin holds
    <3>1. AssignCommit(r) \/ JoinAssign(r)
      BY <2>4, HoldsSteps
    <3>2. a.user = req[r].user \/ b.user = req[r].user
      BY <2>4, <3>1 DEF AssignCommit, JoinAssign
    <3> QED
      BY <1>4, <2>2, <2>3, <3>1, <3>2
  <2> QED
    BY <2>1, <2>2, <2>3, <2>4
<1> QED
  BY <1>2, <1>3, <1>4 DEF Assigning

LEMMA DeletedStep ==
  ASSUME TypeOK, Joining, Deleted, NEW r \in Requests, Step(r)
  PROVE  Deleted'
<1>0. past.orphaned \subseteq past'.orphaned
  BY PastGrows
<1>1. ASSUME NEW q \in Requests, req'[q].kind = "assign", req'[q].pc # "role",
             role'[req'[q].name].state = "deleted"
      PROVE  req'[q].user \in past'.orphaned
  <2>1. CASE q = r
    BY <1>0, <1>1, <2>1, AssignSteps DEF Deleted
  <2>2. CASE q # r
    <3>0. req'[q] = req[q] /\ req[q].name \in Names
      BY <2>2, Others, FieldTypes
    <3>1. CASE role[req[q].name].state = "deleted"
      BY <1>0, <1>1, <3>0, <3>1 DEF Deleted
    <3>2. CASE DeleteCommit(r) /\ req[q].name = req[r].name
      <4>1. req[q].user \in BeingGiven(req[r].name)
        BY <1>1, <3>0, <3>2 DEF BeingGiven
      <4> QED
        BY <3>0, <3>2, <4>1 DEF DeleteCommit, TypeOK, Past
    <3> QED
      BY <1>1, <3>0, <3>1, <3>2, RoleSteps
  <2> QED
    BY <2>1, <2>2
<1>2. ASSUME NEW a \in holds', role'[a.name].state = "deleted"
      PROVE  a.user \in past'.orphaned
  <2>1. CASE a \notin holds /\ AssignCommit(r)
    <3>1. a = [user |-> req[r].user, name |-> req[r].name, by |-> r]
      BY <2>1 DEF AssignCommit
    <3>2. role' = role /\ req[r].kind = "assign" /\ req[r].pc # "role"
      BY <2>1 DEF AssignCommit, At
    <3> QED
      BY <1>0, <1>2, <3>1, <3>2 DEF Deleted
  <2>2. CASE a \in holds
    <3>0. a.name \in Names
      BY <2>2 DEF TypeOK, Assignment
    <3>1. ~(DeleteCommit(r) /\ a.name = req[r].name)
      BY <1>2 DEF DeleteCommit
    <3> QED
      BY <1>0, <1>2, <2>2, <3>0, <3>1, RoleSteps DEF Deleted
  <2>3. CASE a \notin holds /\ JoinAssign(r)
    <3>1. a.name = req[r].name
      BY <2>3 DEF JoinAssign
    <3>2. role' = role /\ role[req[r].name].state = "live"
      BY <2>3 DEF JoinAssign, Joining
    <3> QED
      BY <1>2, <3>1, <3>2
  <2> QED
    BY <2>1, <2>2, <2>3, HoldsSteps
<1> QED
  BY <1>1, <1>2 DEF Deleted

-----------------------------------------------------------------------------
(* The cache of the CRM.                                                   *)

\* Nothing changes that a user's rights come from.
RightsKept(u) ==
  /\ \A n : n \in RolesOf(u)' <=> n \in RolesOf(u)
  /\ \A n \in RolesOf(u) : role'[n].perms = role[n].perms
  /\ \A o : o.user = u => (o \in rows' <=> o \in rows)
  /\ u \in owner' <=> u \in owner

LEMMA EffectiveKept ==
  ASSUME NEW u, RightsKept(u)
  PROVE  Effective(u)' = Effective(u)
<1>1. ASSUME NEW p
      PROVE  p \in Given(u)' <=> p \in Given(u)
  <2>1. (\E n \in RolesOf(u)' : p \in role'[n].perms) <=> (\E n \in RolesOf(u) : p \in role[n].perms)
    BY DEF RightsKept
  <2>2. (\E o \in rows' : o.user = u /\ o.key = p /\ o.yes) <=> (\E o \in rows : o.user = u /\ o.key = p /\ o.yes)
    BY DEF RightsKept
  <2> QED
    BY <2>1, <2>2, GivenFrom, GivenFromNext
<1>2. ASSUME NEW key
      PROVE  (Denied(u, key)' <=> Denied(u, key)) /\ (Allowed(u, key)' <=> Allowed(u, key))
  BY DEF Denied, Allowed, RightsKept
<1>3. ASSUME NEW module
      PROVE  Open(u, module)' <=> Open(u, module)
  BY <1>2 DEF Open
<1>4. CASE u \in owner
  BY <1>4 DEF Effective, RightsKept
<1>5. CASE u \notin owner
  <2>1. Effective(u) = {p \in Given(u) : ~Denied(u, p) /\ Open(u, ModuleOf[p])}
    BY <1>5 DEF Effective
  <2>2. Effective(u)' = {p \in Given(u)' : ~Denied(u, p)' /\ Open(u, ModuleOf[p])'}
    BY <1>5 DEF Effective, RightsKept
  <2> QED
    BY <1>1, <1>2, <1>3, <2>1, <2>2
<1> QED
  BY <1>4, <1>5

CachedOf(u) ==
  cache[u].known =>
    \/ cache[u].perms = Effective(u)
    \/ ToBeCleared(u)
    \/ u \in past.uncleared \cup past.orphaned

\* A request that is not about the holders of a role leaves those to be cleared.
LEMMA StillToBeCleared ==
  ASSUME TypeOK, NEW r \in Requests, Step(r), NEW u, ToBeCleared(u), RightsKept(u),
         ~At(r, "holders", "rolePermissions"), ~At(r, "clear", "rolePermissions")
  PROVE  ToBeCleared(u)'
<1>1. PICK q \in Requests : \/ At(q, "holders", "rolePermissions") /\ req[q].name \in RolesOf(u)
                            \/ At(q, "clear", "rolePermissions") /\ u \in req[q].holders
  BY DEF ToBeCleared
<1>2. req'[q] = req[q]
  BY <1>1, Others
<1> QED
  BY <1>1, <1>2 DEF ToBeCleared, At, RightsKept

LEMMA CachedKept ==
  ASSUME TypeOK, NEW r \in Requests, Step(r), NEW u \in Users, CachedOf(u), RightsKept(u), cache'[u] = cache[u],
         ~At(r, "holders", "rolePermissions"), ~At(r, "clear", "rolePermissions")
  PROVE  CachedOf(u)'
<1>1. past.uncleared \subseteq past'.uncleared /\ past.orphaned \subseteq past'.orphaned
  BY PastGrows
<1> QED
  BY <1>1, EffectiveKept, StillToBeCleared DEF CachedOf

\* A user's cache is cleared with what is written for him.
LEMMA CachedForgotten ==
  ASSUME NEW users, Forget(users), NEW u \in Users
  PROVE  /\ u \in users => CachedOf(u)'
         /\ u \notin users => cache'[u] = cache[u]
  BY DEF Forget, CachedOf

LEMMA CachedStep ==
  ASSUME TypeOK, Bodied, Holding, Cached, Remembered, NEW r \in Requests, Step(r)
  PROVE  Cached'
<1> SUFFICES ASSUME NEW u \in Users
             PROVE  CachedOf(u)'
  BY DEF Cached, CachedOf
<1>0. /\ CachedOf(u)
      /\ past.uncleared \subseteq past'.uncleared /\ past.orphaned \subseteq past'.orphaned
  BY PastGrows DEF Cached, CachedOf
<1> DEFINE Clearing == At(r, "holders", "rolePermissions") \/ At(r, "clear", "rolePermissions")
<1>1. CASE UNCHANGED crm /\ ~Clearing
  BY <1>0, <1>1, CachedKept DEF crm, RightsKept, RolesOf
<1>2. CASE AssignCommit(r) \/ Remove(r)
  <2>1. CASE u = req[r].user
    BY <1>2, <2>1, CachedForgotten DEF AssignCommit, Remove
  <2>2. CASE u # req[r].user
    <3>1. ~Clearing /\ cache'[u] = cache[u]
      BY <1>2, <2>2, CachedForgotten DEF AssignCommit, Remove, At
    <3>2. \A a : a.user = u => (a \in holds' <=> a \in holds)
      BY <1>2, <2>2 DEF AssignCommit, Remove, At, Bodied, BodiedOf
    <3>3. RightsKept(u)
      BY <1>2, <2>2, <3>2 DEF AssignCommit, Remove, RightsKept, RolesOf
    <3> QED
      BY <1>0, <3>1, <3>3, CachedKept
  <2> QED
    BY <2>1, <2>2
<1>3. CASE OverridesCommit(r)
  <2>1. CASE u = req[r].user
    BY <1>3, <2>1, CachedForgotten DEF OverridesCommit
  <2>2. CASE u # req[r].user
    <3>1. ~Clearing /\ cache'[u] = cache[u]
      BY <1>3, <2>2, CachedForgotten DEF OverridesCommit, At
    <3>2. \A o : o.user = u => (o \in rows' <=> o \in rows)
      BY <1>3, <2>2 DEF OverridesCommit, NewRows, Bodied, BodiedOf
    <3>3. RightsKept(u)
      BY <1>3, <3>2 DEF OverridesCommit, RightsKept, RolesOf
    <3> QED
      BY <1>0, <3>1, <3>3, CachedKept
  <2> QED
    BY <2>1, <2>2
<1>4. CASE CreateInsert(r) \/ CloneInsert(r)
  <2>1. ~Clearing /\ cache' = cache /\ holds' = holds /\ rows' = rows /\ owner' = owner
    BY <1>4 DEF CreateInsert, CloneInsert, At
  <2>2. ~RoleWrite(r)
    BY <1>4 DEF CreateInsert, CloneInsert, RoleWrite, At
  <2>3. \A n \in RolesOf(u) : n \in Names /\ role'[n].perms = role[n].perms
    BY <2>2, RoleSteps DEF Holding, RolesOf
  <2> QED
    BY <1>0, <2>1, <2>3, CachedKept DEF RightsKept, RolesOf
<1>5. CASE DeleteCommit(r)
  <2> DEFINE n == req[r].name
             lost == {a.user : a \in holds \ {a \in holds : a.name # n}}
  <2>1. /\ ~Clearing /\ cache' = cache /\ rows' = rows /\ owner' = owner
        /\ holds' = {a \in holds : a.name # n}
        /\ past' = [past EXCEPT !.orphaned = past.orphaned \cup BeingGiven(n) \cup lost]
        /\ role' = [role EXCEPT ![n] = [role[n] EXCEPT !.state = "deleted"]]
    BY <1>5 DEF DeleteCommit, At
  <2>2. past'.orphaned = past.orphaned \cup BeingGiven(n) \cup lost
    BY <2>1 DEF TypeOK, Past
  <2>3. CASE n \in RolesOf(u)
    <3>1. u \in lost
      BY <2>3 DEF RolesOf
    <3> QED
      BY <2>2, <3>1 DEF CachedOf
  <2>4. CASE n \notin RolesOf(u)
    <3>0. n \in Names
      BY FieldTypes
    <3>1. \A a \in holds : a.user = u => a.name # n
      BY <2>4, <3>0 DEF RolesOf
    <3>2. \A m : m \in RolesOf(u)' <=> m \in RolesOf(u)
      BY <2>1, <3>1 DEF RolesOf
    <3>3. ~RoleWrite(r)
      BY <1>5 DEF DeleteCommit, RoleWrite, At
    <3>4. \A m \in RolesOf(u) : m \in Names /\ role'[m].perms = role[m].perms
      BY <3>3, RoleSteps DEF Holding, RolesOf
    <3>5. RightsKept(u)
      BY <2>1, <3>2, <3>4 DEF RightsKept
    <3> QED
      BY <1>0, <2>1, <3>5, CachedKept
  <2> QED
    BY <2>3, <2>4
<1>6. CASE RoleWrite(r)
  <2>0. ~Clearing /\ cache' = cache /\ holds' = holds /\ rows' = rows /\ owner' = owner
    BY <1>6 DEF RoleWrite, At
  <2>1. CASE req[r].name \in RolesOf(u)
    <3>1. At(r, "holders", "rolePermissions")' /\ req'[r].name = req[r].name
      BY <1>6, Gone DEF RoleWrite, At
    <3>2. req[r].name \in RolesOf(u)'
      BY <2>0, <2>1 DEF RolesOf
    <3> QED
      BY <3>1, <3>2 DEF CachedOf, ToBeCleared
  <2>2. CASE req[r].name \notin RolesOf(u)
    <3>1. \A m \in RolesOf(u) : m \in Names /\ role'[m].perms = role[m].perms
      BY <2>2, RoleSteps DEF Holding, RolesOf
    <3> QED
      BY <1>0, <2>0, <3>1, CachedKept DEF RightsKept, RolesOf
  <2> QED
    BY <2>1, <2>2
<1>7. CASE Clear(r)
  <2>1. CASE u \in req[r].holders
    BY <1>7, <2>1, CachedForgotten DEF Clear
  <2>2. CASE u \notin req[r].holders
    <3>1. /\ cache'[u] = cache[u] /\ RightsKept(u) /\ At(r, "clear", "rolePermissions")
      BY <1>7, <2>2, CachedForgotten DEF Clear, RightsKept, RolesOf
    <3>2. ToBeCleared(u) => ToBeCleared(u)'
      <4>1. SUFFICES ASSUME NEW q \in Requests,
                            \/ At(q, "holders", "rolePermissions") /\ req[q].name \in RolesOf(u)
                            \/ At(q, "clear", "rolePermissions") /\ u \in req[q].holders
                     PROVE  ToBeCleared(u)'
        BY DEF ToBeCleared
      <4>2. req'[q] = req[q]
        BY <2>2, <3>1, <4>1, Others DEF At
      <4> QED
        BY <3>1, <4>1, <4>2 DEF ToBeCleared, At, RightsKept
    <3> QED
      BY <1>0, <3>1, <3>2, EffectiveKept DEF CachedOf
  <2> QED
    BY <2>1, <2>2
<1>8. CASE HoldersRead(r)
  <2>1. /\ RightsKept(u) /\ cache' = cache /\ At(r, "holders", "rolePermissions")
    BY <1>8 DEF HoldersRead, RightsKept, RolesOf, crm
  <2>2. ~End(r)
    BY <1>8, Ended DEF HoldersRead, TypeOK
  <2>3. At(r, "clear", "rolePermissions")' /\ req'[r].holders = {v \in Users : req[r].name \in RolesOf(v)}
    BY <1>8, <2>1, <2>2, Kept DEF Keeps, At
  <2>4. ToBeCleared(u) => ToBeCleared(u)'
    <3>1. SUFFICES ASSUME NEW q \in Requests,
                          \/ At(q, "holders", "rolePermissions") /\ req[q].name \in RolesOf(u)
                          \/ At(q, "clear", "rolePermissions") /\ u \in req[q].holders
                   PROVE  ToBeCleared(u)'
      BY DEF ToBeCleared
    <3>2. CASE q # r
      <4>1. req'[q] = req[q]
        BY <3>2, Others
      <4> QED
        BY <2>1, <3>1, <4>1 DEF ToBeCleared, At, RightsKept
    <3>3. CASE q = r
      <4>1. u \in req'[r].holders
        BY <2>1, <2>3, <3>1, <3>3 DEF At
      <4> QED
        BY <2>3, <4>1 DEF ToBeCleared
    <3> QED
      BY <3>2, <3>3
  <2> QED
    BY <1>0, <2>1, <2>4, EffectiveKept DEF CachedOf
<1>9. CASE Fail(r)
  <2>1. RightsKept(u) /\ cache' = cache
    BY <1>9 DEF Fail, RightsKept, RolesOf, crm
  <2>2. CASE ~Clearing
    BY <1>0, <2>1, <2>2, CachedKept
  <2>3. CASE Clearing
    <3>1. past'.uncleared = past.uncleared \cup {v \in Users : req[r].name \in RolesOf(v)} \cup req[r].holders
      BY <1>9, <2>3 DEF Fail, At, TypeOK, Past
    <3>2. ToBeCleared(u) => ToBeCleared(u)' \/ u \in past'.uncleared
      <4>1. SUFFICES ASSUME NEW q \in Requests,
                            \/ At(q, "holders", "rolePermissions") /\ req[q].name \in RolesOf(u)
                            \/ At(q, "clear", "rolePermissions") /\ u \in req[q].holders
                     PROVE  ToBeCleared(u)' \/ u \in past'.uncleared
        BY DEF ToBeCleared
      <4>2. CASE q # r
        <5>1. req'[q] = req[q]
          BY <4>2, Others
        <5> QED
          BY <2>1, <4>1, <5>1 DEF ToBeCleared, At, RightsKept
      <4>3. CASE q = r
        BY <3>1, <4>1, <4>3
      <4> QED
        BY <4>2, <4>3
    <3> QED
      BY <1>0, <2>1, <3>2, EffectiveKept DEF CachedOf
  <2> QED
    BY <2>2, <2>3
<1>10. CASE \/ Begin(r) \/ Refuse(r) \/ RoleRead(r) \/ EditedRoleRead(r) \/ Check(r) \/ JoinRoleRead(r)
            \/ AssignDelete(r) \/ OverridesDelete(r) \/ Create(r) \/ CloneRead(r) \/ DeleteCount(r) \/ PoolWrite(r)
  <2>1. UNCHANGED crm
    BY <1>10 DEF Begin, BeginWith, Refuse, RoleRead, EditedRoleRead, Check, JoinRoleRead, AssignDelete,
       OverridesDelete, Create, CloneRead, DeleteCount, PoolWrite
  <2>2. ~Clearing
    BY <1>10 DEF Begin, BeginWith, Refuse, RoleRead, EditedRoleRead, Check, JoinRoleRead, AssignDelete,
       OverridesDelete, Create, CloneRead, DeleteCount, PoolWrite, At
  <2> QED
    BY <1>1, <2>1, <2>2
<1>11. CASE JoinInsert(r)
  <2>1. ~Clearing /\ cache' = cache /\ holds' = holds /\ rows' = rows /\ role' = role
    BY <1>11 DEF JoinInsert, At
  <2>2. CASE u = req[r].user
    <3>1. ~cache[u].known
      BY <1>11, <2>2 DEF JoinInsert, Remembered
    <3> QED
      BY <2>1, <3>1 DEF CachedOf
  <2>3. CASE u # req[r].user
    <3>1. u \in owner' <=> u \in owner
      BY <1>11, <2>3 DEF JoinInsert
    <3>2. RightsKept(u)
      BY <2>1, <3>1 DEF RightsKept, RolesOf
    <3> QED
      BY <1>0, <2>1, <3>2, CachedKept
  <2> QED
    BY <2>2, <2>3
<1>12. CASE JoinAssign(r)
  <2>1. ~Clearing /\ cache' = cache /\ rows' = rows /\ role' = role /\ owner' = owner
    BY <1>12 DEF JoinAssign, At
  <2>2. CASE u = req[r].user
    <3>1. cache[u].known => u \in past'.uncleared
      BY <1>12, <2>2, JoinWrites
    <3> QED
      BY <2>1, <3>1 DEF CachedOf
  <2>3. CASE u # req[r].user
    <3>1. \A a : a.user = u => (a \in holds' <=> a \in holds)
      BY <1>12, <2>3 DEF JoinAssign
    <3>2. RightsKept(u)
      BY <2>1, <3>1 DEF RightsKept, RolesOf
    <3> QED
      BY <1>0, <2>1, <3>2, CachedKept
  <2> QED
    BY <2>2, <2>3
<1> QED
  BY <1>2, <1>3, <1>4, <1>5, <1>6, <1>7, <1>8, <1>9, <1>10, <1>11, <1>12 DEF Step

\* Of a user who is no owner, what is calculated is what he is given.
LEMMA EffectiveGiven ==
  ASSUME NEW u, u \notin owner
  PROVE  Effective(u) \subseteq Given(u)
  BY DEF Effective

\* Whoever ceases to be an owner is forgotten.
LEMMA OwnersStay ==
  ASSUME NEW r \in Requests, Step(r), NEW u \in Users
  PROVE  \/ cache'[u] = [known |-> FALSE, perms |-> {}]
         \/ cache'[u] = cache[u] /\ (u \in owner => u \in owner')
<1>1. CASE cache' = cache /\ owner \subseteq owner'
  BY <1>1
<1>2. CASE AssignCommit(r) \/ Remove(r)
  <2>1. Forget({req[r].user}) /\ (u # req[r].user => (u \in owner => u \in owner'))
    BY <1>2 DEF AssignCommit, Remove
  <2> QED
    BY <2>1 DEF Forget
<1>3. CASE OverridesCommit(r)
  BY <1>3 DEF OverridesCommit, Forget
<1>4. CASE Clear(r)
  BY <1>4 DEF Clear, Forget
<1> QED
  BY <1>1, <1>2, <1>3, <1>4 DEF Step, Begin, BeginWith, Refuse, RoleRead, EditedRoleRead, Check, JoinInsert,
     JoinRoleRead, JoinAssign, AssignDelete, OverridesDelete, Create, CreateInsert, CloneRead, CloneInsert,
     DeleteCount, DeleteCommit, RoleWrite, HoldersRead, PoolWrite, Fail, crm

LEMMA RememberedStep ==
  ASSUME TypeOK, Remembered, NEW r \in Requests, Step(r)
  PROVE  Remembered'
<1> SUFFICES ASSUME NEW u \in Users
             PROVE  /\ cache'[u].known => u \in member'
                    /\ u \in owner' \/ \A p \in cache'[u].perms : Givable(p)' \/ p \in past'.first[u]
  BY DEF Remembered
<1>1. /\ cache[u].known => u \in member
      /\ u \in owner \/ \A p \in cache[u].perms : Givable(p) \/ p \in past.first[u]
  BY DEF Remembered
<1>2. CASE cache'[u] = [known |-> FALSE, perms |-> {}]
  BY <1>2
<1>3. CASE cache'[u] = cache[u] /\ (u \in owner => u \in owner')
  BY <1>1, <1>3, MembersStay, GivableStays, PastGrows
<1> QED
  BY <1>2, <1>3, OwnersStay

-----------------------------------------------------------------------------
(* The steps that are of no request, and the beginning.                    *)

\* What does not look at the cache is the same when only that changes.
LEMMA SameButCache ==
  ASSUME Bodied, Granting, Holding, Joining, Assigning, Deleted,
         UNCHANGED <<member, role, holds, rows, owner, pool, req, past>>
  PROVE  Bodied' /\ Granting' /\ Holding' /\ Joining' /\ Assigning' /\ Deleted'
<1>1. \A p : Givable(p)' <=> Givable(p)
  BY DEF Givable
<1>2. Bodied'
  BY DEF Bodied, BodiedOf
<1>3. Granting'
  BY <1>1 DEF Granting, GrantingOf, At
<1>4. Holding'
  <2>1. \A u : RolesOf(u)' = RolesOf(u)
    BY DEF RolesOf
  <2>2. \A u : Given(u)' = Given(u)
    BY <2>1 DEF Given
  <2> QED
    BY <1>1, <2>1, <2>2 DEF Holding
<1>5. Assigning' /\ Deleted'
  BY DEF Assigning, Deleted, At
<1>6. Joining'
  BY DEF Joining, Joins, At
<1> QED
  BY <1>2, <1>3, <1>4, <1>5, <1>6

LEMMA CalculateStep ==
  ASSUME IInv, NEW v \in Users, CrmCalculate(v)
  PROVE  IInv'
<1>1. UNCHANGED <<member, role, holds, rows, owner, pool, req, past>>
  BY DEF CrmCalculate
<1>2. Bodied' /\ Granting' /\ Holding' /\ Joining' /\ Assigning' /\ Deleted'
  BY <1>1, SameButCache DEF IInv
<1>3. \A u : RightsKept(u)
  BY <1>1 DEF RightsKept, RolesOf
<1>4. ASSUME NEW u \in Users
      PROVE  CachedOf(u)'
  <2>1. ToBeCleared(u)' <=> ToBeCleared(u)
    BY <1>1 DEF ToBeCleared, At, RolesOf
  <2>2. Effective(u)' = Effective(u)
    BY <1>3, EffectiveKept
  <2>3. CASE u = v
    <3>1. cache'[u].perms = Effective(u)
      BY <2>3 DEF CrmCalculate, IInv, TypeOK
    <3> QED
      BY <2>2, <3>1 DEF CachedOf
  <2>4. CASE u # v
    <3>1. cache'[u] = cache[u]
      BY <2>4 DEF CrmCalculate, IInv, TypeOK
    <3> QED
      BY <1>1, <2>1, <2>2, <3>1 DEF CachedOf, IInv, Cached
  <2> QED
    BY <2>3, <2>4
<1>5. Cached'
  BY <1>4 DEF Cached, CachedOf
<1>6. ASSUME NEW u \in Users
      PROVE  /\ cache'[u].known => u \in member'
             /\ u \in owner' \/ \A p \in cache'[u].perms : Givable(p)' \/ p \in past'.first[u]
  <2>0. \A p : Givable(p)' <=> Givable(p)
    BY <1>1 DEF Givable
  <2>1. CASE u = v
    <3>1. cache'[u].perms = Effective(u) /\ u \in member
      BY <2>1 DEF CrmCalculate, IInv, TypeOK
    <3>2. u \in owner \/ \A p \in Effective(u) : Givable(p) \/ p \in past.first[u]
      BY EffectiveGiven DEF IInv, Holding
    <3> QED
      BY <1>1, <2>0, <3>1, <3>2
  <2>2. CASE u # v
    <3>1. cache'[u] = cache[u]
      BY <2>2 DEF CrmCalculate, IInv, TypeOK
    <3> QED
      BY <1>1, <2>0, <3>1 DEF IInv, Remembered
  <2> QED
    BY <2>1, <2>2
<1>7. Remembered'
  BY <1>6 DEF Remembered
<1> QED
  BY <1>2, <1>5, <1>7, TypeCalculate DEF IInv

LEMMA Stutters ==
  ASSUME IInv, UNCHANGED vars
  PROVE  IInv'
<1>1. UNCHANGED <<member, role, holds, rows, owner, pool, cache, req, past>>
  BY DEF vars
<1>2. Bodied' /\ Granting' /\ Holding' /\ Joining' /\ Assigning' /\ Deleted'
  BY <1>1, SameButCache DEF IInv
<1>3. TypeOK'
  BY <1>1 DEF IInv, TypeOK
<1>4. ASSUME NEW u \in Users
      PROVE  CachedOf(u)'
  <2>1. ToBeCleared(u)' <=> ToBeCleared(u)
    BY <1>1 DEF ToBeCleared, At, RolesOf
  <2>2. Effective(u)' = Effective(u)
    BY <1>1, EffectiveKept DEF RightsKept, RolesOf
  <2> QED
    BY <1>1, <2>1, <2>2 DEF CachedOf, IInv, Cached
<1>5. Cached'
  BY <1>4 DEF Cached, CachedOf
<1>6. \A p : Givable(p)' <=> Givable(p)
  BY <1>1 DEF Givable
<1>7. Remembered'
  BY <1>1, <1>6 DEF IInv, Remembered
<1> QED
  BY <1>2, <1>3, <1>5, <1>7 DEF IInv

LEMMA Inits == Init => IInv
<1> SUFFICES ASSUME Init
             PROVE  IInv
  OBVIOUS
<1>1. /\ member = Founders
      /\ role \in [Names -> Role] /\ \A n \in Names : role[n].state \in {"live", "none"}
      /\ req = [r \in Requests |-> Nothing] /\ rows = {} /\ owner \subseteq Users /\ pool \subseteq Perms
      /\ cache = [u \in Users |-> [known |-> FALSE, perms |-> {}]]
      /\ past.first = [u \in Users |-> Given(u)]
  BY DEF Init
<1>2. \/ holds = {}
      \/ \E u \in member, n \in Names : role[n].state = "live" /\ holds = {[user |-> u, name |-> n, by |-> "seed"]}
  BY DEF Init
<1>3. holds \subseteq Assignment /\ member \subseteq Users
  BY <1>1, <1>2, Catalog DEF Assignment, Writers
<1>4. [u \in Users |-> Given(u)] \in [Users -> SUBSET Perms]
  <2>1. \A n \in Names : role[n].perms \subseteq Perms
    BY <1>1 DEF Role
  <2>2. \A u \in Users : Given(u) \subseteq Perms
    BY <2>1, GivenFrom DEF RolesOf
  <2> QED
    BY <2>2
<1>5. past \in Past
  <2> DEFINE first == [u \in Users |-> Given(u)]
  <2>1. past = [withdrawn |-> {}, first |-> first, wild |-> FALSE, twice |-> {}, orphaned |-> {}, uncleared |-> {}]
    BY DEF Init
  <2>2. first \in [Users -> SUBSET Perms]
    BY <1>4
  <2> HIDE DEF first
  <2> QED
    BY <2>1, <2>2 DEF Past
<1>6. TypeOK
  BY <1>1, <1>3, <1>5, NothingType DEF TypeOK
<1>7. \A r \in Requests : /\ req[r].kind = "none" /\ req[r].pc = "idle" /\ req[r].granted = {} /\ req[r].denied = {}
                          /\ req[r].clearedRoles = {} /\ req[r].cleared = {}
  BY <1>1 DEF Nothing
<1>8. Bodied /\ Granting
  BY <1>7 DEF Bodied, BodiedOf, Granting, GrantingOf, At, Checked
<1>9. Holding
  <2>1. \A u \in Users : \A n \in RolesOf(u) : role[n].state # "none"
    BY <1>2 DEF RolesOf
  <2>2. \A u \in Users : \A p \in Given(u) : p \in past.first[u]
    BY <1>1
  <2> QED
    BY <2>1, <2>2 DEF Holding
<1>10. Assigning
  BY <1>2, <1>7 DEF Assigning, At
<1>11. Deleted
  <2>1. \A a \in holds : role[a.name].state = "live"
    BY <1>2
  <2> QED
    BY <1>7, <2>1 DEF Deleted
<1>12. Cached
  BY <1>1 DEF Cached
<1>13. Joining
  <2>1. \A a \in holds : a.user \in member
    BY <1>2
  <2> QED
    BY <1>7, <2>1 DEF Joining, Joins, At
<1>14. Remembered
  BY <1>1 DEF Remembered
<1> QED
  BY <1>6, <1>8, <1>9, <1>10, <1>11, <1>12, <1>13, <1>14 DEF IInv

LEMMA Inductive == IInv /\ [Next]_vars => IInv'
<1> SUFFICES ASSUME IInv, [Next]_vars
             PROVE  IInv'
  OBVIOUS
<1>1. ASSUME NEW r \in Requests, Step(r)
      PROVE  IInv'
  BY <1>1, TypeStep, BodiedStep, GrantingStep, HoldingStep, JoiningStep, AssigningStep, DeletedStep, CachedStep,
     RememberedStep DEF IInv
<1>2. ASSUME NEW u \in Users, CrmCalculate(u)
      PROVE  IInv'
  BY <1>2, CalculateStep
<1>3. CASE AllServed \/ UNCHANGED vars
  BY <1>3, Stutters DEF AllServed
<1> QED
  BY <1>1, <1>2, <1>3 DEF Next

-----------------------------------------------------------------------------
(* The theorems.                                                           *)

LEMMA Invariance == Spec => []IInv
  BY Inits, Inductive, PTL DEF Spec

\* Every variable has its type.
THEOREM TypeCorrect == Spec => []TypeOK
<1>1. IInv => TypeOK
  BY DEF IInv
<1> QED
  BY Invariance, <1>1, PTL

\* The permissions that the CRM has cached for a user are the ones that his
\* roles, overrides and modules say, except where setTenantRolePermissions has
\* yet to clear them or failed before it did, and after a role was deleted.
THEOREM CacheIsRight == Spec => []CacheFollowsRights
<1>1. IInv => CacheFollowsRights
  <2> SUFFICES ASSUME IInv, NEW u \in Users, cache[u].known, ToBeCleared(u)
               PROVE  BeingCleared(u)
    BY DEF IInv, Cached, CacheFollowsRights
  <2> QED
    BY DEF ToBeCleared, BeingCleared, At
<1> QED
  BY Invariance, <1>1, PTL

\* A user has at most one role (assignTenantUserRole), however many requests
\* there are, unless two of them replaced his role at the same time.
THEOREM OneRoleEach == Spec => []OneRolePerUser
<1>1. IInv => OneRolePerUser
  <2> SUFFICES ASSUME IInv, NEW u \in Users, u \notin past.twice
               PROVE  Cardinality(RolesOf(u)) <= 1
    BY DEF OneRolePerUser
  <2>1. \A m, n \in RolesOf(u) : m = n
    BY DEF RolesOf, IInv, Assigning
  <2>2. CASE RolesOf(u) = {}
    BY <2>2, FS_EmptySet
  <2>3. CASE RolesOf(u) # {}
    <3>1. PICK n : RolesOf(u) = {n}
      BY <2>1, <2>3
    <3> QED
      BY <3>1, FS_Singleton
  <2> QED
    BY <2>2, <2>3
<1> QED
  BY Invariance, <1>1, PTL

\* A deleted role is held by nobody who was not being given it while it was
\* deleted (deleteTenantRole).
THEOREM DeletedRolesAreLetGo == Spec => []NobodyHoldsDeletedRole
<1>1. IInv => NobodyHoldsDeletedRole
  BY DEF IInv, Deleted, NobodyHoldsDeletedRole, RolesOf
<1> QED
  BY Invariance, <1>1, PTL

\* However roles are made, copied, changed, assigned and deleted, a user is
\* given nothing that is not, and was not, in the tenant's pool
\* (validatePermissionsInPool), besides what he had.
THEOREM PoolBoundsGiven == Spec => []GivenWithinPool
<1>1. IInv => GivenWithinPool
  BY DEF IInv, Holding, Givable, GivenWithinPool
<1> QED
  BY Invariance, <1>1, PTL

\* Administrators who are not super administrators bring a permission that none of
\* them has to a user only as the system role that they create him with
\* (createTenantUser) or as an owner's (a role coded OWNER, whose permissions need
\* not be any); no other sequence of operations does, into his rows, into what is
\* calculated or into what is cached (validateActorCanGrant).
THEOREM NobodyEscalatesOtherwise == Spec => []NoOtherEscalation
<1>1. IInv => NoOtherEscalation
  <2> SUFFICES ASSUME IInv, ~past.wild, NEW u \in Users
               PROVE  LET ceiling == past.first[u] \cup Grantable IN
                      /\ Given(u) \subseteq ceiling
                      /\ u \in owner \/ (Effective(u) \cup cache[u].perms) \subseteq ceiling
    BY DEF NoOtherEscalation
  <2> DEFINE ceiling == past.first[u] \cup Grantable
  <2>1. \A p : Givable(p) => p \in Grantable
    <3> SUFFICES ASSUME NEW p, Givable(p)
                 PROVE  p \in Grantable
      OBVIOUS
    <3>1. PICK a \in Actors : ~a.wild /\ p \in a.perms
      BY DEF Givable
    <3>2. a.perms \in {b.perms : b \in {c \in Actors : ~c.wild}}
      BY <3>1
    <3> QED
      BY <3>1, <3>2 DEF Grantable
  <2>2. Given(u) \subseteq ceiling
    BY <2>1 DEF IInv, Holding
  <2>3. u \in owner \/ cache[u].perms \subseteq ceiling
    BY <2>1 DEF IInv, Remembered
  <2>4. u \in owner \/ Effective(u) \subseteq ceiling
    BY <2>2, EffectiveGiven
  <2> HIDE DEF ceiling
  <2>5. u \in owner \/ (Effective(u) \cup cache[u].perms) \subseteq ceiling
    BY <2>3, <2>4
  <2> QED
    BY <2>2, <2>5 DEF ceiling
<1> QED
  BY Invariance, <1>1, PTL
=============================================================================

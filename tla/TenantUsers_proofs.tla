------------------------- MODULE TenantUsers_proofs -------------------------
(***************************************************************************)
(* Proofs about TenantUsers: type correctness, and the six invariants of    *)
(* the accounts, for any number of users and of operations.                 *)
(***************************************************************************)
EXTENDS TenantUsers, TLAPS

-----------------------------------------------------------------------------
(* Type correctness.                                                       *)

LEMMA NothingType == Nothing \in Request
<1>1. (CHOOSE u \in Users : TRUE) \in Users
  BY SomeUser
<1> QED
  BY <1>1 DEF Nothing, NewTenant, Request, PC, Kinds, Rows, Absent, Passwords, TenantRow, Status

LEMMA EndType ==
  ASSUME TypeOK, NEW r \in Requests, NEW pc \in PC, End(r, pc)
  PROVE  req' \in [Requests -> Request]
<1>1. [Nothing EXCEPT !.pc = pc] \in Request
  BY NothingType DEF Request
<1> QED
  BY <1>1 DEF End, TypeOK

LEMMA GotoType ==
  ASSUME TypeOK, NEW r \in Requests, NEW pc \in PC, Goto(r, pc)
  PROVE  req' \in [Requests -> Request]
<1>1. [req[r] EXCEPT !.pc = pc] \in Request
  BY DEF Request, TypeOK
<1> QED
  BY <1>1 DEF Goto, TypeOK

LEMMA WriteType ==
  ASSUME TypeOK, NEW r \in Requests, NEW row \in Rows, Write(r, row)
  PROVE  user' \in [Users -> Rows]
  BY DEF Write, TypeOK

LEMMA AbsentType == Absent \in Rows /\ Seeded \in Rows
  BY DEF Absent, Seeded, Rows, Passwords

LEMMA TargetType ==
  ASSUME TypeOK, NEW r \in Requests
  PROVE  Target(r) \in Users /\ Seen(r) \in Rows /\ user[Target(r)] \in Rows
         /\ req[r].kind \in Kinds /\ req[r].pc \in PC
  BY DEF TypeOK, Request, Target, Seen

LEMMA TypeInit == Init => TypeOK
<1> SUFFICES ASSUME Init PROVE TypeOK
  OBVIOUS
<1>1. user \in [Users -> Rows] /\ req \in [Requests -> Request]
  BY AbsentType, NothingType DEF Init
<1>2. status \in TenantRow
  <2>1. PICK s \in Status : status = [NewTenant EXCEPT !.status = s]
    BY DEF Init
  <2>2. status = [status |-> s, version |-> 0, deleted |-> FALSE]
    BY <2>1 DEF NewTenant
  <2> QED
    BY <2>2 DEF TenantRow
<1>3. past \in Past
  BY DEF Init, Past
<1> QED
  BY <1>1, <1>2, <1>3 DEF Init, TypeOK

LEMMA TypeReads ==
  ASSUME TypeOK, NEW r \in Requests, TenantRead(r) \/ RowRead(r)
  PROVE  TypeOK'
<1>1. CASE TenantRead(r)
  <2>1. PICK kind \in Kinds \ {"none"}, u \in Users :
          \/ End(r, "refused")
          \/ req' = [req EXCEPT ![r] = [pc |-> IF kind \in TenantKinds THEN "platform" ELSE "row",
                                        kind |-> kind, user |-> u, seen |-> Absent,
                                        tenant |-> IF kind \in TenantKinds THEN status ELSE NewTenant]]
    BY <1>1 DEF TenantRead
  <2>2. UNCHANGED <<rows, past>>
    BY <1>1 DEF TenantRead
  <2>3. NewTenant \in TenantRow /\ status \in TenantRow
    BY DEF NewTenant, TenantRow, Status, TypeOK
  <2>4. [pc |-> IF kind \in TenantKinds THEN "platform" ELSE "row",
         kind |-> kind, user |-> u, seen |-> Absent,
         tenant |-> IF kind \in TenantKinds THEN status ELSE NewTenant] \in Request
    BY <2>3, AbsentType DEF Request, PC
  <2>5. req' \in [Requests -> Request]
    BY <2>1, <2>4, EndType DEF TypeOK, PC, Ended
  <2> QED
    BY <2>2, <2>5 DEF TypeOK, rows
<1>2. CASE RowRead(r)
  <2>1. [req[r] EXCEPT !.pc = "write", !.seen = user[Target(r)]] \in Request
    BY TargetType DEF TypeOK, Request, PC
  <2>2. req' \in [Requests -> Request]
    BY <1>2, <2>1, EndType DEF RowRead, PC, Ended, TypeOK
  <2> QED
    BY <1>2, <2>2 DEF RowRead, TypeOK, rows
<1> QED
  BY <1>1, <1>2

LEMMA HistoryType ==
  ASSUME TypeOK, NEW r \in Requests, NEW granted \in SUBSET Users, NEW opened \in SUBSET Users,
         NEW replaced \in SUBSET Passwords, NEW raced \in SUBSET Passwords
  PROVE  [past EXCEPT !.granted = granted, !.opened = opened, !.raced = raced,
                      !.replaced[Target(r)] = replaced] \in Past
  BY TargetType DEF TypeOK, Past

LEMMA AfterResetType ==
  ASSUME NEW r \in Requests, NEW row \in Rows, NEW seen \in Rows
  PROVE  AfterReset(r, row, seen) \in Rows
<1>1. /\ r \in Passwords /\ seen.history \cup {seen.password} \in SUBSET Passwords
      /\ row.version + 1 \in Nat
  BY DEF Passwords, Rows
<1> DEFINE history == seen.history \cup {seen.password}
           version == row.version + 1
<1>2. AfterReset(r, row, seen) =
        [row EXCEPT !.password = r, !.history = history, !.version = version, !.locked = FALSE]
  BY DEF AfterReset
<1> HIDE DEF history, version
<1>3. [row EXCEPT !.password = r, !.history = history, !.version = version, !.locked = FALSE] \in Rows
  BY <1>1 DEF Rows, history, version
<1> QED
  BY <1>2, <1>3

LEMMA TypeWrites ==
  ASSUME TypeOK, NEW r \in Requests,
         Insert(r) \/ SystemRoleRead(r) \/ Assign(r) \/ Update(r) \/ Enable(r) \/ Disable(r) \/ Reset(r)
  PROVE  TypeOK'
<1> USE TargetType
<1>0. /\ "role" \in PC /\ "assign" \in PC /\ "audit" \in PC
      /\ r \in Passwords
  BY DEF PC, Passwords
<1>1. CASE Insert(r)
  <2>1. PICK active \in BOOLEAN :
          Write(r, [active |-> active, locked |-> FALSE, version |-> 0, password |-> r,
                    history |-> {}, assigned |-> FALSE, by |-> r])
    BY <1>1 DEF Insert
  <2>2. [active |-> active, locked |-> FALSE, version |-> 0, password |-> r,
         history |-> {}, assigned |-> FALSE, by |-> r] \in Rows
    BY <1>0 DEF Rows
  <2>3. user' \in [Users -> Rows]
    BY <2>1, <2>2, WriteType
  <2>4. req' \in [Requests -> Request]
    BY <1>1, <1>0, GotoType DEF Insert
  <2>5. past' \in Past
    <3>1. past' = [past EXCEPT !.granted = past.granted \cup {Target(r)}, !.replaced[Target(r)] = {}]
      BY <1>1 DEF Insert
    <3> QED
      BY <3>1 DEF TypeOK, Past
  <2> QED
    BY <1>1, <2>3, <2>4, <2>5 DEF Insert, TypeOK
<1>2. CASE SystemRoleRead(r)
  <2>1. req' \in [Requests -> Request]
    BY <1>2, <1>0, GotoType, EndType DEF SystemRoleRead
  <2> QED
    BY <1>2, <2>1 DEF SystemRoleRead, TypeOK, rows
<1>3. CASE Assign(r)
  <2>1. [user[Target(r)] EXCEPT !.assigned = TRUE] \in Rows
    BY DEF Rows
  <2>2. user' \in [Users -> Rows]
    BY <1>3, <2>1, WriteType DEF Assign
  <2>3. req' \in [Requests -> Request]
    BY <1>3, <1>0, EndType DEF Assign
  <2> QED
    BY <1>3, <2>2, <2>3 DEF Assign, TypeOK
<1>4. CASE Update(r)
  <2>1. req' \in [Requests -> Request]
    BY <1>4, <1>0, EndType DEF Update
  <2> QED
    BY <1>4, <2>1 DEF Update, TypeOK, rows
<1>5. CASE Enable(r)
  <2>1. [user[Target(r)] EXCEPT !.active = TRUE, !.locked = FALSE] \in Rows
    BY DEF Rows
  <2>2. user' \in [Users -> Rows]
    BY <1>5, <2>1, WriteType DEF Enable
  <2>3. req' \in [Requests -> Request]
    BY <1>5, <1>0, EndType DEF Enable
  <2>4. past' \in Past
    BY <1>5 DEF Enable, TypeOK, Past, Unlocked
  <2> QED
    BY <1>5, <2>2, <2>3, <2>4 DEF Enable, TypeOK
<1>6. CASE Disable(r)
  <2>1. [user[Target(r)] EXCEPT !.active = FALSE, !.locked = Seen(r).locked] \in Rows
    BY DEF Rows
  <2>2. user' \in [Users -> Rows]
    BY <1>6, <2>1, WriteType DEF Disable
  <2>3. req' \in [Requests -> Request]
    BY <1>6, <1>0, EndType DEF Disable
  <2> QED
    BY <1>6, <2>2, <2>3 DEF Disable, TypeOK
<1>7. CASE Reset(r)
  <2>1. AfterReset(r, user[Target(r)], Seen(r)) \in Rows
    BY <1>0, AfterResetType
  <2>2. user' \in [Users -> Rows]
    BY <1>7, <2>1, WriteType DEF Reset, ResetBy
  <2>3. req' \in [Requests -> Request]
    BY <1>7, <1>0, EndType DEF Reset, ResetBy
  <2>4. past' \in Past
    <3> DEFINE raced == IF ResetUnderWay(r) THEN past.raced \cup {r} ELSE past.raced
               replaced == past.replaced[Target(r)] \cup {user[Target(r)].password}
    <3>1. /\ raced \in SUBSET Passwords /\ Unlocked(Target(r)) \in SUBSET Users
          /\ replaced \in SUBSET Passwords
      BY <1>0 DEF TypeOK, Past, Unlocked, Rows
    <3>2. past' = [past EXCEPT !.replaced[Target(r)] = replaced, !.raced = raced,
                               !.opened = Unlocked(Target(r))]
      BY <1>7 DEF Reset, ResetBy
    <3> HIDE DEF raced, replaced
    <3> QED
      BY <3>1, <3>2 DEF TypeOK, Past
  <2> QED
    BY <1>7, <2>2, <2>3, <2>4 DEF Reset, ResetBy, TypeOK
<1> QED
  BY <1>1, <1>2, <1>3, <1>4, <1>5, <1>6, <1>7

LEMMA TypeEndsSessions ==
  ASSUME TypeOK, NEW r \in Requests, ForceLogout(r) \/ Delete(r) \/ RevokeSession(r)
  PROVE  TypeOK'
<1>0. "audit" \in PC /\ Target(r) \in Users
  BY TargetType DEF PC
<1>1. CASE ForceLogout(r)
  <2>1. req' \in [Requests -> Request]
    BY <1>0, <1>1, EndType DEF ForceLogout
  <2> QED
    BY <1>1, <2>1 DEF ForceLogout, TypeOK
<1>2. CASE Delete(r)
  <2>1. req' \in [Requests -> Request] /\ user' \in [Users -> Rows]
    BY <1>0, <1>2, EndType, WriteType, AbsentType DEF Delete
  <2>2. past' = [past EXCEPT !.granted = past.granted \ {Target(r)},
                             !.opened = past.opened \ {Target(r)}, !.replaced[Target(r)] = {}]
    BY <1>2 DEF Delete
  <2>3. past' \in Past
    BY <1>0, <2>2 DEF TypeOK, Past
  <2> QED
    BY <1>2, <2>1, <2>3 DEF Delete, TypeOK
<1>3. CASE RevokeSession(r)
  <2>1. req' \in [Requests -> Request]
    BY <1>0, <1>3, EndType DEF RevokeSession
  <2> QED
    BY <1>3, <2>1 DEF RevokeSession, TypeOK
<1> QED
  BY <1>1, <1>2, <1>3

LEMMA TypePlatformOnly ==
  ASSUME TypeOK, NEW r \in Requests, NEW row \in TenantRow, PlatformOnly(r, row)
  PROVE  TypeOK'
<1>1. req' \in [Requests -> Request]
  BY EndType DEF PlatformOnly, PC
<1>2. past' \in Past
  BY DEF PlatformOnly, CrossedNow, Between, TypeOK, Past
<1> QED
  BY <1>1, <1>2 DEF PlatformOnly, TypeOK

LEMMA TypeTenant ==
  ASSUME TypeOK, NEW r \in Requests, Conflict(r) \/ Edit(r) \/ SoftDelete(r) \/ Restore(r)
  PROVE  TypeOK'
<1>1. CASE Conflict(r)
  <2>1. req' \in [Requests -> Request]
    BY <1>1, EndType DEF Conflict, PC, Ended
  <2> QED
    BY <1>1, <2>1 DEF Conflict, TypeOK, rows
<1>2. CASE Edit(r)
  <2>1. PICK s \in Status : PlatformOnly(r, [status EXCEPT !.status = s, !.version = status.version + 1])
    BY <1>2 DEF Edit
  <2>2. status \in TenantRow /\ status.version + 1 \in Nat
    BY DEF TypeOK, TenantRow
  <2>3. [status EXCEPT !.status = s, !.version = status.version + 1] \in TenantRow
    BY <2>2 DEF TenantRow
  <2> QED
    BY <2>1, <2>3, TypePlatformOnly
<1>3. CASE SoftDelete(r)
  <2>1. [status EXCEPT !.status = "DELETED", !.deleted = TRUE] \in TenantRow
    BY DEF TypeOK, TenantRow, Status
  <2> QED
    BY <1>3, <2>1, TypePlatformOnly DEF SoftDelete
<1>4. CASE Restore(r)
  <2>1. [status EXCEPT !.status = "ACTIVE", !.deleted = FALSE] \in TenantRow
    BY DEF TypeOK, TenantRow, Status
  <2> QED
    BY <1>4, <2>1, TypePlatformOnly DEF Restore
<1> QED
  BY <1>1, <1>2, <1>3, <1>4

LEMMA TypeStatus ==
  ASSUME TypeOK, NEW r \in Requests,
         PlatformWrite(r) \/ CrmSuspend(r) \/ CrmUnsuspend(r) \/ CrmRollback(r) \/ Compensate(r)
  PROVE  TypeOK'
<1>0. /\ {"audit", "crm", "compensate", "refused"} \subseteq PC
      /\ status.version + 1 \in Nat
      /\ \A u \in Users : user[u] \in Rows
  BY DEF PC, Ended, TypeOK, TenantRow
<1>1. CASE PlatformWrite(r)
  <2>1. req' \in [Requests -> Request]
    BY <1>0, <1>1, GotoType DEF PlatformWrite
  <2>2. status' \in TenantRow
    BY <1>0, <1>1 DEF PlatformWrite, TypeOK, TenantRow, Status, NewStatus
  <2>3. past' \in Past
    BY <1>1 DEF PlatformWrite, CrossedNow, Between, TypeOK, Past
  <2> QED
    BY <1>1, <2>1, <2>2, <2>3 DEF PlatformWrite, TypeOK
<1>2. CASE CrmSuspend(r)
  <2>1. req' \in [Requests -> Request]
    BY <1>0, <1>2, EndType DEF CrmSuspend
  <2>2. \A u \in Users : (IF Exists(u) THEN [user[u] EXCEPT !.active = FALSE] ELSE Absent) \in Rows
    BY <1>0, AbsentType DEF Rows
  <2>3. user' \in [Users -> Rows]
    BY <1>2, <2>2 DEF CrmSuspend
  <2>4. past' \in Past
    BY <1>2 DEF CrmSuspend, TypeOK, Past
  <2> QED
    BY <1>2, <2>1, <2>3, <2>4 DEF CrmSuspend, TypeOK
<1>3. CASE CrmUnsuspend(r)
  <2>1. req' \in [Requests -> Request]
    BY <1>0, <1>3, EndType DEF CrmUnsuspend
  <2>2. \A u \in Users : (IF Exists(u) /\ ~user[u].locked
                            THEN [user[u] EXCEPT !.active = TRUE] ELSE user[u]) \in Rows
    BY <1>0 DEF Rows
  <2>3. user' \in [Users -> Rows]
    BY <1>3, <2>2 DEF CrmUnsuspend
  <2>4. past' \in Past
    BY <1>3 DEF CrmUnsuspend, TypeOK, Past
  <2> QED
    BY <1>3, <2>1, <2>3, <2>4 DEF CrmUnsuspend, TypeOK
<1>4. CASE CrmRollback(r)
  <2>1. req' \in [Requests -> Request]
    BY <1>0, <1>4, GotoType DEF CrmRollback
  <2> QED
    BY <1>4, <2>1 DEF CrmRollback, TypeOK, rows
<1>5. CASE Compensate(r)
  <2>1. req' \in [Requests -> Request]
    BY <1>0, <1>5, EndType DEF Compensate
  <2> QED
    BY <1>0, <1>5, <2>1 DEF Compensate, TypeOK, TenantRow, Status
<1> QED
  BY <1>1, <1>2, <1>3, <1>4, <1>5

LEMMA TypeEnds ==
  ASSUME TypeOK, NEW r \in Requests, Record(r) \/ Fail(r)
  PROVE  TypeOK'
<1>1. req' \in [Requests -> Request]
  BY EndType DEF Record, Fail, PC, Ended
<1>2. CASE Record(r)
  BY <1>1, <1>2 DEF Record, TypeOK, rows
<1>3. CASE Fail(r)
  <2>1. past' \in Past
    BY <1>3 DEF Fail, Between, TypeOK, Past
  <2> QED
    BY <1>1, <1>3, <2>1 DEF Fail, TypeOK, rows
<1> QED
  BY <1>2, <1>3

LEMMA TypeCrm ==
  ASSUME TypeOK, NEW u \in Users, CrmLogin(u) \/ CrmLock(u)
  PROVE  TypeOK'
<1>0. user[u] \in Rows
  BY DEF TypeOK
<1>1. CASE CrmLogin(u)
  <2>1. [user |-> u, version |-> user[u].version, password |-> user[u].password] \in Sessions
    BY <1>0 DEF Rows, Sessions
  <2> QED
    BY <1>1, <2>1 DEF CrmLogin, TypeOK
<1>2. CASE CrmLock(u)
  <2>1. user' \in [Users -> Rows]
    <3>1. [user[u] EXCEPT !.locked = TRUE] \in Rows
      BY <1>0 DEF Rows
    <3>2. user' = [user EXCEPT ![u] = [user[u] EXCEPT !.locked = TRUE]]
      BY <1>2 DEF CrmLock
    <3> QED
      BY <3>1, <3>2 DEF TypeOK
  <2>2. past' \in Past
    BY <1>2 DEF CrmLock, TypeOK, Past
  <2> QED
    BY <1>2, <2>1, <2>2 DEF CrmLock, TypeOK
<1> QED
  BY <1>1, <1>2

LEMMA TypeStep ==
  ASSUME TypeOK, [Next]_vars
  PROVE  TypeOK'
<1>1. ASSUME NEW r \in Requests, Step(r)
      PROVE  TypeOK'
  BY <1>1, TypeReads, TypeWrites, TypeEndsSessions, TypeTenant, TypeStatus, TypeEnds DEF Step
<1>2. ASSUME NEW u \in Users, CrmLogin(u) \/ CrmLock(u)
      PROVE  TypeOK'
  BY <1>2, TypeCrm
<1>3. CASE UNCHANGED vars
  BY <1>3 DEF vars, TypeOK
<1> QED
  BY <1>1, <1>2, <1>3 DEF Next, AllServed

\* The state of every handler and row has its type.
THEOREM TypeCorrect == Spec => []TypeOK
<1>1. Init => TypeOK
  BY TypeInit
<1>2. TypeOK /\ [Next]_vars => TypeOK'
  BY TypeStep
<1> QED
  BY <1>1, <1>2, PTL DEF Spec

-----------------------------------------------------------------------------
(* What the invariants rest on.                                            *)

\* What the position of a handler says of its operation.
Positions ==
  \A r \in Requests :
    /\ req[r].pc = "platform" => req[r].kind \in TenantKinds
    /\ req[r].pc \in {"crm", "compensate"} => req[r].kind \in CrmKinds
    /\ req[r].pc \in {"row", "write"} => req[r].kind \notin TenantKinds
    /\ req[r].pc \in {"role", "assign"} => req[r].kind = "create"
    /\ req[r].pc \in {"idle"} \cup Ended => req[r].kind = "none"

\* A handler that may still insert a row has not, and none has been read.
Fresh ==
  \A r \in Requests :
    At(r, "idle") \/ (req[r].kind = "create" /\ req[r].pc \in {"row", "write"}) =>
      (\A u \in Users : user[u].by # r) /\ (\A q \in Requests : Seen(q).by # r)

\* A create that goes on to the role has inserted the row of its e-mail.
Owners ==
  \A r \in Requests, u \in Users :
    req[r].pc \in {"role", "assign"} /\ user[u].by = r => Target(r) = u

\* Versions only grow: a session is of the version and password of its user, or older.
SessionsHold ==
  \A s \in session :
    /\ Exists(s.user)
    /\ s.version <= user[s.user].version
    /\ s.version = user[s.user].version => s.password = user[s.user].password

\* Who is active in a suspended organization was granted it.
Grants ==
  org = "Suspended" =>
    (\A u \in Users : user[u].active => u \in past.granted) /\ (\A s \in session : s.user \in past.granted)

\* Nobody is about to lock again whom the properties take for unlocked.
Openings == \A u \in past.opened : Exists(u) /\ ~user[u].locked /\ ~RelockUnderWay(u)

\* What a reset has read lacks nothing but the passwords of resets that overlapped it.
ResetsRead ==
  \A r \in Requests :
    Doing(r, "reset") /\ Same(r) =>
      /\ past.replaced[Target(r)] \subseteq Seen(r).history \cup {Seen(r).password} \cup past.raced
      /\ user[Target(r)].password \in {Seen(r).password} \cup past.raced

\* The statuses where no handler is between the two databases, and where one is.
OneBetween == \A r, q \in Requests : Between(r) /\ Between(q) => r = q

Agreed ==
  (\A r \in Requests : ~Between(r)) /\ ~past.apart => (status.status = "SUSPENDED" <=> org = "Suspended")

HalfWay ==
  \A r \in Requests : Between(r) =>
    /\ status.status = NewStatus(req[r].kind)
    /\ past.apart \/ (org = "Suspended" <=> req[r].kind = "unsuspend")

\* A handler that will write over the version it has read has read the status
\* that is there, or one that remove or restore has changed since.
StatusRead ==
  \A r \in Requests : At(r, "platform") /\ req[r].kind \in CrmKinds =>
    /\ req[r].tenant.version \in Nat /\ req[r].tenant.version <= status.version
    /\ req[r].kind = "unsuspend" <=> req[r].tenant.status = "SUSPENDED"
    /\ Current(r) => \/ req[r].tenant.status = status.status
                     \/ past.apart /\ \A q \in Requests : ~Between(q)

StatusesHold == OneBetween /\ Agreed /\ HalfWay /\ StatusRead

Statuses == ~past.crossed => StatusesHold

Handlers == Positions /\ Fresh /\ Owners
Accounts == SessionsHold /\ Grants /\ Openings
Histories == HistoryKeepsReplaced /\ ResetsRead

IInv == TypeOK /\ Handlers /\ Accounts /\ Histories /\ NoRolelessUser /\ Statuses

-----------------------------------------------------------------------------
(* What a step does to a handler, to the rows and to the sessions.          *)

\* A handler begins, goes on with what it is doing, or ends.
Begins(r) ==
  /\ At(r, "idle")
  /\ req'[r].kind \in Kinds \ {"none"} /\ req'[r].user \in Users
  /\ req'[r].seen = Absent
  /\ req'[r].pc = IF req'[r].kind \in TenantKinds THEN "platform" ELSE "row"

GoesTo(r, pc) ==
  /\ req'[r].pc = pc /\ req'[r].kind = req[r].kind /\ req'[r].user = req[r].user
  /\ req'[r].tenant = req[r].tenant
  /\ pc # "write" => req'[r].seen = req[r].seen

\* It ends, or has only to be recorded.
Last == Ended \cup {"audit"}
Ends(r) == req'[r].pc \in Last /\ req'[r].kind = "none" /\ req'[r].seen = Absent

LEMMA GotoEffect ==
  ASSUME TypeOK, NEW r \in Requests, NEW pc \in PC \ {"write"}, Goto(r, pc)
  PROVE  GoesTo(r, pc) /\ \A q \in Requests \ {r} : req'[q] = req[q]
<1>1. req' = [req EXCEPT ![r] = [req[r] EXCEPT !.pc = pc]]
  BY DEF Goto, TypeOK
<1> QED
  BY <1>1 DEF GoesTo, TypeOK, Request

LEMMA EndEffect ==
  ASSUME TypeOK, NEW r \in Requests, NEW pc \in Last, End(r, pc)
  PROVE  Ends(r) /\ \A q \in Requests \ {r} : req'[q] = req[q]
<1>1. req' = [req EXCEPT ![r] = [Nothing EXCEPT !.pc = pc]]
  BY DEF End
<1> QED
  BY <1>1 DEF Ends, TypeOK, Nothing

\* How each action moves its handler.
Moves(r) ==
  \/ Begins(r)
  \/ /\ At(r, "row") /\ GoesTo(r, "write")
     /\ req'[r].seen = user[Target(r)]
     /\ Exists(Target(r)) = (req[r].kind # "create")
  \/ Doing(r, "create") /\ GoesTo(r, "role")
  \/ At(r, "role") /\ systemRole /\ GoesTo(r, "assign")
  \/ At(r, "platform") /\ GoesTo(r, "crm")
  \/ At(r, "crm") /\ GoesTo(r, "compensate")
  \/ Ends(r) /\ req[r].pc \notin Ended

LEMMA PCs == /\ {"idle", "row", "write", "role", "assign", "platform", "crm", "compensate", "audit"} \subseteq PC
             /\ Ended \subseteq PC /\ "write" \notin Ended
  BY DEF PC, Ended

LEMMA StepMoves ==
  ASSUME TypeOK, NEW r \in Requests, Step(r)
  PROVE  Moves(r) /\ \A q \in Requests \ {r} : req'[q] = req[q]
<1> USE PCs DEF Last
<1>1. CASE TenantRead(r)
  <2>1. CASE End(r, "refused") /\ At(r, "idle")
    BY <2>1, EndEffect DEF Moves, Ended, At
  <2>2. CASE /\ At(r, "idle")
             /\ \E kind \in Kinds \ {"none"}, u \in Users :
                  req' = [req EXCEPT ![r] = [pc |-> IF kind \in TenantKinds THEN "platform" ELSE "row",
                                        kind |-> kind, user |-> u, seen |-> Absent,
                                        tenant |-> IF kind \in TenantKinds THEN status ELSE NewTenant]]
    BY <2>2 DEF Moves, Begins, TypeOK
  <2> QED
    BY <1>1, <2>1, <2>2 DEF TenantRead
<1>2. CASE RowRead(r)
  <2>1. CASE End(r, "refused")
    BY <1>2, <2>1, EndEffect DEF Moves, Ended, At, RowRead
  <2>2. CASE /\ Exists(Target(r)) = (req[r].kind # "create")
             /\ req' = [req EXCEPT ![r] = [req[r] EXCEPT !.pc = "write", !.seen = user[Target(r)]]]
    <3>1. GoesTo(r, "write") /\ req'[r].seen = user[Target(r)] /\ \A q \in Requests \ {r} : req'[q] = req[q]
      BY <2>2 DEF GoesTo, TypeOK, Request
    <3> QED
      BY <1>2, <2>2, <3>1 DEF Moves, RowRead
  <2> QED
    BY <1>2, <2>1, <2>2 DEF RowRead
<1>3. CASE Insert(r)
  BY <1>3, GotoEffect DEF Insert, Moves
<1>4. CASE SystemRoleRead(r)
  BY <1>4, GotoEffect, EndEffect DEF SystemRoleRead, Moves, At, Ended
<1>5. CASE Assign(r)
  BY <1>5, EndEffect DEF Assign, Moves, At, Ended
<1>6. CASE Update(r) \/ Enable(r) \/ Disable(r) \/ Reset(r) \/ ForceLogout(r) \/ Delete(r) \/ RevokeSession(r)
  <2>1. End(r, "audit") /\ At(r, "write")
    BY <1>6 DEF Update, Enable, Disable, Reset, ResetBy, ForceLogout, Delete, RevokeSession, Doing
  <2> QED
    BY <2>1, EndEffect DEF Moves, At, Ended
<1>7. CASE PlatformWrite(r)
  BY <1>7, GotoEffect DEF PlatformWrite, Moves
<1>8. CASE Conflict(r) \/ Edit(r) \/ SoftDelete(r) \/ Restore(r) \/ CrmSuspend(r) \/ CrmUnsuspend(r)
  <2>1. req[r].pc \notin Ended /\ \E pc \in Last : End(r, pc)
    BY <1>8 DEF Conflict, Edit, SoftDelete, Restore, PlatformOnly, CrmSuspend, CrmUnsuspend, At, Ended
  <2> QED
    BY <2>1, EndEffect DEF Moves
<1>9. CASE CrmRollback(r)
  BY <1>9, GotoEffect DEF CrmRollback, Moves
<1>10. CASE Compensate(r) \/ Record(r) \/ Fail(r)
  <2>1. req[r].pc \notin Ended /\ \E pc \in Last : End(r, pc)
    BY <1>10 DEF Compensate, Record, Fail, At, Running, Ended
  <2> QED
    BY <2>1, EndEffect DEF Moves
<1> QED
  BY <1>1, <1>2, <1>3, <1>4, <1>5, <1>6, <1>7, <1>8, <1>9, <1>10 DEF Step

\* The steps that write nothing but the platform's row.
TenantStep(r) == Conflict(r) \/ PlatformWrite(r) \/ Edit(r) \/ SoftDelete(r) \/ Restore(r)

LEMMA TenantFrame ==
  ASSUME TypeOK, NEW r \in Requests, TenantStep(r)
  PROVE  /\ UNCHANGED <<org, user, session, systemRole>>
         /\ UNCHANGED <<past.granted, past.opened, past.replaced, past.raced>>
<1>1. UNCHANGED <<org, user, session, systemRole>>
  BY DEF TenantStep, Conflict, PlatformWrite, Edit, SoftDelete, Restore, PlatformOnly, rows
<1>2. \/ past' = past
      \/ \E a, c : past' = [past EXCEPT !.apart = a, !.crossed = c]
      \/ \E c : past' = [past EXCEPT !.crossed = c]
  BY DEF TenantStep, Conflict, PlatformWrite, Edit, SoftDelete, Restore, PlatformOnly, rows
<1> QED
  BY <1>1, <1>2 DEF TypeOK, Past

\* How a step leaves the row of u: as it is, there or not; with other flags; or as the one
\* action leaves it that inserts, resets or deletes it.
Flagged(u) ==
  /\ Exists(u)
  /\ user'[u].by = user[u].by /\ user'[u].version = user[u].version
  /\ user'[u].password = user[u].password /\ user'[u].history = user[u].history
  /\ user[u].assigned => user'[u].assigned

LEMMA StepRows ==
  ASSUME TypeOK, NEW r \in Requests, Step(r), NEW u \in Users
  PROVE  \/ user'[u] = user[u] \/ Flagged(u) \/ (~Exists(u) /\ user'[u] = Absent)
         \/ /\ u = Target(r)
            /\ \/ Insert(r) /\ ~Exists(u) /\ user'[u].by = r /\ user'[u].version = 0
               \/ Delete(r) /\ Exists(u) /\ user'[u] = Absent
               \/ /\ Reset(r) /\ Exists(u)
                  /\ user'[u] = AfterReset(r, user[u], Seen(r))
<1>0. Target(r) \in Users /\ user[u] \in Rows
  BY TargetType DEF TypeOK
<1>1. CASE Insert(r)
  <2>1. PICK active \in BOOLEAN :
          user' = [user EXCEPT ![Target(r)] =
                     [active |-> active, locked |-> FALSE, version |-> 0, password |-> r,
                      history |-> {}, assigned |-> FALSE, by |-> r]]
    BY <1>1 DEF Insert, Write
  <2>2. ~Exists(Target(r))
    BY <1>1 DEF Insert
  <2>3. CASE u = Target(r)
    BY <1>0, <1>1, <2>1, <2>2, <2>3 DEF TypeOK
  <2>4. CASE u # Target(r)
    BY <1>0, <2>1, <2>4 DEF TypeOK
  <2> QED
    BY <2>3, <2>4
<1>2. CASE Delete(r)
  BY <1>0, <1>2 DEF Delete, Write, TypeOK, Same
<1>3. CASE Reset(r)
  BY <1>0, <1>3 DEF Reset, ResetBy, Write, TypeOK, Same
<1>4. CASE Assign(r) \/ Enable(r) \/ Disable(r)
  <2>1. Exists(Target(r))
    BY <1>4 DEF Assign, Enable, Disable, Same
  <2>2. CASE u = Target(r)
    <3>1. \/ user'[u] = [user[u] EXCEPT !.assigned = TRUE]
          \/ user'[u] = [user[u] EXCEPT !.active = TRUE, !.locked = FALSE]
          \/ user'[u] = [user[u] EXCEPT !.active = FALSE, !.locked = Seen(r).locked]
      BY <1>0, <1>4, <2>2 DEF Assign, Enable, Disable, Write, TypeOK
    <3> QED
      BY <1>0, <2>1, <2>2, <3>1 DEF Flagged, Rows
  <2>3. CASE u # Target(r)
    BY <1>0, <1>4, <2>3 DEF Assign, Enable, Disable, Write, TypeOK
  <2> QED
    BY <2>2, <2>3
<1>5. CASE CrmSuspend(r)
  <2>1. user'[u] = IF Exists(u) THEN [user[u] EXCEPT !.active = FALSE] ELSE Absent
    BY <1>5 DEF CrmSuspend
  <2>2. CASE Exists(u)
    BY <1>0, <2>1, <2>2 DEF Flagged, Rows
  <2>3. CASE ~Exists(u)
    BY <1>0, <2>1, <2>3
  <2> QED
    BY <2>2, <2>3
<1>6. CASE CrmUnsuspend(r)
  <2>1. user'[u] = IF Exists(u) /\ ~user[u].locked THEN [user[u] EXCEPT !.active = TRUE] ELSE user[u]
    BY <1>6 DEF CrmUnsuspend
  <2> QED
    BY <1>0, <2>1 DEF Flagged, Rows
<1>7. CASE \/ TenantRead(r) \/ RowRead(r) \/ SystemRoleRead(r) \/ Update(r) \/ ForceLogout(r) \/ RevokeSession(r)
           \/ TenantStep(r) \/ CrmRollback(r) \/ Compensate(r) \/ Record(r) \/ Fail(r)
  BY <1>7 DEF TenantRead, RowRead, SystemRoleRead, Update, ForceLogout, RevokeSession, TenantStep, Conflict, PlatformWrite, PlatformOnly, Edit, SoftDelete, Restore,
              CrmRollback, Compensate, Record, Fail, rows
<1> QED
  BY <1>1, <1>2, <1>3, <1>4, <1>5, <1>6, <1>7 DEF Step, TenantStep

LEMMA StepSessions ==
  ASSUME NEW r \in Requests, Step(r)
  PROVE  session' \subseteq session /\ (Delete(r) => \A s \in session' : s.user # Target(r))
<1>1. CASE Delete(r)
  BY <1>1 DEF Delete
<1>2. CASE ForceLogout(r) \/ RevokeSession(r) \/ CrmSuspend(r)
  BY <1>2, <1>1 DEF ForceLogout, RevokeSession, CrmSuspend
<1>3. CASE ~(Delete(r) \/ ForceLogout(r) \/ RevokeSession(r) \/ CrmSuspend(r))
  <2>1. UNCHANGED session
    BY <1>3 DEF Step, TenantRead, RowRead, Insert, SystemRoleRead, Assign, Update, Enable, Disable, Reset,
                ResetBy, TenantStep, Conflict, PlatformWrite, PlatformOnly, Edit, SoftDelete, Restore, CrmUnsuspend, CrmRollback, Compensate, Record, Fail, rows
  <2> QED
    BY <1>3, <2>1
<1> QED
  BY <1>1, <1>2, <1>3

\* The history that a step leaves alone or changes, field by field.
LEMMA StepHistory ==
  ASSUME TypeOK, NEW r \in Requests, Step(r)
  PROVE  /\ past.raced \subseteq past'.raced
         /\ Enable(r) \/ Reset(r) \/ past'.opened \subseteq past.opened
         /\ \/ past'.replaced = past.replaced
            \/ /\ Insert(r) \/ Delete(r)
               /\ past'.replaced = [past.replaced EXCEPT ![Target(r)] = {}]
            \/ /\ Reset(r)
               /\ past'.replaced = [past.replaced EXCEPT ![Target(r)] = @ \cup {user[Target(r)].password}]
<1>1. CASE Insert(r)
  <2>1. past' = [past EXCEPT !.granted = past.granted \cup {Target(r)},
                             !.replaced = [past.replaced EXCEPT ![Target(r)] = {}]]
    BY <1>1 DEF Insert, TypeOK, Past
  <2> QED
    BY <1>1, <2>1 DEF TypeOK, Past
<1>2. CASE Delete(r)
  <2>1. past' = [past EXCEPT !.granted = past.granted \ {Target(r)}, !.opened = past.opened \ {Target(r)},
                             !.replaced = [past.replaced EXCEPT ![Target(r)] = {}]]
    BY <1>2 DEF Delete, TypeOK, Past
  <2> QED
    BY <1>2, <2>1 DEF TypeOK, Past
<1>3. CASE Reset(r)
  <2> DEFINE raced == IF ResetUnderWay(r) THEN past.raced \cup {r} ELSE past.raced
             replaced == [past.replaced EXCEPT ![Target(r)] = @ \cup {user[Target(r)].password}]
  <2>1. past' = [past EXCEPT !.replaced = replaced, !.raced = raced, !.opened = Unlocked(Target(r))]
    BY <1>3 DEF Reset, ResetBy, TypeOK, Past
  <2>2. past.raced \subseteq raced
    OBVIOUS
  <2> HIDE DEF raced, replaced
  <2>3. past'.raced = raced /\ past'.replaced = replaced
    BY <2>1 DEF TypeOK, Past
  <2> QED
    BY <1>3, <2>2, <2>3 DEF replaced
<1>4. CASE Enable(r)
  <2>1. past' = [past EXCEPT !.granted = past.granted \cup {Target(r)}, !.opened = Unlocked(Target(r))]
    BY <1>4 DEF Enable
  <2> QED
    BY <1>4, <2>1 DEF TypeOK, Past
<1>5. CASE CrmSuspend(r)
  <2>1. past' = [past EXCEPT !.granted = {}, !.apart = FALSE]
    BY <1>5 DEF CrmSuspend
  <2> QED
    BY <2>1 DEF TypeOK, Past
<1>6. CASE CrmUnsuspend(r) \/ Fail(r)
  <2>1. \/ past' = [past EXCEPT !.apart = FALSE]
        \/ \E c : past' = [past EXCEPT !.crossed = c]
    BY <1>6 DEF CrmUnsuspend, Fail
  <2> QED
    BY <2>1 DEF TypeOK, Past
<1>8. CASE TenantStep(r)
  BY <1>8, TenantFrame
<1>7. CASE \/ TenantRead(r) \/ RowRead(r) \/ SystemRoleRead(r) \/ Assign(r) \/ Update(r) \/ Disable(r)
           \/ ForceLogout(r) \/ RevokeSession(r) \/ CrmRollback(r) \/ Compensate(r) \/ Record(r)
  <2>1. past' = past
    BY <1>7 DEF TenantRead, RowRead, SystemRoleRead, Assign, Update, Disable, ForceLogout, RevokeSession,
                CrmRollback, Compensate, Record
  <2> QED
    BY <2>1
<1> QED
  BY <1>1, <1>2, <1>3, <1>4, <1>5, <1>6, <1>7, <1>8 DEF Step, TenantStep

-----------------------------------------------------------------------------
(* The handlers.                                                           *)

\* The steps of the CRM touch no handler, and no row's owner.
LEMMA CrmFrame ==
  ASSUME TypeOK, NEW v \in Users, CrmLogin(v) \/ CrmLock(v)
  PROVE  /\ req' = req /\ UNCHANGED <<status, org, systemRole>>
         /\ \A u \in Users : user'[u] = user[u] \/ (Flagged(u) /\ user'[u] = [user[u] EXCEPT !.locked = TRUE])
<1>1. CASE CrmLogin(v)
  BY <1>1 DEF CrmLogin
<1>2. CASE CrmLock(v)
  <2>1. req' = req /\ UNCHANGED <<status, org, systemRole>> /\ Exists(v)
    BY <1>2 DEF CrmLock
  <2>2. user' = [user EXCEPT ![v] = [user[v] EXCEPT !.locked = TRUE]]
    BY <1>2 DEF CrmLock
  <2>3. ASSUME NEW u \in Users, u = v
        PROVE  Flagged(u) /\ user'[u] = [user[u] EXCEPT !.locked = TRUE]
    BY <2>1, <2>2, <2>3 DEF Flagged, TypeOK, Rows
  <2>4. ASSUME NEW u \in Users, u # v
        PROVE  user'[u] = user[u]
    BY <2>2, <2>4 DEF TypeOK
  <2> QED
    BY <2>1, <2>3, <2>4
<1> QED
  BY <1>1, <1>2

\* Only suspend and unsuspend go on to the CRM.
LEMMA StepToCrm ==
  ASSUME TypeOK, Positions, NEW r \in Requests, Step(r), At(r, "platform"), req'[r].pc = "crm"
  PROVE  req[r].kind \in CrmKinds
<1>1. CASE Conflict(r) \/ Edit(r) \/ SoftDelete(r) \/ Restore(r) \/ Fail(r)
  <2>1. \E pc \in Last : End(r, pc)
    BY <1>1 DEF Conflict, Edit, SoftDelete, Restore, PlatformOnly, Fail, Last, Ended
  <2> QED
    BY <2>1, EndEffect DEF Ends, Last, Ended
<1>2. CASE PlatformWrite(r)
  BY <1>2 DEF PlatformWrite
<1> QED
  BY <1>1, <1>2 DEF Step, TenantRead, RowRead, Insert, SystemRoleRead, Assign, Update, Enable, Disable, Reset,
     ResetBy, ForceLogout, Delete, RevokeSession, CrmSuspend, CrmUnsuspend, CrmRollback, Compensate, Record,
     Doing, At

LEMMA PositionsStep ==
  ASSUME TypeOK, Positions, NEW r \in Requests, Step(r)
  PROVE  Positions'
<1>1. Moves(r) /\ \A q \in Requests \ {r} : req'[q] = req[q]
  BY StepMoves
<1>2. ASSUME NEW q \in Requests, q # r
      PROVE  /\ req'[q].pc = "platform" => req'[q].kind \in TenantKinds
             /\ req'[q].pc \in {"crm", "compensate"} => req'[q].kind \in CrmKinds
             /\ req'[q].pc \in {"row", "write"} => req'[q].kind \notin TenantKinds
             /\ req'[q].pc \in {"role", "assign"} => req'[q].kind = "create"
             /\ req'[q].pc \in {"idle"} \cup Ended => req'[q].kind = "none"
  BY <1>1, <1>2 DEF Positions
<1>3. /\ req'[r].pc = "platform" => req'[r].kind \in TenantKinds
      /\ req'[r].pc \in {"crm", "compensate"} => req'[r].kind \in CrmKinds
      /\ req'[r].pc \in {"row", "write"} => req'[r].kind \notin TenantKinds
      /\ req'[r].pc \in {"role", "assign"} => req'[r].kind = "create"
      /\ req'[r].pc \in {"idle"} \cup Ended => req'[r].kind = "none"
  BY <1>1, StepToCrm DEF Moves, Begins, GoesTo, Ends, Last, Positions, At, Doing, Ended
<1> QED
  BY <1>2, <1>3 DEF Positions

LEMMA FreshStep ==
  ASSUME TypeOK, Positions, Fresh, NEW r \in Requests, Step(r)
  PROVE  Fresh'
<1>1. Moves(r) /\ \A q \in Requests \ {r} : req'[q] = req[q]
  BY StepMoves
<1>2. SUFFICES ASSUME NEW p \in Requests,
                      req'[p].pc = "idle" \/ (req'[p].kind = "create" /\ req'[p].pc \in {"row", "write"})
               PROVE  (\A u \in Users : user'[u].by # p) /\ (\A q \in Requests : req'[q].seen.by # p)
  BY DEF Fresh, At, Seen
<1>3. At(p, "idle") \/ (req[p].kind = "create" /\ req[p].pc \in {"row", "write"})
  <2>1. CASE p = r
    BY <1>1, <1>2, <2>1 DEF Moves, Begins, GoesTo, Ends, At, Doing, Ended, Last, TenantKinds, CrmKinds
  <2>2. CASE p # r
    BY <1>1, <1>2, <2>2 DEF At
  <2> QED
    BY <2>1, <2>2
<1>4. ~(p = r /\ Insert(r))
  <2>1. Insert(r) => req'[r].pc = "role"
    BY GotoEffect, PCs DEF Insert, GoesTo
  <2> QED
    BY <1>2, <2>1
<1>5. Absent.by # p
  BY RequestNames DEF Absent
<1>6. (\A u \in Users : user[u].by # p) /\ (\A q \in Requests : Seen(q).by # p)
  BY <1>3 DEF Fresh
<1>7. ASSUME NEW u \in Users
      PROVE  user'[u].by # p
  <2>1. \/ user'[u] = user[u] \/ Flagged(u) \/ user'[u] = Absent
        \/ Insert(r) /\ user'[u].by = r
        \/ Reset(r) /\ user'[u] = AfterReset(r, user[u], Seen(r))
    BY StepRows
  <2>2. user[u] \in Rows
    BY DEF TypeOK
  <2>3. AfterReset(r, user[u], Seen(r)).by = user[u].by
    BY <2>2 DEF AfterReset, Rows
  <2> QED
    BY <1>4, <1>5, <1>6, <2>1, <2>3 DEF Flagged
<1>8. ASSUME NEW q \in Requests
      PROVE  req'[q].seen.by # p
  <2>1. CASE q # r
    BY <1>1, <1>6, <2>1 DEF Seen
  <2>2. CASE q = r
    <3>1. req'[r].seen \in {Absent, user[Target(r)], Seen(r)}
      BY <1>1 DEF Moves, Begins, GoesTo, Ends, Seen
    <3> QED
      BY <1>5, <1>6, <2>2, <3>1, TargetType
  <2> QED
    BY <2>1, <2>2
<1> QED
  BY <1>7, <1>8

LEMMA OwnersStep ==
  ASSUME TypeOK, Positions, Fresh, Owners, NEW r \in Requests, Step(r)
  PROVE  Owners'
<1>1. Moves(r) /\ \A q \in Requests \ {r} : req'[q] = req[q]
  BY StepMoves
<1>2. SUFFICES ASSUME NEW p \in Requests, NEW u \in Users,
                      req'[p].pc \in {"role", "assign"}, user'[u].by = p
               PROVE  req'[p].user = u
  BY DEF Owners, Target
<1>3. user[u] \in Rows
  BY DEF TypeOK
<1>4. \/ user[u].by = p
      \/ Insert(r) /\ p = r /\ u = Target(r)
  <2>1. AfterReset(r, user[u], Seen(r)).by = user[u].by
    BY <1>3 DEF AfterReset, Rows
  <2>2. Absent.by # p
    BY RequestNames DEF Absent
  <2> QED
    BY <1>2, <2>1, <2>2, StepRows DEF Flagged
<1>5. CASE Insert(r) /\ p = r /\ u = Target(r)
  <2>1. GoesTo(r, "role")
    BY <1>5, GotoEffect, PCs DEF Insert
  <2> QED
    BY <1>5, <2>1 DEF GoesTo, Target
<1>6. CASE user[u].by = p /\ ~(Insert(r) /\ p = r /\ u = Target(r))
  <2>1. CASE p # r
    BY <1>1, <1>2, <1>6, <2>1 DEF Owners, Target
  <2>2. CASE p = r
    <3>1. ~Doing(r, "create")
      BY <1>6, <2>2 DEF Doing, Fresh, At
    <3>2. At(r, "role") /\ req'[r].user = req[r].user
      BY <1>1, <1>2, <2>2, <3>1 DEF Moves, Begins, GoesTo, Ends, Ended, Last, TenantKinds, CrmKinds
    <3> QED
      BY <1>6, <2>2, <3>2 DEF Owners, Target, At
  <2> QED
    BY <2>1, <2>2
<1> QED
  BY <1>4, <1>5, <1>6

LEMMA HandlersCrm ==
  ASSUME TypeOK, Handlers, NEW v \in Users, CrmLogin(v) \/ CrmLock(v)
  PROVE  Handlers'
<1>1. req' = req /\ \A u \in Users : user'[u].by = user[u].by
  BY CrmFrame DEF Flagged
<1> QED
  BY <1>1 DEF Handlers, Positions, Fresh, Owners, At, Seen, Target

-----------------------------------------------------------------------------
(* Sessions, suspensions and locks.                                        *)

LEMMA SessionsHoldStep ==
  ASSUME TypeOK, SessionsHold, NEW r \in Requests, Step(r)
  PROVE  SessionsHold'
<1>1. SUFFICES ASSUME NEW s \in session'
               PROVE  /\ user'[s.user].by # "none"
                      /\ s.version <= user'[s.user].version
                      /\ s.version = user'[s.user].version => s.password = user'[s.user].password
  BY DEF SessionsHold, Exists
<1>2. s \in session /\ (Delete(r) => s.user # Target(r))
  BY StepSessions
<1>3. /\ s.user \in Users /\ s.version \in Nat /\ user[s.user] \in Rows
      /\ user[s.user].version \in Nat
  BY <1>2 DEF TypeOK, Sessions, Rows
<1>4. /\ Exists(s.user) /\ s.version <= user[s.user].version
      /\ s.version = user[s.user].version => s.password = user[s.user].password
  BY <1>2 DEF SessionsHold
<1>5. \/ user'[s.user] = user[s.user] \/ Flagged(s.user)
      \/ user'[s.user] = AfterReset(r, user[s.user], Seen(r))
  BY <1>2, <1>3, <1>4, StepRows
<1>6. /\ AfterReset(r, user[s.user], Seen(r)).by = user[s.user].by
      /\ AfterReset(r, user[s.user], Seen(r)).version = user[s.user].version + 1
  BY <1>3 DEF AfterReset, Rows
<1>7. CASE user'[s.user] = user[s.user] \/ Flagged(s.user)
  BY <1>4, <1>7 DEF Flagged, Exists
<1>8. CASE user'[s.user] = AfterReset(r, user[s.user], Seen(r))
  BY <1>3, <1>4, <1>6, <1>8 DEF Exists
<1> QED
  BY <1>5, <1>7, <1>8

LEMMA SessionsHoldCrm ==
  ASSUME TypeOK, SessionsHold, NEW v \in Users, CrmLogin(v) \/ CrmLock(v)
  PROVE  SessionsHold'
<1>1. SUFFICES ASSUME NEW s \in session'
               PROVE  /\ user'[s.user].by # "none"
                      /\ s.version <= user'[s.user].version
                      /\ s.version = user'[s.user].version => s.password = user'[s.user].password
  BY DEF SessionsHold, Exists
<1>2. CASE s \in session
  <2>1. s.user \in Users
    BY <1>2 DEF TypeOK, Sessions
  <2>2. /\ user'[s.user].by = user[s.user].by /\ user'[s.user].version = user[s.user].version
        /\ user'[s.user].password = user[s.user].password
    BY <2>1, CrmFrame DEF Flagged
  <2> QED
    BY <1>2, <2>2 DEF SessionsHold, Exists
<1>3. CASE s \notin session
  <2>1. /\ CrmLogin(v)
        /\ s = [user |-> v, version |-> user[v].version, password |-> user[v].password]
    BY <1>1, <1>3 DEF CrmLogin, CrmLock
  <2>2. user[v].version \in Nat
    BY DEF TypeOK, Rows
  <2> QED
    BY <2>1, <2>2 DEF CrmLogin, Exists
<1> QED
  BY <1>2, <1>3

LEMMA GrantsStep ==
  ASSUME TypeOK, Grants, NEW r \in Requests, Step(r)
  PROVE  Grants'
<1>0. Target(r) \in Users
  BY TargetType
<1>1. CASE Insert(r) \/ Enable(r)
  <2>1. /\ past'.granted = past.granted \cup {Target(r)} /\ UNCHANGED <<org, session>>
        /\ \A u \in Users \ {Target(r)} : user'[u] = user[u]
    BY <1>1 DEF Insert, Enable, Write, TypeOK, Past
  <2> QED
    BY <2>1 DEF Grants
<1>2. CASE Delete(r)
  <2>1. /\ past'.granted = past.granted \ {Target(r)} /\ UNCHANGED org
        /\ session' = {s \in session : s.user # Target(r)}
        /\ user'[Target(r)] = Absent
        /\ \A u \in Users \ {Target(r)} : user'[u] = user[u]
    BY <1>0, <1>2 DEF Delete, Write, TypeOK, Past
  <2> QED
    BY <2>1 DEF Grants, Absent
<1>3. CASE CrmSuspend(r)
  <2>1. session' = {} /\ \A u \in Users : ~user'[u].active
    BY <1>3 DEF CrmSuspend, Absent, TypeOK, Rows
  <2> QED
    BY <2>1 DEF Grants
<1>4. CASE CrmUnsuspend(r)
  BY <1>4 DEF CrmUnsuspend, Grants
<1>5. CASE Assign(r) \/ Disable(r) \/ Reset(r)
  <2>1. UNCHANGED <<org, session>> /\ past'.granted = past.granted
    BY <1>5 DEF Assign, Disable, Reset, ResetBy, TypeOK, Past
  <2>2. ASSUME NEW u \in Users
        PROVE  user'[u].active => user[u].active
    <3>0. user[u] \in Rows
      BY DEF TypeOK
    <3>1. user'[u] \in {user[u], [user[u] EXCEPT !.assigned = TRUE],
                        [user[u] EXCEPT !.active = FALSE, !.locked = Seen(r).locked],
                        AfterReset(r, user[u], Seen(r))}
      BY <1>0, <1>5 DEF Assign, Disable, Reset, ResetBy, Write, TypeOK
    <3>2. AfterReset(r, user[u], Seen(r)).active = user[u].active
      BY <3>0 DEF AfterReset, Rows
    <3> QED
      BY <3>0, <3>1, <3>2 DEF Rows
  <2> QED
    BY <2>1, <2>2 DEF Grants
<1>6. CASE \/ TenantRead(r) \/ RowRead(r) \/ SystemRoleRead(r) \/ Update(r) \/ ForceLogout(r) \/ RevokeSession(r)
           \/ TenantStep(r) \/ CrmRollback(r) \/ Compensate(r) \/ Record(r) \/ Fail(r)
  <2>1. UNCHANGED <<org, user>> /\ past'.granted = past.granted
    BY <1>6 DEF TenantRead, RowRead, SystemRoleRead, Update, ForceLogout, RevokeSession, TenantStep, Conflict, PlatformWrite, PlatformOnly, Edit, SoftDelete, Restore,
                CrmRollback, Compensate, Record, Fail, rows, TypeOK, Past
  <2> QED
    BY <2>1, StepSessions DEF Grants
<1> QED
  BY <1>1, <1>2, <1>3, <1>4, <1>5, <1>6 DEF Step, TenantStep

LEMMA GrantsCrm ==
  ASSUME TypeOK, Grants, NEW v \in Users, CrmLogin(v) \/ CrmLock(v)
  PROVE  Grants'
<1>1. CASE CrmLogin(v)
  BY <1>1 DEF CrmLogin, Grants
<1>2. CASE CrmLock(v)
  <2>1. UNCHANGED <<org, session>> /\ past'.granted = past.granted
    BY <1>2 DEF CrmLock, TypeOK, Past
  <2>2. \A u \in Users : user'[u].active = user[u].active
    BY <1>2 DEF CrmLock, TypeOK, Rows
  <2> QED
    BY <2>1, <2>2 DEF Grants
<1> QED
  BY <1>1, <1>2

\* A disable that is about to lock u again was so before, or has read u locked.
LEMMA RelockStep ==
  ASSUME TypeOK, NEW r \in Requests, Step(r), NEW u \in Users, RelockUnderWay(u)',
         Exists(u) => ~user[u].locked
  PROVE  RelockUnderWay(u)
<1>1. Moves(r) /\ \A q \in Requests \ {r} : req'[q] = req[q]
  BY StepMoves
<1>2. PICK q \in Requests : /\ req'[q].pc = "write" /\ req'[q].kind = "disable"
                            /\ req'[q].user = u /\ req'[q].seen.locked
  BY DEF RelockUnderWay, Doing, At, Target, Seen
<1>3. CASE q # r
  BY <1>1, <1>2, <1>3 DEF RelockUnderWay, Doing, At, Target, Seen
<1>4. CASE q = r
  <2>1. req'[r].seen = user[Target(r)] /\ Exists(Target(r)) /\ Target(r) = u
    BY <1>1, <1>2, <1>4 DEF Moves, Begins, GoesTo, Ends, Ended, Target
  <2> QED
    BY <1>2, <1>4, <2>1
<1> QED
  BY <1>3, <1>4

LEMMA OpeningsStep ==
  ASSUME TypeOK, Openings, NEW r \in Requests, Step(r)
  PROVE  Openings'
<1>0. Target(r) \in Users /\ past.opened \subseteq Users
  BY TargetType DEF TypeOK, Past
<1> DEFINE opened == past'.opened
<1>1. SUFFICES ASSUME NEW u \in opened
               PROVE  user'[u].by # "none" /\ ~user'[u].locked /\ ~RelockUnderWay(u)'
  BY DEF Openings, Exists
<1>2. CASE Enable(r) \/ Reset(r)
  <2>1. opened = Unlocked(Target(r)) /\ Exists(Target(r))
    BY <1>2 DEF Enable, Reset, ResetBy, TypeOK, Past, Same
  <2>2. u \in Users /\ user[u] \in Rows
    BY <1>0, <2>1 DEF Unlocked, TypeOK
  <2>3. CASE u = Target(r)
    <3>1. ~RelockUnderWay(u)
      BY <2>1, <2>3 DEF Unlocked
    <3>2. \/ user'[u] = [user[u] EXCEPT !.active = TRUE, !.locked = FALSE]
          \/ user'[u] = AfterReset(r, user[u], Seen(r))
      BY <1>0, <1>2, <2>3 DEF Enable, Reset, ResetBy, Write, TypeOK
    <3>3. user'[u].by = user[u].by /\ ~user'[u].locked
      BY <2>2, <3>2 DEF AfterReset, Rows
    <3>4. ~RelockUnderWay(u)'
      <4>1. \A q \in Requests \ {r} : req'[q] = req[q]
        BY StepMoves
      <4>2. req'[r].pc = "audit"
        BY <1>2 DEF Enable, Reset, ResetBy, End, TypeOK, Nothing
      <4> QED
        BY <3>1, <4>1, <4>2 DEF RelockUnderWay, Doing, At, Target, Seen
    <3> QED
      BY <2>1, <2>3, <3>3, <3>4 DEF Exists
  <2>4. CASE u # Target(r)
    <3>1. u \in past.opened
      BY <2>1, <2>4 DEF Unlocked
    <3>2. user'[u] = user[u]
      BY <1>2, <2>2, <2>4 DEF Enable, Reset, ResetBy, Write, TypeOK
    <3> QED
      BY <2>2, <3>1, <3>2, RelockStep DEF Openings, Exists
  <2> QED
    BY <2>3, <2>4
<1>3. CASE ~(Enable(r) \/ Reset(r))
  <2>1. opened \subseteq past.opened
    BY <1>3, StepHistory
  <2>2. /\ u \in Users /\ u \in past.opened /\ user[u] \in Rows
        /\ Exists(u) /\ ~user[u].locked /\ ~RelockUnderWay(u)
    BY <1>0, <2>1 DEF Openings, TypeOK
  <2>3. ~RelockUnderWay(u)'
    BY <2>2, RelockStep
  <2>4. user'[u].by # "none"
    <3>1. ~(Delete(r) /\ u = Target(r))
      BY ZenonT(40) DEF Delete, TypeOK, Past
    <3> QED
      BY <1>3, <2>2, <3>1, StepRows DEF Flagged, Exists
  <2>5. ~user'[u].locked
    <3>1. CASE Disable(r) /\ u = Target(r)
      <4>1. ~Seen(r).locked
        BY <2>2, <3>1 DEF Disable, RelockUnderWay
      <4> QED
        BY <2>2, <3>1, <4>1 DEF Disable, Write, TypeOK, Rows
    <3>2. CASE ~(Disable(r) /\ u = Target(r))
      <4>1. CASE Insert(r) \/ Delete(r) \/ Assign(r) \/ Disable(r)
        BY <1>0, <2>2, <3>2, <4>1 DEF Insert, Delete, Assign, Disable, Write, TypeOK, Rows, Absent
      <4>2. CASE CrmSuspend(r) \/ CrmUnsuspend(r)
        BY <2>2, <4>2 DEF CrmSuspend, CrmUnsuspend, Rows
      <4>3. CASE \/ TenantRead(r) \/ RowRead(r) \/ SystemRoleRead(r) \/ Update(r) \/ ForceLogout(r)
                 \/ RevokeSession(r) \/ TenantStep(r) \/ CrmRollback(r) \/ Compensate(r)
                 \/ Record(r) \/ Fail(r)
        BY <2>2, <4>3 DEF TenantRead, RowRead, SystemRoleRead, Update, ForceLogout, RevokeSession,
                TenantStep, Conflict, PlatformWrite, PlatformOnly, Edit, SoftDelete, Restore, CrmRollback, Compensate, Record, Fail, rows
      <4> QED
        BY <1>3, <4>1, <4>2, <4>3 DEF Step, TenantStep
    <3> QED
      BY <3>1, <3>2
  <2> QED
    BY <2>3, <2>4, <2>5
<1> QED
  BY <1>2, <1>3

LEMMA OpeningsCrm ==
  ASSUME TypeOK, Openings, NEW v \in Users, CrmLogin(v) \/ CrmLock(v)
  PROVE  Openings'
<1>1. req' = req
  BY CrmFrame
<1>2. CASE CrmLogin(v)
  BY <1>1, <1>2 DEF CrmLogin, Openings, Exists, RelockUnderWay, Doing, At, Target, Seen
<1>3. CASE CrmLock(v)
  <2>1. past'.opened = past.opened \ {v} /\ \A u \in Users \ {v} : user'[u] = user[u]
    BY <1>3 DEF CrmLock, TypeOK, Past
  <2>2. past.opened \subseteq Users
    BY DEF TypeOK, Past
  <2> QED
    BY <1>1, <2>1, <2>2 DEF Openings, Exists, RelockUnderWay, Doing, At, Target, Seen
<1> QED
  BY <1>2, <1>3

-----------------------------------------------------------------------------
(* Passwords.                                                              *)

\* What a step does to the history of the passwords.
LEMMA StepReplaced ==
  ASSUME TypeOK, NEW r \in Requests, Step(r), NEW u \in Users
  PROVE  \/ past'.replaced[u] = past.replaced[u]
         \/ u = Target(r) /\ (Insert(r) \/ Delete(r)) /\ past'.replaced[u] = {}
         \/ u = Target(r) /\ Reset(r) /\ past'.replaced[u] = past.replaced[u] \cup {user[u].password}
<1>1. past.replaced \in [Users -> SUBSET Passwords] /\ Target(r) \in Users
  BY TargetType DEF TypeOK, Past
<1> QED
  BY <1>1, StepHistory

\* A reset that finds another one under way is remembered.
LEMMA ResetRaces ==
  ASSUME TypeOK, NEW r \in Requests, Reset(r), ResetUnderWay(r)
  PROVE  r \in past'.raced
<1> DEFINE raced == past.raced \cup {r}
<1>1. past' = [past EXCEPT !.replaced[Target(r)] = past.replaced[Target(r)] \cup {user[Target(r)].password},
                           !.raced = raced, !.opened = Unlocked(Target(r))]
  BY DEF Reset, ResetBy
<1>2. r \in raced
  OBVIOUS
<1> HIDE DEF raced
<1> QED
  BY <1>1, <1>2 DEF TypeOK, Past

LEMMA HistoryStep ==
  ASSUME TypeOK, Histories, NEW r \in Requests, Step(r)
  PROVE  HistoryKeepsReplaced'
<1>1. SUFFICES ASSUME NEW u \in Users, user'[u].by # "none"
               PROVE  past'.replaced[u] \subseteq user'[u].history \cup past'.raced
  BY DEF HistoryKeepsReplaced, Exists
<1>2. /\ user[u] \in Rows
      /\ Exists(u) => past.replaced[u] \subseteq user[u].history \cup past.raced
  BY DEF TypeOK, Histories, HistoryKeepsReplaced
<1>3. past.raced \subseteq past'.raced
  BY StepHistory
<1>4. CASE Reset(r) /\ u = Target(r)
  <2>1. /\ past'.replaced[u] \subseteq past.replaced[u] \cup {user[u].password}
        /\ user'[u] = AfterReset(r, user[u], Seen(r))
    <3>1. Target(r) \in Users
      BY TargetType
    <3>2. user'[u] = AfterReset(r, user[u], Seen(r))
      BY <1>4, <3>1 DEF Reset, ResetBy, Write, TypeOK
    <3> QED
      BY <1>4, <3>2, StepReplaced DEF Insert, Delete, Reset, ResetBy, Doing
  <2>2. user'[u].history = Seen(r).history \cup {Seen(r).password}
    BY <1>2, <2>1 DEF AfterReset, Rows
  <2>3. /\ past.replaced[u] \subseteq Seen(r).history \cup {Seen(r).password} \cup past.raced
        /\ user[u].password \in {Seen(r).password} \cup past.raced
    BY <1>4 DEF Histories, ResetsRead, Reset, ResetBy
  <2> QED
    BY <1>3, <2>1, <2>2, <2>3
<1>5. CASE Insert(r) /\ u = Target(r)
  <2>1. past'.replaced[u] = {}
    BY <1>5 DEF Insert, TypeOK, Past
  <2> QED
    BY <2>1
<1>6. CASE Delete(r) /\ u = Target(r)
  BY <1>1, <1>6, <1>2 DEF Delete, Write, Absent, TypeOK
<1>7. CASE ~(u = Target(r) /\ (Reset(r) \/ Insert(r) \/ Delete(r)))
  <2>1. past'.replaced[u] = past.replaced[u]
    BY <1>7, StepReplaced
  <2>2. Exists(u) /\ user'[u].history = user[u].history
    BY <1>1, <1>7, StepRows DEF Flagged, Exists, Absent
  <2> QED
    BY <1>2, <1>3, <2>1, <2>2
<1> QED
  BY <1>4, <1>5, <1>6, <1>7

LEMMA ResetsReadStep ==
  ASSUME TypeOK, Handlers, Histories, NEW r \in Requests, Step(r)
  PROVE  ResetsRead'
<1>1. Moves(r) /\ \A q \in Requests \ {r} : req'[q] = req[q]
  BY StepMoves
<1>2. SUFFICES ASSUME NEW q \in Requests, Doing(q, "reset")', Same(q)'
               PROVE  /\ past'.replaced[req'[q].user] \subseteq
                            req'[q].seen.history \cup {req'[q].seen.password} \cup past'.raced
                      /\ user'[req'[q].user].password \in {req'[q].seen.password} \cup past'.raced
  BY DEF ResetsRead, Target, Seen
<1>3. /\ req'[q].pc = "write" /\ req'[q].kind = "reset"
      /\ user'[req'[q].user].by # "none" /\ user'[req'[q].user].by = req'[q].seen.by
  BY <1>2 DEF Doing, At, Same, Exists, Target, Seen
<1>4. past.raced \subseteq past'.raced
  BY StepHistory
<1>5. CASE q = r
  <2>1. /\ RowRead(r) /\ req'[r].user = Target(r) /\ req'[r].seen = user[Target(r)]
        /\ Exists(Target(r))
    <3>1. At(r, "row") /\ req'[r].user = Target(r) /\ req'[r].seen = user[Target(r)] /\ Exists(Target(r))
      BY <1>1, <1>3, <1>5 DEF Moves, Begins, GoesTo, Ends, Ended, Target
    <3>2. RowRead(r)
      <4>1. ~Record(r) /\ ~Fail(r)
        BY <1>3, <1>5 DEF Record, Fail, End, TypeOK, Nothing
      <4> QED
        BY <3>1, <4>1 DEF Step, TenantRead, Insert, SystemRoleRead, Assign, Update, Enable, Disable, Reset,
              ResetBy, ForceLogout, Delete, RevokeSession, TenantStep, Conflict, PlatformWrite, PlatformOnly, Edit, SoftDelete, Restore, CrmSuspend, CrmUnsuspend,
              CrmRollback, Compensate, Doing, At
    <3> QED
      BY <3>1, <3>2
  <2>2. UNCHANGED <<user, past>>
    BY <2>1 DEF RowRead, rows
  <2>3. past.replaced[Target(r)] \subseteq user[Target(r)].history \cup past.raced
    BY <2>1, TargetType DEF Histories, HistoryKeepsReplaced
  <2> QED
    BY <1>5, <2>1, <2>2, <2>3
<1>6. CASE q # r
  <2> DEFINE u == Target(q)
  <2>1. /\ req'[q] = req[q] /\ u \in Users /\ user[u] \in Rows
        /\ Doing(q, "reset")
    BY <1>1, <1>3, <1>6, TargetType DEF Doing, At
  <2>2. ~(Insert(r) /\ u = Target(r)) /\ ~(Delete(r) /\ u = Target(r))
    <3>1. CASE Insert(r) /\ u = Target(r)
      <4>1. user'[u].by = r
        BY <2>1, <3>1 DEF Insert, Write, TypeOK
      <4>2. Seen(q).by # r
        BY <3>1 DEF Handlers, Fresh, Insert, Doing, At
      <4> QED
        BY <1>3, <2>1, <4>1, <4>2 DEF Target, Seen
    <3>2. CASE Delete(r) /\ u = Target(r)
      BY <1>3, <2>1, <3>2 DEF Delete, Write, TypeOK, Absent, Target
    <3> QED
      BY <3>1, <3>2
  <2>3. \/ user'[u] = user[u] \/ Flagged(u)
        \/ Reset(r) /\ u = Target(r) /\ Exists(u) /\ user'[u] = AfterReset(r, user[u], Seen(r))
    <3>1. user'[u].by # "none"
      BY <1>3, <2>1 DEF Target
    <3> QED
      BY <2>1, <2>2, <3>1, StepRows DEF Absent
  <2>4. /\ AfterReset(r, user[u], Seen(r)).by = user[u].by
        /\ AfterReset(r, user[u], Seen(r)).password = r
    BY <2>1 DEF AfterReset, Rows
  <2>5. Same(q)
    BY <1>3, <2>1, <2>3, <2>4 DEF Flagged, Same, Exists, Target, Seen
  <2>6. /\ past.replaced[u] \subseteq Seen(q).history \cup {Seen(q).password} \cup past.raced
        /\ user[u].password \in {Seen(q).password} \cup past.raced
    BY <2>1, <2>5 DEF Histories, ResetsRead
  <2>7. CASE Reset(r) /\ u = Target(r)
    <3>1. ResetUnderWay(r)
      BY <1>6, <2>1, <2>7 DEF ResetUnderWay
    <3>2. r \in past'.raced
      BY <2>7, <3>1, ResetRaces
    <3>3. past'.replaced[u] \subseteq past.replaced[u] \cup {user[u].password}
      BY <2>1, <2>2, StepReplaced
    <3>4. user'[u].password = r
      BY <2>4, <2>7, TargetType DEF Reset, ResetBy, Write, TypeOK
    <3> QED
      BY <1>4, <2>1, <2>6, <3>2, <3>3, <3>4 DEF Target, Seen
  <2>8. CASE ~(Reset(r) /\ u = Target(r))
    <3>1. user'[u].password = user[u].password
      BY <2>3, <2>8 DEF Flagged
    <3>2. past'.replaced[u] = past.replaced[u]
      BY <2>1, <2>2, <2>8, StepReplaced
    <3> QED
      BY <1>4, <2>1, <2>6, <3>1, <3>2 DEF Target, Seen
  <2> QED
    BY <2>7, <2>8
<1> QED
  BY <1>5, <1>6

LEMMA HistoriesCrm ==
  ASSUME TypeOK, Histories, NEW v \in Users, CrmLogin(v) \/ CrmLock(v)
  PROVE  Histories'
<1>1. req' = req
  BY CrmFrame
<1>2. \A u \in Users : /\ user'[u].by = user[u].by /\ user'[u].history = user[u].history
                      /\ user'[u].password = user[u].password
  BY CrmFrame DEF Flagged
<1>3. past'.replaced = past.replaced /\ past'.raced = past.raced
  BY DEF CrmLogin, CrmLock, TypeOK, Past
<1>4. \A r \in Requests : Target(r) \in Users
  BY TargetType
<1> QED
  BY <1>1, <1>2, <1>3, <1>4 DEF Histories, HistoryKeepsReplaced, ResetsRead, Exists, Same, Doing, At, Target, Seen

-----------------------------------------------------------------------------
(* Users without a role.                                                   *)

LEMMA RolelessStep ==
  ASSUME TypeOK, Handlers, NoRolelessUser, NEW r \in Requests, Step(r)
  PROVE  NoRolelessUser'
<1>1. Moves(r) /\ \A q \in Requests \ {r} : req'[q] = req[q]
  BY StepMoves
<1>2. SUFFICES ASSUME NEW u \in Users, user'[u].by # "none", ~user'[u].assigned, systemRole'
               PROVE  \E q \in Requests : user'[u].by = q /\ req'[q].pc \in {"role", "assign", "failed"}
  BY DEF NoRolelessUser, Exists
<1>3. UNCHANGED systemRole
  BY DEF Step, TenantRead, RowRead, Insert, SystemRoleRead, Assign, Update, Enable, Disable, Reset, ResetBy,
         ForceLogout, Delete, RevokeSession, TenantStep, Conflict, PlatformWrite, PlatformOnly, Edit, SoftDelete, Restore, CrmSuspend, CrmUnsuspend, CrmRollback,
         Compensate, Record, Fail, rows
<1>4. CASE Insert(r) /\ u = Target(r)
  <2>1. user'[u].by = r
    BY <1>4 DEF Insert, Write, TypeOK
  <2>2. req'[r].pc = "role"
    BY <1>4, GotoEffect, PCs DEF Insert, GoesTo
  <2> QED
    BY <2>1, <2>2
<1>5. CASE ~(Insert(r) /\ u = Target(r))
  <2>1. user[u] \in Rows
    BY DEF TypeOK
  <2>2. /\ AfterReset(r, user[u], Seen(r)).by = user[u].by
        /\ AfterReset(r, user[u], Seen(r)).assigned = user[u].assigned
    BY <2>1 DEF AfterReset, Rows
  <2>3. user'[u].by = user[u].by /\ ~user[u].assigned
    BY <1>2, <1>5, <2>2, StepRows DEF Flagged, Absent
  <2>4. PICK q \in Requests : user[u].by = q /\ req[q].pc \in {"role", "assign", "failed"}
    BY <1>2, <1>3, <2>3 DEF NoRolelessUser, Exists
  <2>5. CASE q # r
    BY <1>1, <2>3, <2>4, <2>5
  <2>6. CASE q = r
    <3>1. req[r].pc \in {"role", "assign"}
      <4>1. req[r].pc # "failed"
        BY <1>1 DEF Moves, Begins, At, Doing, Ended
      <4> QED
        BY <2>4, <2>6, <4>1
    <3>2. Target(r) = u
      BY <2>4, <2>6, <3>1 DEF Handlers, Owners
    <3>3. CASE SystemRoleRead(r)
      <4>1. Goto(r, "assign")
        BY <1>2, <1>3, <3>3 DEF SystemRoleRead
      <4> QED
        BY <2>3, <2>4, <2>6, <4>1, GotoEffect, PCs DEF GoesTo
    <3>4. CASE Assign(r)
      BY <1>2, <2>1, <3>2, <3>4 DEF Assign, Write, TypeOK, Rows
    <3>5. CASE Fail(r)
      <4>1. req'[r].pc = "failed"
        BY <3>5 DEF Fail, End, TypeOK, Nothing
      <4> QED
        BY <2>3, <2>4, <2>6, <4>1
    <3> QED
      BY <3>1, <3>3, <3>4, <3>5 DEF Step, TenantRead, RowRead, Insert, Update, Enable, Disable, Reset, ResetBy,
         ForceLogout, Delete, RevokeSession, TenantStep, Conflict, PlatformWrite, PlatformOnly, Edit, SoftDelete, Restore, CrmSuspend, CrmUnsuspend, CrmRollback,
         Compensate, Record, Doing, At
  <2> QED
    BY <2>5, <2>6
<1> QED
  BY <1>4, <1>5

LEMMA RolelessCrm ==
  ASSUME TypeOK, NoRolelessUser, NEW v \in Users, CrmLogin(v) \/ CrmLock(v)
  PROVE  NoRolelessUser'
<1>1. req' = req /\ systemRole' = systemRole
  BY CrmFrame
<1>2. \A u \in Users : user[u].assigned => user'[u].assigned
  BY CrmFrame DEF Flagged
<1>3. \A u \in Users : user'[u].by = user[u].by
  BY CrmFrame DEF Flagged
<1> QED
  BY <1>1, <1>2, <1>3 DEF NoRolelessUser, Exists

-----------------------------------------------------------------------------
(* The two statuses.                                                       *)

\* past.crossed is never taken back, and only these steps write a status or
\* say that the two are apart.
LEMMA StepStatus ==
  ASSUME TypeOK, NEW r \in Requests, Step(r)
  PROVE  /\ past.crossed => past'.crossed
         /\ \/ PlatformWrite(r) \/ Edit(r) \/ SoftDelete(r) \/ Restore(r)
            \/ CrmSuspend(r) \/ CrmUnsuspend(r) \/ Compensate(r)
            \/ UNCHANGED <<status, org>> /\ past'.apart = past.apart
<1>1. CASE TenantStep(r)
  <2>1. \/ PlatformWrite(r) \/ Edit(r) \/ SoftDelete(r) \/ Restore(r)
        \/ UNCHANGED <<status, org, past>>
    BY <1>1 DEF TenantStep, Conflict, rows
  <2>2. \/ past' = past
        \/ past' = [past EXCEPT !.crossed = CrossedNow]
        \/ past' = [past EXCEPT !.apart = TRUE, !.crossed = CrossedNow]
    BY <1>1 DEF TenantStep, Conflict, PlatformWrite, Edit, SoftDelete, Restore, PlatformOnly
  <2>3. past.crossed => past'.crossed
    BY <2>2 DEF CrossedNow, TypeOK, Past
  <2> QED
    BY <2>1, <2>3
<1>2. CASE CrmSuspend(r) \/ CrmUnsuspend(r) \/ Compensate(r)
  BY <1>2 DEF CrmSuspend, CrmUnsuspend, Compensate, TypeOK, Past
<1>3. CASE Fail(r)
  BY <1>3 DEF Fail, TypeOK, Past, rows
<1>4. CASE Insert(r) \/ Delete(r) \/ Reset(r) \/ Enable(r)
  BY <1>4 DEF Insert, Delete, Reset, ResetBy, Enable, TypeOK, Past
<1>5. CASE \/ TenantRead(r) \/ RowRead(r) \/ SystemRoleRead(r) \/ Assign(r) \/ Update(r) \/ Disable(r)
           \/ ForceLogout(r) \/ RevokeSession(r) \/ CrmRollback(r) \/ Record(r)
  <2>1. UNCHANGED <<status, org, past>>
    BY <1>5 DEF TenantRead, RowRead, SystemRoleRead, Assign, Update, Disable, ForceLogout, RevokeSession,
                CrmRollback, Record, rows
  <2> QED
    BY <2>1
<1> QED
  BY <1>1, <1>2, <1>3, <1>4, <1>5 DEF Step, TenantStep

\* A handler that begins with the tenant has read the status that is there.
LEMMA ReadsStatus ==
  ASSUME TypeOK, NEW r \in Requests, TenantRead(r), At(r, "platform")', req'[r].kind \in CrmKinds
  PROVE  /\ req'[r].tenant = status
         /\ req'[r].kind = "unsuspend" <=> status.status = "SUSPENDED"
<1>1. ~End(r, "refused")
  BY EndEffect DEF Ends, Last, Ended, At
<1>2. PICK kind \in Kinds \ {"none"}, u \in Users :
        /\ Admits(kind)
        /\ req' = [req EXCEPT ![r] = [pc |-> IF kind \in TenantKinds THEN "platform" ELSE "row",
                                      kind |-> kind, user |-> u, seen |-> Absent,
                                      tenant |-> IF kind \in TenantKinds THEN status ELSE NewTenant]]
  BY <1>1 DEF TenantRead
<1>3. req'[r].kind = kind /\ req'[r].tenant = IF kind \in TenantKinds THEN status ELSE NewTenant
  BY <1>2 DEF TypeOK
<1> QED
  BY <1>2, <1>3 DEF Admits, CrmKinds, TenantKinds

\* A step that writes neither status, of a handler that is not between them.
LEMMA StatusesKept ==
  ASSUME StatusesHold, NEW r \in Requests, \A q \in Requests \ {r} : req'[q] = req[q],
         UNCHANGED <<status, org>>, past'.apart = past.apart,
         ~Between(r), ~Between(r)', req'[r].pc # "platform"
  PROVE  StatusesHold'
<1>1. \A q \in Requests : Between(q)' <=> Between(q)
  BY DEF Between
<1>2. \A q \in Requests : Between(q) \/ At(q, "platform")' => req'[q] = req[q]
  BY DEF At
<1>3. OneBetween' /\ Agreed' /\ HalfWay'
  BY <1>1, <1>2 DEF StatusesHold, OneBetween, Agreed, HalfWay
<1>4. StatusRead'
  BY <1>1, <1>2 DEF StatusesHold, StatusRead, Current, At
<1> QED
  BY <1>3, <1>4 DEF StatusesHold

\* The platform's row gets a new version, and no handler has read that one.
LEMMA VersionMoves ==
  ASSUME TypeOK, StatusesHold, NEW r \in Requests, \A q \in Requests \ {r} : req'[q] = req[q],
         status'.version = status.version + 1, req'[r].pc # "platform"
  PROVE  StatusRead'
<1>1. status.version \in Nat
  BY DEF TypeOK, TenantRow
<1> SUFFICES ASSUME NEW q \in Requests, At(q, "platform")', req'[q].kind \in CrmKinds
             PROVE  /\ req'[q].tenant.version \in Nat /\ req'[q].tenant.version <= status'.version
                    /\ req'[q].kind = "unsuspend" <=> req'[q].tenant.status = "SUSPENDED"
                    /\ status'.version # req'[q].tenant.version
  BY DEF StatusRead, Current
<1>2. req'[q] = req[q] /\ At(q, "platform")
  BY DEF At
<1> QED
  BY <1>1, <1>2 DEF StatusesHold, StatusRead

LEMMA PlatformWriteStatuses ==
  ASSUME TypeOK, StatusesHold, NEW r \in Requests, \A q \in Requests \ {r} : req'[q] = req[q],
         PlatformWrite(r), ~past'.crossed
  PROVE  StatusesHold'
<1>1. \A q \in Requests : ~Between(q)
  BY DEF PlatformWrite, CrossedNow, TypeOK, Past
<1>2. req'[r].pc = "crm" /\ req'[r].kind = req[r].kind /\ req[r].kind \in CrmKinds
  BY GotoEffect, PCs DEF PlatformWrite, GoesTo
<1>3. Between(r)' /\ \A q \in Requests \ {r} : ~Between(q)'
  BY <1>1, <1>2 DEF Between
<1>4. /\ status'.status = NewStatus(req[r].kind) /\ status'.version = status.version + 1
      /\ org' = org /\ past'.apart = past.apart
  BY DEF PlatformWrite, TypeOK, Past, TenantRow
<1>5. past.apart \/ (org = "Suspended" <=> req[r].kind = "unsuspend")
  <2>1. /\ req[r].kind = "unsuspend" <=> req[r].tenant.status = "SUSPENDED"
        /\ req[r].tenant.status = status.status \/ past.apart
    BY <1>2 DEF StatusesHold, StatusRead, PlatformWrite
  <2> QED
    BY <1>1, <2>1 DEF StatusesHold, Agreed
<1>6. OneBetween' /\ Agreed' /\ HalfWay'
  BY <1>2, <1>3, <1>4, <1>5 DEF OneBetween, Agreed, HalfWay
<1>7. StatusRead'
  BY <1>2, <1>4, VersionMoves
<1> QED
  BY <1>6, <1>7 DEF StatusesHold

\* update, remove and restore: the CRM's status stays behind.
LEMMA PlatformOnlyStatuses ==
  ASSUME TypeOK, StatusesHold, NEW r \in Requests, \A q \in Requests \ {r} : req'[q] = req[q],
         NEW row, PlatformOnly(r, row), At(r, "platform"), ~past'.crossed,
         row.version = status.version \/ row.version = status.version + 1
  PROVE  StatusesHold'
<1>1. req'[r].pc = "audit" /\ status' = row /\ org' = org
  BY EndEffect DEF PlatformOnly, End, TypeOK, Nothing
<1>2. ~Between(r) /\ ~Between(r)' /\ req'[r].pc # "platform"
  BY <1>1 DEF Between, At
<1>3. CASE row.status = status.status
  <2>1. past' = past
    BY <1>3 DEF PlatformOnly
  <2>2. \A q \in Requests : (Between(q)' <=> Between(q)) /\ (Between(q) \/ At(q, "platform")' => req'[q] = req[q])
    BY <1>2 DEF Between, At
  <2>3. OneBetween' /\ Agreed' /\ HalfWay'
    BY <1>1, <1>3, <2>1, <2>2 DEF StatusesHold, OneBetween, Agreed, HalfWay
  <2>4. ASSUME row.version = status.version PROVE StatusRead'
    <3>1. status'.version = status.version /\ status'.status = status.status
      BY <1>1, <1>3, <2>4
    <3>2. \A q \in Requests : At(q, "platform")' => At(q, "platform") /\ req'[q] = req[q]
      BY <2>2 DEF At
    <3> QED
      BY <2>1, <2>2, <3>1, <3>2 DEF StatusesHold, StatusRead, Current
  <2>5. ASSUME row.version = status.version + 1 PROVE StatusRead'
    <3>1. status'.version = status.version + 1
      BY <1>1, <2>5
    <3> QED
      BY <1>2, <3>1, VersionMoves
  <2>6. StatusRead'
    BY <2>4, <2>5
  <2> QED
    BY <2>3, <2>6 DEF StatusesHold
<1>4. CASE row.status # status.status
  <2>1. past'.apart /\ \A q \in Requests : ~Between(q)
    BY <1>4 DEF PlatformOnly, CrossedNow, TypeOK, Past
  <2>2. \A q \in Requests : ~Between(q)' /\ (At(q, "platform")' => req'[q] = req[q])
    BY <1>2, <2>1 DEF Between, At
  <2>3. OneBetween' /\ Agreed' /\ HalfWay'
    BY <2>1, <2>2 DEF OneBetween, Agreed, HalfWay
  <2>4. ASSUME row.version = status.version PROVE StatusRead'
    <3>1. status'.version = status.version
      BY <1>1, <2>4
    <3>2. \A q \in Requests : At(q, "platform")' => At(q, "platform") /\ req'[q] = req[q]
      BY <2>2 DEF At
    <3> QED
      BY <2>1, <2>2, <3>1, <3>2 DEF StatusesHold, StatusRead, Current
  <2>5. ASSUME row.version = status.version + 1 PROVE StatusRead'
    <3>1. status'.version = status.version + 1
      BY <1>1, <2>5
    <3> QED
      BY <1>2, <3>1, VersionMoves
  <2>6. StatusRead'
    BY <2>4, <2>5
  <2> QED
    BY <2>3, <2>6 DEF StatusesHold
<1> QED
  BY <1>3, <1>4

LEMMA CrmCommitStatuses ==
  ASSUME TypeOK, StatusesHold, NEW r \in Requests, \A q \in Requests \ {r} : req'[q] = req[q],
         CrmSuspend(r) \/ CrmUnsuspend(r)
  PROVE  StatusesHold'
<1>1. /\ At(r, "crm") /\ End(r, "audit") /\ status' = status
      /\ \/ req[r].kind = "suspend" /\ org' = "Suspended"
         \/ req[r].kind = "unsuspend" /\ org' = "Active"
  BY DEF CrmSuspend, CrmUnsuspend
<1>2. ~past'.apart
  BY DEF CrmSuspend, CrmUnsuspend, TypeOK, Past
<1>3. req'[r].pc = "audit"
  BY <1>1 DEF End, TypeOK, Nothing
<1>4. Between(r) /\ \A q \in Requests : ~Between(q)'
  BY <1>1, <1>3 DEF StatusesHold, OneBetween, Between, At
<1>5. status'.status = NewStatus(req[r].kind)
  BY <1>1, <1>4 DEF StatusesHold, HalfWay
<1>6. OneBetween' /\ Agreed' /\ HalfWay'
  BY <1>1, <1>4, <1>5 DEF OneBetween, Agreed, HalfWay, NewStatus
<1>7. \A q \in Requests : At(q, "platform")' => req'[q] = req[q]
  BY <1>3 DEF At
<1>8. StatusRead'
  BY <1>1, <1>4, <1>7 DEF StatusesHold, StatusRead, Current, At
<1> QED
  BY <1>6, <1>8 DEF StatusesHold

LEMMA RollbackStatuses ==
  ASSUME TypeOK, StatusesHold, NEW r \in Requests, \A q \in Requests \ {r} : req'[q] = req[q], CrmRollback(r)
  PROVE  StatusesHold'
<1>1. UNCHANGED <<status, org, past>> /\ At(r, "crm")
  BY DEF CrmRollback, rows
<1>2. req'[r].pc = "compensate" /\ req'[r].kind = req[r].kind
  BY GotoEffect, PCs DEF CrmRollback, GoesTo
<1>3. \A q \in Requests : (Between(q)' <=> Between(q)) /\ req'[q].kind = req[q].kind
  BY <1>1, <1>2 DEF Between, At
<1>4. OneBetween' /\ Agreed' /\ HalfWay'
  BY <1>1, <1>3 DEF StatusesHold, OneBetween, Agreed, HalfWay
<1>5. \A q \in Requests : At(q, "platform")' => req'[q] = req[q]
  BY <1>2 DEF At
<1>6. StatusRead'
  BY <1>1, <1>3, <1>5 DEF StatusesHold, StatusRead, Current, At
<1> QED
  BY <1>4, <1>6 DEF StatusesHold

LEMMA CompensateStatuses ==
  ASSUME TypeOK, Positions, StatusesHold, NEW r \in Requests, \A q \in Requests \ {r} : req'[q] = req[q],
         Compensate(r)
  PROVE  StatusesHold'
<1>1. /\ At(r, "compensate") /\ End(r, "refused") /\ UNCHANGED <<org, past>>
      /\ req[r].kind \in {"suspend", "unsuspend"}
  BY DEF Compensate, Positions, At, CrmKinds
<1>2. /\ status'.status = IF req[r].kind = "suspend" THEN "ACTIVE" ELSE "SUSPENDED"
      /\ status'.version = status.version + 1
  BY DEF Compensate, TypeOK, TenantRow
<1>3. req'[r].pc = "refused"
  BY <1>1 DEF End, TypeOK, Nothing
<1>4. Between(r) /\ \A q \in Requests : ~Between(q)'
  BY <1>1, <1>3 DEF StatusesHold, OneBetween, Between, At
<1>5. past.apart \/ (org = "Suspended" <=> req[r].kind = "unsuspend")
  BY <1>4 DEF StatusesHold, HalfWay
<1>6. OneBetween' /\ Agreed' /\ HalfWay'
  BY <1>1, <1>2, <1>4, <1>5 DEF OneBetween, Agreed, HalfWay
<1>7. StatusRead'
  BY <1>2, <1>3, VersionMoves
<1> QED
  BY <1>6, <1>7 DEF StatusesHold

LEMMA ReadStatuses ==
  ASSUME TypeOK, StatusesHold, NEW r \in Requests, \A q \in Requests \ {r} : req'[q] = req[q], TenantRead(r),
         Moves(r)
  PROVE  StatusesHold'
<1>1. UNCHANGED <<status, org, past>> /\ At(r, "idle")
  BY DEF TenantRead, rows
<1>2. ~Between(r) /\ ~Between(r)'
  BY <1>1 DEF Moves, Begins, Ends, Last, Ended, Between, At, Doing
<1>3. \A q \in Requests : (Between(q)' <=> Between(q)) /\ (Between(q) => req'[q] = req[q])
  BY <1>2 DEF Between
<1>4. OneBetween' /\ Agreed' /\ HalfWay'
  BY <1>1, <1>3 DEF StatusesHold, OneBetween, Agreed, HalfWay
<1>5. ASSUME NEW q \in Requests, At(q, "platform")', req'[q].kind \in CrmKinds
      PROVE  /\ req'[q].tenant.version \in Nat /\ req'[q].tenant.version <= status.version
             /\ req'[q].kind = "unsuspend" <=> req'[q].tenant.status = "SUSPENDED"
             /\ status.version = req'[q].tenant.version =>
                  \/ req'[q].tenant.status = status.status
                  \/ past.apart /\ \A p \in Requests : ~Between(p)
  <2>1. CASE q = r
    BY <1>5, <2>1, ReadsStatus DEF TypeOK, TenantRow
  <2>2. CASE q # r
    BY <1>5, <2>2 DEF StatusesHold, StatusRead, Current, At
  <2> QED
    BY <2>1, <2>2
<1>6. StatusRead'
  BY <1>1, <1>3, <1>5 DEF StatusRead, Current
<1> QED
  BY <1>4, <1>6 DEF StatusesHold

LEMMA StatusesStep ==
  ASSUME TypeOK, Positions, Statuses, NEW r \in Requests, Step(r)
  PROVE  Statuses'
<1>1. SUFFICES ASSUME ~past'.crossed
               PROVE  StatusesHold'
  BY DEF Statuses
<1>2. StatusesHold
  BY <1>1, StepStatus DEF Statuses
<1>3. Moves(r) /\ \A q \in Requests \ {r} : req'[q] = req[q]
  BY StepMoves
<1>4. CASE TenantRead(r)
  BY <1>2, <1>3, <1>4, ReadStatuses
<1>5. CASE PlatformWrite(r)
  BY <1>1, <1>2, <1>3, <1>5, PlatformWriteStatuses
<1>6. CASE Edit(r) \/ SoftDelete(r) \/ Restore(r)
  <2>1. At(r, "platform")
    BY <1>6 DEF Edit, SoftDelete, Restore
  <2>2. PICK row : /\ PlatformOnly(r, row)
                   /\ row.version = status.version \/ row.version = status.version + 1
    <3>0. status \in TenantRow
      BY DEF TypeOK
    <3>1. CASE Edit(r)
      <4>1. PICK s \in Status : PlatformOnly(r, [status EXCEPT !.status = s, !.version = status.version + 1])
        BY <3>1 DEF Edit
      <4>2. [status EXCEPT !.status = s, !.version = status.version + 1].version = status.version + 1
        BY <3>0 DEF TenantRow
      <4> QED
        BY <4>1, <4>2
    <3>2. CASE SoftDelete(r)
      <4>1. [status EXCEPT !.status = "DELETED", !.deleted = TRUE].version = status.version
        BY <3>0 DEF TenantRow
      <4> QED
        BY <3>2, <4>1 DEF SoftDelete
    <3>3. CASE Restore(r)
      <4>1. [status EXCEPT !.status = "ACTIVE", !.deleted = FALSE].version = status.version
        BY <3>0 DEF TenantRow
      <4> QED
        BY <3>3, <4>1 DEF Restore
    <3> QED
      BY <1>6, <3>1, <3>2, <3>3
  <2> QED
    BY <1>1, <1>2, <1>3, <2>1, <2>2, PlatformOnlyStatuses
<1>7. CASE CrmSuspend(r) \/ CrmUnsuspend(r)
  BY <1>2, <1>3, <1>7, CrmCommitStatuses
<1>8. CASE CrmRollback(r)
  BY <1>2, <1>3, <1>8, RollbackStatuses
<1>9. CASE Compensate(r)
  BY <1>2, <1>3, <1>9, CompensateStatuses
<1>10. CASE ~(\/ TenantRead(r) \/ PlatformWrite(r) \/ Edit(r) \/ SoftDelete(r) \/ Restore(r)
              \/ CrmSuspend(r) \/ CrmUnsuspend(r) \/ CrmRollback(r) \/ Compensate(r))
  <2>1. UNCHANGED <<status, org>> /\ past'.apart = past.apart
    BY <1>10, StepStatus
  <2>2. ~Between(r)
    <3>1. CASE Fail(r)
      BY <1>1, <3>1 DEF Fail, Between, TypeOK, Past
    <3>2. CASE ~Fail(r)
      BY <1>10, <3>2 DEF Step, Conflict, RowRead, Insert, SystemRoleRead, Assign, Update, Enable, Disable, Reset,
         ResetBy, ForceLogout, Delete, RevokeSession, Record, Doing, At, Between
    <3> QED
      BY <3>1, <3>2
  <2>3. ~At(r, "idle")
    BY <1>10 DEF Step, Conflict, RowRead, Insert, SystemRoleRead, Assign, Update, Enable, Disable, Reset,
       ResetBy, ForceLogout, Delete, RevokeSession, Record, Fail, Running, Doing, At
  <2>4. ~At(r, "platform") \/ Ends(r)
    BY <1>10, EndEffect DEF Step, Conflict, RowRead, Insert, SystemRoleRead, Assign, Update, Enable, Disable, Reset,
       ResetBy, ForceLogout, Delete, RevokeSession, Record, Fail, Doing, At, Last, Ended
  <2>5. ~Between(r)' /\ req'[r].pc # "platform"
    BY <1>3, <2>2, <2>3, <2>4 DEF Moves, Begins, GoesTo, Ends, Last, Ended, At, Doing, Between
  <2> QED
    BY <1>2, <1>3, <2>1, <2>2, <2>5, StatusesKept
<1> QED
  BY <1>4, <1>5, <1>6, <1>7, <1>8, <1>9, <1>10

LEMMA StatusesCrm ==
  ASSUME TypeOK, Statuses, NEW v \in Users, CrmLogin(v) \/ CrmLock(v)
  PROVE  Statuses'
<1>1. req' = req /\ UNCHANGED <<status, org>>
  BY CrmFrame
<1>2. past'.crossed = past.crossed /\ past'.apart = past.apart
  BY DEF CrmLogin, CrmLock, TypeOK, Past
<1> QED
  BY <1>1, <1>2 DEF Statuses, StatusesHold, OneBetween, Agreed, HalfWay, StatusRead, Current, Between, At

-----------------------------------------------------------------------------
(* The theorems.                                                           *)

LEMMA Initially == Init => IInv
<1> SUFFICES ASSUME Init PROVE IInv
  OBVIOUS
<1>1. /\ \A r \in Requests : req[r].pc = "idle" /\ req[r].kind = "none" /\ req[r].seen = Absent
      /\ session = {} /\ org = "Active"
      /\ past.opened = {} /\ past.apart = (status.status # "ACTIVE")
      /\ \A u \in Users : /\ user[u] \in {Absent, Seeded} /\ past.replaced[u] = {}
  BY DEF Init, Nothing
<1>2. \A u \in Users : user[u].by \in {"none", "seed"} /\ (user[u].assigned \/ user[u].by = "none")
  <2>1. Absent.by = "none" /\ Seeded.by = "seed" /\ Seeded.assigned
    BY DEF Absent, Seeded
  <2> QED
    BY <1>1, <2>1
<1>3. Handlers
  BY <1>1, <1>2, RequestNames DEF Handlers, Positions, Fresh, Owners, Seen, Absent, Ended
<1>4. Accounts
  BY <1>1 DEF Accounts, SessionsHold, Grants, Openings
<1>5. Histories /\ NoRolelessUser
  BY <1>1, <1>2 DEF Histories, HistoryKeepsReplaced, ResetsRead, NoRolelessUser, Doing, At, Exists
<1>6. Statuses
  BY <1>1 DEF Statuses, StatusesHold, OneBetween, Agreed, HalfWay, StatusRead, Between, At
<1> QED
  BY <1>3, <1>4, <1>5, <1>6, TypeInit DEF IInv

LEMMA Inductive == IInv /\ [Next]_vars => IInv'
<1> SUFFICES ASSUME IInv, [Next]_vars PROVE IInv'
  OBVIOUS
<1>0. TypeOK'
  BY TypeStep DEF IInv
<1>1. ASSUME NEW r \in Requests, Step(r)
      PROVE  IInv'
  <2>1. Handlers'
    BY <1>1, PositionsStep, FreshStep, OwnersStep DEF IInv, Handlers
  <2>2. Accounts'
    BY <1>1, SessionsHoldStep, GrantsStep, OpeningsStep DEF IInv, Accounts
  <2>3. Histories'
    BY <1>1, HistoryStep, ResetsReadStep DEF IInv, Histories
  <2>4. NoRolelessUser' /\ Statuses'
    BY <1>1, RolelessStep, StatusesStep DEF IInv, Handlers
  <2> QED
    BY <1>0, <2>1, <2>2, <2>3, <2>4 DEF IInv
<1>2. ASSUME NEW v \in Users, CrmLogin(v) \/ CrmLock(v)
      PROVE  IInv'
  <2>1. Handlers' /\ Histories'
    BY <1>2, HandlersCrm, HistoriesCrm DEF IInv
  <2>2. Accounts'
    BY <1>2, SessionsHoldCrm, GrantsCrm, OpeningsCrm DEF IInv, Accounts
  <2>3. NoRolelessUser' /\ Statuses'
    BY <1>2, RolelessCrm, StatusesCrm DEF IInv
  <2> QED
    BY <1>0, <2>1, <2>2, <2>3 DEF IInv
<1>3. CASE UNCHANGED vars
  <2>1. UNCHANGED <<status, org, user, session, systemRole, req, past>>
    BY <1>3 DEF vars
  <2>2. Handlers'
    BY <2>1 DEF IInv, Handlers, Positions, Fresh, Owners, Seen, Target, At
  <2>3. Accounts'
    BY <2>1 DEF IInv, Accounts, SessionsHold, Grants, Openings, RelockUnderWay, Doing, At, Seen, Target, Exists
  <2>4. Histories'
    BY <2>1 DEF IInv, Histories, HistoryKeepsReplaced, ResetsRead, Doing, At, Same, Seen, Target, Exists
  <2>5. NoRolelessUser' /\ Statuses'
    BY <2>1 DEF IInv, NoRolelessUser, Statuses, StatusesHold, OneBetween, Agreed, HalfWay, StatusRead, Current,
       Between, At, Exists
  <2> QED
    BY <1>0, <2>2, <2>3, <2>4, <2>5 DEF IInv
<1> QED
  BY <1>1, <1>2, <1>3 DEF Next, AllServed

LEMMA Invariant == Spec => []IInv
  BY Initially, Inductive, PTL DEF Spec

\* A session whose passwordVersion the CRM accepts was begun with the password
\* that its user has now, whatever resets interleave (resetTenantUserPassword).
THEOREM ResetsEndOldTokens == Spec => []ResetEndsOldTokens
<1>1. IInv => ResetEndsOldTokens
  BY DEF IInv, Accounts, SessionsHold, ResetEndsOldTokens, Accepted
<1> QED
  BY <1>1, Invariant, PTL

\* In a suspended organization only those have a session who were created or
\* enabled since (suspend, createTenantUser, setTenantUserActive).
THEOREM SuspensionsEndSessions == Spec => []SuspensionEndsSessions
<1>1. IInv => SuspensionEndsSessions
  BY DEF IInv, Accounts, Grants, SuspensionEndsSessions
<1> QED
  BY <1>1, Invariant, PTL

\* An unlocked user stays unlocked until the CRM locks him, but for a disable
\* that had read the lock (setTenantUserActive).
THEOREM UnlocksHold == Spec => []UnlockHolds
<1>1. IInv => UnlockHolds
  BY DEF IInv, Accounts, Openings, UnlockHolds
<1> QED
  BY <1>1, Invariant, PTL

\* The history of passwords lacks only those of resets that overlapped another
\* (resetTenantUserPassword).
THEOREM HistoriesComplete == Spec => []HistoryKeepsReplaced
<1>1. IInv => HistoryKeepsReplaced
  BY DEF IInv, Histories
<1> QED
  BY <1>1, Invariant, PTL

\* Only a create that is under way or has failed leaves a user without his role
\* (createTenantUser).
THEOREM NoUserWithoutRole == Spec => []NoRolelessUser
<1>1. IInv => NoRolelessUser
  BY DEF IInv
<1> QED
  BY <1>1, Invariant, PTL

\* Where no suspend or unsuspend is between the two databases, they have one
\* status, however many race and fail in the CRM: but where update, remove,
\* restore or the creation was the last to set the platform's, or the status was
\* changed while one was between, or one died there (suspend, unsuspend).
THEOREM StatusesStayEqual == Spec => []StatusesAgree
<1>1. IInv => StatusesAgree
  BY DEF IInv, Statuses, StatusesHold, Agreed, StatusesAgree
<1> QED
  BY <1>1, Invariant, PTL
=============================================================================

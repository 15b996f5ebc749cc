------------------------ MODULE PlatformAuth_proofs ------------------------
(***************************************************************************)
(* Proofs about PlatformAuth: type correctness, that a password change     *)
(* ends the sessions opened before it, that rotation strands no session,   *)
(* that a closed session stays closed, and that a token issued under an    *)
(* earlier password is refused, for any number of requests.                *)
(***************************************************************************)
EXTENDS PlatformAuth, TLAPS

PasswordOps == {"changePassword", "resetPassword", "adminReset"}
FlagOps == {"suspend", "remove", "restore", "unsuspend", "unlock"}

\* What a handler's position says of its operation.
OpOf(r) ==
  /\ req[r].pc \in {"check", "session", "token"} => req[r].op = "login"
  /\ req[r].pc = "read" => req[r].op = "changePassword"
  /\ req[r].pc = "password" => req[r].op \in PasswordOps
  /\ req[r].pc = "flag" => req[r].op \in FlagOps

\* A handler that is still to make its session or token has not made it yet.
Unmade(r) ==
  /\ req[r].pc \in {"idle", "check", "session"} => session[r].state = "absent"
  /\ req[r].pc \in {"idle", "check", "session", "token", "recheck", "rotate", "issue"}
       => token[r].state = "absent"

\* A refresh works on a token that exists.
Presented(r) ==
  req[r].pc \in {"recheck", "rotate", "issue"} =>
    req[r].target \in Ids /\ token[req[r].target].state # "absent"

Locals == \A r \in Requests : OpOf(r) /\ Unmade(r) /\ Presented(r)

IInv == TypeOK /\ Locals /\ PasswordChangeEndsOldSessions /\ StrandedOnlyByRevocation

-----------------------------------------------------------------------------
(* Type correctness.                                                       *)

LEMMA IdsFacts == Requests \subseteq Ids /\ First \in Ids /\ None \notin Ids /\ First \notin Requests
  BY ConstantsAssumption DEF Ids

LEMMA UnlockedType ==
  ASSUME NEW a \in Account
  PROVE  Unlocked(a) \in Account
  BY DEF Unlocked, Account

LEMMA PasswordType ==
  ASSUME NEW a \in Account, NEW p \in Ids, NEW n \in Nat
  PROVE  [a EXCEPT !.password = p, !.version = n] \in Account
  BY DEF Account

LEMMA AttemptsType ==
  ASSUME NEW a \in Account, NEW n \in Nat, NEW l \in {"none", "running", "over"}
  PROVE  [a EXCEPT !.attempts = n, !.lock = l] \in Account
  BY DEF Account

\* A handler that moves on keeps its type.
LEMMA GotoType ==
  ASSUME TypeOK, NEW r \in Requests, NEW pc \in PC, Goto(r, pc)
  PROVE  req' \in [Requests -> Request]
  BY DEF TypeOK, Goto, Request

LEMMA RereadType ==
  ASSUME TypeOK, NEW r \in Requests, NEW pc \in PC, Reread(r, pc)
  PROVE  req' \in [Requests -> Request]
<1>1. [req[r] EXCEPT !.pc = pc, !.seen = account] \in Request
  BY DEF TypeOK, Request
<1> QED
  BY <1>1 DEF Reread, TypeOK

LEMMA BeginType ==
  ASSUME TypeOK, NEW r \in Requests, NEW op, NEW accepted, NEW pc \in PC,
         NEW right \in BOOLEAN, NEW target \in Ids \cup {None},
         Begin(r, op, accepted, pc, right, target)
  PROVE  TypeOK'
<1> DEFINE q == [pc |-> IF accepted THEN pc ELSE "done", op |-> op, right |-> right,
                 seen |-> account, target |-> IF accepted THEN target ELSE None, lost |-> FALSE]
<1>1. q \in Request
  BY DEF Begin, TypeOK, Request, PC
<1>2. req' = [req EXCEPT ![r] = q]
  BY DEF Begin
<1> HIDE DEF q
<1>3. req' \in [Requests -> Request]
  BY <1>1, <1>2 DEF TypeOK
<1> QED
  BY <1>3 DEF Begin, TypeOK, stores

LEMMA ClosedType ==
  ASSUME TypeOK, NEW S
  PROVE  Closed(S) \in [Ids -> Session]
  BY DEF TypeOK, Closed, Session

LEMMA RevokedType ==
  ASSUME TypeOK, NEW S, RevokeTokensOf(S)
  PROVE  token' \in [Ids -> Token]
  BY DEF TypeOK, RevokeTokensOf, Token

LEMMA TypeInit == Init => TypeOK
  BY IdsFacts, ConstantsAssumption, SMTT(30)
  DEF Init, TypeOK, Account, Session, Token, Access, Request, PC, NoSession, NoToken, NoAccess

LEMMA TypeStart ==
  ASSUME TypeOK, NEW r \in Requests, Start(r)
  PROVE  TypeOK'
<1>1. CASE LoginRead(r)
  BY <1>1, BeginType, IdsFacts DEF LoginRead, PC
<1>2. CASE RefreshRead(r)
  BY <1>2, BeginType DEF RefreshRead, PC
<1>3. CASE Guard(r)
  <2>1. PICK a \in Ids, op \in GuardedOps :
          Begin(r, op, Accepts(a), IF op = "logout" THEN "revoke" ELSE "read", TRUE, access[a].session)
    BY <1>3 DEF Guard
  <2>2. access[a].session \in Ids \cup {None}
    BY DEF TypeOK, Access
  <2> QED
    BY <2>1, <2>2, BeginType DEF PC
<1>4. CASE ResetRead(r)
  BY <1>4, BeginType, IdsFacts DEF ResetRead, PC
<1>5. CASE AdminRead(r)
  <2>1. PICK op \in AdminOps :
          Begin(r, op, account.deleted <=> op = "restore",
                CASE op = "forceLogout" -> "close" [] op = "adminReset" -> "password"
                  [] OTHER -> "flag", TRUE, None)
    BY <1>5 DEF AdminRead
  <2>2. (CASE op = "forceLogout" -> "close" [] op = "adminReset" -> "password"
           [] OTHER -> "flag") \in PC
    BY DEF PC
  <2> QED
    BY <2>1, <2>2, BeginType, IdsFacts
<1>6. CASE AdminFindSession(r)
  BY <1>6, BeginType DEF AdminFindSession, PC
<1> QED
  BY <1>1, <1>2, <1>3, <1>4, <1>5, <1>6 DEF Start

\* The write of a password by handler r.
LEMMA PasswordWriteType ==
  ASSUME TypeOK, NEW r \in Requests, PasswordWrite(r)
  PROVE  TypeOK'
<1> DEFINE new == [account EXCEPT !.password = r, !.version = req[r].seen.version + 1]
<1>0. req[r].seen.version + 1 \in Nat
  <2>1. req[r].seen \in Account
    BY DEF TypeOK, Request
  <2> QED
    BY <2>1 DEF Account
<1>1. new \in Account
  BY <1>0, IdsFacts, PasswordType DEF TypeOK
<1>2. account' \in {new, Unlocked(new)}
  BY DEF PasswordWrite
<1> HIDE DEF new
<1>3. account' \in Account
  BY <1>1, <1>2, UnlockedType
<1>4. req' \in [Requests -> Request]
  BY GotoType DEF PasswordWrite, PC
<1> QED
  BY <1>3, <1>4 DEF PasswordWrite, TypeOK

LEMMA FailureWriteType ==
  ASSUME TypeOK, NEW r \in Requests, FailureWrite(r)
  PROVE  TypeOK'
<1>0. req[r].seen.attempts + 1 \in Nat
  <2>1. req[r].seen \in Account
    BY DEF TypeOK, Request
  <2> QED
    BY <2>1 DEF Account
<1>1. account' \in Account
  <2>1. account.lock \in {"none", "running", "over"}
    BY DEF TypeOK, Account
  <2> QED
    BY <1>0, <2>1, AttemptsType DEF FailureWrite, TypeOK
<1>2. req' \in [Requests -> Request]
  BY GotoType DEF FailureWrite, Finish, PC
<1> QED
  BY <1>1, <1>2 DEF FailureWrite, TypeOK

LEMMA AdminWriteType ==
  ASSUME TypeOK, NEW r \in Requests, req[r].pc = "flag" => req[r].op \in FlagOps, AdminWrite(r)
  PROVE  TypeOK'
<1>1. account' \in Account
  <2>1. req[r].op \in FlagOps
    BY DEF AdminWrite, At
  <2>2. CASE req[r].op = "unlock"
    BY <2>2, UnlockedType DEF AdminWrite, TypeOK
  <2>3. CASE req[r].op # "unlock"
    BY <2>1, <2>3 DEF AdminWrite, FlagOps, TypeOK, Account
  <2> QED
    BY <2>2, <2>3
<1>2. req' \in [Requests -> Request]
  BY GotoType DEF AdminWrite, PC
<1> QED
  BY <1>1, <1>2 DEF AdminWrite, TypeOK

LEMMA RefreshIssueType ==
  ASSUME TypeOK, NEW r \in Requests, req[r].target \in Ids, RefreshIssue(r)
  PROVE  TypeOK'
<1>1. req' \in [Requests -> Request]
  BY GotoType DEF RefreshIssue, Finish, PC
<1>2. token' \in [Ids -> Token] /\ access' \in [Ids -> Access]
  BY IdsFacts DEF RefreshIssue, TypeOK, Token, Access, Account, Request
<1> QED
  BY <1>1, <1>2 DEF RefreshIssue, TypeOK

LEMMA TypeStep ==
  ASSUME TypeOK, Locals, NEW r \in Requests, Step(r)
  PROVE  TypeOK'
<1>a. OpOf(r) /\ Presented(r)
  BY DEF Locals
<1>1. CASE LoginCheck(r)
  BY <1>1, GotoType DEF LoginCheck, TypeOK, PC, stores
<1>2. CASE LoginSession(r)
  <2>1. session' \in [Ids -> Session]
    BY <1>2, IdsFacts DEF LoginSession, TypeOK, Session, Account
  <2> QED
    BY <1>2, <2>1, GotoType DEF LoginSession, TypeOK, PC
<1>3. CASE LoginToken(r)
  <2>1. token' \in [Ids -> Token]
    BY <1>3, IdsFacts DEF LoginToken, TypeOK, Token
  <2> QED
    BY <1>3, <2>1, GotoType DEF LoginToken, TypeOK, PC
<1>4. CASE LoginReset(r)
  <2>1. access' \in [Ids -> Access]
    BY <1>4, IdsFacts DEF LoginReset, TypeOK, Access, Request, Account
  <2> QED
    BY <1>4, <2>1, GotoType, UnlockedType DEF LoginReset, Finish, TypeOK, PC
<1>5. CASE FailureRead(r)
  BY <1>5, RereadType DEF FailureRead, TypeOK, PC, stores
<1>6. CASE FailureWrite(r)
  BY <1>6, FailureWriteType
<1>7. CASE RefreshRecheck(r)
  <2>1. req' \in [Requests -> Request]
    <3>1. CASE Finish(r)
      BY <3>1, GotoType DEF Finish, PC
    <3>2. CASE Reread(r, "rotate")
      BY <3>2, RereadType DEF PC
    <3> QED
      BY <1>7, <3>1, <3>2 DEF RefreshRecheck
  <2> QED
    BY <1>7, <2>1 DEF RefreshRecheck, TypeOK, stores
<1>8. CASE RefreshRotate(r)
  <2>1. token' \in [Ids -> Token]
    BY <1>8 DEF RefreshRotate, TypeOK, Token
  <2> QED
    BY <1>8, <2>1, GotoType DEF RefreshRotate, TypeOK, PC
<1>9. CASE RefreshIssue(r)
  BY <1>9, <1>a, RefreshIssueType DEF Presented, RefreshIssue, At
<1>10. CASE RevokeSession(r)
  BY <1>10, GotoType, ClosedType, RevokedType DEF RevokeSession, Finish, TypeOK, PC
<1>11. CASE ChangeRead(r)
  <2>1. req' \in [Requests -> Request]
    <3>1. CASE Finish(r)
      BY <3>1, GotoType DEF Finish, PC
    <3>2. CASE Reread(r, "password")
      BY <3>2, RereadType DEF PC
    <3> QED
      BY <1>11, <3>1, <3>2 DEF ChangeRead
  <2> QED
    BY <1>11, <2>1 DEF ChangeRead, TypeOK, stores
<1>12. CASE PasswordWrite(r)
  BY <1>12, PasswordWriteType
<1>13. CASE CloseSessions(r)
  BY <1>13, GotoType, ClosedType DEF CloseSessions, TypeOK, PC
<1>14. CASE RevokeTokens(r)
  BY <1>14, GotoType, RevokedType DEF RevokeTokens, Finish, TypeOK, PC
<1>15. CASE AdminWrite(r)
  BY <1>15, <1>a, AdminWriteType DEF OpOf
<1>16. CASE Abort(r)
  BY <1>16 DEF Abort, TypeOK, Request, stores
<1> QED
  BY <1>1, <1>2, <1>3, <1>4, <1>5, <1>6, <1>7, <1>8, <1>9, <1>10, <1>11, <1>12, <1>13, <1>14,
     <1>15, <1>16 DEF Step

LEMMA TypeNext ==
  ASSUME TypeOK, Locals, [Next]_vars
  PROVE  TypeOK'
<1>1. CASE \E r \in Requests : Start(r) \/ Step(r)
  BY <1>1, TypeStart, TypeStep
<1>2. CASE LockTimePasses
  BY <1>2 DEF LockTimePasses, TypeOK, Account
<1>3. CASE UNCHANGED vars
  BY <1>3 DEF vars, TypeOK
<1> QED
  BY <1>1, <1>2, <1>3 DEF Next, AllServed

-----------------------------------------------------------------------------
(* What a step of one handler leaves alone.                                *)

\* Handlers other than r stay as they are.
OthersStay(r) == \A q \in Requests \ {r} : req'[q] = req[q]

\* A token keeps its session, a closed session stays closed, and only r makes
\* the session and the token named after it.
RowsStay(r) ==
  /\ \A t \in Ids : token[t].state # "absent" =>
       token'[t].state # "absent" /\ token'[t].session = token[t].session
  /\ \A t \in Ids \ {r} : token[t].state = "absent" => token'[t].state = "absent"
  /\ \A s \in Ids \ {r} : session[s].state = "absent" => session'[s].state = "absent"
  /\ \A s \in Ids : session[s].state = "closed" => session'[s].state = "closed"

LEMMA StartStays ==
  ASSUME TypeOK, NEW r \in Requests, Start(r)
  PROVE  UNCHANGED stores /\ OthersStay(r) /\ RowsStay(r)
<1>1. \E op, accepted, pc, right, target : Begin(r, op, accepted, pc, right, target)
  BY DEF Start, LoginRead, RefreshRead, Guard, ResetRead, AdminRead, AdminFindSession
<1>2. UNCHANGED stores /\ OthersStay(r)
  BY <1>1 DEF Begin, OthersStay, TypeOK
<1> QED
  BY <1>2 DEF RowsStay, stores

LEMMA StepStays ==
  ASSUME TypeOK, Locals, NEW r \in Requests, Step(r)
  PROVE  OthersStay(r) /\ RowsStay(r)
<1>1. OthersStay(r)
  BY DEF Step, LoginCheck, LoginSession, LoginToken, LoginReset, FailureRead, FailureWrite,
     RefreshRecheck, RefreshRotate, RefreshIssue, RevokeSession, ChangeRead, PasswordWrite,
     CloseSessions, RevokeTokens, AdminWrite, Abort, Goto, Finish, Reread, OthersStay, TypeOK
<1>2. RowsStay(r)
  <2>a. Unmade(r) /\ Presented(r)
    BY DEF Locals
  <2>1. CASE LoginSession(r)
    BY <2>1, <2>a, IdsFacts DEF LoginSession, At, Unmade, RowsStay, TypeOK
  <2>2. CASE LoginToken(r)
    BY <2>2, <2>a, IdsFacts DEF LoginToken, At, Unmade, RowsStay, TypeOK
  <2>3. CASE RefreshRotate(r)
    BY <2>3, <2>a, IdsFacts DEF RefreshRotate, At, Presented, RowsStay, TypeOK, Token
  <2>4. CASE RefreshIssue(r)
    BY <2>4, <2>a, IdsFacts DEF RefreshIssue, At, Unmade, RowsStay, TypeOK
  <2>5. CASE RevokeSession(r)
    BY <2>5 DEF RevokeSession, Closed, RevokeTokensOf, RowsStay, TypeOK, Session, Token
  <2>6. CASE CloseSessions(r)
    BY <2>6 DEF CloseSessions, Closed, RowsStay, TypeOK, Session
  <2>7. CASE RevokeTokens(r)
    BY <2>7 DEF RevokeTokens, RevokeTokensOf, RowsStay, TypeOK, Token
  <2>8. CASE UNCHANGED <<session, token>>
    BY <2>8 DEF RowsStay
  <2> QED
    BY <2>1, <2>2, <2>3, <2>4, <2>5, <2>6, <2>7, <2>8
    DEF Step, LoginCheck, LoginReset, FailureRead, FailureWrite, RefreshRecheck, ChangeRead,
        PasswordWrite, AdminWrite, Abort, stores
<1> QED
  BY <1>1, <1>2

-----------------------------------------------------------------------------
(* Locals is inductive.                                                    *)

\* The handlers that do not step.
LEMMA LocalsOfOthers ==
  ASSUME TypeOK, Locals, NEW r \in Requests, OthersStay(r), RowsStay(r),
         NEW q \in Requests \ {r}
  PROVE  (OpOf(q) /\ Unmade(q) /\ Presented(q))'
<1>1. req'[q] = req[q] /\ q \in Ids /\ q # r
  BY IdsFacts DEF OthersStay
<1>2. OpOf(q)'
  BY <1>1 DEF Locals, OpOf
<1>3. Unmade(q)'
  BY <1>1 DEF Locals, Unmade, RowsStay
<1>4. Presented(q)'
  BY <1>1 DEF Locals, Presented, RowsStay
<1> QED
  BY <1>2, <1>3, <1>4

LEMMA LocalsStart ==
  ASSUME TypeOK, Locals, NEW r \in Requests, Start(r)
  PROVE  (OpOf(r) /\ Unmade(r) /\ Presented(r))'
<1>1. UNCHANGED stores
  BY StartStays
<1>2. req[r].pc = "idle" => session[r].state = "absent" /\ token[r].state = "absent"
  BY DEF Locals, Unmade
<1>3. CASE LoginRead(r)
  <2>1. req'[r].pc \in {"check", "done"} /\ req'[r].op = "login"
    BY <1>3 DEF LoginRead, Begin, TypeOK
  <2>2. req[r].pc = "idle"
    BY <1>3 DEF LoginRead, Begin, At
  <2> QED
    BY <1>1, <1>2, <2>1, <2>2 DEF OpOf, Unmade, Presented, stores
<1>4. CASE RefreshRead(r)
  <2>0. PICK t \in Ids :
          /\ token[t].state # "absent"
          /\ Begin(r, "refresh", token[t].state = "live" /\ session[token[t].session].state = "open",
                   "recheck", TRUE, t)
    BY <1>4 DEF RefreshRead
  <2>1. req'[r].pc = "done" \/ (req'[r].pc = "recheck" /\ req'[r].target = t)
    BY <2>0 DEF Begin, TypeOK
  <2>2. req[r].pc = "idle"
    BY <1>4 DEF RefreshRead, Begin, At
  <2> QED
    BY <1>1, <1>2, <2>0, <2>1, <2>2 DEF OpOf, Unmade, Presented, stores
<1>5. CASE Guard(r)
  <2>0. PICK a \in Ids, op \in GuardedOps :
          Begin(r, op, Accepts(a), IF op = "logout" THEN "revoke" ELSE "read", TRUE, access[a].session)
    BY <1>5 DEF Guard
  <2>1. req'[r].pc \in {"done", "revoke"} \/ (req'[r].pc = "read" /\ req'[r].op = "changePassword")
    BY <2>0 DEF Begin, TypeOK, GuardedOps
  <2> QED
    BY <2>1 DEF OpOf, Unmade, Presented
<1>6. CASE ResetRead(r)
  <2>1. req'[r].pc = "password" /\ req'[r].op = "resetPassword"
    BY <1>6 DEF ResetRead, Begin, TypeOK
  <2> QED
    BY <2>1 DEF OpOf, PasswordOps, Unmade, Presented
<1>7. CASE AdminRead(r)
  <2>1. PICK op \in AdminOps :
          Begin(r, op, account.deleted <=> op = "restore",
                CASE op = "forceLogout" -> "close" [] op = "adminReset" -> "password"
                  [] OTHER -> "flag", TRUE, None)
    BY <1>7 DEF AdminRead
  <2>2. req'[r].op = op
    BY <2>1 DEF Begin, TypeOK
  <2>3. \/ req'[r].pc \in {"done", "close"}
        \/ req'[r].pc = "password" /\ op = "adminReset"
        \/ req'[r].pc = "flag" /\ op \notin {"forceLogout", "adminReset"}
    BY <2>1 DEF Begin, TypeOK
  <2> QED
    BY <2>2, <2>3 DEF OpOf, PasswordOps, FlagOps, AdminOps, Unmade, Presented
<1>8. CASE AdminFindSession(r)
  <2>1. req'[r].pc = "revoke"
    BY <1>8 DEF AdminFindSession, Begin, TypeOK
  <2> QED
    BY <2>1 DEF OpOf, Unmade, Presented
<1> QED
  BY <1>3, <1>4, <1>5, <1>6, <1>7, <1>8 DEF Start

\* A handler goes on from one position to the next; where it goes to a
\* position Locals speaks of, it comes from the one before.
Moves(r) ==
  /\ req'[r].op = req[r].op /\ req'[r].target = req[r].target
  /\ \/ req'[r].pc \in {"done", "count", "penalty", "reset", "close", "tokens"}
     \/ UNCHANGED stores /\ req'[r].pc = req[r].pc
     \/ UNCHANGED stores /\ req[r].pc = "check" /\ req'[r].pc = "session"
     \/ UNCHANGED token /\ req[r].pc = "session" /\ req'[r].pc = "token"
     \/ UNCHANGED stores /\ req[r].pc = "recheck" /\ req'[r].pc = "rotate"
     \/ req[r].pc = "rotate" /\ req'[r].pc = "issue"
     \/ req[r].pc = "read" /\ req'[r].pc = "password"

\* Goto and Reread change the position, and nothing else that Moves looks at.
LEMMA GotoSets ==
  ASSUME TypeOK, NEW r \in Requests, NEW pc, Goto(r, pc)
  PROVE  req'[r].pc = pc /\ req'[r].op = req[r].op /\ req'[r].target = req[r].target
  BY DEF Goto, TypeOK, Request

LEMMA RereadSets ==
  ASSUME TypeOK, NEW r \in Requests, NEW pc, Reread(r, pc)
  PROVE  req'[r].pc = pc /\ req'[r].op = req[r].op /\ req'[r].target = req[r].target
  BY DEF Reread, TypeOK, Request

LEMMA StepMoves ==
  ASSUME TypeOK, NEW r \in Requests, Step(r)
  PROVE  Moves(r)
<1>1. CASE LoginCheck(r)
  <2>1. PICK pc \in {"done", "count", "session"} : Goto(r, pc)
    BY <1>1 DEF LoginCheck
  <2> QED
    BY <1>1, <2>1, GotoSets DEF LoginCheck, At, Moves
<1>2. CASE CloseSessions(r)
  <2>1. PICK pc \in {"done", "tokens"} : Goto(r, pc)
    BY <1>2 DEF CloseSessions
  <2> QED
    BY <2>1, GotoSets DEF Moves
<1>3. CASE AdminWrite(r)
  <2>1. PICK pc \in {"done", "close"} : Goto(r, pc)
    BY <1>3 DEF AdminWrite
  <2> QED
    BY <2>1, GotoSets DEF Moves
<1>4. CASE FailureRead(r)
  BY <1>4, RereadSets DEF FailureRead, Moves
<1>5. CASE RefreshRecheck(r)
  BY <1>5, RereadSets, GotoSets DEF RefreshRecheck, Finish, At, Moves
<1>6. CASE ChangeRead(r)
  BY <1>6, RereadSets, GotoSets DEF ChangeRead, Finish, At, Moves
<1>7. CASE Abort(r)
  BY <1>7 DEF Abort, Moves, TypeOK, Request
<1>8. CASE LoginSession(r)
  BY <1>8, GotoSets DEF LoginSession, At, Moves
<1>9. CASE LoginToken(r)
  BY <1>9, GotoSets DEF LoginToken, At, Moves
<1>10. CASE LoginReset(r)
  BY <1>10, GotoSets DEF LoginReset, Finish, At, Moves
<1>11. CASE FailureWrite(r)
  BY <1>11, GotoSets DEF FailureWrite, Finish, At, Moves
<1>12. CASE RefreshRotate(r)
  BY <1>12, GotoSets DEF RefreshRotate, At, Moves
<1>13. CASE RefreshIssue(r)
  BY <1>13, GotoSets DEF RefreshIssue, Finish, At, Moves
<1>14. CASE RevokeSession(r)
  BY <1>14, GotoSets DEF RevokeSession, Finish, At, Moves
<1>15. CASE PasswordWrite(r)
  BY <1>15, GotoSets DEF PasswordWrite, At, Moves
<1>16. CASE RevokeTokens(r)
  BY <1>16, GotoSets DEF RevokeTokens, Finish, At, Moves
<1> QED
  BY <1>1, <1>2, <1>3, <1>4, <1>5, <1>6, <1>7, <1>8, <1>9, <1>10, <1>11, <1>12, <1>13, <1>14, <1>15, <1>16
  DEF Step

LEMMA RotateOnly ==
  ASSUME TypeOK, NEW r \in Requests, Step(r), req[r].pc = "rotate", req'[r].pc = "issue"
  PROVE  RefreshRotate(r)
<1>1. ~Abort(r)
  BY DEF Abort, TypeOK, Request
<1> QED
  BY <1>1 DEF Step, LoginCheck, LoginSession, LoginToken, LoginReset, FailureRead, FailureWrite,
     RefreshRecheck, RefreshIssue, RevokeSession, ChangeRead, PasswordWrite, CloseSessions,
     RevokeTokens, AdminWrite, At

LEMMA LocalsStep ==
  ASSUME TypeOK, Locals, NEW r \in Requests, Step(r)
  PROVE  (OpOf(r) /\ Unmade(r) /\ Presented(r))'
<1>1. OpOf(r) /\ Unmade(r) /\ Presented(r) /\ Moves(r) /\ RowsStay(r)
  BY StepMoves, StepStays DEF Locals
<1>2. OpOf(r)'
  BY <1>1 DEF OpOf, Moves, PasswordOps
<1>3. Presented(r)'
  BY <1>1 DEF Presented, Moves, RowsStay, stores
<1>4. Unmade(r)'
  <2>1. CASE req[r].pc = "rotate" /\ req'[r].pc = "issue"
    <3>1. RefreshRotate(r)
      BY <2>1, RotateOnly
    <3> QED
      BY <2>1, <3>1, <1>1, IdsFacts DEF RefreshRotate, Presented, Unmade, TypeOK, Token
  <2>2. CASE ~(req[r].pc = "rotate" /\ req'[r].pc = "issue")
    BY <2>2, <1>1 DEF Unmade, Moves, stores
  <2> QED
    BY <2>1, <2>2
<1> QED
  BY <1>2, <1>3, <1>4

LEMMA LocalsNext ==
  ASSUME TypeOK, Locals, [Next]_vars
  PROVE  Locals'
<1>1. CASE \E r \in Requests : Start(r) \/ Step(r)
  <2>1. PICK r \in Requests : Start(r) \/ Step(r)
    BY <1>1
  <2>2. OthersStay(r) /\ RowsStay(r)
    BY <2>1, StartStays, StepStays
  <2>3. \A q \in Requests \ {r} : (OpOf(q) /\ Unmade(q) /\ Presented(q))'
    BY <2>2, LocalsOfOthers
  <2>4. (OpOf(r) /\ Unmade(r) /\ Presented(r))'
    BY <2>1, LocalsStart, LocalsStep
  <2> QED
    BY <2>3, <2>4 DEF Locals
<1>2. CASE UNCHANGED <<session, token, req>>
  BY <1>2 DEF Locals, OpOf, Unmade, Presented
<1> QED
  BY <1>1, <1>2 DEF Next, AllServed, LockTimePasses, vars

-----------------------------------------------------------------------------
(* Access tokens and the version of the password.                          *)

\* Password p has the version v: the login before the behaviour set the first,
\* and a request the one after that which it had read.
Numbered(p, v) ==
  \/ p = First /\ v = 1
  \/ p \in Requests /\ req[p].pc \in {"close", "tokens", "done"} /\ v = req[p].seen.version + 1

\* Every row that was read, and every access token, has a password with its version.
Versions ==
  /\ Numbered(account.password, account.version)
  /\ \A r \in Requests : Numbered(req[r].seen.password, req[r].seen.version)
  /\ \A a \in Ids : access[a].session # None =>
       IF a = First THEN access[a].version = 1
       ELSE req[a].pc = "done" /\ access[a].version = req[a].seen.version

LEMMA NumbersArePositive ==
  ASSUME TypeOK, NEW p, NEW v, Numbered(p, v)
  PROVE  v \in Nat /\ v >= 1
<1>1. \A r \in Requests : req[r].seen.version \in Nat
  BY DEF TypeOK, Request, Account
<1> QED
  BY <1>1 DEF Numbered

\* What a handler has read it reads again only before it writes a password.
LEMMA StartSees ==
  ASSUME TypeOK, NEW r \in Requests, Start(r)
  PROVE  req[r].pc = "idle" /\ req'[r].seen = account
<1>1. \E op, accepted, pc, right, target : Begin(r, op, accepted, pc, right, target)
  BY DEF Start, LoginRead, RefreshRead, Guard, ResetRead, AdminRead, AdminFindSession
<1> QED
  BY <1>1 DEF Begin, At, TypeOK

LEMMA GotoSees ==
  ASSUME TypeOK, NEW r \in Requests, NEW pc, Goto(r, pc)
  PROVE  req'[r].seen = req[r].seen
  BY DEF Goto, TypeOK, Request

LEMMA RereadSees ==
  ASSUME TypeOK, NEW r \in Requests, NEW pc, Reread(r, pc)
  PROVE  req'[r].seen = account
  BY DEF Reread, TypeOK, Request

LEMMA DoneIsOver ==
  ASSUME NEW r \in Requests, Step(r)
  PROVE  req[r].pc # "done"
  BY DEF Step, LoginCheck, LoginSession, LoginToken, LoginReset, FailureRead, FailureWrite,
     RefreshRecheck, RefreshRotate, RefreshIssue, RevokeSession, ChangeRead, PasswordWrite,
     CloseSessions, RevokeTokens, AdminWrite, Abort, At, Running

LEMMA StepSees ==
  ASSUME TypeOK, NEW r \in Requests, Step(r)
  PROVE  \/ req'[r].seen = req[r].seen
         \/ req'[r].seen = account /\ req[r].pc \in {"count", "recheck", "read"}
<1>1. CASE FailureRead(r)
  BY <1>1, RereadSees DEF FailureRead, At
<1>2. CASE RefreshRecheck(r)
  BY <1>2, RereadSees, GotoSees DEF RefreshRecheck, Finish, At
<1>3. CASE ChangeRead(r)
  BY <1>3, RereadSees, GotoSees DEF ChangeRead, Finish, At
<1>4. CASE Abort(r)
  BY <1>4 DEF Abort, TypeOK, Request
<1>5. CASE \E pc : Goto(r, pc)
  BY <1>5, GotoSees
<1> QED
  BY <1>1, <1>2, <1>3, <1>4, <1>5
  DEF Step, LoginCheck, LoginSession, LoginToken, LoginReset, FailureWrite, RefreshRotate, RefreshIssue,
      RevokeSession, PasswordWrite, CloseSessions, RevokeTokens, AdminWrite, Finish

\* Only PasswordWrite sets a password or a version.
LEMMA AccountStep ==
  ASSUME TypeOK, Locals, NEW r \in Requests, Step(r)
  PROVE  \/ account'.password = account.password /\ account'.version = account.version
         \/ /\ account'.password = r /\ account'.version = req[r].seen.version + 1
            /\ req[r].pc = "password" /\ req'[r].pc = "close" /\ req'[r].seen = req[r].seen
<1>1. CASE PasswordWrite(r)
  <2>1. account'.password = r /\ account'.version = req[r].seen.version + 1
    BY <1>1 DEF PasswordWrite, TypeOK, Account, Unlocked
  <2> QED
    BY <1>1, <2>1, GotoSees, GotoSets DEF PasswordWrite, At
<1>2. CASE LoginReset(r)
  BY <1>2 DEF LoginReset, Unlocked, TypeOK, Account
<1>3. CASE FailureWrite(r)
  BY <1>3 DEF FailureWrite, TypeOK, Account
<1>4. CASE AdminWrite(r)
  <2>1. req[r].op \in FlagOps
    BY <1>4 DEF AdminWrite, At, Locals, OpOf
  <2> QED
    BY <1>4, <2>1 DEF AdminWrite, FlagOps, Unlocked, TypeOK, Account
<1>5. CASE UNCHANGED account
  BY <1>5
<1> QED
  BY <1>1, <1>2, <1>3, <1>4, <1>5
  DEF Step, LoginCheck, LoginSession, LoginToken, FailureRead, RefreshRecheck, RefreshRotate, RefreshIssue,
      RevokeSession, ChangeRead, CloseSessions, RevokeTokens, Abort, stores

\* An access token is made by a handler that ends, with the version it had read.
LEMMA AccessStep ==
  ASSUME TypeOK, NEW r \in Requests, Step(r)
  PROVE  /\ \A a \in Ids \ {r} : access'[a] = access[a]
         /\ \/ access'[r] = access[r]
            \/ access'[r].version = req[r].seen.version /\ req'[r].pc = "done" /\ req'[r].seen = req[r].seen
<1>0. r \in Ids
  BY IdsFacts
<1>1. CASE LoginReset(r)
  BY <1>0, <1>1, GotoSets, GotoSees DEF LoginReset, Finish, TypeOK
<1>2. CASE RefreshIssue(r)
  BY <1>0, <1>2, GotoSets, GotoSees DEF RefreshIssue, Finish, TypeOK
<1>3. CASE UNCHANGED access
  BY <1>3
<1> QED
  BY <1>1, <1>2, <1>3
  DEF Step, LoginCheck, LoginSession, LoginToken, FailureRead, FailureWrite, RefreshRecheck, RefreshRotate,
      RevokeSession, ChangeRead, PasswordWrite, CloseSessions, RevokeTokens, AdminWrite, Abort, stores

-----------------------------------------------------------------------------
(* Password changes.                                                       *)

\* Handler q is between the write of a password and the closing of sessions.
Changing(q) == req[q].pc = "close" /\ req[q].op \in PasswordOps

LEMMA PasswordChangeStep ==
  ASSUME TypeOK, Locals, PasswordChangeEndsOldSessions, NEW r \in Requests, Step(r)
  PROVE  PasswordChangeEndsOldSessions'
<1>a. \A s \in Ids : Open(s) /\ session[s].born # account.password =>
        \E q \in Requests : Changing(q)
  BY DEF PasswordChangeEndsOldSessions, Changing, PasswordOps
<1>b. OpOf(r) /\ Moves(r) /\ OthersStay(r)
  BY StepMoves, StepStays DEF Locals
<1> SUFFICES ASSUME NEW s \in Ids, Open(s)', session'[s].born # account'.password
             PROVE  \E q \in Requests : Changing(q)'
  BY DEF PasswordChangeEndsOldSessions, Changing, PasswordOps
<1>1. CASE PasswordWrite(r)
  <2>1. req'[r].pc = "close" /\ req'[r].op = req[r].op /\ req[r].op \in PasswordOps
    BY <1>1, <1>b, GotoSets DEF PasswordWrite, At, OpOf
  <2> QED
    BY <2>1 DEF Changing
<1>2. CASE CloseSessions(r)
  BY <1>2 DEF CloseSessions, Closed, Open, TypeOK, Session
<1>3. CASE ~PasswordWrite(r) /\ ~CloseSessions(r)
  <2>1. req[r].pc = "close" => req'[r].pc = "close" /\ req'[r].op = req[r].op
    <3>1. CASE Abort(r)
      BY <3>1 DEF Abort, TypeOK, Request
    <3>2. CASE ~Abort(r)
      BY <1>3, <3>2 DEF Step, LoginCheck, LoginSession, LoginToken, LoginReset, FailureRead,
         FailureWrite, RefreshRecheck, RefreshRotate, RefreshIssue, RevokeSession, ChangeRead,
         RevokeTokens, AdminWrite, At
    <3> QED
      BY <3>1, <3>2
  <2>2. \A q \in Requests : Changing(q) => Changing(q)'
    BY <2>1, <1>b DEF Changing, OthersStay
  <2>3. account'.password = account.password
    <3>1. CASE LoginReset(r)
      BY <3>1 DEF LoginReset, Unlocked, TypeOK, Account
    <3>2. CASE FailureWrite(r)
      BY <3>2 DEF FailureWrite, TypeOK, Account
    <3>3. CASE AdminWrite(r)
      <4>1. req[r].op \in FlagOps
        BY <3>3, <1>b DEF AdminWrite, At, OpOf
      <4> QED
        BY <3>3, <4>1 DEF AdminWrite, FlagOps, Unlocked, TypeOK, Account
    <3> QED
      BY <1>3, <3>1, <3>2, <3>3 DEF Step, LoginCheck, LoginSession, LoginToken, FailureRead,
         RefreshRecheck, RefreshRotate, RefreshIssue, RevokeSession, ChangeRead, RevokeTokens,
         Abort, stores
  <2>4. Open(s) /\ session[s].born # account.password
    <3>1. CASE LoginSession(r)
      BY <3>1, <2>3, IdsFacts DEF LoginSession, Open, TypeOK
    <3>2. CASE RevokeSession(r)
      BY <3>2, <2>3 DEF RevokeSession, Closed, Open, TypeOK, Session
    <3>3. CASE session' = session
      BY <3>3, <2>3 DEF Open
    <3> QED
      BY <1>3, <3>1, <3>2, <3>3 DEF Step, LoginCheck, LoginToken, LoginReset, FailureRead,
         FailureWrite, RefreshRecheck, RefreshRotate, RefreshIssue, ChangeRead, RevokeTokens,
         AdminWrite, Abort, stores
  <2> QED
    BY <1>a, <2>2, <2>4
<1> QED
  BY <1>1, <1>2, <1>3

-----------------------------------------------------------------------------
(* Rotation.                                                               *)

\* What an open session has, by StrandedOnlyByRevocation: a token, or a
\* handler on its way to one.
HasToken(s) == \E t \in Ids : token[t].session = s /\ token[t].state \in {"live", "revoked"}
MakesToken(q, s) ==
  \/ req[q].op = "login" /\ req[q].pc = "token" /\ q = s
  \/ req[q].pc = "issue" /\ token[req[q].target].session = s

LEMMA StrandedStep ==
  ASSUME TypeOK, Locals, StrandedOnlyByRevocation, NEW r \in Requests, Step(r)
  PROVE  StrandedOnlyByRevocation'
<1>a. \A s \in Ids : Open(s) => HasToken(s) \/ \E q \in Requests : MakesToken(q, s)
  BY DEF StrandedOnlyByRevocation, HasToken, MakesToken
<1>b. OpOf(r) /\ Unmade(r) /\ Presented(r) /\ Moves(r) /\ OthersStay(r) /\ RowsStay(r)
  BY StepMoves, StepStays DEF Locals
<1>c. ASSUME NEW s \in Ids, NEW q \in Requests, q # r, MakesToken(q, s)
      PROVE  MakesToken(q, s)'
  <2>1. req'[q] = req[q] /\ Presented(q)
    BY <1>b, <1>c DEF OthersStay, Locals
  <2> QED
    BY <1>b, <1>c, <2>1 DEF MakesToken, Presented, RowsStay
<1> SUFFICES ASSUME NEW s \in Ids, Open(s)'
             PROVE  HasToken(s)' \/ \E q \in Requests : MakesToken(q, s)'
  BY DEF StrandedOnlyByRevocation, HasToken, MakesToken
<1>1. CASE LoginSession(r)
  <2>1. CASE s = r
    <3>1. req'[r].pc = "token" /\ req'[r].op = "login"
      BY <1>1, <1>b, GotoSets DEF LoginSession, At, OpOf
    <3> QED
      BY <2>1, <3>1 DEF MakesToken
  <2>2. CASE s # r
    <3>1. Open(s) /\ UNCHANGED token /\ req[r].pc = "session"
      BY <1>1, <2>2 DEF LoginSession, Open, At, TypeOK
    <3> QED
      BY <1>a, <1>c, <3>1 DEF HasToken, MakesToken
  <2> QED
    BY <2>1, <2>2
<1>2. CASE LoginToken(r) \/ RefreshIssue(r)
  <2>1. Open(s) /\ token[r].state = "absent"
    BY <1>2, <1>b DEF LoginToken, RefreshIssue, Open, At, Unmade
  <2>2. HasToken(s) => HasToken(s)'
    BY <1>2, <2>1 DEF LoginToken, RefreshIssue, HasToken, TypeOK
  <2>3. MakesToken(r, s) => HasToken(s)'
    BY <1>2, IdsFacts DEF LoginToken, RefreshIssue, At, MakesToken, HasToken, TypeOK
  <2> QED
    BY <1>a, <1>c, <2>1, <2>2, <2>3
<1>3. CASE RefreshRotate(r)
  <2>1. Open(s) /\ req[r].pc = "rotate" /\ req'[r].pc = "issue" /\ req'[r].target = req[r].target
    BY <1>3, GotoSets DEF RefreshRotate, Open, At
  <2>2. CASE token[req[r].target].session = s
    <3>1. token'[req[r].target].session = s
      BY <2>1, <2>2, <1>b DEF Presented, RowsStay
    <3> QED
      BY <2>1, <3>1 DEF MakesToken
  <2>3. CASE token[req[r].target].session # s
    <3>1. HasToken(s) => HasToken(s)'
      BY <1>3, <2>3 DEF RefreshRotate, HasToken, TypeOK
    <3> QED
      BY <1>a, <1>c, <2>1, <3>1 DEF MakesToken
  <2> QED
    BY <2>2, <2>3
<1>4. CASE RevokeSession(r) \/ RevokeTokens(r)
  <2>1. Open(s) /\ req[r].pc \notin {"token", "issue"}
    BY <1>4 DEF RevokeSession, RevokeTokens, Closed, Open, At, TypeOK, Session
  <2>2. HasToken(s) => HasToken(s)'
    BY <1>4 DEF RevokeSession, RevokeTokens, RevokeTokensOf, HasToken, TypeOK, Token
  <2> QED
    BY <1>a, <1>c, <2>1, <2>2 DEF MakesToken
<1>5. CASE CloseSessions(r)
  BY <1>5 DEF CloseSessions, Closed, Open, TypeOK, Session
<1>6. CASE UNCHANGED <<session, token>> /\ (Abort(r) \/ req[r].pc \notin {"token", "issue"})
  <2>1. MakesToken(r, s) => MakesToken(r, s)'
    BY <1>6, <1>b DEF Abort, MakesToken, TypeOK, Request
  <2> QED
    BY <1>6, <1>a, <1>c, <2>1 DEF Open, HasToken
<1> QED
  BY <1>1, <1>2, <1>3, <1>4, <1>5, <1>6
  DEF Step, LoginCheck, LoginReset, FailureRead, FailureWrite, RefreshRecheck, ChangeRead,
      PasswordWrite, AdminWrite, Abort, At, stores

-----------------------------------------------------------------------------
(* The theorems.                                                           *)

LEMMA IInvInit == Init => IInv
<1> SUFFICES ASSUME Init PROVE IInv
  OBVIOUS
<1>1. TypeOK
  BY TypeInit
<1>2. Locals
  <2> SUFFICES ASSUME NEW r \in Requests PROVE OpOf(r) /\ Unmade(r) /\ Presented(r)
    BY DEF Locals
  <2>1. req[r].pc = "idle" /\ r \in Ids /\ r # First
    BY IdsFacts DEF Init
  <2>2. session[r].state = "absent" /\ token[r].state = "absent"
    BY <2>1 DEF Init, NoSession, NoToken
  <2> QED
    BY <2>1, <2>2 DEF OpOf, Unmade, Presented
<1>3. PasswordChangeEndsOldSessions
  BY IdsFacts DEF Init, PasswordChangeEndsOldSessions, Open, NoSession
<1>4. StrandedOnlyByRevocation
  BY IdsFacts DEF Init, StrandedOnlyByRevocation, Open, NoSession
<1> QED
  BY <1>1, <1>2, <1>3, <1>4 DEF IInv

LEMMA IInvNext == IInv /\ [Next]_vars => IInv'
<1> SUFFICES ASSUME IInv, [Next]_vars PROVE IInv'
  OBVIOUS
<1>1. TypeOK' /\ Locals'
  BY TypeNext, LocalsNext DEF IInv
<1>2. CASE \E r \in Requests : Start(r)
  <2>1. PICK r \in Requests : Start(r)
    BY <1>2
  <2>2. UNCHANGED stores /\ OthersStay(r) /\ req[r].pc = "idle"
    BY <2>1, StartStays DEF IInv, Start, LoginRead, RefreshRead, Guard, ResetRead, AdminRead,
       AdminFindSession, Begin, At
  <2>3. PasswordChangeEndsOldSessions'
    BY <2>2 DEF IInv, PasswordChangeEndsOldSessions, Open, OthersStay, stores
  <2>4. StrandedOnlyByRevocation'
    BY <2>2 DEF IInv, StrandedOnlyByRevocation, Open, OthersStay, stores
  <2> QED
    BY <1>1, <2>3, <2>4 DEF IInv
<1>3. CASE \E r \in Requests : Step(r)
  BY <1>1, <1>3, PasswordChangeStep, StrandedStep DEF IInv
<1>4. CASE LockTimePasses
  <2>1. account'.password = account.password
    BY <1>4 DEF LockTimePasses, IInv, TypeOK, Account
  <2>2. PasswordChangeEndsOldSessions'
    BY <1>4, <2>1 DEF LockTimePasses, IInv, PasswordChangeEndsOldSessions, Open
  <2>3. StrandedOnlyByRevocation'
    BY <1>4 DEF LockTimePasses, IInv, StrandedOnlyByRevocation, Open
  <2> QED
    BY <1>1, <2>2, <2>3 DEF IInv
<1>5. CASE UNCHANGED vars
  BY <1>1, <1>5 DEF vars, IInv, PasswordChangeEndsOldSessions, StrandedOnlyByRevocation, Open
<1> QED
  BY <1>2, <1>3, <1>4, <1>5 DEF Next, AllServed

\* IInv holds for ever: the types, what Locals says of handlers, and the two
\* safety invariants of sessions.
THEOREM Inductive == Spec => []IInv
  BY IInvInit, IInvNext, PTL DEF Spec

\* The rows of the account, its sessions and tokens keep their types.
THEOREM TypeCorrect == Spec => []TypeOK
<1>1. IInv => TypeOK
  BY DEF IInv
<1> QED
  BY <1>1, Inductive, PTL

\* A session outlives the password it was opened under only while a password
\* change is between its two writes, or was lost there.
THEOREM PasswordChangeEndsSessions == Spec => []PasswordChangeEndsOldSessions
<1>1. IInv => PasswordChangeEndsOldSessions
  BY DEF IInv
<1> QED
  BY <1>1, Inductive, PTL

\* Racing rotations of a refresh token leave no session without one.
THEOREM RotationStrandsNobody == Spec => []StrandedOnlyByRevocation
<1>1. IInv => StrandedOnlyByRevocation
  BY DEF IInv
<1> QED
  BY <1>1, Inductive, PTL

\* Neither a handler that begins nor one that goes on gets past the checks of
\* a token for a session that is drained.
LEMMA DrainedStart ==
  ASSUME TypeOK, Locals, NEW s \in Ids, Drained(s), NEW r \in Requests, Start(r)
  PROVE  ~Issuing(r, s)'
<1>1. UNCHANGED stores
  BY StartStays
<1>2. CASE RefreshRead(r)
  <2>1. PICK t \in Ids :
          Begin(r, "refresh", token[t].state = "live" /\ session[token[t].session].state = "open",
                "recheck", TRUE, t)
    BY <1>2 DEF RefreshRead
  <2>2. CASE token[t].session = s
    <3>1. req'[r].pc = "done"
      BY <2>1, <2>2 DEF Begin, Drained, TypeOK
    <3> QED
      BY <3>1 DEF Issuing, At
  <2>3. CASE token[t].session # s
    <3>1. req'[r].pc = "done" \/ (req'[r].pc = "recheck" /\ req'[r].target = t)
      BY <2>1 DEF Begin, TypeOK
    <3> QED
      BY <1>1, <2>3, <3>1 DEF Issuing, At, stores
  <2> QED
    BY <2>2, <2>3
<1>3. CASE ~RefreshRead(r)
  <2>1. req'[r].pc \notin {"token", "recheck", "rotate", "issue"}
    BY <1>3 DEF Start, LoginRead, Guard, GuardedOps, ResetRead, AdminRead, AdminFindSession, Begin,
       TypeOK
  <2> QED
    BY <2>1 DEF Issuing, At
<1> QED
  BY <1>2, <1>3

LEMMA DrainedStep ==
  ASSUME TypeOK, Locals, NEW s \in Ids, Drained(s), NEW r \in Requests, Step(r)
  PROVE  ~Issuing(r, s)'
<1>1. Unmade(r) /\ Presented(r) /\ Moves(r) /\ RowsStay(r)
  BY StepMoves, StepStays DEF Locals
<1>2. CASE Abort(r)
  BY <1>2 DEF Abort, Issuing, At, TypeOK, Request
<1>3. CASE ~Abort(r)
  <2>1. ~req[r].lost
    BY <1>3 DEF Step, LoginCheck, LoginSession, LoginToken, LoginReset, FailureRead, FailureWrite,
       RefreshRecheck, RefreshRotate, RefreshIssue, RevokeSession, ChangeRead, PasswordWrite,
       CloseSessions, RevokeTokens, AdminWrite, At
  <2>2. req[r].pc = "session" => r # s
    BY <1>1 DEF Unmade, Drained
  <2>3. req[r].pc \in {"recheck", "rotate", "issue"} => token[req[r].target].session # s
    BY <2>1 DEF Drained, Issuing, At
  <2>4. req[r].pc = "token" => r # s
    BY <2>1 DEF Drained, Issuing, At
  <2> QED
    BY <1>1, <2>2, <2>3, <2>4 DEF Moves, Presented, RowsStay, Issuing, At, stores
<1> QED
  BY <1>2, <1>3

LEMMA DrainedNext ==
  ASSUME IInv, [Next]_vars, NEW s \in Ids, Drained(s)
  PROVE  Drained(s)'
<1>1. CASE \E r \in Requests : Start(r) \/ Step(r)
  <2>1. PICK r \in Requests : Start(r) \/ Step(r)
    BY <1>1
  <2>2. OthersStay(r) /\ RowsStay(r)
    BY <2>1, StartStays, StepStays DEF IInv
  <2>3. ~Issuing(r, s)'
    BY <2>1, DrainedStart, DrainedStep DEF IInv
  <2>4. ASSUME NEW q \in Requests \ {r}
        PROVE  ~Issuing(q, s)'
    <3>1. ~Issuing(q, s) /\ Presented(q) /\ req'[q] = req[q]
      BY <2>2 DEF IInv, Locals, Drained, OthersStay
    <3> QED
      BY <2>2, <3>1 DEF Issuing, Presented, RowsStay, At
  <2> QED
    BY <2>2, <2>3, <2>4 DEF Drained, RowsStay
<1>2. CASE UNCHANGED <<session, token, req>>
  BY <1>2 DEF Drained, Issuing, At
<1> QED
  BY <1>1, <1>2 DEF Next, AllServed, LockTimePasses, vars

\* Once a session is closed and the requests under way are served, nobody gets
\* past the checks of a refresh token for it, and it is never reopened.
THEOREM ClosedSessionsStayClosed == Spec => DrainedSessionsStayClosed
<1>1. IInv /\ [Next]_vars => [\A s \in Ids : Drained(s) => Drained(s)']_vars
  BY DrainedNext
<1> QED
  BY <1>1, Inductive, PTL DEF Spec, DrainedSessionsStayClosed
-----------------------------------------------------------------------------
(* Versions is inductive.                                                  *)

\* A password keeps its version, since its request reads nothing any more.
LEMMA NumberedStays ==
  ASSUME TypeOK, NEW r \in Requests, OthersStay(r),
         req[r].pc \in {"close", "tokens", "done"} =>
           req'[r].pc \in {"close", "tokens", "done"} /\ req'[r].seen = req[r].seen,
         NEW p, NEW v, Numbered(p, v)
  PROVE  Numbered(p, v)'
  BY DEF Numbered, OthersStay

LEMMA VersionsInit == Init => Versions
<1> SUFFICES ASSUME Init PROVE Versions
  OBVIOUS
<1>1. account.password = First /\ account.version = 1
  BY DEF Init
<1>2. \A r \in Requests : req[r].seen = account
  BY DEF Init
<1>3. \A a \in Ids : access[a].session # None => a = First /\ access[a].version = 1
  BY DEF Init, NoAccess
<1> QED
  BY <1>1, <1>2, <1>3 DEF Versions, Numbered

LEMMA VersionsStart ==
  ASSUME TypeOK, Versions, NEW r \in Requests, Start(r)
  PROVE  Versions'
<1>1. UNCHANGED stores /\ OthersStay(r) /\ req[r].pc = "idle" /\ req'[r].seen = account
  BY StartStays, StartSees
<1>2. \A p, v : Numbered(p, v) => Numbered(p, v)'
  BY <1>1, NumberedStays
<1>3. Numbered(account.password, account.version)'
  BY <1>1, <1>2 DEF Versions, stores
<1>4. \A q \in Requests : Numbered(req[q].seen.password, req[q].seen.version)'
  <2>1. \A q \in Requests : Numbered(req'[q].seen.password, req'[q].seen.version)
    BY <1>1 DEF Versions, OthersStay
  <2> QED
    BY <1>2, <2>1 DEF Numbered
<1>5. \A a \in Ids \ {First} : access[a].session # None => a \in Requests \ {r}
  BY <1>1 DEF Versions, Ids
<1> QED
  BY <1>1, <1>3, <1>4, <1>5 DEF Versions, OthersStay, stores

LEMMA VersionsStep ==
  ASSUME TypeOK, Locals, Versions, NEW r \in Requests, Step(r)
  PROVE  Versions'
<1>0. OthersStay(r) /\ Moves(r) /\ r \in Ids /\ r # First
  BY StepStays, StepMoves, IdsFacts
<1>1. req[r].pc \in {"close", "tokens", "done"} =>
        req'[r].pc \in {"close", "tokens", "done"} /\ req'[r].seen = req[r].seen
  <2>1. ASSUME req[r].pc \in {"close", "tokens"} PROVE req'[r].pc \in {"close", "tokens", "done"}
    <3>1. CloseSessions(r) \/ RevokeTokens(r) \/ Abort(r)
      BY <2>1 DEF Step, LoginCheck, LoginSession, LoginToken, LoginReset, FailureRead, FailureWrite,
         RefreshRecheck, RefreshRotate, RefreshIssue, RevokeSession, ChangeRead, PasswordWrite, AdminWrite, At
    <3>2. CASE CloseSessions(r)
      BY <3>2, GotoSets DEF CloseSessions
    <3>3. CASE RevokeTokens(r)
      BY <3>3, GotoSets DEF RevokeTokens, Finish
    <3>4. CASE Abort(r)
      BY <2>1, <3>4 DEF Abort, TypeOK, Request
    <3> QED
      BY <3>1, <3>2, <3>3, <3>4
  <2> QED
    BY <2>1, DoneIsOver, StepSees
<1>2. \A p, v : Numbered(p, v) => Numbered(p, v)'
  BY <1>0, <1>1, NumberedStays
<1>3. Numbered(account.password, account.version)'
  <2>1. CASE account'.password = account.password /\ account'.version = account.version
    <3>1. Numbered(account.password, account.version)
      BY DEF Versions
    <3> QED
      BY <1>2, <2>1, <3>1 DEF Numbered
  <2>2. CASE /\ account'.password = r /\ account'.version = req[r].seen.version + 1
             /\ req'[r].pc = "close" /\ req'[r].seen = req[r].seen
    BY <2>2 DEF Numbered
  <2> QED
    BY <2>1, <2>2, AccountStep
<1>4. \A q \in Requests : Numbered(req[q].seen.password, req[q].seen.version)'
  <2>1. \A q \in Requests : Numbered(req'[q].seen.password, req'[q].seen.version)
    BY <1>0, StepSees DEF Versions, OthersStay
  <2> QED
    BY <1>2, <2>1 DEF Numbered
<1>5. ASSUME NEW a \in Ids, access'[a].session # None
      PROVE  IF a = First THEN access'[a].version = 1
             ELSE req'[a].pc = "done" /\ access'[a].version = req'[a].seen.version
  <2>1. CASE access'[a] # access[a]
    BY <1>0, <2>1, AccessStep
  <2>2. CASE access'[a] = access[a] /\ a = First
    BY <1>5, <2>2 DEF Versions
  <2>3. CASE access'[a] = access[a] /\ a # First
    <3>1. a \in Requests /\ req[a].pc = "done" /\ access[a].version = req[a].seen.version
      BY <1>5, <2>3 DEF Versions, Ids
    <3>2. req'[a] = req[a]
      BY <1>0, <3>1, DoneIsOver DEF OthersStay
    <3> QED
      BY <2>3, <3>1, <3>2
  <2> QED
    BY <2>1, <2>2, <2>3
<1> QED
  BY <1>3, <1>4, <1>5 DEF Versions

LEMMA VersionsNext == IInv /\ Versions /\ [Next]_vars => Versions'
<1> SUFFICES ASSUME IInv, Versions, [Next]_vars PROVE Versions'
  OBVIOUS
<1>1. CASE \E r \in Requests : Start(r) \/ Step(r)
  BY <1>1, VersionsStart, VersionsStep DEF IInv
<1>2. CASE LockTimePasses
  <2>1. account'.password = account.password /\ account'.version = account.version
    BY <1>2 DEF LockTimePasses, IInv, TypeOK, Account
  <2> QED
    BY <1>2, <2>1 DEF LockTimePasses, Versions, Numbered
<1>3. CASE UNCHANGED vars
  BY <1>3 DEF vars, Versions, Numbered
<1> QED
  BY <1>1, <1>2, <1>3 DEF Next, AllServed

\* The version in the token is that of one password, and that of the row too: they
\* are one password, or were counted from the same version.
LEMMA VersionsSuffice ==
  ASSUME IInv, Versions
  PROVE  OldPasswordsAccessRefused
<1> SUFFICES ASSUME NEW a \in Ids, Accepts(a), IssuedUnder(a) # account.password
             PROVE  SameVersion(IssuedUnder(a), account.password)
  BY DEF OldPasswordsAccessRefused
<1>1. access[a].session # None /\ access[a].version = account.version
  BY DEF Accepts
<1>2. Numbered(IssuedUnder(a), account.version)
  BY <1>1 DEF Versions, IssuedUnder, Numbered, Ids
<1>3. Numbered(account.password, account.version)
  BY DEF Versions
<1>4. \A r \in Requests : req[r].seen.version \in Nat /\ req[r].seen.version >= 1
  BY NumbersArePositive DEF Versions, IInv
<1> QED
  BY <1>2, <1>3, <1>4 DEF Numbered, SameVersion

\* An access token that was issued under an earlier password is refused, unless
\* the changes to both passwords read the same version.  (JwtAuthGuard compares the version
\* in the token with that of the row, which changePassword and the resets increase.)
THEOREM OldPasswordsGrantNothing == Spec => []OldPasswordsAccessRefused
<1>1. Init => IInv /\ Versions
  BY IInvInit, VersionsInit
<1>2. (IInv /\ Versions) /\ [Next]_vars => (IInv /\ Versions)'
  BY IInvNext, VersionsNext
<1>3. IInv /\ Versions => OldPasswordsAccessRefused
  BY VersionsSuffice
<1> QED
  BY <1>1, <1>2, <1>3, PTL DEF Spec
=============================================================================

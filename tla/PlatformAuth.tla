---------------------------- MODULE PlatformAuth ----------------------------
(***************************************************************************)
(* AuthService, SessionService, LoginProtectionService and the account     *)
(* operations of UsersService: one platform user's account, its sessions,  *)
(* refresh tokens and access tokens.                                       *)
(*                                                                         *)
(* The services run in one Node process; a handler is a sequence of        *)
(* awaited database calls, none of them in a transaction except            *)
(* revokeSession, and each action is one of these calls.  A request makes  *)
(* at most one session, one refresh token, one access token and one        *)
(* password, which the model names after the request.  First names those   *)
(* of a login that was over before the behaviour begins.                   *)
(*                                                                         *)
(* Tokens do not expire and IP addresses are not blocked here; a lock does *)
(* run out.                                                                *)
(***************************************************************************)
EXTENDS Naturals

CONSTANTS
  Requests,       \* the requests of a behaviour
  First,          \* the login before them
  Ops,            \* the operations requested
  LockThreshold,  \* security.lockThreshold
  None

Ids == Requests \cup {First}

GuardedOps == {"logout", "changePassword"}
AdminOps == {"suspend", "unsuspend", "remove", "restore", "unlock", "forceLogout", "adminReset"}
AllOps == {"login", "refresh", "resetPassword", "revokeSession"} \cup GuardedOps \cup AdminOps

ASSUME ConstantsAssumption ==
  /\ First \notin Requests
  /\ None \notin Ids
  /\ LockThreshold \in Nat \ {0}
  /\ Ops \subseteq AllOps

VARIABLES
  account,  \* the platform_users row
  session,  \* platform_sessions, by the request that logged in
  token,    \* refresh_tokens, by the request that issued them
  access,   \* the access tokens clients hold, by the request that issued them
  req       \* the handlers

vars == <<account, session, token, access, req>>
stores == <<account, session, token, access>>

-----------------------------------------------------------------------------
(* Rows.                                                                   *)

\* lock: not locked, locked until a later time, or locked until a time that
\* has passed.  isLocked stays set in the last case.
Account == [password: Ids, version: Nat, active: BOOLEAN, deleted: BOOLEAN,
            lock: {"none", "running", "over"}, attempts: Nat]

\* born: the password of the account when the session was made (history).
Session == [state: {"absent", "open", "closed"}, born: Ids]

\* rotated: revoked and replaced by another token;  revoked: only revoked.
Token == [session: Ids \cup {None}, state: {"absent", "live", "rotated", "revoked"}]

Access == [session: Ids \cup {None}, version: Nat]

NoSession == [state |-> "absent", born |-> First]
NoToken == [session |-> None, state |-> "absent"]
NoAccess == [session |-> None, version |-> 0]

Unlocked(a) == [a EXCEPT !.lock = "none", !.attempts = 0]

\* Every live token of these sessions is revoked; one already replaced stays so.
RevokeTokensOf(sessions) ==
  token' = [t \in Ids |-> IF token[t].session \in sessions /\ token[t].state = "live"
                            THEN [token[t] EXCEPT !.state = "revoked"] ELSE token[t]]

Closed(sessions) ==
  [s \in Ids |-> IF s \in sessions /\ session[s].state = "open"
                   THEN [session[s] EXCEPT !.state = "closed"] ELSE session[s]]

-----------------------------------------------------------------------------
(* Handlers.  seen is the account as the handler read it; target the       *)
(* session or the refresh token it works on.  A handler whose call is      *)
(* rejected, or whose process dies, is lost where it was.                  *)

PC == {"idle", "check", "session", "token", "reset", "count", "penalty", "recheck", "rotate",
       "issue", "read", "password", "close", "tokens", "revoke", "flag", "done"}

Request == [pc: PC, op: Ops \cup {None}, right: BOOLEAN, seen: Account,
            target: Ids \cup {None}, lost: BOOLEAN]

At(r, pc) == req[r].pc = pc /\ ~req[r].lost
Running(r) == req[r].pc \notin {"idle", "done"} /\ ~req[r].lost
Goto(r, pc) == req' = [req EXCEPT ![r].pc = pc]
Finish(r) == Goto(r, "done")

\* The handler reads the account again and goes on with it.
Reread(r, pc) == req' = [req EXCEPT ![r] = [@ EXCEPT !.pc = pc, !.seen = account]]

\* The first await of a handler: it is refused, or goes on at pc.
Begin(r, op, accepted, pc, right, target) ==
  /\ At(r, "idle")
  /\ op \in Ops
  /\ req' = [req EXCEPT ![r] = [pc |-> IF accepted THEN pc ELSE "done", op |-> op, right |-> right,
                                seen |-> account, target |-> IF accepted THEN target ELSE None,
                                lost |-> FALSE]]
  /\ UNCHANGED stores

-----------------------------------------------------------------------------
(* login.                                                                  *)

\* The user by e-mail.  The password typed is the one this row has, or not.
LoginRead(r) ==
  \E right \in BOOLEAN : Begin(r, "login", ~account.deleted, "check", right, None)

\* The lock is read anew, everything else is decided on the first read.
LoginCheck(r) ==
  /\ At(r, "check")
  /\ Goto(r, CASE account.lock = "running" -> "done"
               [] account.lock # "running" /\ ~req[r].right -> "count"
               [] OTHER -> IF req[r].seen.active /\ req[r].seen.lock = "none"
                             THEN "session" ELSE "done")
  /\ UNCHANGED stores

LoginSession(r) ==
  /\ At(r, "session")
  /\ session' = [session EXCEPT ![r] = [state |-> "open", born |-> account.password]]
  /\ Goto(r, "token")
  /\ UNCHANGED <<account, token, access>>

LoginToken(r) ==
  /\ At(r, "token")
  /\ token' = [token EXCEPT ![r] = [session |-> r, state |-> "live"]]
  /\ Goto(r, "reset")
  /\ UNCHANGED <<account, session, access>>

\* A success unlocks the account; the client gets its tokens.
LoginReset(r) ==
  /\ At(r, "reset")
  /\ account' = Unlocked(account)
  /\ access' = [access EXCEPT ![r] = [session |-> r, version |-> req[r].seen.version]]
  /\ Finish(r)
  /\ UNCHANGED <<session, token>>

\* A failure is counted from a read of its own.
FailureRead(r) ==
  /\ At(r, "count")
  /\ Reread(r, "penalty")
  /\ UNCHANGED stores

FailureWrite(r) ==
  LET attempts == req[r].seen.attempts + 1 IN
  /\ At(r, "penalty")
  /\ account' = [account EXCEPT !.attempts = attempts,
                                !.lock = IF attempts >= LockThreshold THEN "running" ELSE @]
  /\ Finish(r)
  /\ UNCHANGED <<session, token, access>>

\* lockedUntil passes.
LockTimePasses ==
  /\ account.lock = "running"
  /\ account' = [account EXCEPT !.lock = "over"]
  /\ UNCHANGED <<session, token, access, req>>

-----------------------------------------------------------------------------
(* refresh.                                                                *)

\* Mutant: whether the session is still active is not looked at.
RefreshReadAnySession(r) ==
  \E t \in Ids :
    /\ token[t].state # "absent"
    /\ Begin(r, "refresh", token[t].state = "live", "recheck", TRUE, t)

\* A client presents a refresh token it was given.
RefreshRead(r) ==
  \E t \in Ids :
    /\ token[t].state # "absent"
    /\ Begin(r, "refresh", token[t].state = "live" /\ session[token[t].session].state = "open",
             "recheck", TRUE, t)

\* SELECT ... FOR UPDATE outside a transaction holds no lock by the time of
\* the second read; that read looks at the token and no longer at the session.
RefreshRecheck(r) ==
  /\ At(r, "recheck")
  /\ IF token[req[r].target].state = "live"
       THEN Reread(r, "rotate")
       ELSE Finish(r)
  /\ UNCHANGED stores

RefreshRotate(r) ==
  /\ At(r, "rotate")
  /\ token' = [token EXCEPT ![req[r].target].state = "rotated"]
  /\ Goto(r, "issue")
  /\ UNCHANGED <<account, session, access>>

\* Mutant: the new token belongs to a session of its own, which nobody made.
RefreshIssueElsewhere(r) ==
  /\ At(r, "issue")
  /\ token' = [token EXCEPT ![r] = [session |-> r, state |-> "live"]]
  /\ access' = [access EXCEPT ![r] = [session |-> r, version |-> req[r].seen.version]]
  /\ Finish(r)
  /\ UNCHANGED <<account, session>>

RefreshIssue(r) ==
  LET s == token[req[r].target].session IN
  /\ At(r, "issue")
  /\ token' = [token EXCEPT ![r] = [session |-> s, state |-> "live"]]
  /\ access' = [access EXCEPT ![r] = [session |-> s, version |-> req[r].seen.version]]
  /\ Finish(r)
  /\ UNCHANGED <<account, session>>

-----------------------------------------------------------------------------
(* JwtAuthGuard, and the handlers behind it: logout, changePassword.       *)

\* The guard looks at the account and not at the session.
Accepts(a) ==
  /\ access[a].session # None
  /\ account.active
  /\ account.lock # "running"
  /\ access[a].version = account.version

Guard(r) ==
  \E a \in Ids, op \in GuardedOps :
    /\ access[a].session # None
    /\ Begin(r, op, Accepts(a), IF op = "logout" THEN "revoke" ELSE "read", TRUE, access[a].session)

\* revokeSession, of logout and of an administrator: one transaction.
RevokeSession(r) ==
  /\ At(r, "revoke")
  /\ session' = Closed({req[r].target})
  /\ RevokeTokensOf({req[r].target})
  /\ Finish(r)
  /\ UNCHANGED <<account, access>>

ChangeRead(r) ==
  /\ At(r, "read")
  /\ \/ Finish(r)
     \/ Reread(r, "password")
  /\ UNCHANGED stores

-----------------------------------------------------------------------------
(* Passwords: changePassword, resetPassword and the administrator's reset. *)

\* A reset token serves as often as it is presented while it is valid.
ResetRead(r) == Begin(r, "resetPassword", TRUE, "password", TRUE, None)

\* Mutant: the administrator's reset leaves the version as it was.
PasswordWriteKeepsVersion(r) ==
  LET new == [account EXCEPT !.password = r,
                             !.version = IF req[r].op = "adminReset" THEN @ ELSE req[r].seen.version + 1] IN
  /\ At(r, "password")
  /\ account' = IF req[r].op = "changePassword" THEN new ELSE Unlocked(new)
  /\ Goto(r, "close")
  /\ UNCHANGED <<session, token, access>>

\* The new version is counted from the one read.
PasswordWrite(r) ==
  LET new == [account EXCEPT !.password = r, !.version = req[r].seen.version + 1] IN
  /\ At(r, "password")
  /\ account' = IF req[r].op = "changePassword" THEN new ELSE Unlocked(new)
  /\ Goto(r, "close")
  /\ UNCHANGED <<session, token, access>>

\* Mutant: only the session of the request is closed.
CloseSessionsOwnOnly(r) ==
  /\ At(r, "close")
  /\ session' = Closed({req[r].target} \ {None})
  /\ Goto(r, IF req[r].op \in {"changePassword", "resetPassword"} THEN "tokens" ELSE "done")
  /\ UNCHANGED <<account, token, access>>

\* revokeAllUserSessions closes the sessions, then revokes the tokens; the
\* administrator's operations only close the sessions.
CloseSessions(r) ==
  /\ At(r, "close")
  /\ session' = Closed(Ids)
  /\ Goto(r, IF req[r].op \in {"changePassword", "resetPassword"} THEN "tokens" ELSE "done")
  /\ UNCHANGED <<account, token, access>>

RevokeTokens(r) ==
  /\ At(r, "tokens")
  /\ RevokeTokensOf(Ids)
  /\ Finish(r)
  /\ UNCHANGED <<account, session, access>>

-----------------------------------------------------------------------------
(* Administration: UsersService, SecurityService.revokeSession.            *)

AdminRead(r) ==
  \E op \in AdminOps :
    Begin(r, op, account.deleted <=> op = "restore",
          CASE op = "forceLogout" -> "close" [] op = "adminReset" -> "password" [] OTHER -> "flag",
          TRUE, None)

AdminFindSession(r) ==
  \E s \in Ids : session[s].state # "absent" /\ Begin(r, "revokeSession", TRUE, "revoke", TRUE, s)

AdminWrite(r) ==
  LET op == req[r].op IN
  /\ At(r, "flag")
  /\ account' = CASE op = "suspend" -> [account EXCEPT !.active = FALSE]
                  [] op = "remove" -> [account EXCEPT !.active = FALSE, !.deleted = TRUE]
                  [] op = "restore" -> [account EXCEPT !.active = TRUE, !.deleted = FALSE]
                  [] op = "unsuspend" -> [account EXCEPT !.active = TRUE]
                  [] op = "unlock" -> Unlocked(account)
  /\ Goto(r, IF op \in {"suspend", "remove"} THEN "close" ELSE "done")
  /\ UNCHANGED <<session, token, access>>

-----------------------------------------------------------------------------

\* The awaited call is rejected, or the process dies: nothing more is done.
Abort(r) ==
  /\ Running(r)
  /\ req' = [req EXCEPT ![r].lost = TRUE]
  /\ UNCHANGED stores

\* An account that nobody uses, or with one session open.
Init ==
  /\ account = [password |-> First, version |-> 1, active |-> TRUE, deleted |-> FALSE,
                lock |-> "none", attempts |-> 0]
  /\ \E used \in BOOLEAN :
       /\ session = [s \in Ids |-> IF used /\ s = First
                                     THEN [state |-> "open", born |-> First] ELSE NoSession]
       /\ token = [t \in Ids |-> IF used /\ t = First
                                   THEN [session |-> First, state |-> "live"] ELSE NoToken]
       /\ access = [a \in Ids |-> IF used /\ a = First
                                    THEN [session |-> First, version |-> 1] ELSE NoAccess]
  /\ req = [r \in Requests |-> [pc |-> "idle", op |-> None, right |-> FALSE, seen |-> account,
                                target |-> None, lost |-> FALSE]]

Start(r) ==
  \/ LoginRead(r) \/ RefreshRead(r) \/ Guard(r) \/ ResetRead(r) \/ AdminRead(r)
  \/ AdminFindSession(r)

Step(r) ==
  \/ LoginCheck(r) \/ LoginSession(r) \/ LoginToken(r) \/ LoginReset(r)
  \/ FailureRead(r) \/ FailureWrite(r)
  \/ RefreshRecheck(r) \/ RefreshRotate(r) \/ RefreshIssue(r)
  \/ RevokeSession(r) \/ ChangeRead(r) \/ PasswordWrite(r) \/ CloseSessions(r) \/ RevokeTokens(r)
  \/ AdminWrite(r) \/ Abort(r)

\* Clients need not send the requests that are left.
AllServed == (\A r \in Requests : ~Running(r)) /\ UNCHANGED vars

Next == (\E r \in Requests : Start(r) \/ Step(r)) \/ LockTimePasses \/ AllServed

Spec == Init /\ [][Next]_vars

-----------------------------------------------------------------------------
(* Properties.                                                             *)

TypeOK ==
  /\ account \in Account
  /\ session \in [Ids -> Session]
  /\ token \in [Ids -> Token]
  /\ access \in [Ids -> Access]
  /\ req \in [Requests -> Request]

Open(s) == session[s].state = "open"

\* A session outlives the password it was opened under only while a password
\* change is between its two writes, or was lost there.  (changePassword and
\* both resets: first the password, then every session.)
PasswordChangeEndsOldSessions ==
  \A s \in Ids : Open(s) /\ session[s].born # account.password =>
    \E r \in Requests : req[r].pc = "close" /\ req[r].op \in {"changePassword", "resetPassword", "adminReset"}

\* r is about to issue a refresh token for session s, and past every check.
Issuing(r, s) ==
  \/ At(r, "token") /\ s = r
  \/ (At(r, "recheck") \/ At(r, "rotate") \/ At(r, "issue")) /\ token[req[r].target].session = s

\* Session s is closed and no handler is past the checks of a token for it.
Drained(s) == session[s].state = "closed" /\ \A r \in Requests : ~Issuing(r, s)

\* Once a session is closed, however it was closed, and the requests that were
\* under way are served, nobody gets past the checks any more: it is not
\* reopened and no refresh token is issued for it.  (refresh refuses a session
\* that is not active, even when its tokens were left live.)
DrainedSessionsStayClosed == [][\A s \in Ids : Drained(s) => Drained(s)']_vars

\* An open session without a live refresh token has lost one to a revocation,
\* or a handler is about to issue it one, or was lost before it could.
\* Rotation alone, however many clients race, strands nobody.
StrandedOnlyByRevocation ==
  \A s \in Ids : Open(s) =>
    \/ \E t \in Ids : token[t].session = s /\ token[t].state \in {"live", "revoked"}
    \/ \E r \in Requests : \/ req[r].op = "login" /\ req[r].pc = "token" /\ r = s
                           \/ req[r].pc = "issue" /\ token[req[r].target].session = s

\* The password that was the account's when its row was read for access token a.
IssuedUnder(a) == IF a = First THEN First ELSE req[a].seen.password

\* Two passwords whose changes counted the new version from the same one.
SameVersion(p1, p2) ==
  p1 \in Requests /\ p2 \in Requests /\ req[p1].seen.version = req[p2].seen.version

\* An access token that was issued under an earlier password is refused, whatever
\* login, refresh and change of the password it overlapped, unless the changes to
\* both passwords read the same version.  (The guard compares the version in the
\* token with that of the row: "Password has changed.")
OldPasswordsAccessRefused ==
  \A a \in Ids : Accepts(a) /\ IssuedUnder(a) # account.password =>
    SameVersion(IssuedUnder(a), account.password)

-----------------------------------------------------------------------------
(* What messages and comments of the code say and the code does not do.    *)

\* "Acquire real Postgres row-level lock": of the requests that present one
\* refresh token, one rotates it.
RefreshRotatesOnce ==
  \A r1, r2 \in Requests :
    r1 # r2 /\ req[r1].op = "refresh" /\ req[r2].op = "refresh" /\ req[r1].target = req[r2].target
      => ~(token[r1].state # "absent" /\ token[r2].state # "absent")

=============================================================================

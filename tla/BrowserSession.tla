----------------------------- MODULE BrowserSession -----------------------------
(***************************************************************************)
(* The session of an administrator as his browser keeps it: the tabs of the *)
(* console, the calls of request() with their one refresh and one retry     *)
(* (lib/api.ts), login, logout and fetchUser (AuthContext), the redirect of *)
(* RouteGuard, and the server that checks access tokens and rotates refresh *)
(* tokens.                                                                  *)
(*                                                                         *)
(* All tabs share the cookie, with the refresh token, and the local         *)
(* storage, with the access token.  refreshInFlight is a variable of the    *)
(* module, and each tab has its own.                                        *)
(*                                                                         *)
(* The two tokens of an answer have one number, and 0 is none.  An answer   *)
(* comes in two steps: the browser sets the cookie, then the script runs.   *)
(***************************************************************************)
EXTENDS Integers

CONSTANTS
  Tabs,       \* the tabs of the browser: numbers, and the first call is the first one's
  Calls,      \* the calls of a behaviour: numbers, in the order of their beginning
  MaxToken    \* a bound on the tokens: none is issued past it

ASSUME Bounds == Tabs \subseteq Nat /\ Tabs # {} /\ Calls \subseteq Nat /\ MaxToken \in Nat \ {0}

VARIABLES
  cookie,    \* the refresh token of the browser
  stored,    \* localStorage[ACCESS_TOKEN_KEY]
  tab,       \* the tabs: where they are, user, isLoading, and whether the page is being left
  flight,    \* refreshInFlight of the tabs
  call,      \* the calls of request()
  server,    \* the tokens of the server
  past       \* what the properties remember (history)

vars == <<cookie, stored, tab, flight, call, server, past>>

-----------------------------------------------------------------------------

Token == 0 .. MaxToken

\* live: refresh tokens that are not revoked; open: the sessions, each known by
\* its first token; of: the session of a token; expired: the access tokens up to
\* this one; barred: the account is locked, which the guard looks at and
\* refresh does not, and nobody unlocks it here.
Server == [last: Token, live: SUBSET Token, open: SUBSET Token, of: [Token -> Token],
           expired: Token, barred: BOOLEAN]

Pages == {"console", "login"}
Tab == [page: Pages, user: BOOLEAN, loading: BOOLEAN, leaving: BOOLEAN]

\* A page as it is loaded: fetchUser has yet to run.
Loaded(page) == [page |-> page, user |-> FALSE, loading |-> TRUE, leaving |-> FALSE]

\* The effect of RouteGuard, around all of /super-admin: without a user the router
\* goes to the login page.
Guarded(row) ==
  IF row.page = "console" /\ ~row.user /\ ~row.loading THEN [row EXCEPT !.page = "login"] ELSE row

FlightPC == {"none", "sent", "checked", "answered", "arrived"}
Flight == [pc: FlightPC, token: Token, new: Token]
NoFlight == [pc |-> "none", token |-> 0, new |-> 0]

Kinds == {"api", "me", "login", "logout"}
PC == {"idle", "sent", "answered", "arrived", "waiting", "resume", "ended"}
Answers == {"none", "ok", "401", "other"}
Call == [pc: PC, tab: Tabs, kind: Kinds, token: Token, retried: BOOLEAN, answer: Answers, new: Token]

Nothing == [pc |-> "idle", tab |-> CHOOSE t \in Tabs : TRUE, kind |-> "api", token |-> 0,
            retried |-> FALSE, answer |-> "none", new |-> 0]

At(c, pc) == call[c].pc = pc
UnderWay(c) == call[c].pc \notin {"idle", "ended"}
Of(c) == call[c].tab
\* Tabs are alike, and so are calls.
Free(c, t) ==
  /\ At(c, "idle") /\ \A d \in Calls : d < c => ~At(d, "idle")
  /\ (\A d \in Calls : c <= d) => \A u \in Tabs : t <= u
Goto(c, pc) == call' = [call EXCEPT ![c].pc = pc]
End(c) == call' = [call EXCEPT ![c] = [Nothing EXCEPT !.pc = "ended"]]

\* JwtAuthGuard, as far as it goes by the token.
Accepted(token) == token > server.expired /\ ~server.barred

\* The two checks of AuthService.refresh.
Refreshable(token) == token \in server.live /\ server.of[token] \in server.open

NextToken(srv) == srv.last + 1

\* A new pair of tokens, of an old session or its own.
Issued(srv, session) ==
  LET n == NextToken(srv) IN
  [srv EXCEPT !.last = n, !.live = @ \cup {n}, !.of[n] = IF session = 0 THEN n ELSE session,
              !.open = IF session = 0 THEN @ \cup {n} ELSE @]

-----------------------------------------------------------------------------
(* History.                                                                 *)
(*   crossed   two of these were under way at once: the refreshes of two    *)
(*             tabs, a login, a logout; or a login began while a call was   *)
(*             at its second try                                            *)
(*   faulty    a refresh failed for a reason that is not its token (no      *)
(*             network, 429, 500), or its answer, or a login's or a         *)
(*             logout's, was lost with the page                             *)
(*   lapsed    access tokens expired after they were issued for a call and  *)
(*             before its second try                                        *)
(*   sign      the last login or logout that ended, or the last login that  *)
(*             set its cookie before it was lost: "in", "out", or "served", *)
(*             a logout that the server had served                          *)

Past == [crossed: BOOLEAN, faulty: BOOLEAN, lapsed: BOOLEAN, sign: {"in", "out", "served"}]

Refreshing(t) == flight[t].pc # "none" \/ \E c \in Calls : At(c, "resume") /\ Of(c) = t
Signing(c) == UnderWay(c) /\ call[c].kind \in {"login", "logout"}
Retried(c) == UnderWay(c) /\ call[c].retried

\* The browser has the cookie of a login.
LoggedIn(c) == At(c, "arrived") /\ call[c].kind = "login" /\ call[c].answer = "ok"

\* A call of tab t has its new token, and has not been answered with it.
Retrying(t) ==
  \/ flight[t].pc \in {"answered", "arrived"} /\ flight[t].new # 0
  \/ \E c \in Calls : Of(c) = t /\ ((At(c, "resume") /\ call[c].answer = "ok") \/ (At(c, "sent") /\ call[c].retried))

\* Something else under way when tab t begins to refresh for the call c.
CrossedBy(t, c) == (\E u \in Tabs \ {t} : Refreshing(u)) \/ \E d \in Calls \ {c} : Signing(d)

-----------------------------------------------------------------------------
(* What the user and the pages do.                                          *)

\* The pages of the console are rendered.
Shown(t) == tab[t].page = "console" /\ tab[t].user /\ ~tab[t].loading

Send(c, t, kind) == [Nothing EXCEPT !.pc = "sent", !.tab = t, !.kind = kind, !.token = stored]

\* A query or a mutation of a page of the console, which RouteGuard shows to a
\* user; the form of the login page.
Begin(c) ==
  \E t \in Tabs, kind \in {"api", "login"} :
    /\ Free(c, t) /\ ~tab[t].leaving
    /\ kind = "api" => Shown(t)
    /\ kind = "login" => tab[t].page = "login"
    /\ call' = [call EXCEPT ![c] = Send(c, t, kind)]
    /\ past' = [past EXCEPT !.crossed = @ \/ (kind = "login" /\
                  (CrossedBy(t, c) \/ Refreshing(t) \/ \E d \in Calls : Retried(d)))]
    /\ UNCHANGED <<cookie, stored, tab, flight, server>>

\* logout: the call comes first.
BeginLogout(c) ==
  \E t \in Tabs :
    /\ Free(c, t) /\ ~tab[t].leaving /\ Shown(t)
    /\ call' = [call EXCEPT ![c] = Send(c, t, "logout")]
    /\ past' = [past EXCEPT !.crossed = @ \/ CrossedBy(t, c) \/ Refreshing(t)]
    /\ UNCHANGED <<cookie, stored, tab, flight, server>>

\* What was under way in a tab is gone with its page.
LoadPage(t, page) ==
  /\ tab' = [tab EXCEPT ![t] = Loaded(page)]
  /\ flight' = [flight EXCEPT ![t] = NoFlight]
  /\ call' = [c \in Calls |-> IF UnderWay(c) /\ Of(c) = t THEN [Nothing EXCEPT !.pc = "ended"] ELSE call[c]]
  /\ past' = [past EXCEPT
       !.faulty = @ \/ flight[t].pc # "none" \/ \E c \in Calls : Signing(c) /\ Of(c) = t,
       !.sign = IF \E c \in Calls : LoggedIn(c) /\ Of(c) = t THEN "in" ELSE @]
  /\ UNCHANGED <<cookie, stored, server>>

\* The user opens a page of the console by its address, or loads it again.
Open(t) == LoadPage(t, "console")

\* The page of the login is loaded for handleUnauthorized.
Unload(t) == tab[t].leaving /\ LoadPage(t, "login")

\* fetchUser, once for a page that is loaded: there is a token, or none.
Unfetched(t) == tab[t].loading /\ \A c \in Calls : ~(UnderWay(c) /\ Of(c) = t /\ call[c].kind = "me")

FetchUser(c) ==
  \E t \in Tabs :
    /\ Free(c, t) /\ Unfetched(t) /\ stored # 0
    /\ call' = [call EXCEPT ![c] = Send(c, t, "me")]
    /\ UNCHANGED <<cookie, stored, tab, flight, server, past>>

FetchNone(t) ==
  /\ Unfetched(t) /\ stored = 0
  /\ tab' = [tab EXCEPT ![t] = Guarded([@ EXCEPT !.loading = FALSE])]
  /\ UNCHANGED <<cookie, stored, flight, call, server, past>>

-----------------------------------------------------------------------------
(* The server.                                                              *)

Answer(c, pc, answer) == [call EXCEPT ![c] = [@ EXCEPT !.pc = pc, !.answer = answer]]

\* The guard refuses, or the handler serves.
Serve(c) ==
  /\ At(c, "sent") /\ call[c].kind \in {"api", "me"}
  /\ call' = Answer(c, "arrived", IF Accepted(call[c].token) THEN "ok" ELSE "401")
  /\ UNCHANGED <<cookie, stored, tab, flight, server, past>>

\* The password is right.
ServeLogin(c) ==
  /\ At(c, "sent") /\ call[c].kind = "login" /\ server.last < MaxToken
  /\ server' = Issued(server, 0)
  /\ call' = [Answer(c, "answered", "ok") EXCEPT ![c].new = NextToken(server)]
  /\ UNCHANGED <<cookie, stored, tab, flight, past>>

\* revokeSession, for the session of the access token.
ServeLogout(c) ==
  LET session == server.of[call[c].token] IN
  /\ At(c, "sent") /\ call[c].kind = "logout"
  /\ IF Accepted(call[c].token)
       THEN /\ server' = [server EXCEPT !.open = @ \ {session},
                                        !.live = {n \in @ : server.of[n] # session}]
            /\ call' = Answer(c, "answered", "ok")
       ELSE UNCHANGED server /\ call' = Answer(c, "arrived", "401")
  /\ UNCHANGED <<cookie, stored, tab, flight, past>>

\* No network, 429, 500, or a login with a wrong password.
ServeFails(c) ==
  /\ At(c, "sent")
  /\ call' = Answer(c, "arrived", "other")
  /\ UNCHANGED <<cookie, stored, tab, flight, server, past>>

\* refresh: the token is looked at, and rotated later.
FlightCheck(t) ==
  /\ flight[t].pc = "sent"
  /\ flight' = [flight EXCEPT ![t].pc = IF Refreshable(flight[t].token) THEN "checked" ELSE "arrived"]
  /\ UNCHANGED <<cookie, stored, tab, call, server, past>>

FlightRotate(t) ==
  LET token == flight[t].token IN
  /\ flight[t].pc = "checked" /\ server.last < MaxToken
  /\ server' = Issued([server EXCEPT !.live = @ \ {token}], server.of[token])
  /\ flight' = [flight EXCEPT ![t] = [@ EXCEPT !.pc = "answered", !.new = NextToken(server)]]
  /\ UNCHANGED <<cookie, stored, tab, call, past>>

\* The answer is not ok, or there is none; the token may have been rotated.
FlightFails(t) ==
  /\ flight[t].pc \in {"sent", "checked", "answered"}
  /\ flight' = [flight EXCEPT ![t] = [@ EXCEPT !.pc = "arrived", !.new = 0]]
  /\ past' = [past EXCEPT !.faulty = TRUE]
  /\ UNCHANGED <<cookie, stored, tab, call, server>>

-----------------------------------------------------------------------------
(* The browser: Set-Cookie.                                                 *)

\* Mutant: the answer of a refresh has no cookie.
FlightCookieKept(t) ==
  /\ flight[t].pc = "answered"
  /\ flight' = [flight EXCEPT ![t].pc = "arrived"]
  /\ UNCHANGED <<cookie, stored, tab, call, server, past>>

FlightCookie(t) ==
  /\ flight[t].pc = "answered"
  /\ cookie' = flight[t].new
  /\ flight' = [flight EXCEPT ![t].pc = "arrived"]
  /\ UNCHANGED <<stored, tab, call, server, past>>

\* A login sets the cookie, a logout clears it.
CallCookie(c) ==
  /\ At(c, "answered")
  /\ cookie' = call[c].new
  /\ Goto(c, "arrived")
  /\ UNCHANGED <<stored, tab, flight, server, past>>

-----------------------------------------------------------------------------
(* The script: request() and refreshAccessToken().                          *)

\* A first 401 starts a refresh, or waits for the one that is under way.
Unauthorized(c) ==
  LET t == Of(c) IN
  /\ At(c, "arrived") /\ call[c].answer = "401" /\ ~call[c].retried
  /\ Goto(c, "waiting")
  /\ IF flight[t].pc = "none"
       THEN /\ flight' = [flight EXCEPT ![t] = [pc |-> "sent", token |-> cookie, new |-> 0]]
            /\ past' = [past EXCEPT !.crossed = @ \/ CrossedBy(t, c)]
       ELSE UNCHANGED <<flight, past>>
  /\ UNCHANGED <<cookie, stored, tab, server>>

\* Mutant: the call that has started the refresh goes on, and forgets the others.
FlightEndsForOne(t) ==
  /\ flight[t].pc = "arrived"
  /\ stored' = IF flight[t].new # 0 THEN flight[t].new ELSE stored
  /\ flight' = [flight EXCEPT ![t] = NoFlight]
  /\ \E c \in Calls :
       /\ At(c, "waiting") /\ Of(c) = t
       /\ call' = [call EXCEPT ![c] = [@ EXCEPT !.pc = "resume",
                                               !.answer = IF flight[t].new # 0 THEN "ok" ELSE "401"]]
  /\ UNCHANGED <<cookie, tab, server, past>>

\* The refresh ends, and all that wait for it go on.
FlightEnds(t) ==
  /\ flight[t].pc = "arrived"
  /\ stored' = IF flight[t].new # 0 THEN flight[t].new ELSE stored
  /\ flight' = [flight EXCEPT ![t] = NoFlight]
  /\ call' = [c \in Calls |-> IF At(c, "waiting") /\ Of(c) = t
                                THEN [call[c] EXCEPT !.pc = "resume",
                                        !.answer = IF flight[t].new # 0 THEN "ok" ELSE "401"]
                                ELSE call[c]]
  /\ UNCHANGED <<cookie, tab, server, past>>

\* The token is read again from the storage.
Retry(c) ==
  /\ At(c, "resume") /\ call[c].answer = "ok"
  /\ call' = [call EXCEPT ![c] = [Send(c, Of(c), call[c].kind) EXCEPT !.retried = TRUE]]
  /\ UNCHANGED <<cookie, stored, tab, flight, server, past>>

\* The tab after the end of a call: what fetchUser, login with the form's router,
\* and logout do with it, and then RouteGuard.
After(c) ==
  LET row == tab[Of(c)]
      answer == call[c].answer
  IN Guarded(CASE call[c].kind = "api" -> row
               [] call[c].kind = "me" ->
                    [row EXCEPT !.loading = FALSE, !.user = answer = "ok" \/ (answer = "other" /\ row.user)]
               [] call[c].kind = "login" ->
                    IF answer = "ok" THEN [row EXCEPT !.user = TRUE, !.page = "console"] ELSE row
               [] call[c].kind = "logout" -> [row EXCEPT !.user = FALSE, !.page = "login"])

\* handleUnauthorized, which leaves any page but that of the login, and the error
\* that the caller gets.
GiveUp(c) ==
  /\ At(c, "resume") /\ call[c].answer = "401"
  /\ stored' = 0
  /\ tab' = [tab EXCEPT ![Of(c)] = [After(c) EXCEPT !.leaving = @ \/ tab[Of(c)].page # "login"]]
  /\ End(c)
  /\ UNCHANGED <<cookie, flight, server, past>>

Signed(c) ==
  past' = [past EXCEPT !.sign =
    CASE call[c].kind = "logout" -> IF call[c].answer = "ok" THEN "served" ELSE "out"
      [] call[c].kind = "login" /\ call[c].answer = "ok" -> "in"
      [] OTHER -> @]

\* Mutant: logout leaves the access token to its expiry.
FinishKeepsToken(c) ==
  /\ At(c, "arrived")
  /\ call[c].answer = "401" => call[c].retried
  /\ stored' = CASE call[c].kind = "login" /\ call[c].answer = "ok" -> call[c].new
                 [] call[c].kind = "me" /\ call[c].answer = "401" -> 0
                 [] OTHER -> stored
  /\ tab' = [tab EXCEPT ![Of(c)] = After(c)]
  /\ Signed(c)
  /\ End(c)
  /\ UNCHANGED <<cookie, flight, server>>

\* The answer of the first or of the second try.
Finish(c) ==
  /\ At(c, "arrived")
  /\ call[c].answer = "401" => call[c].retried
  /\ stored' = CASE call[c].kind = "logout" -> 0
                 [] call[c].kind = "login" /\ call[c].answer = "ok" -> call[c].new
                 [] call[c].kind = "me" /\ call[c].answer = "401" -> 0
                 [] OTHER -> stored
  /\ tab' = [tab EXCEPT ![Of(c)] = After(c)]
  /\ Signed(c)
  /\ End(c)
  /\ UNCHANGED <<cookie, flight, server>>

-----------------------------------------------------------------------------
(* Time, and other administrators.                                          *)

\* The access tokens of today are of yesterday.
Expire ==
  /\ server.expired < server.last
  /\ server' = [server EXCEPT !.expired = server.last]
  /\ past' = [past EXCEPT !.lapsed = @ \/ \E t \in Tabs : Retrying(t)]
  /\ UNCHANGED <<cookie, stored, tab, flight, call>>

\* The sessions are closed, and the tokens are left.
CloseSessions ==
  /\ server.open # {}
  /\ server' = [server EXCEPT !.open = {}]
  /\ UNCHANGED <<cookie, stored, tab, flight, call, past>>

-----------------------------------------------------------------------------

\* Every tab is signed in, and the account may have been locked since.
Init ==
  /\ cookie = 1 /\ stored = 1
  /\ tab = [t \in Tabs |-> [page |-> "console", user |-> TRUE, loading |-> FALSE, leaving |-> FALSE]]
  /\ flight = [t \in Tabs |-> NoFlight]
  /\ call = [c \in Calls |-> Nothing]
  /\ server \in [last: {1}, live: {{1}}, open: {{1}}, of: {[n \in Token |-> IF n = 1 THEN 1 ELSE 0]},
                 expired: {0}, barred: BOOLEAN]
  /\ past = [crossed |-> FALSE, faulty |-> FALSE, lapsed |-> FALSE, sign |-> "in"]

Serves(c) == Serve(c) \/ ServeLogin(c) \/ ServeLogout(c) \/ ServeFails(c)
Script(c) == Unauthorized(c) \/ Retry(c) \/ GiveUp(c) \/ Finish(c)
FlightServes(t) == FlightCheck(t) \/ FlightRotate(t) \/ FlightFails(t)
FlightScript(t) == FlightCookie(t) \/ FlightEnds(t)

\* The user need not do more.
AllServed == (\A c \in Calls : ~UnderWay(c)) /\ UNCHANGED vars

Next ==
  \/ \E c \in Calls : Begin(c) \/ BeginLogout(c) \/ FetchUser(c) \/ Serves(c) \/ CallCookie(c) \/ Script(c)
  \/ \E t \in Tabs : FlightServes(t) \/ FlightScript(t) \/ Open(t) \/ Unload(t) \/ FetchNone(t)
  \/ Expire \/ CloseSessions
  \/ AllServed

\* A fetch that is sent ends, with an answer or an error, and scripts run.
Fairness ==
  /\ \A c \in Calls : WF_vars(Serves(c) \/ CallCookie(c) \/ Script(c))
  /\ \A t \in Tabs : WF_vars(FlightServes(t) \/ FlightScript(t))

Spec == Init /\ [][Next]_vars /\ Fairness

-----------------------------------------------------------------------------
(* Properties.                                                             *)

TypeOK ==
  /\ cookie \in Token /\ stored \in Token
  /\ tab \in [Tabs -> Tab]
  /\ flight \in [Tabs -> Flight]
  /\ call \in [Calls -> Call]
  /\ server \in Server
  /\ past \in Past

\* A page of the console gives way to that of the login.
SentAway(t) ==
  /\ tab[t].page = "console" /\ ~tab[t].leaving
  /\ tab'[t].page = "login" \/ tab'[t].leaving

\* fetchUser gets an answer that is neither a user nor a 401.
LoadFailed(t) ==
  \E c \in Calls : At(c, "arrived") /\ Of(c) = t /\ call[c].kind = "me" /\ call[c].answer = "other"

\* Whoever is signed in is not sent to the login page, by handleUnauthorized or by
\* RouteGuard, while his session is open and his account not locked: one refresh
\* of a tab serves all its calls, and the answer of a refresh or a login replaces
\* the cookie.  Not so if logins, logouts and refreshes crossed, if a refresh
\* failed for another reason or an answer was lost with its page, if the token of
\* a second try expired before it was looked at, and if the call of fetchUser
\* fails without a 401 for a page that is loaded.  (AuthContext.tsx:35 means this
\* last one not to log the user out; the token is kept, and the page is left.)
NoNeedlessLogin ==
  [][\A t \in Tabs : SentAway(t) =>
       \/ server.of[cookie] \notin server.open
       \/ server.barred
       \/ past.sign # "in" \/ \E c \in Calls : Signing(c)
       \/ past.crossed \/ past.faulty \/ past.lapsed
       \/ LoadFailed(t)]_vars

\* After a logout that the server has served, the browser keeps no access token
\* until the next login, ended or lost with its page, whatever calls were under
\* way in whatever tab, unless it met a refresh or a login.  (logout sends the
\* call and then removes it.)
LogoutSticks == past.sign = "served" /\ ~past.crossed => stored = 0

\* Every call ends, with an answer or an error: nobody waits for ever for a
\* refresh, and an account that the guard refuses whatever its token does not
\* send its calls round and round.  (request retries once.)
CallsEnd == \A c \in Calls : UnderWay(c) ~> ~UnderWay(c)
=============================================================================

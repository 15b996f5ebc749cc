------------------------ MODULE BrowserSession_proofs ------------------------
(***************************************************************************)
(* Proofs about BrowserSession: type correctness, that no access token      *)
(* comes back after a logout, and who is sent to the login page while his   *)
(* session is open, for any tabs, any calls and any bound on tokens.        *)
(***************************************************************************)
EXTENDS BrowserSession, TLAPS

-----------------------------------------------------------------------------
(* Type correctness.                                                       *)

LEMMA TokenFacts ==
  /\ 0 \in Token /\ 1 \in Token /\ MaxToken \in Token
  /\ \A n \in Token : n < MaxToken => n + 1 \in Token
  BY Bounds DEF Token

LEMMA NothingType == Nothing \in Call
<1>1. (CHOOSE t \in Tabs : TRUE) \in Tabs
  BY Bounds
<1> QED
  BY <1>1, TokenFacts DEF Nothing, Call, PC, Kinds, Answers

LEMMA NothingFields ==
  /\ Nothing.pc = "idle" /\ Nothing.kind = "api" /\ Nothing.new = 0
  /\ [Nothing EXCEPT !.pc = "ended"].pc = "ended"
  /\ [Nothing EXCEPT !.pc = "ended"].kind = "api"
<1>1. (CHOOSE t \in Tabs : TRUE) \in Tabs
  BY Bounds
<1> QED
  BY <1>1 DEF Nothing

LEMMA NoFlightType == NoFlight \in Flight
  BY TokenFacts DEF NoFlight, Flight, FlightPC

\* The fields of a call in a state of the right type.
LEMMA CallFields ==
  ASSUME TypeOK, NEW c \in Calls
  PROVE  /\ call[c] \in Call
         /\ call[c].pc \in PC /\ call[c].tab \in Tabs /\ call[c].kind \in Kinds
         /\ call[c].token \in Token /\ call[c].retried \in BOOLEAN
         /\ call[c].answer \in Answers /\ call[c].new \in Token
  BY DEF TypeOK, Call

LEMMA FlightFields ==
  ASSUME TypeOK, NEW t \in Tabs
  PROVE  /\ flight[t] \in Flight
         /\ flight[t].pc \in FlightPC /\ flight[t].token \in Token /\ flight[t].new \in Token
  BY DEF TypeOK, Flight

LEMMA ServerFields ==
  ASSUME NEW srv \in Server
  PROVE  /\ srv.last \in Token /\ srv.live \subseteq Token /\ srv.open \subseteq Token
         /\ srv.of \in [Token -> Token] /\ srv.expired \in Token /\ srv.barred \in BOOLEAN
  BY DEF Server

\* A new token is a token, and not 0.
LEMMA NextTokenIsToken ==
  ASSUME NEW srv \in Server, srv.last < MaxToken
  PROVE  NextToken(srv) \in Token \ {0}
<1>1. srv.last \in Token
  BY ServerFields
<1> QED
  BY <1>1, Bounds DEF NextToken, Token

LEMMA IssuedType ==
  ASSUME NEW srv \in Server, srv.last < MaxToken, NEW session \in Token
  PROVE  /\ Issued(srv, session) \in Server
         /\ Issued(srv, session).live = srv.live \cup {NextToken(srv)}
<1> DEFINE n == NextToken(srv)
           of == [srv.of EXCEPT ![n] = IF session = 0 THEN n ELSE session]
           open == IF session = 0 THEN srv.open \cup {n} ELSE srv.open
<1>1. n \in Token
  BY NextTokenIsToken
<1>2. of \in [Token -> Token] /\ open \subseteq Token /\ srv.live \cup {n} \subseteq Token
  BY <1>1, ServerFields
<1>3. Issued(srv, session) = [srv EXCEPT !.last = n, !.live = srv.live \cup {n}, !.of = of, !.open = open]
  BY ServerFields DEF Issued, Server
<1> HIDE DEF n, of, open
<1> QED
  BY <1>1, <1>2, <1>3 DEF Server, n

\* Changes of one call that keep the type.
LEMMA GotoType ==
  ASSUME TypeOK, NEW c \in Calls, NEW pc \in PC, Goto(c, pc)
  PROVE  call' \in [Calls -> Call]
<1>1. [call[c] EXCEPT !.pc = pc] \in Call
  BY CallFields DEF Call
<1> QED
  BY <1>1 DEF Goto, TypeOK

LEMMA AnswerType ==
  ASSUME TypeOK, NEW c \in Calls, NEW pc \in PC, NEW answer \in Answers
  PROVE  Answer(c, pc, answer) \in [Calls -> Call]
<1>1. [call[c] EXCEPT !.pc = pc, !.answer = answer] \in Call
  BY CallFields DEF Call
<1> QED
  BY <1>1 DEF Answer, TypeOK

LEMMA AnswerFields ==
  ASSUME TypeOK, NEW c \in Calls, NEW pc, NEW answer
  PROVE  /\ Answer(c, pc, answer)[c].pc = pc /\ Answer(c, pc, answer)[c].answer = answer
         /\ Answer(c, pc, answer)[c].kind = call[c].kind /\ Answer(c, pc, answer)[c].tab = call[c].tab
         /\ Answer(c, pc, answer)[c].new = call[c].new
         /\ Answer(c, pc, answer)[c].retried = call[c].retried
         /\ \A d \in Calls \ {c} : Answer(c, pc, answer)[d] = call[d]
  BY DEF Answer, TypeOK, Call

LEMMA SendType ==
  ASSUME TypeOK, NEW c \in Calls, NEW t \in Tabs, NEW kind \in Kinds
  PROVE  /\ Send(c, t, kind) \in Call
         /\ [Send(c, t, kind) EXCEPT !.retried = TRUE] \in Call
  BY NothingType DEF Send, Call, PC, TypeOK

LEMMA EndType ==
  ASSUME TypeOK, NEW c \in Calls, End(c)
  PROVE  call' \in [Calls -> Call]
<1>1. [Nothing EXCEPT !.pc = "ended"] \in Call
  BY NothingType DEF Call, PC
<1> QED
  BY <1>1 DEF End, TypeOK

\* The tabs: a page that is loaded, and one that a call has ended in.
LEMMA LoadedType == \A page \in Pages : Loaded(page) \in Tab
BY DEF Loaded, Tab

LEMMA GuardedType ==
  ASSUME NEW row \in Tab
  PROVE  Guarded(row) \in Tab
BY DEF Guarded, Tab, Pages

LEMMA AfterType ==
  ASSUME TypeOK, NEW c \in Calls
  PROVE  After(c) \in Tab /\ Of(c) \in Tabs
<1> DEFINE row == tab[Of(c)]
           answer == call[c].answer
<1>1. Of(c) \in Tabs /\ row \in Tab /\ call[c].kind \in Kinds
  BY CallFields DEF Of, TypeOK
<1>2. CASE call[c].kind = "api"
  BY <1>1, <1>2, GuardedType DEF After
<1>3. CASE call[c].kind = "me"
  <2>1. [row EXCEPT !.loading = FALSE, !.user = answer = "ok" \/ (answer = "other" /\ row.user)] \in Tab
    BY <1>1 DEF Tab
  <2>2. After(c) =
          Guarded([row EXCEPT !.loading = FALSE, !.user = answer = "ok" \/ (answer = "other" /\ row.user)])
    BY <1>3 DEF After
  <2> QED
    BY <1>1, <2>1, <2>2, GuardedType
<1>4. CASE call[c].kind = "login"
  <2>1. [row EXCEPT !.user = TRUE, !.page = "console"] \in Tab
    BY <1>1 DEF Tab, Pages
  <2> QED
    BY <1>1, <1>4, <2>1, GuardedType DEF After
<1>5. CASE call[c].kind = "logout"
  <2>1. [row EXCEPT !.user = FALSE, !.page = "login"] \in Tab
    BY <1>1 DEF Tab, Pages
  <2> QED
    BY <1>1, <1>5, <2>1, GuardedType DEF After
<1> QED
  BY <1>1, <1>2, <1>3, <1>4, <1>5 DEF Kinds

LEMMA TypeInit == Init => TypeOK
<1> SUFFICES ASSUME Init PROVE TypeOK
  OBVIOUS
<1>1. server \in Server
  <2>1. [n \in Token |-> IF n = 1 THEN 1 ELSE 0] \in [Token -> Token]
    BY TokenFacts
  <2> QED
    BY <2>1, TokenFacts DEF Init, Server
<1> QED
  BY <1>1, TokenFacts, NothingType, NoFlightType DEF Init, TypeOK, Tab, Pages, Past

\* The user, the server and the browser.
LEMMA TypeCall ==
  ASSUME TypeOK, NEW c \in Calls,
         Begin(c) \/ BeginLogout(c) \/ FetchUser(c) \/ Serves(c) \/ CallCookie(c)
  PROVE  TypeOK'
<1>0. CASE FetchUser(c)
  <2>1. PICK t \in Tabs : call' = [call EXCEPT ![c] = Send(c, t, "me")]
    BY <1>0 DEF FetchUser
  <2>2. call' \in [Calls -> Call]
    BY <2>1, SendType DEF TypeOK, Kinds
  <2> QED
    BY <1>0, <2>2 DEF FetchUser, TypeOK
<1>1. CASE Begin(c)
  <2>1. PICK t \in Tabs, kind \in {"api", "login"} :
          /\ call' = [call EXCEPT ![c] = Send(c, t, kind)]
          /\ past' = [past EXCEPT !.crossed = past.crossed \/
                       (kind = "login" /\
                         (CrossedBy(t, c) \/ Refreshing(t) \/ \E d \in Calls : Retried(d)))]
    BY <1>1 DEF Begin
  <2>2. call' \in [Calls -> Call]
    BY <2>1, SendType DEF TypeOK, Kinds
  <2>3. past' \in Past
    BY <2>1 DEF TypeOK, Past
  <2> QED
    BY <1>1, <2>2, <2>3 DEF Begin, TypeOK
<1>2. CASE BeginLogout(c)
  <2>1. PICK t \in Tabs :
          /\ call' = [call EXCEPT ![c] = Send(c, t, "logout")]
          /\ past' = [past EXCEPT !.crossed = past.crossed \/ CrossedBy(t, c) \/ Refreshing(t)]
    BY <1>2 DEF BeginLogout
  <2>2. call' \in [Calls -> Call]
    BY <2>1, SendType DEF TypeOK, Kinds
  <2>3. past' \in Past
    BY <2>1 DEF TypeOK, Past
  <2> QED
    BY <1>2, <2>2, <2>3 DEF BeginLogout, TypeOK
<1>3. CASE Serve(c)
  BY <1>3, AnswerType DEF Serve, TypeOK, PC, Answers
<1>4. CASE ServeLogin(c)
  <2>1. NextToken(server) \in Token /\ server' \in Server
    BY <1>4, NextTokenIsToken, IssuedType, TokenFacts DEF ServeLogin, TypeOK
  <2>2. Answer(c, "answered", "ok") \in [Calls -> Call]
    BY AnswerType DEF PC, Answers
  <2>3. [Answer(c, "answered", "ok")[c] EXCEPT !.new = NextToken(server)] \in Call
    BY <2>1, <2>2 DEF Call
  <2>4. call' \in [Calls -> Call]
    BY <1>4, <2>2, <2>3 DEF ServeLogin
  <2> QED
    BY <1>4, <2>1, <2>4 DEF ServeLogin, TypeOK
<1>5. CASE ServeLogout(c)
  <2>1. call' \in [Calls -> Call]
    BY <1>5, AnswerType DEF ServeLogout, PC, Answers
  <2>2. server' \in Server
    <3> DEFINE session == server.of[call[c].token]
               open == server.open \ {session}
               live == {n \in server.live : server.of[n] # session}
    <3>1. open \subseteq Token /\ live \subseteq Token
      BY DEF TypeOK, Server
    <3>2. server' = server \/ server' = [server EXCEPT !.open = open, !.live = live]
      BY <1>5 DEF ServeLogout
    <3> HIDE DEF open, live
    <3> QED
      BY <3>1, <3>2 DEF TypeOK, Server
  <2> QED
    BY <1>5, <2>1, <2>2 DEF ServeLogout, TypeOK
<1>6. CASE ServeFails(c)
  BY <1>6, AnswerType DEF ServeFails, TypeOK, PC, Answers
<1>7. CASE CallCookie(c)
  BY <1>7, GotoType, CallFields DEF CallCookie, TypeOK, PC
<1> QED
  BY <1>0, <1>1, <1>2, <1>3, <1>4, <1>5, <1>6, <1>7 DEF Serves

LEMMA TypeScript ==
  ASSUME TypeOK, NEW c \in Calls, Script(c)
  PROVE  TypeOK'
<1> DEFINE t == Of(c)
<1>1. t \in Tabs
  BY CallFields DEF Of
<1>2. CASE Unauthorized(c)
  <2>1. call' \in [Calls -> Call]
    BY <1>2, GotoType DEF Unauthorized, PC
  <2>2. [pc |-> "sent", token |-> cookie, new |-> 0] \in Flight
    BY TokenFacts DEF TypeOK, Flight, FlightPC
  <2>3. flight' \in [Tabs -> Flight] /\ past' \in Past
    BY <1>1, <1>2, <2>2 DEF Unauthorized, TypeOK, Past
  <2> QED
    BY <1>2, <2>1, <2>3 DEF Unauthorized, TypeOK
<1>3. CASE Retry(c)
  <2>1. call' \in [Calls -> Call]
    BY <1>1, <1>3, SendType, CallFields DEF Retry, TypeOK
  <2> QED
    BY <1>3, <2>1 DEF Retry, TypeOK
<1>4. After(c) \in Tab
  BY AfterType
<1>5. CASE GiveUp(c)
  <2>1. call' \in [Calls -> Call]
    BY <1>5, EndType DEF GiveUp
  <2>2. [After(c) EXCEPT !.leaving = After(c).leaving \/ tab[t].page # "login"] \in Tab
    BY <1>4 DEF Tab
  <2>3. tab' \in [Tabs -> Tab]
    BY <1>1, <1>5, <2>2 DEF GiveUp, TypeOK
  <2> QED
    BY <1>5, <2>1, <2>3, TokenFacts DEF GiveUp, TypeOK
<1>6. CASE Finish(c)
  <2>1. call' \in [Calls -> Call]
    BY <1>6, EndType DEF Finish
  <2>3. tab' \in [Tabs -> Tab]
    BY <1>1, <1>4, <1>6 DEF Finish, TypeOK
  <2>4. past' \in Past
    BY <1>6 DEF Finish, Signed, TypeOK, Past
  <2>5. stored' \in Token
    BY <1>6, CallFields, TokenFacts DEF Finish, TypeOK
  <2> QED
    BY <1>6, <2>1, <2>3, <2>4, <2>5 DEF Finish, TypeOK
<1> QED
  BY <1>2, <1>3, <1>5, <1>6 DEF Script

LEMMA TypeFlight ==
  ASSUME TypeOK, NEW t \in Tabs, FlightServes(t) \/ FlightScript(t) \/ FetchNone(t)
  PROVE  TypeOK'
<1>1. CASE FlightCheck(t)
  <2>1. \A pc \in FlightPC : [flight[t] EXCEPT !.pc = pc] \in Flight
    BY FlightFields DEF Flight
  <2>2. flight' \in [Tabs -> Flight]
    BY <1>1, <2>1 DEF FlightCheck, TypeOK, FlightPC
  <2> QED
    BY <1>1, <2>2 DEF FlightCheck, TypeOK
<1>2. CASE FlightRotate(t)
  <2> DEFINE srv == [server EXCEPT !.live = server.live \ {flight[t].token}]
  <2>1. srv \in Server /\ NextToken(server) \in Token /\ srv.last < MaxToken
    BY <1>2, NextTokenIsToken DEF FlightRotate, TypeOK, Server
  <2>2. server.of[flight[t].token] \in Token
    BY FlightFields, ServerFields DEF TypeOK
  <2>3. server' = Issued(srv, server.of[flight[t].token])
    BY <1>2 DEF FlightRotate
  <2>4. server' \in Server
    BY <2>1, <2>2, <2>3, IssuedType
  <2>5. [flight[t] EXCEPT !.pc = "answered", !.new = NextToken(server)] \in Flight
    BY <2>1, FlightFields DEF Flight, FlightPC
  <2>6. flight' \in [Tabs -> Flight]
    BY <1>2, <2>5 DEF FlightRotate, TypeOK
  <2> QED
    BY <1>2, <2>4, <2>6 DEF FlightRotate, TypeOK
<1>3. CASE FlightFails(t)
  <2>1. [flight[t] EXCEPT !.pc = "arrived", !.new = 0] \in Flight
    BY TokenFacts, FlightFields DEF Flight, FlightPC
  <2>2. flight' \in [Tabs -> Flight] /\ past' \in Past
    BY <1>3, <2>1 DEF FlightFails, TypeOK, Past
  <2> QED
    BY <1>3, <2>2 DEF FlightFails, TypeOK
<1>4. CASE FlightCookie(t)
  <2>1. [flight[t] EXCEPT !.pc = "arrived"] \in Flight
    BY FlightFields DEF Flight, FlightPC
  <2>2. flight' \in [Tabs -> Flight]
    BY <1>4, <2>1 DEF FlightCookie, TypeOK
  <2> QED
    BY <1>4, <2>2, FlightFields DEF FlightCookie, TypeOK
<1>5. CASE FlightEnds(t)
  <2>1. flight' \in [Tabs -> Flight]
    BY <1>5, NoFlightType DEF FlightEnds, TypeOK
  <2>2. \A c \in Calls : \A answer \in {"ok", "401"} :
          [call[c] EXCEPT !.pc = "resume", !.answer = answer] \in Call
    BY CallFields DEF Call, PC, Answers
  <2>3. call' \in [Calls -> Call]
    BY <1>5, <2>2, CallFields DEF FlightEnds
  <2> QED
    BY <1>5, <2>1, <2>3, FlightFields DEF FlightEnds, TypeOK
<1>6. CASE FetchNone(t)
  <2>1. [tab[t] EXCEPT !.loading = FALSE] \in Tab
    BY DEF TypeOK, Tab
  <2>2. tab' \in [Tabs -> Tab]
    BY <1>6, <2>1, GuardedType DEF FetchNone, TypeOK
  <2> QED
    BY <1>6, <2>2 DEF FetchNone, TypeOK
<1> QED
  BY <1>1, <1>2, <1>3, <1>4, <1>5, <1>6 DEF FlightServes, FlightScript

LEMMA TypePage ==
  ASSUME TypeOK, NEW t \in Tabs, NEW page \in Pages, LoadPage(t, page)
  PROVE  TypeOK'
<1>1. flight' \in [Tabs -> Flight]
  BY NoFlightType DEF LoadPage, TypeOK
<1>2. [Nothing EXCEPT !.pc = "ended"] \in Call
  BY NothingType DEF Call, PC
<1>3. call' \in [Calls -> Call]
  BY <1>2, CallFields DEF LoadPage
<1>4. tab' \in [Tabs -> Tab]
  BY LoadedType DEF LoadPage, TypeOK
<1>5. past' \in Past
  BY DEF LoadPage, TypeOK, Past
<1> QED
  BY <1>1, <1>3, <1>4, <1>5 DEF LoadPage, TypeOK

\* A tab loads a page for the user, or for handleUnauthorized.
LEMMA Pagewise ==
  ASSUME NEW t \in Tabs, Open(t) \/ Unload(t)
  PROVE  \E page \in Pages : LoadPage(t, page)
BY DEF Open, Unload, Pages

LEMMA TypeNext == TypeOK /\ [Next]_vars => TypeOK'
<1> SUFFICES ASSUME TypeOK, [Next]_vars PROVE TypeOK'
  OBVIOUS
<1>1. CASE Expire
  BY <1>1 DEF Expire, TypeOK, Server, Past
<1>2. CASE CloseSessions
  BY <1>2 DEF CloseSessions, TypeOK, Server
<1>3. CASE UNCHANGED vars
  BY <1>3 DEF vars, TypeOK
<1> QED
  BY <1>1, <1>2, <1>3, TypeCall, TypeScript, TypeFlight, TypePage, Pagewise DEF Next, AllServed

\* The browser's tokens, tabs and calls, and the server's tables, have their types
\* throughout.  (lib/api.ts, AuthContext and AuthService.refresh.)
THEOREM TypeCorrect == Spec => []TypeOK
<1> QED
  BY TypeInit, TypeNext, PTL DEF Spec

-----------------------------------------------------------------------------
(* The steps, by what they do.                                             *)

\* A call is sent.
Asks(c) == Begin(c) \/ BeginLogout(c) \/ FetchUser(c)

\* A page is loaded.
Loads(t) == \E page \in Pages : LoadPage(t, page)

\* No call, no refresh and no token of the browser moves.
Idles == Expire \/ CloseSessions \/ (\E t \in Tabs : FetchNone(t)) \/ UNCHANGED vars

LEMMA NextCases ==
  ASSUME [Next]_vars
  PROVE  \/ \E c \in Calls : Asks(c) \/ Serves(c) \/ CallCookie(c) \/ Script(c)
         \/ \E t \in Tabs : FlightServes(t) \/ FlightScript(t) \/ Loads(t)
         \/ Idles
<1>1. \A t \in Tabs : Open(t) \/ Unload(t) => Loads(t)
  BY Pagewise DEF Loads
<1> QED
  BY <1>1 DEF Next, AllServed, Asks, Idles

-----------------------------------------------------------------------------
(* What holds on the way.                                                  *)

\* What the position of a call says of it: a login is not refused and does not wait
\* for a refresh, and only a login and a logout have an answer with a cookie.
CallOf(c) ==
  /\ call[c].kind = "login" /\ UnderWay(c) =>
       /\ call[c].pc \in {"sent", "answered", "arrived"} /\ call[c].answer # "401"
       /\ call[c].pc # "sent" /\ call[c].answer = "ok" => call[c].new # 0
  /\ call[c].kind = "logout" => call[c].new = 0
  /\ At(c, "answered") => call[c].kind \in {"login", "logout"} /\ call[c].answer = "ok"
  /\ At(c, "sent") => call[c].answer = "none"
  /\ At(c, "arrived") => call[c].answer # "none"

Positions ==
  /\ 0 \notin server.live
  /\ \A c \in Calls : CallOf(c)
  /\ \A t \in Tabs : flight[t].pc = "none" => flight[t].token = 0 /\ flight[t].new = 0

\* A login or a logout is the only one, and meets no refresh but its own.
AloneIs(c) ==
  /\ \A d \in Calls : Signing(d) => d = c
  /\ \A t \in Tabs : flight[t].pc # "none" => t = Of(c) /\ At(c, "waiting")

Alone == ~past.crossed => \A c \in Calls : Signing(c) => AloneIs(c)

\* The answer of a login or a logout that the server has served.
Served(c, kind) == At(c, "arrived") /\ call[c].kind = kind /\ call[c].answer = "ok"

\* A logout that is about to end has taken the cookie.
CookieTaken == ~past.crossed => \A c \in Calls : Served(c, "logout") => cookie = 0

\* Flights that have nothing to show.
Empty(f) == f.pc \in {"none", "sent", "arrived"} /\ f.token = 0 /\ f.new = 0

\* After it, only a login brings a cookie, and a refresh has none to show.
SignedOut ==
  past.sign = "served" /\ ~past.crossed =>
    /\ stored = 0
    /\ cookie = 0 \/ \E c \in Calls : Served(c, "login")
    /\ \A t \in Tabs : Empty(flight[t])

IInv == TypeOK /\ Positions /\ Alone /\ CookieTaken /\ SignedOut

LEMMA InitIInv == Init => IInv
<1> SUFFICES ASSUME Init PROVE IInv
  OBVIOUS
<1>1. \A c \in Calls : call[c] = Nothing
  BY DEF Init
<1>2. Positions
  <2>1. server.live = {1}
    BY DEF Init
  <2>2. \A c \in Calls : CallOf(c)
    BY <1>1, NothingFields DEF CallOf, At
  <2>3. \A t \in Tabs : flight[t].pc = "none" => flight[t].token = 0 /\ flight[t].new = 0
    BY DEF Init, NoFlight
  <2> QED
    BY <2>1, <2>2, <2>3 DEF Positions
<1>3. \A c \in Calls : ~UnderWay(c)
  BY <1>1, NothingFields DEF UnderWay
<1> QED
  BY <1>2, <1>3, TypeInit DEF Init, IInv, Alone, CookieTaken, SignedOut, Served, Signing, UnderWay, At

LEMMA PositionsNext == IInv /\ [Next]_vars => Positions'
<1> SUFFICES ASSUME IInv, [Next]_vars PROVE Positions'
  OBVIOUS
<1>0. TypeOK /\ Positions /\ TypeOK'
  BY TypeNext DEF IInv
<1> USE <1>0
<1>1. ASSUME NEW c \in Calls, Asks(c)
      PROVE  Positions'
  <2>1. PICK t \in Tabs, kind \in {"api", "me", "login", "logout"} :
          call' = [call EXCEPT ![c] = Send(c, t, kind)]
    BY <1>1 DEF Asks, Begin, BeginLogout, FetchUser
  <2>2. CallOf(c)'
    BY <2>1, CallFields DEF CallOf, Send, Nothing, UnderWay, At, TypeOK
  <2>3. \A d \in Calls \ {c} : CallOf(d)'
    BY <2>1 DEF Positions, CallOf, UnderWay, At, TypeOK
  <2> QED
    BY <1>1, <2>2, <2>3 DEF Asks, Begin, BeginLogout, FetchUser, Positions
<1>2. ASSUME NEW c \in Calls, Serves(c)
      PROVE  Positions'
  <2>1. CallOf(c)'
    <3>1. CASE Serve(c)
      BY <3>1 DEF Serve, Answer, CallOf, UnderWay, At, TypeOK, Positions
    <3>2. CASE ServeLogin(c)
      <4>1. NextToken(server) # 0
        BY <3>2, NextTokenIsToken DEF ServeLogin, TypeOK
      <4> QED
        BY <3>2, <4>1 DEF ServeLogin, Answer, CallOf, UnderWay, At, TypeOK, Positions
    <3>3. CASE ServeLogout(c)
      <4>1. call[c].kind = "logout" /\ (call' = Answer(c, "answered", "ok") \/ call' = Answer(c, "arrived", "401"))
        BY <3>3 DEF ServeLogout
      <4>2. call'[c].kind = "logout" /\ call'[c].new = call[c].new
        BY <4>1, AnswerFields
      <4>3. (call'[c].pc = "answered" => call'[c].answer = "ok") /\ call'[c].answer # "none"
            /\ call'[c].pc # "sent"
        BY <4>1, AnswerFields
      <4> QED
        BY <4>1, <4>2, <4>3 DEF CallOf, At, Positions
    <3>4. CASE ServeFails(c)
      BY <3>4 DEF ServeFails, Answer, CallOf, UnderWay, At, TypeOK, Positions
    <3> QED
      BY <1>2, <3>1, <3>2, <3>3, <3>4 DEF Serves
  <2>2. \A d \in Calls \ {c} : CallOf(d)'
    <3>1. \A d \in Calls \ {c} : call'[d] = call[d]
      BY <1>2 DEF Serves, Serve, ServeLogin, ServeLogout, ServeFails, Answer, TypeOK
    <3> QED
      BY <3>1 DEF Positions, CallOf, UnderWay, At
  <2>3. 0 \notin server'.live
    <3>1. CASE ServeLogin(c)
      <4>1. server'.live = server.live \cup {NextToken(server)}
        BY <3>1, IssuedType, TokenFacts DEF ServeLogin, TypeOK
      <4> QED
        BY <3>1, <4>1, NextTokenIsToken DEF ServeLogin, TypeOK, Positions
    <3>2. CASE ServeLogout(c)
      BY ZenonT(40), <3>2 DEF ServeLogout, Positions, TypeOK, Server
    <3> QED
      BY <1>2, <3>1, <3>2 DEF Serves, Serve, ServeFails, Positions
  <2> QED
    BY <1>2, <2>1, <2>2, <2>3 DEF Serves, Serve, ServeLogin, ServeLogout, ServeFails, Positions
<1>3. ASSUME NEW c \in Calls, CallCookie(c)
      PROVE  Positions'
  BY <1>3 DEF CallCookie, Goto, Positions, CallOf, UnderWay, At, TypeOK
<1>4. ASSUME NEW c \in Calls, Script(c)
      PROVE  Positions'
  <2>1. CallOf(c)'
    <3>1. CASE Unauthorized(c)
      BY <3>1 DEF Unauthorized, Goto, CallOf, UnderWay, At, TypeOK, Positions
    <3>2. CASE Retry(c)
      BY <3>2 DEF Retry, Send, Nothing, CallOf, UnderWay, At, TypeOK, Positions
    <3>3. CASE GiveUp(c) \/ Finish(c)
      <4>1. call'[c] = [Nothing EXCEPT !.pc = "ended"]
        BY <3>3 DEF GiveUp, Finish, End, TypeOK
      <4> QED
        BY <4>1, NothingFields DEF CallOf, At
    <3> QED
      BY <1>4, <3>1, <3>2, <3>3 DEF Script
  <2>2. \A d \in Calls \ {c} : CallOf(d)'
    <3>1. \A d \in Calls \ {c} : call'[d] = call[d]
      BY <1>4 DEF Script, Unauthorized, Retry, GiveUp, Finish, Goto, End, TypeOK
    <3> QED
      BY <3>1 DEF Positions, CallOf, UnderWay, At
  <2>3. \A t \in Tabs : flight'[t] = flight[t] \/ flight'[t].pc = "sent"
    BY <1>4 DEF Script, Unauthorized, Retry, GiveUp, Finish, TypeOK
  <2>4. server' = server
    BY <1>4 DEF Script, Unauthorized, Retry, GiveUp, Finish
  <2> QED
    BY <2>1, <2>2, <2>3, <2>4 DEF Positions
<1>5. ASSUME NEW t \in Tabs, FlightServes(t) \/ FlightCookie(t)
      PROVE  Positions'
  <2>1. call' = call
    BY <1>5 DEF FlightServes, FlightCheck, FlightRotate, FlightFails, FlightCookie
  <2>2. \A u \in Tabs : flight'[u] = flight[u] \/ flight'[u].pc # "none"
    <3>1. CASE FlightCheck(t)
      BY <3>1 DEF FlightCheck, TypeOK
    <3>2. CASE FlightRotate(t)
      BY <3>2 DEF FlightRotate, TypeOK
    <3>3. CASE FlightFails(t)
      BY <3>3 DEF FlightFails, TypeOK
    <3>4. CASE FlightCookie(t)
      BY <3>4 DEF FlightCookie, TypeOK
    <3> QED
      BY <1>5, <3>1, <3>2, <3>3, <3>4 DEF FlightServes
  <2>3. 0 \notin server'.live
    <3>1. CASE FlightRotate(t)
      <4> DEFINE srv == [server EXCEPT !.live = server.live \ {flight[t].token}]
      <4>1. srv \in Server /\ 0 \notin srv.live /\ srv.last < MaxToken
        BY <3>1 DEF FlightRotate, TypeOK, Server, Positions
      <4>2. server' = Issued(srv, server.of[flight[t].token]) /\ server.of[flight[t].token] \in Token
        BY <3>1, FlightFields, ServerFields DEF FlightRotate, TypeOK
      <4> HIDE DEF srv
      <4>3. server'.live = srv.live \cup {NextToken(srv)} /\ NextToken(srv) # 0
        BY <4>1, <4>2, IssuedType, NextTokenIsToken
      <4> QED
        BY <4>1, <4>3
    <3> QED
      BY <1>5, <3>1 DEF FlightServes, FlightCheck, FlightFails, FlightCookie, Positions
  <2> QED
    BY <2>1, <2>2, <2>3 DEF Positions, CallOf, UnderWay, At
<1>6. ASSUME NEW t \in Tabs, FlightEnds(t) \/ Loads(t)
      PROVE  Positions'
  <2>1. server' = server /\ \A u \in Tabs : flight'[u] = flight[u] \/ flight'[u] = NoFlight
    BY <1>6 DEF FlightEnds, Loads, LoadPage, TypeOK
  <2>2. ASSUME NEW c \in Calls
        PROVE  CallOf(c)'
    <3>1. CASE FlightEnds(t)
      BY <3>1, CallFields DEF FlightEnds, CallOf, UnderWay, At, Positions, Call
    <3>2. CASE Loads(t)
      <4>1. call'[c] = call[c] \/ call'[c] = [Nothing EXCEPT !.pc = "ended"]
        BY <3>2 DEF Loads, LoadPage
      <4> QED
        BY <4>1, NothingFields DEF CallOf, UnderWay, At, Positions
    <3> QED
      BY <1>6, <3>1, <3>2
  <2> QED
    BY <2>1, <2>2 DEF Positions, NoFlight
<1>7. CASE Idles
  <2>1. call' = call /\ flight' = flight /\ server'.live = server.live
    BY <1>7 DEF Idles, Expire, CloseSessions, FetchNone, vars, TypeOK, Server
  <2> QED
    BY <2>1 DEF Positions, CallOf, UnderWay, At
<1> QED
  BY <1>1, <1>2, <1>3, <1>4, <1>5, <1>6, <1>7, NextCases DEF FlightScript

-----------------------------------------------------------------------------
(* How calls and flights move.                                             *)

\* A call is served, gets its cookie or is sent again.
LEMMA GoesOn ==
  ASSUME TypeOK, NEW c \in Calls, Serves(c) \/ CallCookie(c) \/ Retry(c)
  PROVE  /\ call'[c].kind = call[c].kind /\ call'[c].tab = call[c].tab
         /\ call[c].pc \in {"sent", "answered", "resume"}
         /\ call'[c].pc \in {"sent", "answered", "arrived"}
         /\ \A d \in Calls \ {c} : call'[d] = call[d]
         /\ stored' = stored /\ tab' = tab /\ flight' = flight /\ past' = past
<1>1. CASE Serve(c)
  BY <1>1, AnswerFields DEF Serve, At
<1>2. CASE ServeLogin(c)
  <2>1. call' = [Answer(c, "answered", "ok") EXCEPT ![c].new = NextToken(server)]
    BY <1>2 DEF ServeLogin
  <2>2. Answer(c, "answered", "ok") \in [Calls -> Call]
    BY AnswerType DEF PC, Answers
  <2>3. call'[c].kind = Answer(c, "answered", "ok")[c].kind /\ call'[c].tab = Answer(c, "answered", "ok")[c].tab
        /\ call'[c].pc = Answer(c, "answered", "ok")[c].pc
        /\ \A d \in Calls \ {c} : call'[d] = Answer(c, "answered", "ok")[d]
    BY <2>1, <2>2 DEF Call
  <2> QED
    BY <1>2, <2>3, AnswerFields DEF ServeLogin, At
<1>3. CASE ServeLogout(c)
  <2>1. call' = Answer(c, "answered", "ok") \/ call' = Answer(c, "arrived", "401")
    BY <1>3 DEF ServeLogout
  <2> QED
    BY <1>3, <2>1, AnswerFields DEF ServeLogout, At
<1>4. CASE ServeFails(c)
  BY <1>4, AnswerFields DEF ServeFails, At
<1>5. CASE CallCookie(c)
  BY <1>5 DEF CallCookie, Goto, At, TypeOK, Call
<1>6. CASE Retry(c)
  <2>1. [Send(c, Of(c), call[c].kind) EXCEPT !.retried = TRUE].kind = call[c].kind
        /\ [Send(c, Of(c), call[c].kind) EXCEPT !.retried = TRUE].tab = call[c].tab
        /\ [Send(c, Of(c), call[c].kind) EXCEPT !.retried = TRUE].pc = "sent"
    BY DEF Send, Nothing, Of
  <2> QED
    BY <1>6, <2>1 DEF Retry, At, TypeOK
<1> QED
  BY <1>1, <1>2, <1>3, <1>4, <1>5, <1>6 DEF Serves

\* A call ends.
LEMMA Ends ==
  ASSUME TypeOK, NEW c \in Calls, GiveUp(c) \/ Finish(c)
  PROVE  /\ call'[c].pc = "ended"
         /\ \A d \in Calls \ {c} : call'[d] = call[d]
         /\ cookie' = cookie /\ flight' = flight /\ past'.crossed = past.crossed
<1>1. call' = [call EXCEPT ![c] = [Nothing EXCEPT !.pc = "ended"]]
  BY DEF GiveUp, Finish, End
<1>2. past'.crossed = past.crossed
  BY DEF GiveUp, Finish, Signed, TypeOK, Past
<1> QED
  BY <1>1, <1>2, NothingFields DEF GiveUp, Finish, TypeOK

\* A refresh goes on: it has been out before, and is.
LEMMA FlightGoesOn ==
  ASSUME TypeOK, NEW t \in Tabs, FlightServes(t) \/ FlightCookie(t)
  PROVE  /\ flight[t].pc # "none" /\ flight'[t].pc # "none"
         /\ flight'[t].token = flight[t].token
         /\ \A u \in Tabs \ {t} : flight'[u] = flight[u]
         /\ stored' = stored /\ tab' = tab /\ call' = call
         /\ past'.crossed = past.crossed /\ past'.sign = past.sign
<1>1. CASE FlightCheck(t)
  BY <1>1 DEF FlightCheck, TypeOK, Flight
<1>2. CASE FlightRotate(t)
  BY <1>2 DEF FlightRotate, TypeOK, Flight
<1>3. CASE FlightFails(t)
  BY <1>3 DEF FlightFails, TypeOK, Flight, Past
<1>4. CASE FlightCookie(t)
  BY <1>4 DEF FlightCookie, TypeOK, Flight
<1> QED
  BY <1>1, <1>2, <1>3, <1>4 DEF FlightServes

\* A refresh ends, and those that wait for it go on.
LEMMA FlightIsOver ==
  ASSUME TypeOK, NEW t \in Tabs, FlightEnds(t)
  PROVE  /\ flight'[t] = NoFlight /\ flight[t].pc = "arrived"
         /\ \A u \in Tabs \ {t} : flight'[u] = flight[u]
         /\ \A d \in Calls : At(d, "waiting") /\ Of(d) = t =>
              call'[d].pc = "resume" /\ call'[d].kind = call[d].kind /\ call'[d].tab = call[d].tab
         /\ \A d \in Calls : ~(At(d, "waiting") /\ Of(d) = t) => call'[d] = call[d]
         /\ cookie' = cookie /\ tab' = tab /\ past' = past
         /\ stored' = stored \/ stored' = flight[t].new
<1>1. ASSUME NEW d \in Calls, At(d, "waiting"), Of(d) = t
      PROVE  call'[d].pc = "resume" /\ call'[d].kind = call[d].kind /\ call'[d].tab = call[d].tab
  BY <1>1, CallFields DEF FlightEnds, Call
<1>2. \A d \in Calls : ~(At(d, "waiting") /\ Of(d) = t) => call'[d] = call[d]
  BY DEF FlightEnds
<1> QED
  BY <1>1, <1>2 DEF FlightEnds, TypeOK

\* A page is loaded: the calls and the refresh of the one before are gone.
LEMMA PageIsLoaded ==
  ASSUME TypeOK, NEW t \in Tabs, Loads(t)
  PROVE  /\ \A u \in Tabs \ {t} : tab'[u] = tab[u]
         /\ tab'[t].loading /\ ~tab'[t].leaving
         /\ flight'[t] = NoFlight /\ \A u \in Tabs \ {t} : flight'[u] = flight[u]
         /\ \A d \in Calls : UnderWay(d) /\ Of(d) = t => call'[d].pc = "ended"
         /\ \A d \in Calls : ~(UnderWay(d) /\ Of(d) = t) => call'[d] = call[d]
         /\ cookie' = cookie /\ stored' = stored /\ server' = server
         /\ past'.crossed = past.crossed /\ past'.lapsed = past.lapsed
         /\ past'.sign = IF \E c \in Calls : LoggedIn(c) /\ Of(c) = t THEN "in" ELSE past.sign
         /\ past'.faulty = (past.faulty \/ flight[t].pc # "none" \/ \E c \in Calls : Signing(c) /\ Of(c) = t)
<1>1. PICK page \in Pages : LoadPage(t, page)
  BY DEF Loads
<1>2. \A d \in Calls : UnderWay(d) /\ Of(d) = t => call'[d].pc = "ended"
  BY <1>1, NothingFields DEF LoadPage
<1>3. \A d \in Calls : ~(UnderWay(d) /\ Of(d) = t) => call'[d] = call[d]
  BY <1>1 DEF LoadPage
<1>4. /\ past'.crossed = past.crossed /\ past'.lapsed = past.lapsed
      /\ past'.sign = IF \E c \in Calls : LoggedIn(c) /\ Of(c) = t THEN "in" ELSE past.sign
      /\ past'.faulty = (past.faulty \/ flight[t].pc # "none" \/ \E c \in Calls : Signing(c) /\ Of(c) = t)
  BY <1>1 DEF LoadPage, TypeOK, Past
<1>5. Loaded(page).loading /\ ~Loaded(page).leaving
  BY DEF Loaded
<1> QED
  BY <1>1, <1>2, <1>3, <1>4, <1>5 DEF LoadPage, TypeOK

\* A call is sent: a login or a logout meets nothing else, or is remembered.
LEMMA Begins ==
  ASSUME TypeOK, NEW c \in Calls, Asks(c)
  PROVE  /\ ~UnderWay(c)
         /\ \A d \in Calls \ {c} : call'[d] = call[d]
         /\ call'[c].pc = "sent" /\ ~call'[c].retried
         /\ UNCHANGED <<cookie, stored, tab, flight, server>>
         /\ past'.sign = past.sign /\ past'.faulty = past.faulty /\ past'.lapsed = past.lapsed
         /\ past.crossed => past'.crossed
         /\ call'[c].tab \in Tabs
         /\ call'[c].kind \in {"login", "logout"} =>
              past'.crossed \/ (~CrossedBy(call'[c].tab, c) /\ ~Refreshing(call'[c].tab))
         /\ call'[c].kind = "login" => past'.crossed \/ \A d \in Calls : ~Retried(d)
<1>1. ASSUME NEW t \in Tabs, NEW kind \in Kinds, Free(c, t), call' = [call EXCEPT ![c] = Send(c, t, kind)]
      PROVE  /\ call'[c].pc = "sent" /\ ~call'[c].retried /\ call'[c].tab = t /\ call'[c].kind = kind
             /\ \A d \in Calls \ {c} : call'[d] = call[d]
             /\ ~UnderWay(c)
  <2>1. LET sent == Send(c, t, kind)
        IN  sent.pc = "sent" /\ ~sent.retried /\ sent.tab = t /\ sent.kind = kind
    BY DEF Send, Nothing
  <2> QED
    BY <1>1, <2>1 DEF TypeOK, Free, At, UnderWay
<1>2. CASE Begin(c)
  <2>1. PICK t \in Tabs, kind \in {"api", "login"} :
          /\ Free(c, t)
          /\ call' = [call EXCEPT ![c] = Send(c, t, kind)]
          /\ past' = [past EXCEPT !.crossed = past.crossed \/
                       (kind = "login" /\
                         (CrossedBy(t, c) \/ Refreshing(t) \/ \E d \in Calls : Retried(d)))]
    BY <1>2 DEF Begin
  <2>2. /\ past'.sign = past.sign /\ past'.faulty = past.faulty /\ past'.lapsed = past.lapsed
        /\ past'.crossed = (past.crossed \/ (kind = "login" /\
             (CrossedBy(t, c) \/ Refreshing(t) \/ \E d \in Calls : Retried(d))))
    BY <2>1 DEF TypeOK, Past
  <2>3. kind \in Kinds
    BY DEF Kinds
  <2>4. UNCHANGED <<cookie, stored, tab, flight, server>>
    BY <1>2 DEF Begin
  <2> QED
    BY <1>1, <2>1, <2>2, <2>3, <2>4
<1>3. CASE BeginLogout(c)
  <2>1. PICK t \in Tabs :
          /\ Free(c, t)
          /\ call' = [call EXCEPT ![c] = Send(c, t, "logout")]
          /\ past' = [past EXCEPT !.crossed = past.crossed \/ CrossedBy(t, c) \/ Refreshing(t)]
    BY <1>3 DEF BeginLogout
  <2>2. /\ past'.sign = past.sign /\ past'.faulty = past.faulty /\ past'.lapsed = past.lapsed
        /\ past'.crossed = (past.crossed \/ CrossedBy(t, c) \/ Refreshing(t))
    BY <2>1 DEF TypeOK, Past
  <2>3. "logout" \in Kinds
    BY DEF Kinds
  <2>4. UNCHANGED <<cookie, stored, tab, flight, server>>
    BY <1>3 DEF BeginLogout
  <2> QED
    BY <1>1, <2>1, <2>2, <2>3, <2>4
<1>4. CASE FetchUser(c)
  <2>1. PICK t \in Tabs : Free(c, t) /\ call' = [call EXCEPT ![c] = Send(c, t, "me")]
    BY <1>4 DEF FetchUser
  <2>2. "me" \in Kinds
    BY DEF Kinds
  <2>3. UNCHANGED <<cookie, stored, tab, flight, server, past>>
    BY <1>4 DEF FetchUser
  <2> QED
    BY <1>1, <2>1, <2>2, <2>3
<1> QED
  BY <1>2, <1>3, <1>4 DEF Asks

\* A call meets its first 401.
LEMMA Refused ==
  ASSUME TypeOK, NEW c \in Calls, Unauthorized(c)
  PROVE  /\ At(c, "arrived") /\ call[c].answer = "401" /\ Of(c) \in Tabs
         /\ call'[c].pc = "waiting" /\ call'[c].kind = call[c].kind /\ call'[c].tab = call[c].tab
         /\ \A d \in Calls \ {c} : call'[d] = call[d]
         /\ cookie' = cookie /\ stored' = stored /\ tab' = tab /\ past'.sign = past.sign
         /\ past.crossed => past'.crossed
         /\ \A u \in Tabs \ {Of(c)} : flight'[u] = flight[u]
         /\ flight[Of(c)].pc # "none" => flight' = flight
         /\ flight[Of(c)].pc = "none" =>
              /\ flight'[Of(c)] = [pc |-> "sent", token |-> cookie, new |-> 0]
              /\ past'.crossed \/ ~CrossedBy(Of(c), c)
<1>1. Of(c) \in Tabs
  BY CallFields DEF Of
<1> QED
  BY <1>1 DEF Unauthorized, Goto, TypeOK, Call, Past

\* A step moves nothing else.
LEMMA Rests ==
  ASSUME TypeOK, Idles
  PROVE  /\ UNCHANGED <<cookie, stored, flight, call>>
         /\ past'.crossed = past.crossed /\ past'.faulty = past.faulty /\ past'.sign = past.sign
BY DEF Idles, Expire, CloseSessions, FetchNone, vars, TypeOK, Past

-----------------------------------------------------------------------------
(* A login or a logout meets nothing else, or is remembered as crossed.     *)

\* A step that begins no login, logout or refresh and ends no wait.
LEMMA AloneQuiet ==
  ASSUME Alone, past'.crossed = past.crossed,
         \A d \in Calls : call'[d] = call[d] \/ call'[d].pc = "ended" \/
           (UnderWay(d) /\ ~At(d, "waiting") /\ call'[d].kind = call[d].kind /\ call'[d].tab = call[d].tab),
         \A t \in Tabs : flight[t].pc = "none" => flight'[t].pc = "none"
  PROVE  Alone'
<1>1. \A d \in Calls : Signing(d)' => Signing(d) /\ call'[d].tab = call[d].tab
  BY DEF Signing, UnderWay, At
<1>2. \A d \in Calls : Signing(d)' /\ At(d, "waiting") => call'[d] = call[d]
  BY DEF Signing, UnderWay, At
<1> SUFFICES ASSUME ~past.crossed, NEW c \in Calls, Signing(c)' PROVE AloneIs(c)'
  BY DEF Alone
<1>3. Signing(c) /\ AloneIs(c) /\ call'[c].tab = call[c].tab
  BY <1>1 DEF Alone
<1>4. \A d \in Calls : Signing(d)' => d = c
  BY <1>1, <1>3 DEF AloneIs
<1>5. \A t \in Tabs : flight'[t].pc # "none" => t = call'[c].tab /\ call'[c].pc = "waiting"
  BY <1>2, <1>3 DEF AloneIs, Of, At
<1> QED
  BY <1>4, <1>5 DEF AloneIs, Of, At

LEMMA AloneNext == IInv /\ [Next]_vars => Alone'
<1> SUFFICES ASSUME IInv, [Next]_vars PROVE Alone'
  OBVIOUS
<1>0. TypeOK /\ Positions /\ Alone
  BY DEF IInv
<1> USE <1>0
<1>1. ASSUME NEW c \in Calls, Asks(c)
      PROVE  Alone'
  <2> SUFFICES ASSUME ~past'.crossed, NEW d \in Calls, Signing(d)' PROVE AloneIs(d)'
    BY DEF Alone
  <2>1. ~past.crossed /\ flight' = flight
    BY <1>1, Begins
  <2>2. CASE call'[c].kind \in {"login", "logout"}
    <3>1. ~CrossedBy(call'[c].tab, c) /\ ~Refreshing(call'[c].tab)
      BY <1>1, <2>2, Begins
    <3>2. \A e \in Calls \ {c} : ~Signing(e) /\ call'[e] = call[e]
      BY <1>1, <3>1, Begins DEF CrossedBy
    <3>3. \A e \in Calls : Signing(e)' => e = c
      BY <3>2 DEF Signing, UnderWay
    <3>4. \A u \in Tabs : flight'[u].pc = "none"
      BY <2>1, <3>1 DEF CrossedBy, Refreshing
    <3> QED
      BY <3>3, <3>4 DEF AloneIs
  <2>3. CASE call'[c].kind \notin {"login", "logout"}
    <3>1. \A e \in Calls : Signing(e)' => e # c /\ Signing(e) /\ call'[e] = call[e]
      BY <1>1, <2>3, Begins DEF Signing, UnderWay
    <3>2. AloneIs(d)
      BY <2>1, <3>1 DEF Alone
    <3> QED
      BY <2>1, <3>1, <3>2 DEF AloneIs, Of, At
  <2> QED
    BY <2>2, <2>3
<1>2. ASSUME NEW c \in Calls, Serves(c) \/ CallCookie(c) \/ Retry(c)
      PROVE  Alone'
  BY <1>2, GoesOn, AloneQuiet DEF UnderWay, At
<1>3. ASSUME NEW c \in Calls, GiveUp(c) \/ Finish(c)
      PROVE  Alone'
  BY <1>3, Ends, AloneQuiet
<1>4. ASSUME NEW c \in Calls, Unauthorized(c)
      PROVE  Alone'
  <2> SUFFICES ASSUME ~past'.crossed, NEW d \in Calls, Signing(d)' PROVE AloneIs(d)'
    BY DEF Alone
  <2>1. ~past.crossed /\ Of(c) \in Tabs
    BY <1>4, Refused
  <2>2. \A e \in Calls : Signing(e)' => Signing(e)
    BY <1>4, Refused DEF Signing, UnderWay, At
  <2>3. AloneIs(d) /\ \A e \in Calls : Signing(e)' => e = d
    BY <2>1, <2>2 DEF Alone, AloneIs
  <2>4. CASE d = c
    <3>1. \A u \in Tabs : flight[u].pc = "none"
      BY <1>4, <2>3, <2>4, Refused DEF AloneIs, At
    <3>2. \A u \in Tabs : flight'[u].pc # "none" => u = Of(c)
      BY <1>4, <3>1, Refused
    <3> QED
      BY <1>4, <2>3, <2>4, <3>2, Refused DEF AloneIs, Of, At
  <2>5. CASE d # c
    <3>1. flight[Of(c)].pc # "none"
      BY <1>4, <2>1, <2>2, <2>5, Refused DEF CrossedBy
    <3>2. flight' = flight /\ call'[d] = call[d]
      BY <1>4, <2>5, <3>1, Refused
    <3> QED
      BY <2>3, <3>2 DEF AloneIs, Of, At
  <2> QED
    BY <2>4, <2>5
<1>5. ASSUME NEW t \in Tabs, FlightServes(t) \/ FlightCookie(t)
      PROVE  Alone'
  <2>1. \A u \in Tabs : flight[u].pc = "none" => flight'[u].pc = "none"
    BY <1>5, FlightGoesOn
  <2>2. call' = call /\ past'.crossed = past.crossed
    BY <1>5, FlightGoesOn
  <2> QED
    BY <2>1, <2>2, AloneQuiet
<1>6. ASSUME NEW t \in Tabs, FlightEnds(t)
      PROVE  Alone'
  <2> SUFFICES ASSUME ~past.crossed, NEW d \in Calls, Signing(d)' PROVE AloneIs(d)'
    BY <1>6, FlightIsOver DEF Alone
  <2>1. \A e \in Calls : Signing(e)' => Signing(e) /\ call'[e].tab = call[e].tab
    BY <1>6, FlightIsOver DEF Signing, UnderWay, At
  <2>2. AloneIs(d)
    BY <2>1 DEF Alone
  <2>3. \A e \in Calls : Signing(e)' => e = d
    BY <2>1, <2>2 DEF AloneIs
  <2>4. \A u \in Tabs : flight'[u].pc = "none"
    <3>1. flight[t].pc # "none" /\ flight'[t].pc = "none"
      BY <1>6, FlightIsOver DEF NoFlight
    <3>2. \A u \in Tabs \ {t} : flight'[u] = flight[u] /\ flight[u].pc = "none"
      BY <1>6, <2>2, <3>1, FlightIsOver DEF AloneIs
    <3> QED
      BY <3>1, <3>2
  <2> QED
    BY <2>3, <2>4 DEF AloneIs
<1>7. ASSUME NEW t \in Tabs, Loads(t)
      PROVE  Alone'
  <2>1. \A u \in Tabs : flight[u].pc = "none" => flight'[u].pc = "none"
    BY <1>7, PageIsLoaded DEF NoFlight
  <2>2. \A d \in Calls : call'[d] = call[d] \/ call'[d].pc = "ended"
    BY <1>7, PageIsLoaded
  <2> QED
    BY <1>7, <2>1, <2>2, PageIsLoaded, AloneQuiet
<1>8. CASE Idles
  BY <1>8, Rests, AloneQuiet
<1> QED
  BY <1>1, <1>2, <1>3, <1>4, <1>5, <1>6, <1>7, <1>8, NextCases DEF Script, FlightScript

-----------------------------------------------------------------------------
(* A logout takes the cookie.                                              *)

\* What is served is a login or a logout that was, or has its cookie now.
LEMMA ServedFrom ==
  ASSUME TypeOK, Positions, [Next]_vars, NEW c \in Calls, NEW kind \in {"login", "logout"}, Served(c, kind)'
  PROVE  (Served(c, kind) /\ call'[c] = call[c]) \/ (CallCookie(c) /\ call[c].kind = kind)
<1>1. ASSUME NEW d \in Calls, Asks(d)
      PROVE  Served(c, kind) /\ call'[c] = call[c]
  BY <1>1, Begins DEF Served, At
<1>2. ASSUME NEW d \in Calls, Serves(d) \/ Retry(d)
      PROVE  Served(c, kind) /\ call'[c] = call[c]
  <2>1. CASE Serve(d)
    <3>1. call'[d].kind = call[d].kind /\ call[d].kind \notin {"login", "logout"}
      BY <2>1, AnswerFields DEF Serve
    <3> QED
      BY <1>2, <3>1, GoesOn DEF Served, At
  <2>2. CASE ServeLogin(d) \/ Retry(d)
    <3>1. call'[d].pc # "arrived"
      <4>1. CASE ServeLogin(d)
        <5>1. Answer(d, "answered", "ok") \in [Calls -> Call]
          BY AnswerType DEF PC, Answers
        <5>2. call' = [Answer(d, "answered", "ok") EXCEPT ![d].new = NextToken(server)]
          BY <4>1 DEF ServeLogin
        <5> QED
          BY <5>1, <5>2, AnswerFields DEF Call
      <4>2. CASE Retry(d)
        <5>1. [Send(d, Of(d), call[d].kind) EXCEPT !.retried = TRUE].pc = "sent"
          BY DEF Send, Nothing
        <5> QED
          BY <4>2, <5>1 DEF Retry, TypeOK
      <4> QED
        BY <2>2, <4>1, <4>2
    <3> QED
      BY <1>2, <3>1, GoesOn DEF Served, At
  <2>3. CASE ServeLogout(d) \/ ServeFails(d)
    <3>1. call'[d].pc = "answered" \/ call'[d].answer # "ok"
      BY <2>3, AnswerFields DEF ServeLogout, ServeFails
    <3> QED
      BY <1>2, <3>1, GoesOn DEF Served, At
  <2> QED
    BY <1>2, <2>1, <2>2, <2>3 DEF Serves
<1>3. ASSUME NEW d \in Calls, CallCookie(d)
      PROVE  (Served(c, kind) /\ call'[c] = call[c]) \/ (CallCookie(c) /\ call[c].kind = kind)
  BY <1>3, GoesOn DEF Served, At
<1>4. ASSUME NEW d \in Calls, GiveUp(d) \/ Finish(d)
      PROVE  Served(c, kind) /\ call'[c] = call[c]
  BY <1>4, Ends DEF Served, At
<1>5. ASSUME NEW d \in Calls, Unauthorized(d)
      PROVE  Served(c, kind) /\ call'[c] = call[c]
  BY <1>5, Refused DEF Served, At
<1>6. ASSUME NEW t \in Tabs, FlightServes(t) \/ FlightCookie(t) \/ FlightEnds(t) \/ Loads(t)
      PROVE  Served(c, kind) /\ call'[c] = call[c]
  BY <1>6, FlightGoesOn, FlightIsOver, PageIsLoaded DEF Served, At
<1>7. CASE Idles
  BY <1>7, Rests DEF Served, At
<1> QED
  BY <1>1, <1>2, <1>3, <1>4, <1>5, <1>6, <1>7, NextCases DEF Script, FlightScript

\* Who sets the cookie.
LEMMA CookieFrom ==
  ASSUME [Next]_vars, cookie' # cookie
  PROVE  (\E c \in Calls : CallCookie(c)) \/ (\E t \in Tabs : FlightCookie(t))
<1>1. \A c \in Calls : Asks(c) \/ Serves(c) \/ Script(c) => cookie' = cookie
  BY DEF Asks, Begin, BeginLogout, FetchUser, Serves, Serve, ServeLogin, ServeLogout, ServeFails, Script, Unauthorized, Retry, GiveUp, Finish
<1>2. \A t \in Tabs : FlightServes(t) \/ FlightEnds(t) \/ Loads(t) => cookie' = cookie
  BY DEF FlightServes, FlightCheck, FlightRotate, FlightFails, FlightEnds, Loads, LoadPage
<1>3. Idles => cookie' = cookie
  BY DEF Idles, Expire, CloseSessions, FetchNone, vars
<1> QED
  BY <1>1, <1>2, <1>3, NextCases DEF FlightScript

\* Crossing is remembered.
LEMMA CrossedStays == TypeOK /\ [Next]_vars /\ past.crossed => past'.crossed
<1> SUFFICES ASSUME TypeOK, [Next]_vars, past.crossed PROVE past'.crossed
  OBVIOUS
<1>1. ASSUME NEW c \in Calls, Asks(c) \/ Serves(c) \/ CallCookie(c) \/ Script(c)
      PROVE  past'.crossed
  BY <1>1, Begins, GoesOn, Ends, Refused DEF Script
<1>2. ASSUME NEW t \in Tabs, FlightServes(t) \/ FlightScript(t) \/ Loads(t)
      PROVE  past'.crossed
  BY <1>2, FlightGoesOn, FlightIsOver, PageIsLoaded DEF FlightScript
<1> QED
  BY <1>1, <1>2, Rests, NextCases

LEMMA CookieTakenNext == IInv /\ [Next]_vars => CookieTaken'
<1> SUFFICES ASSUME IInv, [Next]_vars, ~past'.crossed, NEW c \in Calls, Served(c, "logout")'
             PROVE  cookie' = 0
  BY DEF CookieTaken
<1>0. TypeOK /\ Positions /\ Alone /\ CookieTaken /\ ~past.crossed
  BY CrossedStays DEF IInv
<1>1. CASE CallCookie(c) /\ call[c].kind = "logout"
  BY <1>0, <1>1 DEF CallCookie, Positions, CallOf
<1>2. CASE Served(c, "logout") /\ call'[c] = call[c]
  <2>1. Signing(c) /\ AloneIs(c) /\ cookie = 0 /\ At(c, "arrived")
    BY <1>0, <1>2 DEF Served, Signing, UnderWay, At, Alone, CookieTaken
  <2>2. \A t \in Tabs : ~FlightCookie(t)
    BY <2>1 DEF AloneIs, At, FlightCookie
  <2>3. \A d \in Calls : ~CallCookie(d)
    <3>1. \A d \in Calls : CallCookie(d) => At(d, "answered") /\ Signing(d)
      BY <1>0 DEF CallCookie, Positions, CallOf, Signing, UnderWay, At
    <3> QED
      BY <2>1, <3>1 DEF AloneIs, At
  <2> QED
    BY <2>1, <2>2, <2>3, CookieFrom
<1> QED
  BY <1>0, <1>1, <1>2, ServedFrom

-----------------------------------------------------------------------------
(* What a logout leaves.                                                   *)

\* The logout that ends.
LEMMA SignedOutByLogout ==
  ASSUME IInv, NEW c \in Calls, Finish(c), call[c].kind = "logout", ~past'.crossed, past'.sign = "served"
  PROVE  stored' = 0 /\ cookie' = 0 /\ \A t \in Tabs : Empty(flight'[t])
<1>0. TypeOK /\ Positions /\ Alone /\ CookieTaken /\ ~past.crossed
  BY Ends DEF IInv
<1>1. call[c].answer = "ok"
  BY <1>0 DEF Finish, Signed, TypeOK, Past
<1>2. At(c, "arrived") /\ stored' = 0 /\ cookie' = cookie /\ flight' = flight
  BY DEF Finish
<1>3. Served(c, "logout") /\ Signing(c)
  BY <1>1, <1>2 DEF Served, Signing, UnderWay, At
<1>4. cookie = 0 /\ AloneIs(c)
  BY <1>0, <1>3 DEF CookieTaken, Alone
<1>5. \A t \in Tabs : flight[t].pc = "none"
  BY <1>2, <1>4 DEF AloneIs, At
<1> QED
  BY <1>0, <1>2, <1>4, <1>5 DEF Positions, Empty

\* Only the end of a logout makes the browser signed out.
LEMMA OutFrom ==
  ASSUME TypeOK, [Next]_vars, past'.sign = "served"
  PROVE  past.sign = "served" \/ \E c \in Calls : Finish(c) /\ call[c].kind = "logout"
<1>1. ASSUME NEW c \in Calls, Asks(c) \/ Serves(c) \/ CallCookie(c) \/ Unauthorized(c) \/ Retry(c)
      PROVE  past.sign = "served"
  BY <1>1, Begins, GoesOn, Refused
<1>2. ASSUME NEW c \in Calls, GiveUp(c)
      PROVE  past.sign = "served"
  BY <1>2 DEF GiveUp
<1>3. ASSUME NEW c \in Calls, Finish(c), call[c].kind # "logout"
      PROVE  past.sign = "served"
  BY <1>3 DEF Finish, Signed, TypeOK, Past
<1>4. ASSUME NEW t \in Tabs, FlightServes(t) \/ FlightScript(t) \/ Loads(t)
      PROVE  past.sign = "served"
  BY <1>4, FlightGoesOn, FlightIsOver, PageIsLoaded DEF FlightScript
<1> QED
  BY <1>1, <1>2, <1>3, <1>4, Rests, NextCases DEF Script

\* A login that was served stays so until it ends, or is lost with its page.
LEMMA ServedStays ==
  ASSUME TypeOK, [Next]_vars, past'.sign = "served",
         NEW c \in Calls, Served(c, "login"),
         \A d \in Calls : Finish(d) => call[d].kind # "logout"
  PROVE  Served(c, "login")'
<1> SUFFICES call'[c] = call[c]
  BY DEF Served, At
<1>0. Signing(c) /\ UnderWay(c) /\ At(c, "arrived") /\ call[c].answer = "ok" /\ call[c].kind = "login"
  BY DEF Served, Signing, UnderWay, At
<1>1. ASSUME NEW d \in Calls, Asks(d) \/ Serves(d) \/ CallCookie(d) \/ Unauthorized(d) \/ Retry(d)
      PROVE  call'[c] = call[c]
  <2>1. CASE Asks(d)
    BY <1>0, <2>1, Begins
  <2>2. CASE Serves(d) \/ CallCookie(d) \/ Retry(d)
    BY <1>0, <2>2, GoesOn DEF At
  <2>3. CASE Unauthorized(d)
    BY <1>0, <2>3, Refused
  <2> QED
    BY <1>1, <2>1, <2>2, <2>3
<1>2. ASSUME NEW d \in Calls, GiveUp(d)
      PROVE  call'[c] = call[c]
  BY <1>0, <1>2, Ends DEF GiveUp, At
<1>3. ASSUME NEW d \in Calls, Finish(d)
      PROVE  call'[c] = call[c]
  <2>1. d # c
    BY <1>0, <1>3 DEF Finish, Signed, TypeOK, Past
  <2> QED
    BY <1>3, <2>1, Ends
<1>4. ASSUME NEW t \in Tabs, FlightServes(t) \/ FlightScript(t)
      PROVE  call'[c] = call[c]
  BY <1>0, <1>4, FlightGoesOn, FlightIsOver DEF FlightScript, At
<1>5. ASSUME NEW t \in Tabs, Loads(t)
      PROVE  call'[c] = call[c]
  <2>1. LoggedIn(c)
    BY <1>0 DEF LoggedIn
  <2>2. Of(c) # t
    BY <1>5, <2>1, PageIsLoaded
  <2> QED
    BY <1>5, <2>2, PageIsLoaded
<1> QED
  BY <1>1, <1>2, <1>3, <1>4, <1>5, Rests, NextCases DEF Script

\* No refresh gets anything to show.
LEMMA FlightsStayEmpty ==
  ASSUME TypeOK, Positions, [Next]_vars, ~past'.crossed,
         cookie = 0 \/ \E c \in Calls : Served(c, "login"),
         \A t \in Tabs : Empty(flight[t])
  PROVE  \A t \in Tabs : Empty(flight'[t])
<1>1. ASSUME NEW c \in Calls, Asks(c) \/ Serves(c) \/ CallCookie(c) \/ Retry(c) \/ GiveUp(c) \/ Finish(c)
      PROVE  flight' = flight
  BY <1>1, Begins, GoesOn, Ends
<1>2. ASSUME NEW c \in Calls, Unauthorized(c)
      PROVE  \A t \in Tabs : Empty(flight'[t])
  <2>1. CASE flight[Of(c)].pc # "none"
    BY <1>2, <2>1, Refused
  <2>2. CASE flight[Of(c)].pc = "none"
    <3>1. ~CrossedBy(Of(c), c)
      BY <1>2, <2>2, Refused
    <3>2. \A d \in Calls : ~Served(d, "login")
      <4>1. \A d \in Calls : Served(d, "login") => Signing(d) /\ d # c
        BY <1>2, Refused DEF Served, Signing, UnderWay, At
      <4> QED
        BY <3>1, <4>1 DEF CrossedBy
    <3>3. flight'[Of(c)] = [pc |-> "sent", token |-> 0, new |-> 0]
      BY <1>2, <2>2, <3>2, Refused
    <3>4. \A u \in Tabs \ {Of(c)} : flight'[u] = flight[u]
      BY <1>2, Refused
    <3>5. Empty(flight'[Of(c)])
      BY <3>3 DEF Empty
    <3> QED
      BY <3>4, <3>5
  <2> QED
    BY <2>1, <2>2
<1>3. ASSUME NEW t \in Tabs, FlightServes(t) \/ FlightScript(t)
      PROVE  \A u \in Tabs : Empty(flight'[u])
  <2>1. flight[t].pc \notin {"checked", "answered"} /\ flight[t].token = 0 /\ flight[t].new = 0
    BY DEF Empty
  <2>2. ~FlightRotate(t) /\ ~FlightCookie(t)
    BY <2>1 DEF FlightRotate, FlightCookie
  <2>3. CASE FlightCheck(t)
    <3>1. flight' = [flight EXCEPT ![t].pc = "arrived"]
      BY <2>1, <2>3 DEF FlightCheck, Refreshable, Positions
    <3> QED
      BY <3>1 DEF Empty, TypeOK, Flight
  <2>4. CASE FlightFails(t)
    BY <2>4 DEF FlightFails, Empty, TypeOK, Flight
  <2>5. CASE FlightEnds(t)
    BY <2>5 DEF FlightEnds, Empty, NoFlight, TypeOK
  <2> QED
    BY <1>3, <2>2, <2>3, <2>4, <2>5 DEF FlightServes, FlightScript
<1>4. ASSUME NEW t \in Tabs, Loads(t)
      PROVE  \A u \in Tabs : Empty(flight'[u])
  BY <1>4, PageIsLoaded DEF Empty, NoFlight
<1> QED
  BY <1>1, <1>2, <1>3, <1>4, Rests, NextCases DEF Script

\* Nothing is stored.
LEMMA NothingStored ==
  ASSUME TypeOK, Positions, [Next]_vars, past'.sign = "served", stored = 0,
         \A t \in Tabs : Empty(flight[t])
  PROVE  stored' = 0
<1>1. ASSUME NEW c \in Calls, Asks(c) \/ Serves(c) \/ CallCookie(c) \/ Unauthorized(c) \/ Retry(c)
      PROVE  stored' = 0
  BY <1>1, Begins, GoesOn, Refused
<1>2. ASSUME NEW c \in Calls, GiveUp(c)
      PROVE  stored' = 0
  BY <1>2 DEF GiveUp
<1>3. ASSUME NEW c \in Calls, Finish(c)
      PROVE  stored' = 0
  <2>1. ~(call[c].kind = "login" /\ call[c].answer = "ok")
    BY <1>3 DEF Finish, Signed, TypeOK, Past
  <2> QED
    BY <1>3, <2>1 DEF Finish
<1>4. ASSUME NEW t \in Tabs, FlightServes(t) \/ FlightScript(t) \/ Loads(t)
      PROVE  stored' = 0
  <2>1. CASE FlightServes(t) \/ FlightCookie(t)
    BY <2>1, FlightGoesOn
  <2>2. CASE FlightEnds(t)
    BY <2>2, FlightIsOver DEF Empty
  <2>3. CASE Loads(t)
    BY <2>3, PageIsLoaded
  <2> QED
    BY <1>4, <2>1, <2>2, <2>3 DEF FlightScript
<1> QED
  BY <1>1, <1>2, <1>3, <1>4, Rests, NextCases DEF Script

LEMMA SignedOutNext == IInv /\ [Next]_vars => SignedOut'
<1> SUFFICES ASSUME IInv, [Next]_vars, past'.sign = "served", ~past'.crossed
             PROVE  /\ stored' = 0
                    /\ cookie' = 0 \/ \E c \in Calls : Served(c, "login")'
                    /\ \A t \in Tabs : Empty(flight'[t])
  BY DEF SignedOut, Empty
<1>0. TypeOK /\ Positions /\ SignedOut /\ ~past.crossed
  BY CrossedStays DEF IInv
<1>1. CASE \E c \in Calls : Finish(c) /\ call[c].kind = "logout"
  BY <1>1, SignedOutByLogout
<1>2. CASE \A c \in Calls : Finish(c) => call[c].kind # "logout"
  <2>1. past.sign = "served"
    BY <1>0, <1>2, OutFrom
  <2>2. /\ stored = 0
        /\ cookie = 0 \/ \E c \in Calls : Served(c, "login")
        /\ \A t \in Tabs : Empty(flight[t])
    BY <1>0, <2>1 DEF SignedOut, Empty
  <2>3. cookie' = 0 \/ \E c \in Calls : Served(c, "login")'
    <3>1. CASE cookie' = cookie
      BY <1>0, <1>2, <2>2, <3>1, ServedStays
    <3>2. ASSUME NEW t \in Tabs, FlightCookie(t)
          PROVE  FALSE
      BY <2>2, <3>2 DEF FlightCookie, Empty
    <3>3. ASSUME NEW c \in Calls, CallCookie(c)
          PROVE  cookie' = 0 \/ Served(c, "login")'
      <4>1. At(c, "answered") /\ cookie' = call[c].new /\ call' = [call EXCEPT ![c].pc = "arrived"]
        BY <3>3 DEF CallCookie, Goto
      <4>2. call[c].kind \in {"login", "logout"} /\ call[c].answer = "ok" /\ (call[c].kind = "logout" => call[c].new = 0)
        BY <1>0, <4>1 DEF Positions, CallOf
      <4>3. call'[c].pc = "arrived" /\ call'[c].kind = call[c].kind /\ call'[c].answer = call[c].answer
        BY <1>0, <4>1 DEF TypeOK, Call
      <4> QED
        BY <4>1, <4>2, <4>3 DEF Served, At
    <3> QED
      BY <3>1, <3>2, <3>3, CookieFrom
  <2> QED
    BY <1>0, <2>2, <2>3, FlightsStayEmpty, NothingStored
<1> QED
  BY <1>1, <1>2

\* After a logout that the server has served, the browser keeps no access token
\* until the next login, unless the logout met a refresh or a login, for any
\* tabs and calls.  (logout, handleUnauthorized and refreshAccessToken.)
THEOREM LogoutsStick == Spec => []LogoutSticks
<1>1. IInv /\ [Next]_vars => IInv'
  BY TypeNext, PositionsNext, AloneNext, CookieTakenNext, SignedOutNext DEF IInv
<1>2. IInv => LogoutSticks
  BY DEF IInv, SignedOut, LogoutSticks
<1> QED
  BY <1>1, <1>2, InitIInv, PTL DEF Spec

-----------------------------------------------------------------------------
(* Why the refresh of a session that is open succeeds.                     *)

LoggingIn(c) == UnderWay(c) /\ call[c].kind = "login"

\* Two tabs that refresh at once are remembered as crossed.
OneTab == ~past.crossed => \A t, u \in Tabs : Refreshing(t) /\ Refreshing(u) => t = u

\* So is a login that meets a refresh, or a call that is sent again.
LoginAlone ==
  ~past.crossed => \A c \in Calls : LoggingIn(c) =>
    /\ \A t \in Tabs : ~Refreshing(t)
    /\ \A d \in Calls : ~Retried(d)

\* No token is none, and has no session.
ZeroIsNone == server.of[0] = 0 /\ 0 \notin server.open

\* A refresh presents the cookie, and what it brings is a live token of the
\* cookie's session; it brings nothing if that session is closed.
Presents(t) ==
  /\ flight[t].pc \in {"sent", "checked"} => flight[t].token = cookie /\ flight[t].new = 0
  /\ flight[t].pc = "checked" => server.of[cookie] # 0
  /\ flight[t].pc = "answered" =>
       flight[t].new \in server.live /\ server.of[flight[t].new] = server.of[cookie]
  /\ flight[t].pc = "arrived" /\ flight[t].new = 0 => server.of[cookie] \notin server.open

\* The cookie of an open session can be rotated, unless its successor is on the
\* way to the browser.
CookieLives ==
  \/ server.of[cookie] \notin server.open
  \/ cookie \in server.live
  \/ \E t \in Tabs : flight[t].pc = "answered"
  \/ \E c \in Calls : LoggingIn(c) /\ At(c, "answered")

\* A login brings a cookie that can be rotated.
Brings(c) == LoggingIn(c) /\ At(c, "answered") => call[c].new \in server.live

\* A call that its refresh leaves with the 401 has lost its session.
RefusedForGood(c) ==
  At(c, "resume") /\ call[c].answer = "401" => server.of[cookie] \notin server.open

Rightful ==
  /\ \A t \in Tabs : Presents(t)
  /\ CookieLives
  /\ \A c \in Calls : Brings(c) /\ RefusedForGood(c)

Quiet == ~past.crossed /\ ~past.faulty

RInv == IInv /\ OneTab /\ LoginAlone /\ ZeroIsNone /\ (Quiet => Rightful)

\* The fields of a server that has issued a token.
LEMMA IssuedFields ==
  ASSUME NEW srv \in Server, srv.last < MaxToken, NEW session \in Token
  PROVE  /\ NextToken(srv) \in Issued(srv, session).live
         /\ Issued(srv, session).of[NextToken(srv)] = IF session = 0 THEN NextToken(srv) ELSE session
         /\ \A m \in Token \ {NextToken(srv)} : Issued(srv, session).of[m] = srv.of[m]
         /\ Issued(srv, session).open \subseteq srv.open \cup {NextToken(srv)}
         /\ session # 0 => Issued(srv, session).open = srv.open
         /\ Issued(srv, session).last = NextToken(srv) /\ Issued(srv, session).expired = srv.expired
         /\ Issued(srv, session).barred = srv.barred
<1> DEFINE n == NextToken(srv)
           of == [srv.of EXCEPT ![n] = IF session = 0 THEN n ELSE session]
           open == IF session = 0 THEN srv.open \cup {n} ELSE srv.open
<1>1. n \in Token /\ srv.of \in [Token -> Token]
  BY NextTokenIsToken, ServerFields
<1>2. Issued(srv, session) = [srv EXCEPT !.last = n, !.live = srv.live \cup {n}, !.of = of, !.open = open]
  BY ServerFields DEF Issued, Server
<1>3. of[n] = (IF session = 0 THEN n ELSE session) /\ \A m \in Token \ {n} : of[m] = srv.of[m]
  BY <1>1
<1>4. open \subseteq srv.open \cup {n} /\ (session # 0 => open = srv.open)
  OBVIOUS
<1> HIDE DEF n, of, open
<1>5. /\ Issued(srv, session).live = srv.live \cup {n}
      /\ Issued(srv, session).of = of /\ Issued(srv, session).open = open
      /\ Issued(srv, session).last = n /\ Issued(srv, session).expired = srv.expired
      /\ Issued(srv, session).barred = srv.barred
  BY <1>2 DEF Server
<1> QED
  BY <1>3, <1>4, <1>5 DEF n

\* A fault is remembered.
LEMMA FaultyStays == TypeOK /\ [Next]_vars /\ past.faulty => past'.faulty
<1> SUFFICES ASSUME TypeOK, [Next]_vars, past.faulty PROVE past'.faulty
  OBVIOUS
<1>1. ASSUME NEW c \in Calls, Asks(c) \/ Serves(c) \/ CallCookie(c) \/ Retry(c) \/ GiveUp(c)
      PROVE  past'.faulty
  BY <1>1, Begins, GoesOn DEF GiveUp
<1>2. ASSUME NEW c \in Calls, Unauthorized(c)
      PROVE  past'.faulty
  BY <1>2 DEF Unauthorized, TypeOK, Past
<1>3. ASSUME NEW c \in Calls, Finish(c)
      PROVE  past'.faulty
  BY <1>3 DEF Finish, Signed, TypeOK, Past
<1>4. ASSUME NEW t \in Tabs, FlightServes(t) \/ FlightScript(t)
      PROVE  past'.faulty
  BY <1>4 DEF FlightServes, FlightCheck, FlightRotate, FlightFails, FlightScript, FlightCookie,
              FlightEnds, TypeOK, Past
<1>5. ASSUME NEW t \in Tabs, Loads(t)
      PROVE  past'.faulty
  BY <1>5, PageIsLoaded
<1> QED
  BY <1>1, <1>2, <1>3, <1>4, <1>5, Rests, NextCases DEF Script

\* A tab refreshes because it did, or because one of its calls meets a 401.
LEMMA RefreshFrom ==
  ASSUME TypeOK, [Next]_vars, NEW t \in Tabs, Refreshing(t)'
  PROVE  Refreshing(t) \/ \E c \in Calls : Unauthorized(c) /\ Of(c) = t /\ flight[t].pc = "none"
<1>1. flight'[t].pc # "none" \/ \E d \in Calls : call'[d].pc = "resume" /\ call'[d].tab = t
  BY DEF Refreshing, At, Of
<1>2. ASSUME NEW c \in Calls, Asks(c) \/ Serves(c) \/ CallCookie(c) \/ Retry(c)
                                \/ GiveUp(c) \/ Finish(c)
      PROVE  Refreshing(t)
  <2>1. flight' = flight /\ \A d \in Calls : call'[d] = call[d] \/ call'[d].pc # "resume"
    BY <1>2, Begins, GoesOn, Ends
  <2> QED
    BY <1>1, <2>1 DEF Refreshing, At, Of
<1>3. ASSUME NEW c \in Calls, Unauthorized(c)
      PROVE  Refreshing(t) \/ (Of(c) = t /\ flight[t].pc = "none")
  <2>1. \A d \in Calls : call'[d] = call[d] \/ call'[d].pc # "resume"
    BY <1>3, Refused
  <2> QED
    BY <1>1, <1>3, <2>1, Refused DEF Refreshing, At, Of
<1>4. ASSUME NEW u \in Tabs, FlightServes(u) \/ FlightCookie(u)
      PROVE  Refreshing(t)
  BY <1>1, <1>4, FlightGoesOn DEF Refreshing, At, Of
<1>5. ASSUME NEW u \in Tabs, FlightEnds(u)
      PROVE  Refreshing(t)
  <2>1. /\ flight'[u].pc = "none" /\ flight[u].pc # "none"
        /\ \A v \in Tabs \ {u} : flight'[v] = flight[v]
        /\ \A d \in Calls : call'[d] = call[d] \/ (call[d].tab = u /\ call'[d].tab = u)
    BY <1>5, FlightIsOver DEF NoFlight, Of
  <2> QED
    BY <1>1, <2>1 DEF Refreshing, At, Of
<1>6. ASSUME NEW u \in Tabs, Loads(u)
      PROVE  Refreshing(t)
  <2>1. /\ flight'[u].pc = "none" /\ \A v \in Tabs \ {u} : flight'[v] = flight[v]
        /\ \A d \in Calls : call'[d] = call[d] \/ call'[d].pc = "ended"
    BY <1>6, PageIsLoaded DEF NoFlight
  <2> QED
    BY <1>1, <2>1 DEF Refreshing, At, Of
<1>7. CASE Idles
  BY <1>1, <1>7, Rests DEF Refreshing, At, Of
<1> QED
  BY <1>2, <1>3, <1>4, <1>5, <1>6, <1>7, NextCases DEF Script, FlightScript

\* A login is under way because it was, or because it begins.
LEMMA LoginFrom ==
  ASSUME TypeOK, [Next]_vars, NEW c \in Calls, LoggingIn(c)'
  PROVE  LoggingIn(c) \/ Asks(c)
<1>1. call'[c].pc \notin {"idle", "ended"} /\ call'[c].kind = "login"
  BY DEF LoggingIn, UnderWay
<1>2. ASSUME NEW d \in Calls, Asks(d)
      PROVE  LoggingIn(c) \/ d = c
  BY <1>1, <1>2, Begins DEF LoggingIn, UnderWay
<1>3. ASSUME NEW d \in Calls, Serves(d) \/ CallCookie(d) \/ Script(d)
      PROVE  LoggingIn(c)
  BY <1>1, <1>3, GoesOn, Ends, Refused DEF LoggingIn, UnderWay, At, Script
<1>4. ASSUME NEW t \in Tabs, FlightServes(t) \/ FlightScript(t) \/ Loads(t)
      PROVE  LoggingIn(c)
  BY <1>1, <1>4, FlightGoesOn, FlightIsOver, PageIsLoaded DEF LoggingIn, UnderWay, At, FlightScript
<1>5. CASE Idles
  BY <1>1, <1>5, Rests DEF LoggingIn, UnderWay
<1> QED
  BY <1>2, <1>3, <1>4, <1>5, NextCases

LEMMA OneTabNext == IInv /\ OneTab /\ [Next]_vars => OneTab'
<1> SUFFICES ASSUME IInv, OneTab, [Next]_vars, ~past'.crossed,
                    NEW t \in Tabs, NEW u \in Tabs, Refreshing(t)', Refreshing(u)'
             PROVE  t = u
  BY DEF OneTab, Refreshing, At, Of
<1>0. TypeOK /\ ~past.crossed
  BY CrossedStays DEF IInv
<1>1. ASSUME NEW v \in Tabs, NEW w \in Tabs, Refreshing(v)', Refreshing(w)',
             NEW c \in Calls, Unauthorized(c), Of(c) = v, flight[v].pc = "none"
      PROVE  v = w
  <2> SUFFICES ASSUME v # w PROVE FALSE
    OBVIOUS
  <2>1. ~Refreshing(w)
    BY <1>0, <1>1, Refused DEF CrossedBy
  <2>2. flight'[w] = flight[w] /\ \A d \in Calls : call'[d] = call[d] \/ call'[d].pc = "waiting"
    BY <1>0, <1>1, Refused
  <2> QED
    BY <1>1, <2>1, <2>2 DEF Refreshing, At, Of
<1>2. CASE Refreshing(t) /\ Refreshing(u)
  BY <1>0, <1>2 DEF OneTab
<1> QED
  BY <1>0, <1>1, <1>2, RefreshFrom

\* A call is at its second try because it was, or because its refresh has ended.
LEMMA RetriedFrom ==
  ASSUME TypeOK, [Next]_vars, NEW c \in Calls, Retried(c)'
  PROVE  \/ Retried(c) /\ call'[c].kind = call[c].kind /\ call'[c].tab = call[c].tab
         \/ Retry(c)
<1>1. call'[c].retried /\ call'[c].pc \notin {"idle", "ended"}
  BY DEF Retried, UnderWay
<1>2. ASSUME call'[c] = call[c]
      PROVE  Retried(c) /\ call'[c].kind = call[c].kind /\ call'[c].tab = call[c].tab
  BY <1>1, <1>2 DEF Retried, UnderWay
<1>3. ASSUME NEW d \in Calls, Asks(d) \/ GiveUp(d) \/ Finish(d)
      PROVE  call'[c] = call[c]
  BY <1>1, <1>3, Begins, Ends
<1>4. ASSUME NEW d \in Calls, Serves(d) \/ CallCookie(d) \/ Unauthorized(d)
      PROVE  Retried(c) /\ call'[c].kind = call[c].kind /\ call'[c].tab = call[c].tab
  <2>1. \A e \in Calls \ {d} : call'[e] = call[e]
    BY <1>4, GoesOn, Refused
  <2>2. /\ UnderWay(d) /\ call'[d].retried = call[d].retried
        /\ call'[d].kind = call[d].kind /\ call'[d].tab = call[d].tab
    <3>1. CASE ServeLogin(d)
      <4>1. call' = [Answer(d, "answered", "ok") EXCEPT ![d].new = NextToken(server)]
        BY <3>1 DEF ServeLogin
      <4>2. Answer(d, "answered", "ok") \in [Calls -> Call]
        BY AnswerType DEF PC, Answers
      <4>3. call'[d].retried = Answer(d, "answered", "ok")[d].retried
            /\ call'[d].kind = Answer(d, "answered", "ok")[d].kind
            /\ call'[d].tab = Answer(d, "answered", "ok")[d].tab
        BY <4>1, <4>2 DEF Call
      <4> QED
        BY <3>1, <4>3, AnswerFields DEF ServeLogin, UnderWay, At
    <3>2. CASE Serve(d) \/ ServeLogout(d) \/ ServeFails(d)
      BY <3>2, AnswerFields DEF Serve, ServeLogout, ServeFails, UnderWay, At
    <3>3. CASE CallCookie(d) \/ Unauthorized(d)
      BY <3>3 DEF CallCookie, Unauthorized, Goto, UnderWay, At, TypeOK, Call
    <3> QED
      BY <1>4, <3>1, <3>2, <3>3 DEF Serves
  <2>3. CASE c = d
    BY <1>1, <2>2, <2>3 DEF Retried
  <2> QED
    BY <1>2, <2>1, <2>3
<1>5. ASSUME NEW d \in Calls, Retry(d)
      PROVE  d = c \/ call'[c] = call[c]
  BY <1>5, GoesOn
<1>6. ASSUME NEW t \in Tabs, FlightServes(t) \/ FlightCookie(t) \/ Loads(t)
      PROVE  call'[c] = call[c]
  BY <1>1, <1>6, FlightGoesOn, PageIsLoaded
<1>7. ASSUME NEW t \in Tabs, FlightEnds(t)
      PROVE  Retried(c) /\ call'[c].kind = call[c].kind /\ call'[c].tab = call[c].tab
  <2>1. call'[c] = call[c] \/ (At(c, "waiting") /\ call'[c].retried = call[c].retried
          /\ call'[c].kind = call[c].kind /\ call'[c].tab = call[c].tab)
    BY <1>7, CallFields DEF FlightEnds, Call
  <2> QED
    BY <1>1, <1>2, <2>1 DEF Retried, UnderWay, At
<1>8. CASE Idles
  BY <1>2, <1>8, Rests
<1> QED
  BY <1>2, <1>3, <1>4, <1>5, <1>6, <1>7, <1>8, NextCases DEF Script, FlightScript

LEMMA LoginAloneNext == IInv /\ LoginAlone /\ [Next]_vars => LoginAlone'
<1> SUFFICES ASSUME IInv, LoginAlone, [Next]_vars, ~past'.crossed,
                    NEW c \in Calls, LoggingIn(c)'
             PROVE  /\ \A t \in Tabs : ~Refreshing(t)'
                    /\ \A d \in Calls : ~Retried(d)'
  BY DEF LoginAlone, LoggingIn, UnderWay, Refreshing, Retried, At, Of
<1>0. TypeOK /\ Positions /\ ~past.crossed
  BY CrossedStays DEF IInv
<1>1. CASE Asks(c)
  <2>1. call'[c].kind = "login"
    BY DEF LoggingIn
  <2>2. ~CrossedBy(call'[c].tab, c) /\ ~Refreshing(call'[c].tab) /\ \A d \in Calls : ~Retried(d)
    BY <1>0, <1>1, <2>1, Begins
  <2>3. \A u \in Tabs : ~Refreshing(u)
    BY <2>2 DEF CrossedBy
  <2>4. flight' = flight /\ call'[c].pc = "sent" /\ ~call'[c].retried
        /\ \A d \in Calls \ {c} : call'[d] = call[d]
    BY <1>0, <1>1, Begins
  <2>5. \A t \in Tabs : ~Refreshing(t)'
    BY <2>3, <2>4 DEF Refreshing, At, Of
  <2>6. \A d \in Calls : ~Retried(d)'
    BY <2>2, <2>4 DEF Retried, UnderWay, At
  <2> QED
    BY <2>5, <2>6
<1>2. CASE LoggingIn(c)
  <2>1. (\A u \in Tabs : ~Refreshing(u)) /\ \A d \in Calls : ~Retried(d)
    BY <1>0, <1>2 DEF LoginAlone
  <2>2. ASSUME NEW t \in Tabs, Refreshing(t)'
        PROVE  FALSE
    <3>1. PICK d \in Calls : Unauthorized(d) /\ Of(d) = t /\ flight[t].pc = "none"
      BY <1>0, <2>1, <2>2, RefreshFrom
    <3>2. Signing(c) /\ d # c
      BY <1>0, <1>2, <3>1 DEF LoggingIn, Signing, Positions, CallOf, Unauthorized
    <3> QED
      BY <1>0, <3>1, <3>2, Refused DEF CrossedBy
  <2>3. ASSUME NEW d \in Calls, Retried(d)'
        PROVE  FALSE
    <3>1. Retry(d)
      BY <1>0, <2>1, <2>3, RetriedFrom
    <3>2. Refreshing(Of(d)) /\ Of(d) \in Tabs
      BY <1>0, <3>1, CallFields DEF Retry, Refreshing, Of
    <3> QED
      BY <2>1, <3>2
  <2> QED
    BY <2>2, <2>3
<1> QED
  BY <1>0, <1>1, <1>2, LoginFrom

LEMMA ZeroIsNoneNext == IInv /\ ZeroIsNone /\ [Next]_vars => ZeroIsNone'
<1> SUFFICES ASSUME IInv, ZeroIsNone, [Next]_vars PROVE ZeroIsNone'
  OBVIOUS
<1>0. TypeOK /\ server \in Server
  BY DEF IInv, TypeOK
<1>1. ASSUME NEW srv \in Server, srv.last < MaxToken, NEW session \in Token,
             srv.of = server.of, srv.open = server.open, server' = Issued(srv, session)
      PROVE  ZeroIsNone'
  BY <1>1, IssuedFields, NextTokenIsToken, TokenFacts DEF ZeroIsNone
<1>2. ASSUME NEW c \in Calls, ServeLogin(c)
      PROVE  ZeroIsNone'
  BY <1>0, <1>1, <1>2, TokenFacts DEF ServeLogin
<1>3. ASSUME NEW c \in Calls, ServeLogout(c)
      PROVE  ZeroIsNone'
  <2> DEFINE session == server.of[call[c].token]
             open == server.open \ {session}
             live == {n \in server.live : server.of[n] # session}
  <2>1. server' = server \/ server' = [server EXCEPT !.open = open, !.live = live]
    BY <1>3 DEF ServeLogout
  <2>2. open \subseteq server.open
    OBVIOUS
  <2> HIDE DEF open, live
  <2>3. server'.of = server.of /\ server'.open \subseteq server.open
    BY <1>0, <2>1, <2>2 DEF Server
  <2> QED
    BY <2>3 DEF ZeroIsNone
<1>4. ASSUME NEW t \in Tabs, FlightRotate(t)
      PROVE  ZeroIsNone'
  <2> DEFINE srv == [server EXCEPT !.live = server.live \ {flight[t].token}]
  <2>1. srv \in Server /\ srv.of = server.of /\ srv.open = server.open /\ srv.last < MaxToken
    BY <1>0, <1>4 DEF FlightRotate, Server
  <2>2. server' = Issued(srv, server.of[flight[t].token]) /\ server.of[flight[t].token] \in Token
    BY <1>0, <1>4, FlightFields, ServerFields DEF FlightRotate
  <2> HIDE DEF srv
  <2> QED
    BY <1>1, <2>1, <2>2
<1>5. CASE server'.of = server.of /\ server'.open \subseteq server.open
  BY <1>5 DEF ZeroIsNone
<1>6. CASE Idles
  <2>1. server'.of = server.of /\ server'.open \subseteq server.open
    BY <1>0, <1>6 DEF Idles, Expire, CloseSessions, FetchNone, vars, Server
  <2> QED
    BY <1>5, <2>1
<1>7. ASSUME NEW c \in Calls, Asks(c) \/ Serves(c) \/ CallCookie(c) \/ Script(c)
      PROVE  ZeroIsNone'
  BY <1>2, <1>3, <1>5, <1>7
     DEF Asks, Begin, BeginLogout, FetchUser, Serves, Serve, ServeFails, CallCookie, Script, Unauthorized, Retry,
         GiveUp, Finish
<1>8. ASSUME NEW t \in Tabs, FlightServes(t) \/ FlightScript(t) \/ Loads(t)
      PROVE  ZeroIsNone'
  BY <1>4, <1>5, <1>8
     DEF FlightServes, FlightCheck, FlightFails, FlightScript, FlightCookie, FlightEnds, Loads, LoadPage
<1> QED
  BY <1>6, <1>7, <1>8, NextCases

\* A step in which calls move, and sessions close.
LEMMA CallsMove ==
  ASSUME TypeOK, Rightful, cookie' = cookie, flight' = flight,
         server'.live = server.live, server'.of = server.of, server'.open \subseteq server.open,
         \A d \in Calls : call'[d] = call[d] \/
           (~At(d, "answered") /\ call'[d].pc \notin {"answered", "resume"})
  PROVE  Rightful'
<1>1. \A t \in Tabs : Presents(t)'
  BY DEF Rightful, Presents
<1>2. CookieLives'
  BY DEF Rightful, CookieLives, LoggingIn, UnderWay, At
<1>3. \A c \in Calls : Brings(c)' /\ RefusedForGood(c)'
  BY DEF Rightful, Brings, RefusedForGood, LoggingIn, UnderWay, At
<1> QED
  BY <1>1, <1>2, <1>3 DEF Rightful

\* The server answers a login: no refresh is under way.
LEMMA RightfulLogin ==
  ASSUME RInv, Quiet, NEW c \in Calls, ServeLogin(c)
  PROVE  Rightful'
<1>0. TypeOK /\ Alone /\ LoginAlone /\ ~past.crossed
  BY DEF RInv, IInv, Quiet
<1>1. LoggingIn(c) /\ Signing(c)
  BY DEF ServeLogin, LoggingIn, Signing, UnderWay, At
<1>2. \A t \in Tabs : flight[t].pc = "none" /\ \A d \in Calls : ~(At(d, "resume") /\ Of(d) = t)
  BY <1>0, <1>1 DEF LoginAlone, Refreshing
<1>3. call' = [Answer(c, "answered", "ok") EXCEPT ![c].new = NextToken(server)]
  BY DEF ServeLogin
<1>4. Answer(c, "answered", "ok") \in [Calls -> Call]
  BY <1>0, AnswerType DEF PC, Answers
<1>5. /\ call'[c].new = NextToken(server) /\ call'[c].pc = "answered" /\ call'[c].kind = "login"
      /\ \A d \in Calls \ {c} : call'[d] = call[d]
  <2>1. /\ call'[c].new = NextToken(server)
        /\ call'[c].pc = Answer(c, "answered", "ok")[c].pc
        /\ call'[c].kind = Answer(c, "answered", "ok")[c].kind
        /\ \A d \in Calls \ {c} : call'[d] = Answer(c, "answered", "ok")[d]
    BY <1>3, <1>4 DEF Call
  <2> QED
    BY <1>0, <2>1, AnswerFields DEF ServeLogin
<1>6. NextToken(server) \in server'.live
  BY <1>0, IssuedFields, TokenFacts DEF ServeLogin, TypeOK
<1>7. flight' = flight
  BY DEF ServeLogin
<1>8. \A d \in Calls \ {c} : ~LoggingIn(d)
  BY <1>0, <1>1 DEF Alone, AloneIs, LoggingIn, Signing
<1>9. \A t \in Tabs : Presents(t)'
  BY <1>2, <1>7 DEF Presents
<1>10. CookieLives'
  BY <1>5 DEF CookieLives, LoggingIn, UnderWay, At
<1>11. \A d \in Calls : Brings(d)'
  BY <1>5, <1>6, <1>8 DEF Brings, LoggingIn, UnderWay, At
<1>12. \A d \in Calls : RefusedForGood(d)'
  BY <1>0, <1>2, <1>5, CallFields DEF RefusedForGood, At, Of
<1> QED
  BY <1>9, <1>10, <1>11, <1>12 DEF Rightful

\* The server answers a logout: the session of its token is closed with its
\* tokens, and no refresh is under way.
LEMMA RightfulLogout ==
  ASSUME RInv, Quiet, NEW c \in Calls, ServeLogout(c)
  PROVE  Rightful'
<1>0. TypeOK /\ Alone /\ Rightful /\ ~past.crossed
  BY DEF RInv, IInv, Quiet
<1>1. Signing(c) /\ AloneIs(c) /\ At(c, "sent") /\ call[c].kind = "logout"
  BY <1>0 DEF ServeLogout, Signing, UnderWay, At, Alone
<1>2. \A t \in Tabs : flight[t].pc = "none"
  BY <1>1 DEF AloneIs, At
<1>3. \A d \in Calls : ~LoggingIn(d)
  BY <1>1 DEF AloneIs, LoggingIn, Signing
<1>4. cookie' = cookie /\ flight' = flight
  BY DEF ServeLogout
<1>5. CASE ~Accepted(call[c].token)
  <2>1. server' = server /\ call' = Answer(c, "arrived", "401")
    BY <1>5 DEF ServeLogout
  <2>2. call'[c].pc = "arrived" /\ \A d \in Calls \ {c} : call'[d] = call[d]
    BY <1>0, <2>1, AnswerFields
  <2> QED
    BY <1>0, <1>1, <1>4, <2>1, <2>2, CallsMove DEF At
<1>6. CASE Accepted(call[c].token)
  <2> DEFINE session == server.of[call[c].token]
             open == server.open \ {session}
             live == {n \in server.live : server.of[n] # session}
  <2>1. server' = [server EXCEPT !.open = open, !.live = live] /\ call' = Answer(c, "answered", "ok")
    BY <1>6 DEF ServeLogout
  <2>2. server'.of = server.of /\ server'.open = open /\ server'.live = live
    <3> HIDE DEF open, live
    <3> QED
      BY <1>0, <2>1 DEF TypeOK, Server
  <2>3. /\ call'[c].pc = "answered" /\ call'[c].kind = "logout"
        /\ \A d \in Calls \ {c} : call'[d] = call[d]
    BY <1>0, <1>1, <2>1, AnswerFields
  <2>4. \A t \in Tabs : Presents(t)'
    BY <1>2, <1>4 DEF Presents
  <2>5. CookieLives'
    BY <1>0, <1>2, <1>3, <1>4, <2>2 DEF Rightful, CookieLives
  <2>6. \A d \in Calls : Brings(d)'
    BY <1>3, <2>3 DEF Brings, LoggingIn, UnderWay
  <2>7. \A d \in Calls : RefusedForGood(d)'
    BY <1>0, <1>4, <2>2, <2>3 DEF Rightful, RefusedForGood, At
  <2> QED
    BY <2>4, <2>5, <2>6, <2>7 DEF Rightful
<1> QED
  BY <1>5, <1>6

\* While a tab refreshes, no other does and nobody logs in.
LEMMA RefreshAlone ==
  ASSUME RInv, Quiet, NEW t \in Tabs, flight[t].pc # "none"
  PROVE  /\ \A u \in Tabs \ {t} : flight[u].pc = "none"
         /\ \A c \in Calls : ~LoggingIn(c)
BY DEF RInv, Quiet, OneTab, LoginAlone, Refreshing

\* The server looks at the refresh token.
LEMMA RightfulCheck ==
  ASSUME RInv, Quiet, NEW t \in Tabs, FlightCheck(t)
  PROVE  Rightful'
<1>0. TypeOK /\ Rightful /\ ZeroIsNone
  BY DEF RInv, IInv
<1>1. flight[t].pc = "sent" /\ UNCHANGED <<cookie, stored, tab, call, server, past>>
  BY DEF FlightCheck
<1>2. /\ \A u \in Tabs \ {t} : flight[u].pc = "none"
      /\ \A c \in Calls : ~LoggingIn(c)
  BY <1>1, RefreshAlone
<1>3. flight[t].token = cookie /\ flight[t].new = 0
  BY <1>0, <1>1 DEF Rightful, Presents
<1>4. /\ flight'[t].pc = IF Refreshable(cookie) THEN "checked" ELSE "arrived"
      /\ flight'[t].token = cookie /\ flight'[t].new = 0
      /\ \A u \in Tabs \ {t} : flight'[u] = flight[u]
  BY <1>0, <1>3 DEF FlightCheck, TypeOK, Flight
<1>5. ~Refreshable(cookie) => server.of[cookie] \notin server.open
  BY <1>0, <1>1, <1>2 DEF Rightful, CookieLives, Refreshable
<1>6. Refreshable(cookie) => server.of[cookie] # 0
  BY <1>0 DEF Refreshable, ZeroIsNone
<1>7. Presents(t)'
  BY <1>1, <1>4, <1>5, <1>6 DEF Presents
<1>8. \A u \in Tabs \ {t} : Presents(u)'
  BY <1>2, <1>4 DEF Presents
<1>9. CookieLives'
  BY <1>0, <1>1, <1>2 DEF Rightful, CookieLives
<1>10. \A c \in Calls : Brings(c)' /\ RefusedForGood(c)'
  BY <1>0, <1>1 DEF Rightful, Brings, RefusedForGood, LoggingIn, UnderWay, At
<1> QED
  BY <1>7, <1>8, <1>9, <1>10 DEF Rightful

\* The server rotates it: the new token is live, and of the same session.
LEMMA RightfulRotate ==
  ASSUME RInv, Quiet, NEW t \in Tabs, FlightRotate(t)
  PROVE  Rightful'
<1> DEFINE n == NextToken(server)
           srv == [server EXCEPT !.live = server.live \ {flight[t].token}]
<1>0. TypeOK /\ Rightful
  BY DEF RInv, IInv
<1>1. flight[t].pc = "checked" /\ cookie' = cookie /\ call' = call
  BY DEF FlightRotate
<1>2. /\ \A u \in Tabs \ {t} : flight[u].pc = "none"
      /\ \A c \in Calls : ~LoggingIn(c)
  BY <1>1, RefreshAlone
<1>3. flight[t].token = cookie /\ server.of[cookie] # 0
  BY <1>0, <1>1 DEF Rightful, Presents
<1>4. cookie \in Token /\ server.of[cookie] \in Token /\ n \in Token
  BY <1>0, ServerFields, NextTokenIsToken DEF FlightRotate, TypeOK
<1>5. /\ flight'[t].pc = "answered" /\ flight'[t].new = n
      /\ \A u \in Tabs \ {t} : flight'[u] = flight[u]
  BY <1>0 DEF FlightRotate, TypeOK, Flight
<1>6. /\ srv \in Server /\ srv.of = server.of /\ srv.open = server.open
      /\ srv.last < MaxToken /\ NextToken(srv) = n
  BY <1>0 DEF FlightRotate, TypeOK, Server, NextToken
<1>7. server' = Issued(srv, server.of[cookie])
  BY <1>3 DEF FlightRotate
<1> HIDE DEF n, srv
<1>8. /\ n \in server'.live /\ server'.open = server.open
      /\ server'.of[n] = server.of[cookie] /\ server'.of[cookie] = server.of[cookie]
  BY <1>3, <1>4, <1>6, <1>7, IssuedFields
<1>9. Presents(t)'
  BY <1>1, <1>5, <1>8 DEF Presents
<1>10. \A u \in Tabs \ {t} : Presents(u)'
  BY <1>2, <1>5 DEF Presents
<1>11. CookieLives'
  BY <1>5 DEF CookieLives
<1>12. \A c \in Calls : Brings(c)'
  BY <1>1, <1>2 DEF Brings, LoggingIn, UnderWay
<1>13. \A c \in Calls : RefusedForGood(c)'
  BY <1>0, <1>1, <1>8 DEF Rightful, RefusedForGood, At
<1> QED
  BY <1>9, <1>10, <1>11, <1>12, <1>13 DEF Rightful

\* The browser takes the cookie of a refresh.
LEMMA RightfulFlightCookie ==
  ASSUME RInv, Quiet, NEW t \in Tabs, FlightCookie(t)
  PROVE  Rightful'
<1>0. TypeOK /\ Rightful /\ Positions
  BY DEF RInv, IInv
<1>1. flight[t].pc = "answered" /\ cookie' = flight[t].new /\ call' = call /\ server' = server
  BY DEF FlightCookie
<1>2. /\ \A u \in Tabs \ {t} : flight[u].pc = "none"
      /\ \A c \in Calls : ~LoggingIn(c)
  BY <1>1, RefreshAlone
<1>3. /\ flight[t].new \in server.live /\ flight[t].new # 0
      /\ server.of[flight[t].new] = server.of[cookie]
  BY <1>0, <1>1 DEF Rightful, Presents, Positions
<1>4. /\ flight'[t].pc = "arrived" /\ flight'[t].new = flight[t].new
      /\ \A u \in Tabs \ {t} : flight'[u] = flight[u]
  BY <1>0 DEF FlightCookie, TypeOK, Flight
<1>5. \A u \in Tabs : Presents(u)'
  BY <1>2, <1>3, <1>4 DEF Presents
<1>6. CookieLives'
  BY <1>1, <1>3 DEF CookieLives
<1>7. \A c \in Calls : Brings(c)'
  BY <1>1, <1>2 DEF Brings, LoggingIn, UnderWay
<1>8. \A c \in Calls : RefusedForGood(c)'
  BY <1>0, <1>1, <1>3 DEF Rightful, RefusedForGood, At
<1> QED
  BY <1>5, <1>6, <1>7, <1>8 DEF Rightful

\* The browser takes the cookie of a login, or loses it to a logout.
LEMMA RightfulCallCookie ==
  ASSUME RInv, Quiet, NEW c \in Calls, CallCookie(c)
  PROVE  Rightful'
<1>0. TypeOK /\ Rightful /\ Positions /\ Alone /\ LoginAlone /\ ZeroIsNone /\ ~past.crossed
  BY DEF RInv, IInv, Quiet
<1>1. /\ At(c, "answered") /\ cookie' = call[c].new
      /\ UNCHANGED <<stored, tab, flight, server, past>>
  BY DEF CallCookie
<1>2. call[c].kind \in {"login", "logout"} /\ (call[c].kind = "logout" => call[c].new = 0)
  BY <1>0, <1>1 DEF Positions, CallOf
<1>3. Signing(c) /\ AloneIs(c)
  BY <1>0, <1>1, <1>2 DEF Signing, UnderWay, At, Alone
<1>4. \A t \in Tabs : flight[t].pc = "none"
  BY <1>1, <1>3 DEF AloneIs, At
<1>5. /\ call'[c].pc = "arrived" /\ call'[c].kind = call[c].kind
      /\ \A d \in Calls \ {c} : call'[d] = call[d] /\ ~LoggingIn(d)
  BY <1>0, <1>3 DEF CallCookie, Goto, TypeOK, Call, AloneIs, LoggingIn, Signing
<1>6. \A t \in Tabs : Presents(t)'
  BY <1>1, <1>4 DEF Presents
<1>7. \A d \in Calls : Brings(d)'
  BY <1>5 DEF Brings, LoggingIn, UnderWay, At
<1>8. CASE call[c].kind = "login"
  <2>1. LoggingIn(c)
    BY <1>1, <1>8 DEF LoggingIn, UnderWay, At
  <2>2. cookie' \in server'.live
    BY <1>0, <1>1, <2>1 DEF Rightful, Brings
  <2>3. \A d \in Calls : ~At(d, "resume")
    BY <1>0, <2>1, CallFields DEF LoginAlone, Refreshing, Of
  <2>4. \A d \in Calls : RefusedForGood(d)'
    BY <1>5, <2>3 DEF RefusedForGood, At
  <2> QED
    BY <1>6, <1>7, <2>2, <2>4 DEF Rightful, CookieLives
<1>9. CASE call[c].kind = "logout"
  <2>1. server'.of[cookie'] \notin server'.open
    BY <1>0, <1>1, <1>2, <1>9 DEF ZeroIsNone
  <2> QED
    BY <1>6, <1>7, <2>1 DEF Rightful, CookieLives, RefusedForGood
<1> QED
  BY <1>2, <1>8, <1>9

\* A call meets its first 401.
LEMMA RightfulRefused ==
  ASSUME RInv, Quiet, NEW c \in Calls, Unauthorized(c)
  PROVE  Rightful'
<1>0. TypeOK /\ Rightful
  BY DEF RInv, IInv
<1>1. cookie' = cookie /\ server' = server
  BY DEF Unauthorized
<1>2. call'[c].pc = "waiting" /\ At(c, "arrived") /\ \A d \in Calls \ {c} : call'[d] = call[d]
  BY <1>0, Refused
<1>3. \A t \in Tabs : \/ flight'[t] = flight[t]
                      \/ /\ flight[t].pc = "none"
                         /\ flight'[t] = [pc |-> "sent", token |-> cookie, new |-> 0]
  BY <1>0, Refused
<1>4. \A t \in Tabs : Presents(t)'
  BY <1>0, <1>1, <1>3 DEF Rightful, Presents
<1>5. CookieLives'
  BY <1>0, <1>1, <1>2, <1>3 DEF Rightful, CookieLives, LoggingIn, UnderWay, At
<1>6. \A d \in Calls : Brings(d)' /\ RefusedForGood(d)'
  BY <1>0, <1>1, <1>2 DEF Rightful, Brings, RefusedForGood, LoggingIn, UnderWay, At
<1> QED
  BY <1>4, <1>5, <1>6 DEF Rightful

\* The refresh ends, and those that wait for it go on.
LEMMA RightfulEnds ==
  ASSUME RInv, Quiet, NEW t \in Tabs, FlightEnds(t)
  PROVE  Rightful'
<1>0. TypeOK /\ Rightful
  BY DEF RInv, IInv
<1>1. cookie' = cookie /\ server' = server /\ flight[t].pc = "arrived"
  BY DEF FlightEnds
<1>2. flight'[t].pc = "none" /\ \A u \in Tabs \ {t} : flight'[u] = flight[u]
  BY <1>0, FlightIsOver DEF NoFlight
<1>3. \A d \in Calls : \/ call'[d] = call[d]
                       \/ /\ call[d].pc = "waiting" /\ call'[d].pc = "resume"
                          /\ call'[d].answer = "401" => flight[t].new = 0
  BY <1>0 DEF FlightEnds, TypeOK, Call, At
<1>4. flight[t].new = 0 => server.of[cookie] \notin server.open
  BY <1>0, <1>1 DEF Rightful, Presents
<1>5. \A u \in Tabs : Presents(u)'
  BY <1>0, <1>1, <1>2 DEF Rightful, Presents
<1>6. CookieLives'
  BY <1>0, <1>1, <1>2, <1>3 DEF Rightful, CookieLives, LoggingIn, UnderWay, At
<1>7. \A d \in Calls : Brings(d)'
  BY <1>0, <1>1, <1>3 DEF Rightful, Brings, LoggingIn, UnderWay, At
<1>8. \A d \in Calls : RefusedForGood(d)'
  BY <1>0, <1>1, <1>3, <1>4 DEF Rightful, RefusedForGood, At
<1> QED
  BY <1>5, <1>6, <1>7, <1>8 DEF Rightful

\* A page is left that does not refresh, and is not that of a login.
LEMMA RightfulPage ==
  ASSUME RInv, Quiet, ~past'.faulty, NEW t \in Tabs, Loads(t)
  PROVE  Rightful'
<1>0. TypeOK /\ Rightful
  BY DEF RInv, IInv, Quiet
<1>1. flight[t].pc = "none" /\ \A c \in Calls : ~(Signing(c) /\ Of(c) = t)
  BY <1>0, PageIsLoaded
<1>2. /\ cookie' = cookie /\ server' = server
      /\ flight'[t] = NoFlight /\ \A u \in Tabs \ {t} : flight'[u] = flight[u]
      /\ \A d \in Calls : call'[d] = call[d] \/ (Of(d) = t /\ call'[d].pc = "ended")
  BY <1>0, PageIsLoaded
<1>3. \A d \in Calls : LoggingIn(d) => call'[d] = call[d]
  BY <1>1, <1>2 DEF LoggingIn, Signing
<1>4. \A u \in Tabs : Presents(u)'
  BY <1>0, <1>2 DEF Rightful, Presents, NoFlight
<1>5. CookieLives'
  BY <1>0, <1>1, <1>2, <1>3 DEF Rightful, CookieLives, LoggingIn, UnderWay, At
<1>6. \A d \in Calls : Brings(d)' /\ RefusedForGood(d)'
  BY <1>0, <1>2 DEF Rightful, Brings, RefusedForGood, LoggingIn, UnderWay, At
<1> QED
  BY <1>4, <1>5, <1>6 DEF Rightful

LEMMA RightfulNext == RInv /\ [Next]_vars => (Quiet => Rightful)'
<1> SUFFICES ASSUME RInv, [Next]_vars, Quiet' PROVE Rightful'
  OBVIOUS
<1>0. TypeOK /\ Quiet /\ Rightful /\ ~past'.faulty
  BY CrossedStays, FaultyStays DEF RInv, IInv, Quiet
<1>1. ASSUME NEW c \in Calls, Asks(c) \/ Serve(c) \/ ServeFails(c) \/ Retry(c)
                                \/ GiveUp(c) \/ Finish(c)
      PROVE  Rightful'
  <2>1. cookie' = cookie /\ server' = server /\ flight' = flight
    BY <1>1 DEF Asks, Begin, BeginLogout, FetchUser, Serve, ServeFails, Retry, GiveUp, Finish
  <2>2. \A d \in Calls : call'[d] = call[d] \/ d = c
    BY <1>0, <1>1, Begins, GoesOn, Ends DEF Serves
  <2>3. ~At(c, "answered")
    BY <1>0, <1>1, Begins DEF UnderWay, At, Serve, ServeFails, Retry, GiveUp, Finish
  <2>4. call'[c].pc \notin {"answered", "resume"}
    <3>1. CASE Serve(c) \/ ServeFails(c)
      BY <1>0, <3>1, AnswerFields DEF Serve, ServeFails
    <3>2. CASE Retry(c)
      <4>1. [Send(c, Of(c), call[c].kind) EXCEPT !.retried = TRUE].pc = "sent"
        BY DEF Send, Nothing
      <4> QED
        BY <1>0, <3>2, <4>1 DEF Retry, TypeOK
    <3> QED
      BY <1>0, <1>1, <3>1, <3>2, Begins, Ends
  <2> QED
    BY <1>0, <2>1, <2>2, <2>3, <2>4, CallsMove
<1>2. CASE Idles
  <2>1. server'.live = server.live /\ server'.of = server.of /\ server'.open \subseteq server.open
    BY <1>0, <1>2 DEF Idles, Expire, CloseSessions, FetchNone, vars, TypeOK, Server
  <2> QED
    BY <1>0, <1>2, <2>1, Rests, CallsMove
<1>3. ASSUME NEW t \in Tabs, FlightFails(t)
      PROVE  FALSE
  BY <1>0, <1>3 DEF FlightFails, TypeOK, Past
<1>4. ASSUME NEW c \in Calls, ServeLogin(c) \/ ServeLogout(c) \/ CallCookie(c) \/ Unauthorized(c)
      PROVE  Rightful'
  BY <1>0, <1>4, RightfulLogin, RightfulLogout, RightfulCallCookie, RightfulRefused
<1>5. ASSUME NEW t \in Tabs, FlightCheck(t) \/ FlightRotate(t) \/ FlightScript(t) \/ Loads(t)
      PROVE  Rightful'
  BY <1>0, <1>5, RightfulCheck, RightfulRotate, RightfulFlightCookie, RightfulEnds, RightfulPage
     DEF FlightScript
<1> QED
  BY <1>1, <1>2, <1>3, <1>4, <1>5, NextCases DEF Serves, Script, FlightServes

LEMMA InitRInv == Init => RInv
<1> SUFFICES ASSUME Init PROVE RInv
  OBVIOUS
<1>1. /\ cookie = 1 /\ server.live = {1} /\ server.open = {1}
      /\ server.of = [n \in Token |-> IF n = 1 THEN 1 ELSE 0]
  BY DEF Init
<1>2. /\ \A c \in Calls : call[c].pc = "idle"
      /\ \A t \in Tabs : flight[t].pc = "none"
  BY NothingFields DEF Init, NoFlight
<1>3. OneTab /\ LoginAlone
  BY <1>2 DEF OneTab, LoginAlone, Refreshing, Retried, LoggingIn, UnderWay, At
<1>4. ZeroIsNone
  BY <1>1, TokenFacts DEF ZeroIsNone
<1>5. Rightful
  BY <1>1, <1>2 DEF Rightful, Presents, CookieLives, Brings, RefusedForGood, At
<1> QED
  BY <1>3, <1>4, <1>5, InitIInv DEF RInv

LEMMA RInvNext == RInv /\ [Next]_vars => RInv'
BY TypeNext, PositionsNext, AloneNext, CookieTakenNext, SignedOutNext,
   OneTabNext, LoginAloneNext, ZeroIsNoneNext, RightfulNext DEF RInv, IInv

-----------------------------------------------------------------------------
(* Why the browser has a token that the server accepts.                    *)

\* Nothing has happened that excuses the way to the login page.
Fine == ~server.barred /\ past.sign = "in" /\ Quiet /\ ~past.lapsed

\* The cookie's session is closed, or there is no cookie.
Closed == server.of[cookie] \notin server.open

Fresh(token) == token > server.expired

\* The server has opened the session of a login that is under way.
Welcomed(c) == LoggingIn(c) /\ call[c].answer = "ok"

\* What a refresh brings has not expired.
BringsFresh(t) ==
  flight[t].pc \in {"answered", "arrived"} /\ flight[t].new # 0 => Fresh(flight[t].new)

\* Nor has what its calls are sent again with, and only a closed session refuses it.
SecondTry(c) ==
  /\ At(c, "resume") /\ call[c].answer = "ok" => Fresh(stored) \/ Closed
  /\ At(c, "sent") /\ call[c].retried => Fresh(call[c].token) \/ Closed
  /\ At(c, "arrived") /\ call[c].retried /\ call[c].answer = "401" => Closed

\* The token of an open session is stored, or on the way with a login.
StoredOrClosed == stored # 0 \/ Closed \/ \E c \in Calls : Welcomed(c)

Trusted ==
  /\ \A t \in Tabs : BringsFresh(t)
  /\ \A c \in Calls : SecondTry(c)
  /\ StoredOrClosed

\* RouteGuard has nothing left to do.
Settled == \A t \in Tabs : tab[t].page = "console" => tab[t].user \/ tab[t].loading

Expirable == server.expired <= server.last

TInv == RInv /\ Settled /\ Expirable /\ (Fine => Trusted)

LEMMA InitTInv == Init => TInv
<1> SUFFICES ASSUME Init PROVE TInv
  OBVIOUS
<1>1. stored = 1 /\ server.expired = 0 /\ server.last = 1
  BY DEF Init
<1>2. /\ \A c \in Calls : call[c].pc = "idle"
      /\ \A t \in Tabs : flight[t].pc = "none"
  BY NothingFields DEF Init, NoFlight
<1>3. Trusted
  BY <1>1, <1>2 DEF Trusted, BringsFresh, SecondTry, StoredOrClosed, At
<1>4. Settled
  BY DEF Init, Settled
<1> QED
  BY <1>1, <1>3, <1>4, InitRInv DEF TInv, Expirable

\* The account stays locked or unlocked, and what has been issued can expire.
LEMMA ServerMoves ==
  ASSUME TypeOK, Expirable, [Next]_vars
  PROVE  server'.barred = server.barred /\ Expirable'
<1>0. server \in Server /\ server.last \in Nat /\ server.expired \in Nat
  BY DEF TypeOK, Server, Token
<1>1. ASSUME NEW srv \in Server, srv.last = server.last, srv.expired = server.expired,
             srv.barred = server.barred, srv.last < MaxToken, NEW session \in Token,
             server' = Issued(srv, session)
      PROVE  server'.barred = server.barred /\ Expirable'
  BY <1>0, <1>1, IssuedFields DEF NextToken, Expirable
<1>2. ASSUME NEW c \in Calls, ServeLogin(c)
      PROVE  server'.barred = server.barred /\ Expirable'
  BY <1>0, <1>1, <1>2, TokenFacts DEF ServeLogin
<1>3. ASSUME NEW t \in Tabs, FlightRotate(t)
      PROVE  server'.barred = server.barred /\ Expirable'
  <2> DEFINE srv == [server EXCEPT !.live = server.live \ {flight[t].token}]
  <2>1. /\ srv \in Server /\ srv.last = server.last /\ srv.expired = server.expired
        /\ srv.barred = server.barred /\ srv.last < MaxToken
    BY <1>0, <1>3 DEF FlightRotate, Server
  <2>2. server' = Issued(srv, server.of[flight[t].token]) /\ server.of[flight[t].token] \in Token
    BY <1>0, <1>3, FlightFields, ServerFields DEF FlightRotate
  <2> HIDE DEF srv
  <2> QED
    BY <1>1, <2>1, <2>2
<1>4. ASSUME NEW c \in Calls, ServeLogout(c)
      PROVE  server'.barred = server.barred /\ Expirable'
  <2> DEFINE session == server.of[call[c].token]
             open == server.open \ {session}
             live == {n \in server.live : server.of[n] # session}
  <2>1. server' = server \/ server' = [server EXCEPT !.open = open, !.live = live]
    BY <1>4 DEF ServeLogout
  <2> HIDE DEF open, live
  <2> QED
    BY <1>0, <2>1 DEF Server, Expirable
<1>5. CASE Idles
  <2>1. CASE Expire
    BY <1>0, <2>1 DEF Expire, Server, Expirable
  <2>2. CASE CloseSessions
    BY <1>0, <2>2 DEF CloseSessions, Server, Expirable
  <2>3. CASE server' = server
    BY <2>3 DEF Expirable
  <2> QED
    BY <1>5, <2>1, <2>2, <2>3 DEF Idles, FetchNone, vars
<1>6. CASE server' = server
  BY <1>6 DEF Expirable
<1>7. ASSUME NEW c \in Calls, Asks(c) \/ Serves(c) \/ CallCookie(c) \/ Script(c)
      PROVE  server'.barred = server.barred /\ Expirable'
  BY <1>2, <1>4, <1>6, <1>7
     DEF Asks, Begin, BeginLogout, FetchUser, Serves, Serve, ServeFails, CallCookie, Script,
         Unauthorized, Retry, GiveUp, Finish
<1>8. ASSUME NEW t \in Tabs, FlightServes(t) \/ FlightScript(t) \/ Loads(t)
      PROVE  server'.barred = server.barred /\ Expirable'
  BY <1>3, <1>6, <1>8
     DEF FlightServes, FlightCheck, FlightFails, FlightScript, FlightCookie, FlightEnds, Loads, LoadPage
<1> QED
  BY <1>5, <1>7, <1>8, NextCases

\* What a call leaves of its tab, RouteGuard has seen.
LEMMA GuardedRow ==
  ASSUME NEW row \in Tab
  PROVE  /\ Guarded(row).page = "console" => Guarded(row).user \/ Guarded(row).loading
         /\ Guarded(row).leaving = row.leaving
         /\ row.user \/ row.loading => Guarded(row) = row
BY DEF Guarded, Tab, Pages

LEMMA AfterIsGuarded ==
  ASSUME TypeOK, NEW c \in Calls
  PROVE  /\ After(c).page = "console" => After(c).user \/ After(c).loading
         /\ After(c).leaving = tab[Of(c)].leaving
<1> DEFINE row == tab[Of(c)]
           answer == call[c].answer
           me == [row EXCEPT !.loading = FALSE, !.user = answer = "ok" \/ (answer = "other" /\ row.user)]
           in == [row EXCEPT !.user = TRUE, !.page = "console"]
           out == [row EXCEPT !.user = FALSE, !.page = "login"]
<1>1. row \in Tab /\ call[c].kind \in Kinds
  BY AfterType, CallFields DEF TypeOK
<1>2. /\ me \in Tab /\ in \in Tab /\ out \in Tab
      /\ me.leaving = row.leaving /\ in.leaving = row.leaving /\ out.leaving = row.leaving
  BY <1>1 DEF Tab, Pages
<1>3. \E r \in {row, me, in, out} : After(c) = Guarded(r)
  BY <1>1 DEF After, Kinds
<1> HIDE DEF row, me, in, out
<1> QED
  BY <1>1, <1>2, <1>3, GuardedRow DEF row

LEMMA SettledNext == TypeOK /\ Settled /\ [Next]_vars => Settled'
<1> SUFFICES ASSUME TypeOK, Settled, [Next]_vars, NEW t \in Tabs, tab'[t] # tab[t], tab'[t].page = "console"
             PROVE  tab'[t].user \/ tab'[t].loading
  BY DEF Settled
<1>1. ASSUME NEW c \in Calls, Asks(c) \/ Serves(c) \/ CallCookie(c) \/ Unauthorized(c) \/ Retry(c)
      PROVE  FALSE
  BY <1>1, Begins, GoesOn, Refused
<1>2. ASSUME NEW c \in Calls, GiveUp(c) \/ Finish(c)
      PROVE  tab'[t].user \/ tab'[t].loading
  <2>1. After(c) \in Tab /\ Of(c) = t
    BY <1>2, AfterType DEF GiveUp, Finish, TypeOK
  <2>2. tab'[t].page = After(c).page /\ tab'[t].user = After(c).user /\ tab'[t].loading = After(c).loading
    BY <1>2, <2>1 DEF GiveUp, Finish, TypeOK, Tab
  <2> QED
    BY <2>2, AfterIsGuarded
<1>3. ASSUME NEW u \in Tabs, FlightServes(u) \/ FlightScript(u)
      PROVE  FALSE
  BY <1>3, FlightGoesOn, FlightIsOver DEF FlightScript
<1>4. ASSUME NEW u \in Tabs, Loads(u)
      PROVE  tab'[t].loading
  BY <1>4, PageIsLoaded
<1>5. CASE Idles
  <2>1. tab' = tab \/ \E u \in Tabs : tab' = [tab EXCEPT ![u] = Guarded([tab[u] EXCEPT !.loading = FALSE])]
    BY <1>5 DEF Idles, Expire, CloseSessions, FetchNone, vars
  <2>2. tab' = [tab EXCEPT ![t] = Guarded([tab[t] EXCEPT !.loading = FALSE])]
    BY <2>1 DEF TypeOK
  <2>3. [tab[t] EXCEPT !.loading = FALSE] \in Tab
    BY DEF TypeOK, Tab
  <2>4. tab'[t] = Guarded([tab[t] EXCEPT !.loading = FALSE])
    BY <2>2 DEF TypeOK
  <2> QED
    BY <2>3, <2>4, GuardedRow
<1> QED
  BY <1>1, <1>2, <1>3, <1>4, <1>5, NextCases DEF Script

-----------------------------------------------------------------------------
(* The tokens stay trusted.                                                *)

\* Calls move that take no token and get none refused; a session may close.
LEMMA TrustedQuiet ==
  ASSUME Trusted, cookie' = cookie, stored' = stored, Closed => Closed',
         server'.expired = server.expired,
         \A t \in Tabs : flight'[t] = flight[t] \/ flight'[t].pc \notin {"answered", "arrived"}
                                               \/ flight'[t].new = 0,
         \A d \in Calls : call'[d] = call[d] \/
           (~Welcomed(d) /\ (call'[d].pc \in {"waiting", "ended"} \/ SecondTry(d)'))
  PROVE  Trusted'
<1>1. \A t \in Tabs : BringsFresh(t)'
  BY DEF Trusted, BringsFresh, Fresh
<1>2. ASSUME NEW d \in Calls
      PROVE  SecondTry(d)'
  <2>1. CASE call'[d] = call[d]
    BY <2>1 DEF Trusted, SecondTry, Fresh, At
  <2>2. CASE call'[d].pc \in {"waiting", "ended"}
    BY <2>2 DEF SecondTry, At
  <2> QED
    BY <2>1, <2>2
<1>3. StoredOrClosed'
  BY DEF Trusted, StoredOrClosed, Welcomed, LoggingIn, UnderWay, At
<1> QED
  BY <1>1, <1>2, <1>3 DEF Trusted

\* A session that is closed stays so.
LEMMA ClosedStays ==
  ASSUME Closed, cookie' = cookie, server'.of = server.of, server'.open \subseteq server.open
  PROVE  Closed'
BY DEF Closed

\* While a login is under way, no tab refreshes and no call is sent again.
LEMMA WhileLoggingIn ==
  ASSUME RInv, Quiet, NEW c \in Calls, LoggingIn(c)
  PROVE  /\ \A t \in Tabs : flight[t].pc = "none"
         /\ \A d \in Calls : ~At(d, "resume") /\ ~Retried(d)
<1>1. TypeOK /\ (\A t \in Tabs : ~Refreshing(t)) /\ \A d \in Calls : ~Retried(d)
  BY DEF RInv, IInv, Quiet, LoginAlone
<1>2. \A d \in Calls : Of(d) \in Tabs
  BY <1>1, CallFields DEF Of
<1> QED
  BY <1>1, <1>2 DEF Refreshing

\* Then there is nothing to trust but what is stored.
LEMMA NothingToTrust ==
  ASSUME RInv, Quiet, NEW c \in Calls, LoggingIn(c), flight' = flight,
         \A d \in Calls \ {c} : call'[d] = call[d],
         call'[c].pc = "ended" \/ (~call'[c].retried /\ call'[c].pc # "resume"),
         StoredOrClosed'
  PROVE  Trusted'
<1>1. \A t \in Tabs : BringsFresh(t)'
  BY WhileLoggingIn DEF BringsFresh
<1>2. \A d \in Calls : ~At(d, "resume") /\ ~Retried(d)
  BY WhileLoggingIn
<1>3. \A d \in Calls \ {c} : SecondTry(d)'
  BY <1>2 DEF SecondTry, Retried, UnderWay, At
<1>4. SecondTry(c)'
  BY DEF SecondTry, At
<1> QED
  BY <1>1, <1>3, <1>4 DEF Trusted

\* A call is sent, or meets its first 401.
LEMMA TrustedAsks ==
  ASSUME TypeOK, Positions, Trusted, NEW c \in Calls, Asks(c) \/ Unauthorized(c)
  PROVE  Trusted'
<1>1. CASE Asks(c)
  <2>1. ~Welcomed(c) /\ SecondTry(c)'
    BY <1>1, Begins DEF Welcomed, LoggingIn, SecondTry, At
  <2>2. UNCHANGED <<cookie, stored, flight, server>> /\ \A d \in Calls \ {c} : call'[d] = call[d]
    BY <1>1, Begins
  <2>3. Closed => Closed'
    BY <2>2, ClosedStays
  <2> QED
    BY <2>1, <2>2, <2>3, TrustedQuiet
<1>2. CASE Unauthorized(c)
  <2>1. ~Welcomed(c) /\ call'[c].pc = "waiting"
    BY <1>2, Refused DEF Welcomed
  <2>2. /\ cookie' = cookie /\ stored' = stored /\ server' = server
        /\ \A d \in Calls \ {c} : call'[d] = call[d]
    BY <1>2, Refused DEF Unauthorized
  <2>3. Closed => Closed'
    BY <2>2, ClosedStays
  <2>4. \A t \in Tabs : flight'[t] = flight[t] \/ flight'[t].pc \notin {"answered", "arrived"}
    BY <1>2 DEF Unauthorized, TypeOK
  <2> QED
    BY <2>1, <2>2, <2>3, <2>4, TrustedQuiet
<1> QED
  BY <1>1, <1>2

\* The server refuses an access token that has expired, and serves the others.
LEMMA TrustedServe ==
  ASSUME TInv, Fine, Trusted, NEW c \in Calls, Serve(c) \/ ServeLogout(c) \/ ServeFails(c)
  PROVE  Trusted'
<1>0. TypeOK /\ Positions /\ server \in Server
  BY DEF TInv, RInv, IInv, TypeOK
<1>1. At(c, "sent") /\ UNCHANGED <<cookie, stored, flight, past>>
  BY DEF Serve, ServeLogout, ServeFails
<1>2. /\ server'.of = server.of /\ server'.open \subseteq server.open
      /\ server'.expired = server.expired
  <2> DEFINE session == server.of[call[c].token]
             open == server.open \ {session}
             live == {n \in server.live : server.of[n] # session}
  <2>1. server' = server \/ server' = [server EXCEPT !.open = open, !.live = live]
    BY DEF Serve, ServeLogout, ServeFails
  <2>2. open \subseteq server.open
    OBVIOUS
  <2> HIDE DEF open, live
  <2> QED
    BY <1>0, <2>1, <2>2 DEF Server
<1>3. Closed => Closed'
  BY <1>1, <1>2, ClosedStays
<1>4. /\ \A d \in Calls \ {c} : call'[d] = call[d]
      /\ call'[c].pc \in {"answered", "arrived"} /\ call'[c].retried = call[c].retried
      /\ call'[c].answer = "401" => ~Accepted(call[c].token)
  BY <1>0, AnswerFields DEF Serve, ServeLogout, ServeFails
<1>5. SecondTry(c)'
  <2>1. SUFFICES ASSUME call[c].retried, call'[c].answer = "401"
                 PROVE  Closed'
    BY <1>4 DEF SecondTry, At
  <2>2. ~Fresh(call[c].token)
    BY <1>4, <2>1 DEF Accepted, Fresh, Fine
  <2> QED
    BY <1>1, <1>3, <2>1, <2>2 DEF Trusted, SecondTry
<1>6. CASE ~Welcomed(c)
  BY <1>1, <1>2, <1>3, <1>4, <1>5, <1>6, TrustedQuiet
<1>7. CASE Welcomed(c)
  <2>1. call[c].kind = "login" /\ ServeFails(c)
    BY <1>7 DEF Welcomed, LoggingIn, Serve, ServeLogout
  <2> QED
    BY <1>0, <1>1, <1>7, <2>1 DEF Welcomed, Positions, CallOf
<1> QED
  BY <1>6, <1>7

\* The server opens the session of a login.
LEMMA TrustedServeLogin ==
  ASSUME TInv, Fine, NEW c \in Calls, ServeLogin(c)
  PROVE  Trusted'
<1>0. TypeOK /\ RInv /\ Quiet
  BY DEF TInv, RInv, IInv, Fine
<1>1. LoggingIn(c) /\ flight' = flight
  BY DEF ServeLogin, LoggingIn, UnderWay, At
<1>2. ~call[c].retried
  BY <1>0, <1>1, WhileLoggingIn DEF Retried, LoggingIn
<1>3. call' = [Answer(c, "answered", "ok") EXCEPT ![c].new = NextToken(server)]
  BY DEF ServeLogin
<1>4. Answer(c, "answered", "ok") \in [Calls -> Call]
  BY <1>0, AnswerType DEF PC, Answers
<1>5. /\ call'[c].pc = Answer(c, "answered", "ok")[c].pc
      /\ call'[c].kind = Answer(c, "answered", "ok")[c].kind
      /\ call'[c].answer = Answer(c, "answered", "ok")[c].answer
      /\ call'[c].retried = Answer(c, "answered", "ok")[c].retried
      /\ \A d \in Calls \ {c} : call'[d] = Answer(c, "answered", "ok")[d]
  BY <1>3, <1>4 DEF Call
<1>6. /\ call'[c].pc = "answered" /\ call'[c].kind = "login" /\ call'[c].answer = "ok"
      /\ ~call'[c].retried /\ \A d \in Calls \ {c} : call'[d] = call[d]
  BY <1>0, <1>2, <1>5, AnswerFields DEF ServeLogin
<1>7. StoredOrClosed'
  BY <1>6 DEF StoredOrClosed, Welcomed, LoggingIn, UnderWay, At
<1> QED
  BY <1>0, <1>1, <1>6, <1>7, NothingToTrust

\* The browser takes the cookie of a login, or loses it to a logout.
LEMMA TrustedCookie ==
  ASSUME TInv, Fine, Trusted, NEW c \in Calls, CallCookie(c)
  PROVE  Trusted'
<1>0. TypeOK /\ RInv /\ Quiet /\ Positions /\ Alone /\ ZeroIsNone /\ ~past.crossed
  BY DEF TInv, RInv, IInv, Fine, Quiet
<1>1. /\ At(c, "answered") /\ cookie' = call[c].new
      /\ UNCHANGED <<stored, tab, flight, server, past>>
  BY DEF CallCookie
<1>2. /\ call[c].kind \in {"login", "logout"} /\ call[c].answer = "ok"
      /\ call[c].kind = "logout" => call[c].new = 0
  BY <1>0, <1>1 DEF Positions, CallOf
<1>3. /\ call'[c].pc = "arrived" /\ call'[c].kind = call[c].kind /\ call'[c].answer = "ok"
      /\ call'[c].retried = call[c].retried
      /\ \A d \in Calls \ {c} : call'[d] = call[d]
  BY <1>0, <1>2 DEF CallCookie, Goto, TypeOK, Call
<1>4. CASE call[c].kind = "login"
  <2>1. LoggingIn(c)
    BY <1>1, <1>4 DEF LoggingIn, UnderWay, At
  <2>2. ~call[c].retried
    BY <1>0, <2>1, WhileLoggingIn DEF Retried, LoggingIn
  <2>3. StoredOrClosed'
    BY <1>3, <1>4 DEF StoredOrClosed, Welcomed, LoggingIn, UnderWay, At
  <2> QED
    BY <1>0, <1>1, <1>3, <2>1, <2>2, <2>3, NothingToTrust
<1>5. CASE call[c].kind = "logout"
  <2>1. Closed'
    BY <1>0, <1>1, <1>2, <1>5 DEF ZeroIsNone, Closed
  <2>2. \A d \in Calls \ {c} : SecondTry(d)'
    BY <1>3, <2>1 DEF Trusted, SecondTry, Fresh, At
  <2>3. SecondTry(c)'
    BY <1>3 DEF SecondTry, At
  <2>4. \A t \in Tabs : BringsFresh(t)'
    BY <1>1 DEF Trusted, BringsFresh, Fresh
  <2> QED
    BY <2>1, <2>2, <2>3, <2>4 DEF Trusted, StoredOrClosed
<1> QED
  BY <1>2, <1>4, <1>5

\* The server looks at the refresh token, or rotates it: the new one is fresh.
LEMMA TrustedFlightServes ==
  ASSUME TInv, Fine, Trusted, NEW t \in Tabs, FlightCheck(t) \/ FlightRotate(t)
  PROVE  Trusted'
<1>0. TypeOK /\ Rightful /\ Expirable /\ server \in Server
  BY DEF TInv, RInv, IInv, Fine, TypeOK
<1>1. CASE FlightCheck(t)
  <2>1. \A u \in Tabs : flight'[u] = flight[u] \/ flight'[u].new = 0
    <3>1. flight[t].new = 0
      BY <1>0, <1>1 DEF FlightCheck, Rightful, Presents
    <3> QED
      BY <1>0, <1>1, <3>1 DEF FlightCheck, TypeOK, Flight
  <2>2. UNCHANGED <<cookie, stored, call, server>>
    BY <1>1 DEF FlightCheck
  <2>3. Closed => Closed'
    BY <2>2, ClosedStays
  <2> QED
    BY <2>1, <2>2, <2>3, TrustedQuiet
<1>2. CASE FlightRotate(t)
  <2> DEFINE n == NextToken(server)
             srv == [server EXCEPT !.live = server.live \ {flight[t].token}]
  <2>1. flight[t].pc = "checked" /\ UNCHANGED <<cookie, stored, call>>
    BY <1>2 DEF FlightRotate
  <2>2. flight[t].token = cookie /\ server.of[cookie] # 0
    BY <1>0, <2>1 DEF Rightful, Presents
  <2>3. /\ cookie \in Token /\ server.of[cookie] \in Token
        /\ server.last \in Nat /\ server.expired \in Nat
    <3>1. cookie \in Token /\ server.of[cookie] \in Token
      BY <1>0, ServerFields DEF TypeOK
    <3>2. server.last \in Nat /\ server.expired \in Nat
      BY <1>0, ServerFields DEF Token
    <3> QED
      BY <3>1, <3>2
  <2>4. /\ srv \in Server /\ srv.of = server.of /\ srv.open = server.open
        /\ srv.last < MaxToken /\ NextToken(srv) = n /\ srv.expired = server.expired
    BY <1>0, <1>2 DEF FlightRotate, Server, NextToken
  <2>5. server' = Issued(srv, server.of[cookie])
    BY <1>2, <2>2 DEF FlightRotate
  <2>6. flight'[t].new = n /\ \A u \in Tabs \ {t} : flight'[u] = flight[u]
    BY <1>0, <1>2 DEF FlightRotate, TypeOK, Flight
  <2>7. n > server.expired
    BY <1>0, <2>3 DEF NextToken, Expirable
  <2> HIDE DEF n, srv
  <2>8. /\ server'.expired = server.expired /\ server'.open = server.open
        /\ server'.of[cookie] = server.of[cookie]
    BY <2>2, <2>3, <2>4, <2>5, IssuedFields
  <2>9. Closed => Closed'
    BY <2>1, <2>8 DEF Closed
  <2>10. \A u \in Tabs : BringsFresh(u)'
    BY <2>6, <2>7, <2>8 DEF Trusted, BringsFresh, Fresh
  <2>11. \A d \in Calls : SecondTry(d)'
    BY <2>1, <2>8, <2>9 DEF Trusted, SecondTry, Fresh, At
  <2>12. StoredOrClosed'
    BY <2>1, <2>9 DEF Trusted, StoredOrClosed, Welcomed, LoggingIn, UnderWay
  <2> QED
    BY <2>10, <2>11, <2>12 DEF Trusted
<1> QED
  BY <1>1, <1>2

\* The browser takes the cookie of a refresh, and its script the token.
LEMMA TrustedFlightScript ==
  ASSUME TInv, Fine, Trusted, NEW t \in Tabs, FlightScript(t)
  PROVE  Trusted'
<1>0. TypeOK /\ Rightful /\ Positions
  BY DEF TInv, RInv, IInv, Fine
<1>1. CASE FlightCookie(t)
  <2>1. /\ flight[t].pc = "answered" /\ cookie' = flight[t].new
        /\ UNCHANGED <<stored, call, server>>
    BY <1>1 DEF FlightCookie
  <2>2. server.of[flight[t].new] = server.of[cookie]
    BY <1>0, <2>1 DEF Rightful, Presents
  <2>3. Closed => Closed'
    BY <2>1, <2>2 DEF Closed
  <2>4. flight'[t].new = flight[t].new /\ \A u \in Tabs \ {t} : flight'[u] = flight[u]
    BY <1>0, <1>1 DEF FlightCookie, TypeOK, Flight
  <2>5. \A u \in Tabs : BringsFresh(u)'
    BY <2>1, <2>4 DEF Trusted, BringsFresh, Fresh
  <2>6. \A d \in Calls : SecondTry(d)'
    BY <2>1, <2>3 DEF Trusted, SecondTry, Fresh, At
  <2>7. StoredOrClosed'
    BY <2>1, <2>3 DEF Trusted, StoredOrClosed, Welcomed, LoggingIn, UnderWay
  <2> QED
    BY <2>5, <2>6, <2>7 DEF Trusted
<1>2. CASE FlightEnds(t)
  <2>1. /\ flight[t].pc = "arrived" /\ UNCHANGED <<cookie, server>>
        /\ stored' = IF flight[t].new # 0 THEN flight[t].new ELSE stored
    BY <1>2 DEF FlightEnds
  <2>2. Closed => Closed'
    BY <2>1, ClosedStays
  <2>3. flight[t].new # 0 => Fresh(stored')
    BY <2>1 DEF Trusted, BringsFresh, Fresh
  <2>4. \A u \in Tabs : flight'[u] = flight[u] \/ flight'[u].pc = "none"
    BY <1>0, <1>2, FlightIsOver DEF NoFlight
  <2>5. \A u \in Tabs : BringsFresh(u)'
    BY <2>1, <2>4 DEF Trusted, BringsFresh, Fresh
  <2>6. ASSUME NEW d \in Calls
        PROVE  SecondTry(d)'
    <3>1. CASE call'[d] = call[d]
      BY <2>1, <2>2, <2>3, <3>1 DEF Trusted, SecondTry, Fresh, At
    <3>2. CASE call'[d].pc = "resume" /\ (call'[d].answer = "ok" => flight[t].new # 0)
      BY <2>1, <2>3, <3>2 DEF SecondTry, Fresh, At
    <3> QED
      BY <1>0, <1>2, <3>1, <3>2 DEF FlightEnds, TypeOK, Call, At
  <2>7. \A d \in Calls : Welcomed(d) => call'[d] = call[d]
    BY <1>0, <1>2, FlightIsOver DEF Welcomed, LoggingIn, Positions, CallOf, At
  <2>8. StoredOrClosed'
    BY <2>1, <2>2, <2>7 DEF Trusted, StoredOrClosed, Welcomed, LoggingIn, UnderWay
  <2> QED
    BY <2>5, <2>6, <2>8 DEF Trusted
<1> QED
  BY <1>1, <1>2 DEF FlightScript

\* A call is sent again with the token that is stored, or given up.
LEMMA TrustedResumes ==
  ASSUME TInv, Fine, Trusted, NEW c \in Calls, Retry(c) \/ GiveUp(c)
  PROVE  Trusted'
<1>0. TypeOK /\ Rightful /\ Positions
  BY DEF TInv, RInv, IInv, Fine
<1>1. At(c, "resume") /\ UNCHANGED <<cookie, flight, server, past>>
  BY DEF Retry, GiveUp
<1>2. Closed => Closed'
  BY <1>1, ClosedStays
<1>3. \A t \in Tabs : BringsFresh(t)'
  BY <1>1 DEF Trusted, BringsFresh, Fresh
<1>4. ~Welcomed(c) /\ \A d \in Calls \ {c} : call'[d] = call[d]
  BY <1>0, <1>1, GoesOn, Ends DEF Welcomed, LoggingIn, Positions, CallOf, At
<1>5. CASE Retry(c)
  <2>1. call'[c].pc = "sent" /\ call'[c].token = stored
    <3>1. /\ [Send(c, Of(c), call[c].kind) EXCEPT !.retried = TRUE].pc = "sent"
          /\ [Send(c, Of(c), call[c].kind) EXCEPT !.retried = TRUE].token = stored
      BY DEF Send, Nothing
    <3> QED
      BY <1>0, <1>5, <3>1 DEF Retry, TypeOK
  <2>2. Fresh(stored) \/ Closed
    BY <1>1, <1>5 DEF Retry, Trusted, SecondTry
  <2>3. SecondTry(c)'
    BY <1>1, <1>2, <2>1, <2>2 DEF SecondTry, Fresh, At
  <2>4. stored' = stored
    BY <1>5 DEF Retry
  <2> QED
    BY <1>1, <1>2, <1>4, <2>3, <2>4, TrustedQuiet
<1>6. CASE GiveUp(c)
  <2>1. Closed
    BY <1>0, <1>1, <1>6 DEF GiveUp, Rightful, RefusedForGood, Closed
  <2>2. \A d \in Calls \ {c} : SecondTry(d)'
    BY <1>1, <1>2, <1>4, <2>1 DEF Trusted, SecondTry, Fresh, At
  <2>3. SecondTry(c)'
    BY <1>0, <1>6, Ends DEF SecondTry, At
  <2> QED
    BY <1>2, <1>3, <2>1, <2>2, <2>3 DEF Trusted, StoredOrClosed
<1> QED
  BY <1>5, <1>6

\* A call ends: a login has brought a token, and only a closed session refuses
\* a second try.
LEMMA TrustedFinish ==
  ASSUME TInv, Quiet, Fine', Fine => Trusted, NEW c \in Calls, Finish(c)
  PROVE  Trusted'
<1>0. TypeOK /\ RInv /\ Positions
  BY DEF TInv, RInv, IInv
<1>1. /\ At(c, "arrived") /\ UNCHANGED <<cookie, flight, server>>
      /\ call[c].answer = "401" => call[c].retried
  BY DEF Finish
<1>2. Closed => Closed'
  BY <1>1, ClosedStays
<1>3. call'[c].pc = "ended" /\ \A d \in Calls \ {c} : call'[d] = call[d]
  BY <1>0, Ends
<1>4. past'.sign = "in"
  BY DEF Fine
<1>5. CASE call[c].kind = "login" /\ call[c].answer = "ok"
  <2>1. LoggingIn(c)
    BY <1>1, <1>5 DEF LoggingIn, UnderWay, At
  <2>2. call[c].new # 0
    BY <1>0, <1>1, <1>5, <2>1 DEF Positions, CallOf, LoggingIn, At
  <2>3. stored' = call[c].new
    BY <1>5 DEF Finish
  <2>4. StoredOrClosed'
    BY <2>2, <2>3 DEF StoredOrClosed
  <2> QED
    BY <1>0, <1>1, <1>3, <2>1, <2>4, NothingToTrust
<1>6. CASE ~(call[c].kind = "login" /\ call[c].answer = "ok")
  <2>1. call[c].kind # "logout" /\ past.sign = "in"
    BY <1>0, <1>4, <1>6 DEF Finish, Signed, TypeOK, Past
  <2>2. past'.crossed = past.crossed /\ past'.faulty = past.faulty /\ past'.lapsed = past.lapsed
    BY <1>0 DEF Finish, Signed, TypeOK, Past
  <2>3. Fine /\ Trusted
    BY <1>1, <2>1, <2>2 DEF Fine, Quiet
  <2>4. ~Welcomed(c)
    BY <1>6 DEF Welcomed, LoggingIn
  <2>5. CASE call[c].kind = "me" /\ call[c].answer = "401"
    <3>1. Closed
      BY <1>1, <2>3, <2>5 DEF Trusted, SecondTry
    <3>2. \A d \in Calls \ {c} : SecondTry(d)'
      BY <1>1, <1>2, <1>3, <2>3, <3>1 DEF Trusted, SecondTry, Fresh, At
    <3>3. SecondTry(c)'
      BY <1>3 DEF SecondTry, At
    <3>4. \A t \in Tabs : BringsFresh(t)'
      BY <1>1, <2>3 DEF Trusted, BringsFresh, Fresh
    <3> QED
      BY <1>2, <3>1, <3>2, <3>3, <3>4 DEF Trusted, StoredOrClosed
  <2>6. CASE ~(call[c].kind = "me" /\ call[c].answer = "401")
    <3>1. stored' = stored
      BY <1>6, <2>1, <2>6 DEF Finish
    <3> QED
      BY <1>1, <1>2, <1>3, <2>3, <2>4, <3>1, TrustedQuiet
  <2> QED
    BY <2>5, <2>6
<1> QED
  BY <1>5, <1>6

\* A page is loaded that held no login.
LEMMA TrustedPage ==
  ASSUME TypeOK, Trusted, NEW t \in Tabs, Loads(t), ~past'.faulty
  PROVE  Trusted'
<1>1. \A c \in Calls : ~(Signing(c) /\ Of(c) = t)
  BY PageIsLoaded
<1>2. \A d \in Calls : call'[d] = call[d] \/ (call'[d].pc = "ended" /\ UnderWay(d) /\ Of(d) = t)
  BY PageIsLoaded
<1>3. \A d \in Calls : call'[d] = call[d] \/ (call'[d].pc = "ended" /\ ~Welcomed(d))
  BY <1>1, <1>2 DEF Welcomed, LoggingIn, Signing
<1>4. /\ cookie' = cookie /\ stored' = stored /\ server' = server
      /\ \A u \in Tabs : flight'[u] = flight[u] \/ flight'[u].new = 0
  BY PageIsLoaded DEF NoFlight
<1>5. Closed => Closed'
  BY <1>4, ClosedStays
<1> QED
  BY <1>3, <1>4, <1>5, TrustedQuiet

\* Time passes while no call of the console is between its two tries.
LEMMA TrustedIdles ==
  ASSUME TypeOK, Positions, Trusted, Idles, ~past'.lapsed
  PROVE  Trusted'
<1>1. UNCHANGED <<cookie, stored, flight, call>>
  BY Rests
<1>2. server'.of = server.of /\ server'.open \subseteq server.open
  BY DEF Idles, Expire, CloseSessions, FetchNone, vars, TypeOK, Server
<1>3. Closed => Closed'
  BY <1>1, <1>2, ClosedStays
<1>4. CASE Expire
  <2>1. \A t \in Tabs : ~Retrying(t)
    BY <1>4 DEF Expire, TypeOK, Past
  <2>2. \A t \in Tabs : BringsFresh(t)'
    BY <1>1, <2>1 DEF Retrying, BringsFresh
  <2>3. ASSUME NEW d \in Calls
        PROVE  SecondTry(d)'
    <3>1. Of(d) \in Tabs
      BY CallFields DEF Of
    <3>2. ~(At(d, "resume") /\ call[d].answer = "ok") /\ ~(At(d, "sent") /\ call[d].retried)
      BY <2>1, <3>1 DEF Retrying
    <3> QED
      BY <1>1, <1>3, <3>2 DEF Trusted, SecondTry, At
  <2>4. StoredOrClosed'
    BY <1>1, <1>3 DEF Trusted, StoredOrClosed, Welcomed, LoggingIn, UnderWay
  <2> QED
    BY <2>2, <2>3, <2>4 DEF Trusted
<1>5. CASE server'.expired = server.expired
  BY <1>1, <1>3, <1>5, TrustedQuiet
<1> QED
  BY <1>4, <1>5 DEF Idles, CloseSessions, FetchNone, vars, TypeOK, Server

\* What excuses is remembered, until the next login.
LEMMA FineFrom ==
  ASSUME TypeOK, Expirable, [Next]_vars, Fine'
  PROVE  /\ Quiet /\ ~past.lapsed /\ ~server.barred
         /\ past.sign = "in" \/ \E c \in Calls : Finish(c)
<1>1. Quiet /\ ~server.barred
  BY CrossedStays, FaultyStays, ServerMoves DEF Fine, Quiet
<1>2. past'.sign = "in" /\ ~past'.lapsed /\ ~past'.faulty
  BY DEF Fine, Quiet
<1>3. ASSUME NEW c \in Calls, Asks(c) \/ Serves(c) \/ CallCookie(c) \/ Retry(c)
      PROVE  past.sign = "in" /\ ~past.lapsed
  BY <1>2, <1>3, Begins, GoesOn
<1>4. ASSUME NEW c \in Calls, Unauthorized(c) \/ GiveUp(c)
      PROVE  past.sign = "in" /\ ~past.lapsed
  BY <1>2, <1>4 DEF Unauthorized, GiveUp, TypeOK, Past
<1>5. ASSUME NEW c \in Calls, Finish(c)
      PROVE  ~past.lapsed
  BY <1>2, <1>5 DEF Finish, Signed, TypeOK, Past
<1>6. ASSUME NEW t \in Tabs, FlightServes(t) \/ FlightScript(t)
      PROVE  past.sign = "in" /\ ~past.lapsed
  BY <1>2, <1>6 DEF FlightServes, FlightCheck, FlightRotate, FlightFails, FlightScript, FlightCookie,
                    FlightEnds, TypeOK, Past
<1>7. ASSUME NEW t \in Tabs, Loads(t)
      PROVE  past.sign = "in" /\ ~past.lapsed
  <2>1. \A c \in Calls : ~(LoggedIn(c) /\ Of(c) = t)
    BY <1>2, <1>7, PageIsLoaded DEF LoggedIn, Signing, UnderWay, At
  <2> QED
    BY <1>2, <1>7, <2>1, PageIsLoaded
<1>8. ASSUME Idles
      PROVE  past.sign = "in" /\ ~past.lapsed
  BY <1>2, <1>8 DEF Idles, Expire, CloseSessions, FetchNone, vars, TypeOK, Past
<1> QED
  BY <1>1, <1>3, <1>4, <1>5, <1>6, <1>7, <1>8, NextCases DEF Script

LEMMA TrustedNext == TInv /\ [Next]_vars => (Fine => Trusted)'
<1> SUFFICES ASSUME TInv, [Next]_vars, Fine' PROVE Trusted'
  OBVIOUS
<1>0. TypeOK /\ Positions /\ RInv /\ Expirable
  BY DEF TInv, RInv, IInv
<1>1. /\ Quiet /\ ~past.lapsed /\ ~server.barred
      /\ past.sign = "in" \/ \E c \in Calls : Finish(c)
  BY <1>0, FineFrom
<1>2. CASE \E c \in Calls : Finish(c)
  BY <1>1, <1>2, TrustedFinish DEF TInv
<1>3. CASE past.sign = "in" /\ \A c \in Calls : ~Finish(c)
  <2>1. Fine /\ Trusted /\ ~past'.faulty /\ ~past'.lapsed
    BY <1>1, <1>3 DEF TInv, Fine, Quiet
  <2>2. ASSUME NEW c \in Calls, Asks(c) \/ Unauthorized(c)
        PROVE  Trusted'
    BY <1>0, <2>1, <2>2, TrustedAsks
  <2>3. ASSUME NEW c \in Calls, Serves(c) \/ CallCookie(c)
        PROVE  Trusted'
    BY <2>1, <2>3, TrustedServe, TrustedServeLogin, TrustedCookie DEF Serves
  <2>4. ASSUME NEW c \in Calls, Retry(c) \/ GiveUp(c)
        PROVE  Trusted'
    BY <2>1, <2>4, TrustedResumes
  <2>5. ASSUME NEW t \in Tabs, FlightFails(t)
        PROVE  FALSE
    BY <1>0, <2>1, <2>5 DEF FlightFails, TypeOK, Past
  <2>6. ASSUME NEW t \in Tabs, FlightServes(t) \/ FlightScript(t)
        PROVE  Trusted'
    BY <2>1, <2>5, <2>6, TrustedFlightServes, TrustedFlightScript DEF FlightServes
  <2>7. ASSUME NEW t \in Tabs, Loads(t)
        PROVE  Trusted'
    BY <1>0, <2>1, <2>7, TrustedPage
  <2>8. CASE Idles
    BY <1>0, <2>1, <2>8, TrustedIdles
  <2> QED
    BY <1>3, <2>2, <2>3, <2>4, <2>6, <2>7, <2>8, NextCases DEF Script
<1> QED
  BY <1>1, <1>2, <1>3

LEMMA TInvNext == TInv /\ [Next]_vars => TInv'
<1> SUFFICES ASSUME TInv, [Next]_vars PROVE TInv'
  OBVIOUS
<1>1. RInv' /\ (Fine => Trusted)'
  BY RInvNext, TrustedNext DEF TInv
<1>2. Settled' /\ Expirable'
  BY SettledNext, ServerMoves DEF TInv, RInv, IInv
<1> QED
  BY <1>1, <1>2 DEF TInv

-----------------------------------------------------------------------------
(* Who is sent to the login page.                                          *)

\* What lets a page of the console give way to that of the login.
Excused(t) ==
  \/ server.of[cookie] \notin server.open
  \/ server.barred
  \/ past.sign # "in" \/ \E c \in Calls : Signing(c)
  \/ past.crossed \/ past.faulty \/ past.lapsed
  \/ LoadFailed(t)

LEMMA FineIsTrusted ==
  ASSUME TInv, NEW t \in Tabs, ~Excused(t)
  PROVE  Fine /\ Trusted /\ ~Closed
<1>1. ~server.barred /\ past.sign = "in" /\ ~past.crossed /\ ~past.faulty /\ ~past.lapsed
  BY DEF Excused
<1>2. Fine
  BY <1>1 DEF Fine, Quiet
<1> QED
  BY <1>2 DEF TInv, Excused, Closed

\* handleUnauthorized: the refresh has left the call with the 401.
LEMMA GivesUpForGood ==
  ASSUME TInv, NEW t \in Tabs, NEW c \in Calls, GiveUp(c)
  PROVE  Excused(t)
<1> SUFFICES ASSUME ~Excused(t) PROVE FALSE
  OBVIOUS
<1>1. Fine /\ ~Closed /\ Rightful
  BY FineIsTrusted DEF TInv, RInv, Fine
<1> QED
  BY <1>1 DEF GiveUp, Rightful, RefusedForGood, Closed

\* A call that has its answer leaves the user where he is, but for fetchUser.
LEMMA FinishSendsAway ==
  ASSUME TInv, NEW t \in Tabs, NEW c \in Calls, Finish(c), SentAway(t)
  PROVE  Excused(t)
<1> SUFFICES ASSUME ~Excused(t) PROVE FALSE
  OBVIOUS
<1>0. TypeOK /\ Positions /\ Settled
  BY DEF TInv, RInv, IInv
<1>1. Fine /\ Trusted /\ ~Closed /\ (\A d \in Calls : ~Signing(d)) /\ ~LoadFailed(t)
  BY FineIsTrusted DEF Excused
<1>2. /\ At(c, "arrived") /\ tab' = [tab EXCEPT ![Of(c)] = After(c)]
      /\ call[c].answer = "401" => call[c].retried
  BY DEF Finish
<1>3. Of(c) = t /\ After(c) = tab'[t] /\ tab[t] \in Tab
  <2>1. tab'[t] # tab[t]
    BY DEF SentAway
  <2> QED
    BY <1>0, <1>2, <2>1, AfterType DEF TypeOK
<1>4. tab[t].page = "console" /\ ~tab[t].leaving /\ (tab[t].user \/ tab[t].loading)
  BY <1>0 DEF SentAway, Settled
<1>5. After(c).page = "login"
  BY <1>0, <1>3, <1>4, AfterIsGuarded DEF SentAway
<1>6. call[c].kind \in {"api", "me"}
  BY <1>0, <1>1, <1>2, CallFields DEF Kinds, Signing, UnderWay, At
<1>7. ASSUME call[c].kind = "api"
      PROVE  FALSE
  <2>1. After(c) = Guarded(tab[t])
    BY <1>3, <1>7 DEF After
  <2> QED
    BY <1>3, <1>4, <1>5, <2>1, GuardedRow
<1>8. ASSUME call[c].kind = "me"
      PROVE  FALSE
  <2>1. call[c].answer = "ok"
    <3>1. call[c].answer # "401"
      BY <1>1, <1>2 DEF Trusted, SecondTry
    <3>2. call[c].answer # "other"
      BY <1>1, <1>2, <1>3, <1>8 DEF LoadFailed
    <3>3. call[c].answer # "none" /\ call[c].answer \in Answers
      BY <1>0, <1>2, CallFields DEF Positions, CallOf
    <3> QED
      BY <3>1, <3>2, <3>3 DEF Answers
  <2> DEFINE row == [tab[t] EXCEPT !.loading = FALSE, !.user = TRUE]
  <2>2. row \in Tab /\ row.user /\ row.page = "console"
    BY <1>3, <1>4 DEF Tab
  <2>3. After(c) = Guarded(row)
    BY <1>3, <1>8, <2>1 DEF After
  <2> HIDE DEF row
  <2> QED
    BY <1>4, <1>5, <2>2, <2>3, GuardedRow
<1> QED
  BY <1>6, <1>7, <1>8

\* fetchUser finds no token.
LEMMA NoTokenSendsAway ==
  ASSUME TInv, NEW t \in Tabs, FetchNone(t)
  PROVE  Excused(t)
<1> SUFFICES ASSUME ~Excused(t) PROVE FALSE
  OBVIOUS
<1>1. Trusted /\ ~Closed /\ \A c \in Calls : ~Signing(c)
  BY FineIsTrusted DEF Excused
<1>2. stored = 0
  BY DEF FetchNone
<1> QED
  BY <1>1, <1>2 DEF Trusted, StoredOrClosed, Welcomed, LoggingIn, Signing

LEMMA SentAwayExcused ==
  ASSUME TInv, [Next]_vars, NEW t \in Tabs, SentAway(t)
  PROVE  Excused(t)
<1>0. TypeOK
  BY DEF TInv, RInv, IInv
<1>1. tab'[t] # tab[t]
  BY DEF SentAway
<1>2. ASSUME NEW c \in Calls, Asks(c) \/ Serves(c) \/ CallCookie(c) \/ Unauthorized(c) \/ Retry(c)
      PROVE  FALSE
  BY <1>0, <1>1, <1>2, Begins, GoesOn, Refused
<1>3. ASSUME NEW u \in Tabs, FlightServes(u) \/ FlightScript(u)
      PROVE  FALSE
  BY <1>0, <1>1, <1>3, FlightGoesOn, FlightIsOver DEF FlightScript
<1>4. ASSUME NEW u \in Tabs, NEW page \in Pages, LoadPage(u, page)
      PROVE  u = t /\ tab'[t].page = page /\ ~tab'[t].leaving
  BY <1>0, <1>1, <1>4 DEF LoadPage, Loaded, TypeOK
<1>5. ASSUME NEW u \in Tabs, Open(u) \/ Unload(u)
      PROVE  FALSE
  <2>1. CASE Open(u)
    BY <1>4, <2>1 DEF Open, Pages, SentAway
  <2>2. CASE Unload(u)
    BY <1>4, <2>2 DEF Unload, Pages, SentAway
  <2> QED
    BY <1>5, <2>1, <2>2
<1>6. ASSUME NEW u \in Tabs, FetchNone(u)
      PROVE  Excused(t)
  <2>1. u = t
    BY <1>0, <1>1, <1>6 DEF FetchNone, TypeOK
  <2> QED
    BY <1>6, <2>1, NoTokenSendsAway
<1>7. ~(Expire \/ CloseSessions \/ UNCHANGED vars)
  BY <1>1 DEF Expire, CloseSessions, vars
<1> QED
  BY <1>2, <1>3, <1>5, <1>6, <1>7, GivesUpForGood, FinishSendsAway DEF Next, AllServed, Asks, Script

\* Whoever is signed in is not sent from a page of the console to that of the
\* login, by handleUnauthorized or by RouteGuard, while his session is open and
\* his account not locked, for any tabs and calls: the cookie of an open session
\* is live or replaced by one that is, and the token that a refresh brings is
\* accepted.  The cases left out are those of NoNeedlessLogin, of which a load
\* whose /auth/me fails is the one that AuthContext means not to log out.
\* (request, refreshAccessToken, fetchUser and RouteGuard.)
THEOREM NobodyIsSentAwayNeedlessly == Spec => NoNeedlessLogin
<1>1. Spec => []TInv
  BY InitTInv, TInvNext, PTL DEF Spec
<1>2. TInv /\ [Next]_vars => [\A t \in Tabs : SentAway(t) => Excused(t)]_vars
  BY SentAwayExcused
<1>3. NoNeedlessLogin <=> [][\A t \in Tabs : SentAway(t) => Excused(t)]_vars
  BY DEF NoNeedlessLogin, Excused
<1> QED
  BY <1>1, <1>2, <1>3, PTL DEF Spec

=============================================================================

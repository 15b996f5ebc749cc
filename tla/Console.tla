------------------------------- MODULE Console -------------------------------
(***************************************************************************)
(* The pages of the console that edit: the page of one tenant, the roles    *)
(* of the platform, and its settings.  Queries show the records, forms are  *)
(* filled from the queries, and mutations save the forms (lib/queries.ts).  *)
(*                                                                         *)
(* A record of the server is abstracted to the write that it has now: a     *)
(* save of this browser, a change by another administrator, or the seed.    *)
(* What a query has cached is the write that it shows of each record.       *)
(*                                                                         *)
(* React Query is modelled as far as the pages rely on it: a query that is  *)
(* stale is fetched when it is mounted; invalidating marks by the prefix of *)
(* the key, and fetches what is mounted again, in place of a refetch that   *)
(* is under way; cancelling drops a fetch; setting the data makes it fresh; *)
(* a fetch goes on when its component is unmounted; a mutation is tried     *)
(* twice, since the predicate of providers.tsx knows no ApiError.  That a   *)
(* query is tried three times is left out: its failure is the third one's.  *)
(* A page whose query failed shows the error in place of its form; here the  *)
(* form stays, which only adds behaviours.  A behaviour is shorter than the  *)
(* five minutes after which data is stale.                                  *)
(***************************************************************************)
EXTENDS Integers, FiniteSets

CONSTANTS
  Live,     \* the records that are shown and saved in a behaviour
  Saves,    \* the saves of a behaviour: numbers, in the order of the clicks
  Others    \* the changes that other administrators make: other numbers

TenantPage == {"settings", "status", "members", "modules", "role", "newRole", "assignment", "overrides", "pool"}
PlatformPages == {"permissions", "newPlatformRole", "setting", "switch"}

\* A behaviour stays with one tenant, or with the platform.
ASSUME OnePage == Live # {} /\ (Live \subseteq TenantPage \/ Live \subseteq PlatformPages)

ASSUME Writers == Saves \cup Others \subseteq Nat \ {0} /\ Saves \cap Others = {}

VARIABLES
  server,   \* the last write of each record
  query,    \* the query cache
  view,     \* the tab that is open, and what its form is based on
  save,     \* the mutations
  past      \* what the properties remember (history)

vars == <<server, query, view, save, past>>

-----------------------------------------------------------------------------
(* Records, queries and tabs.                                               *)

Records == Live

\* 0 is the seed's.
Writes == Saves \cup Others \cup {0}

\* The records that the answers of the server are made of.  A tenant's has the
\* number of its users, a user's in the list the role of his own row, that of a
\* role of the platform the number of its permissions.
OfTenant == {"settings", "status", "members"}
OfUsers == {"members", "assignment"}
OfModules == {"modules"}
OfRoles == {"role", "newRole"}
OfUserRoles == {"assignment"}
OfPool == {"pool"}
OfManageable == {"pool"}
OfEffective == {"assignment", "overrides", "role", "modules"}
OfPlatformRoles == {"permissions", "newPlatformRole"}
OfPlatformRole == {"permissions"}
OfPlatformSettings == {"setting", "switch"}

\* The queries.
Shows == [tenant |-> OfTenant, users |-> OfUsers, modules |-> OfModules, roles |-> OfRoles,
          userRoles |-> OfUserRoles, pool |-> OfPool, manageable |-> OfManageable, effective |-> OfEffective,
          platformRoles |-> OfPlatformRoles, platformRole |-> OfPlatformRole,
          platformSettings |-> OfPlatformSettings]

TenantQueries == {"tenant", "users", "modules", "roles", "userRoles", "pool", "manageable", "effective"}

Queries == {q \in DOMAIN Shows : Shows[q] \cap Records # {}}

\* Mutant: a save of overrides, or of a platform role or setting, invalidates only
\* a query of its own name.
InvalidatesByOwnKey ==
  [settings |-> TenantQueries, status |-> TenantQueries, modules |-> {"modules"},
   role |-> {"roles", "manageable"}, newRole |-> {"roles"}, assignment |-> {"userRoles", "users"},
   members |-> {"users"}, overrides |-> {"users"}, pool |-> {"pool", "manageable"},
   permissions |-> {"platformRoles"}, newPlatformRole |-> {"platformRoles"}, setting |-> {}, switch |-> {}]

\* ['tenants', id, 'users']
UsersQueries == {"users", "userRoles", "effective"}

\* The queries whose keys begin with one that the hook invalidates.
Invalidates ==
  [settings |-> TenantQueries, status |-> TenantQueries, modules |-> {"modules"},
   role |-> {"roles", "manageable"}, newRole |-> {"roles"},
   assignment |-> UsersQueries, members |-> UsersQueries, overrides |-> UsersQueries,
   pool |-> {"pool", "manageable"},
   permissions |-> {"platformRoles", "platformRole"}, newPlatformRole |-> {"platformRoles", "platformRole"},
   setting |-> {"platformSettings"}, switch |-> {"platformSettings"}]

\* The forms, each of the record of its name: the query that fills it; whether
\* an effect fills it again whenever the data changes, or it keeps what it had
\* when it was opened; whether it closes when it is saved; whether its mutation
\* is the page's, and disables the button of a form opened anew; whether it is
\* shown, empty, before its data is there; and whether its button waits for its
\* own mutation.
AForm == [query |-> "tenant", follows |-> FALSE, closes |-> FALSE, shared |-> FALSE,
          blank |-> FALSE, waits |-> TRUE]

SettingsForm == [AForm EXCEPT !.shared = TRUE]
ModulesForm == [AForm EXCEPT !.query = "modules", !.shared = TRUE]
RoleForm == [AForm EXCEPT !.query = "roles", !.closes = TRUE]
OverridesForm == [AForm EXCEPT !.query = "effective", !.follows = TRUE]
PoolForm == [AForm EXCEPT !.query = "pool", !.follows = TRUE]
PermissionsForm == [AForm EXCEPT !.query = "platformRole", !.blank = TRUE]
SettingForm == [AForm EXCEPT !.query = "platformSettings"]
SwitchForm == [SettingForm EXCEPT !.waits = FALSE]

Form == [settings |-> SettingsForm, modules |-> ModulesForm, role |-> RoleForm,
         overrides |-> OverridesForm, pool |-> PoolForm, permissions |-> PermissionsForm,
         setting |-> SettingForm, switch |-> SwitchForm]
Forms == DOMAIN Form \cap Records

\* Dialogs that have no data: a user to add or to delete, a role to create.
TenantDialogs == {"members", "newRole"}
RoleDialog == {"newPlatformRole"}

\* Saved by a button each: Suspend, Activate or Retry, in the header; a role, in the
\* dialog of a user; and these dialogs.
Buttons == ({"status", "assignment"} \cup TenantDialogs \cup RoleDialog) \cap Records

\* The tab of a user's effective permissions only shows.
ReadOnlyTabs == {"effective"} \cap Queries

Tabs == Forms \cup {"overview"} \cup ({"assignment"} \cap Records) \cup ReadOnlyTabs

\* A dialog hides the page.  That a button waits for its own mutation is left
\* out: in a dialog that is opened anew it does not.
ButtonsOn(tab) ==
  Buttons \cap (
    (IF tab \in {"overview", "settings", "modules", "pool"} THEN {"status"} ELSE {}) \cup
    (IF tab = "overview" THEN TenantDialogs \cup RoleDialog ELSE {}) \cup
    (IF tab = "assignment" THEN {"assignment"} ELSE {}))

\* The hooks of the page, and those of the tab.  The page of the settings and that
\* of the roles are two; the one of the roles is open first.
Mounted(tab) ==
  Queries \cap (
    (IF tab \in {"setting", "switch"} THEN {} ELSE {"tenant", "users", "modules", "roles", "platformRoles"}) \cup
    (CASE tab = "pool" -> {"pool"}
      [] tab = "overrides" -> {"effective", "manageable"}
      [] tab = "assignment" -> {"userRoles", "effective"}
      [] tab = "effective" -> {"effective"}
      [] tab = "permissions" -> {"platformRole"}
      [] tab \in {"setting", "switch"} -> {"platformSettings"}
      [] OTHER -> {}))

-----------------------------------------------------------------------------
(* State.                                                                   *)

\* late: read before the query was marked stale, and to land after.
Fetching == {"none", "sent", "read", "late"}
Content == [Records -> Writes]
Query == [known: BOOLEAN, value: Content, stale: BOOLEAN, fetch: Fetching, read: Content]

\* What a query says of the records of its answer, when the server has s.
Answer(q, s) == [d \in Records |-> IF d \in Shows[q] THEN s[d] ELSE 0]

\* knows: the writes whose contents the form was filled with, or has sent;
\* rash: it was filled with what was not known to be up to date; mine: the
\* saves of the form as it is mounted.
View == [tab: Tabs, knows: SUBSET Writes, rash: BOOLEAN, mine: SUBSET Saves]

\* knows and rash are those of the form; snapshot is the context of onMutate.
PC == {"idle", "sent", "ok", "error", "done", "failed"}
Save == [pc: PC, kind: Records, tries: 0 .. 2, written: BOOLEAN,
         knows: SUBSET Writes, rash: BOOLEAN, known: BOOLEAN, snapshot: Content]

Seed == [d \in Records |-> 0]
NoSave == [pc |-> "idle", kind |-> CHOOSE d \in Records : TRUE, tries |-> 0, written |-> FALSE,
           knows |-> {}, rash |-> FALSE, known |-> FALSE, snapshot |-> Seed]

Unfetched(entry) == [entry EXCEPT !.fetch = "none", !.read = Seed]

At(s, pc) == save[s].pc = pc
Pending(s) == save[s].pc \in {"sent", "ok", "error"}
PendingFor(d) == \E s \in Saves : Pending(s) /\ save[s].kind = d
Goto(s, pc) == save' = [save EXCEPT ![s].pc = pc]

\* Of an ended mutation only what it has written is left.
End(s, pc) ==
  save' = [save EXCEPT ![s] = [NoSave EXCEPT !.pc = pc, !.kind = save[s].kind, !.written = save[s].written]]

\* Mutations are alike: the next one has the next number.
IsNext(s) == At(s, "idle") /\ \A t \in Saves : t < s => ~At(t, "idle")

\* outdated (history): queries that were declared fresh otherwise than by a read
\* that came after what had made them stale.
Past == [outdated: SUBSET Queries]

Doubtful(q) == ~query[q].known \/ query[q].stale \/ query[q].fetch # "none" \/ q \in past.outdated

-----------------------------------------------------------------------------
(* The user.                                                                *)

\* A form is filled from q as it is in the cache.
Fill(tab) ==
  LET q == Form[tab].query IN
  [tab |-> tab, mine |-> {},
   knows |-> IF query[q].known THEN {query[q].value[tab]} ELSE {},
   rash |-> Doubtful(q) \/ PendingFor(tab)]

\* Another tab, or a dialog.  What is stale and now mounted is fetched.
Open(tab) ==
  LET begins == {q \in Mounted(tab) \ Mounted(view.tab) :
                   (query[q].stale \/ ~query[q].known) /\ query[q].fetch = "none"} IN
  /\ view.tab # tab
  /\ view' = IF tab \in Forms THEN Fill(tab)
             ELSE [tab |-> tab, knows |-> {}, rash |-> FALSE, mine |-> {}]
  /\ query' = [q \in Queries |-> IF q \in begins THEN [query[q] EXCEPT !.fetch = "sent"] ELSE query[q]]
  /\ UNCHANGED <<server, save, past>>

\* A new mutation, of the form or of a button.
Started(s, kind) ==
  [NoSave EXCEPT !.pc = "sent", !.kind = kind, !.tries = 1,
                 !.knows = view.knows, !.rash = view.rash]

\* The button that saves the form, unless its mutation is pending.
ClickSave(s) ==
  /\ IsNext(s)
  /\ view.tab \in Forms \ {"settings"}
  /\ view.knows # {} \/ Form[view.tab].blank
  /\ Form[view.tab].waits => \A t \in view.mine : ~Pending(t)
  /\ Form[view.tab].shared => ~PendingFor(view.tab)
  /\ save' = [save EXCEPT ![s] = Started(s, view.tab)]
  /\ view' = [view EXCEPT !.knows = @ \cup {s}, !.mine = @ \cup {s}]
  /\ UNCHANGED <<server, query, past>>

\* The settings: onMutate cancels every query of the tenant, keeps what the
\* tenant's has, and puts the form in its place.
ClickSettings(s) ==
  LET tenant == query["tenant"] IN
  /\ IsNext(s)
  /\ view.tab = "settings" /\ ~PendingFor("settings")
  /\ save' = [save EXCEPT ![s] = [Started(s, "settings") EXCEPT !.known = tenant.known,
                                                                !.snapshot = tenant.value]]
  /\ view' = [view EXCEPT !.knows = @ \cup {s}, !.mine = @ \cup {s}]
  /\ query' = [q \in Queries |->
       IF q = "tenant" THEN [Unfetched(tenant) EXCEPT !.stale = FALSE, !.value["settings"] = s]
       ELSE Unfetched(query[q])]
  /\ past' = [past EXCEPT !.outdated = IF Doubtful("tenant") THEN @ \cup {"tenant"} ELSE @]
  /\ UNCHANGED server

\* The fetches that onMutate cancels.  Where it puts its role no query looks.
Cancelled(kind) == IF kind \in RoleDialog THEN {"platformRoles", "platformRole"} ELSE {}

ClickButton(s) ==
  \E kind \in ButtonsOn(view.tab) :
    /\ IsNext(s)
    /\ kind = "assignment" => query["userRoles"].known
    /\ save' = [save EXCEPT ![s] = Started(s, kind)]
    /\ query' = [q \in Queries |-> IF q \in Cancelled(kind) THEN Unfetched(query[q]) ELSE query[q]]
    /\ UNCHANGED <<server, view, past>>

-----------------------------------------------------------------------------
(* The server and the network.                                              *)

\* The save is written: whole, whatever is there.
Written(s) ==
  /\ At(s, "sent")
  /\ server' = [server EXCEPT ![save[s].kind] = s]
  /\ save' = [save EXCEPT ![s].pc = "ok", ![s].written = TRUE]
  /\ UNCHANGED <<query, view, past>>

\* The save is refused, or the request or the answer is lost.
Errs(s) ==
  /\ save[s].pc \in {"sent", "ok"}
  /\ Goto(s, "error")
  /\ UNCHANGED <<server, query, view, past>>

Outside(o) ==
  \E d \in Records :
    /\ \A e \in Records : server[e] # o
    /\ server' = [server EXCEPT ![d] = o]
    /\ UNCHANGED <<query, view, save, past>>

-----------------------------------------------------------------------------
(* The end of a mutation.                                                   *)

\* Any error is tried again, once.
Retry(s) ==
  /\ At(s, "error") /\ save[s].tries = 1
  /\ save' = [save EXCEPT ![s].pc = "sent", ![s].tries = 2]
  /\ UNCHANGED <<server, query, view, past>>

\* Mutant: onError has no context, and leaves what onMutate has set.
FailKeepsOptimistic(s) ==
  /\ At(s, "error") /\ save[s].tries = 2
  /\ End(s, "failed")
  /\ UNCHANGED <<server, query, view, past>>

\* onError: the settings are set back to what they were, as fresh.
Fail(s) ==
  LET tenant == query["tenant"] IN
  /\ At(s, "error") /\ save[s].tries = 2
  /\ End(s, "failed")
  /\ IF save[s].kind = "settings" /\ save[s].known
       THEN /\ query' = [query EXCEPT !["tenant"].value = save[s].snapshot,
                                      !["tenant"].stale = FALSE]
            /\ past' = [past EXCEPT !.outdated =
                 IF tenant.stale \/ tenant.fetch # "none"
                      \/ tenant.value # [save[s].snapshot EXCEPT !["settings"] = s]
                   THEN @ \cup {"tenant"} ELSE @]
       ELSE UNCHANGED <<query, past>>
  /\ UNCHANGED <<server, view>>

\* A query is marked stale, and fetched again where it is mounted, unless the
\* first fetch of all is under way, which goes on.
Invalidated(q) ==
  IF q \in Mounted(view.tab) /\ (query[q].known \/ query[q].fetch = "none")
    THEN [Unfetched(query[q]) EXCEPT !.stale = TRUE, !.fetch = "sent"]
  ELSE [query[q] EXCEPT !.stale = TRUE, !.fetch = IF @ = "read" THEN "late" ELSE @]

\* onSuccess.
Succeed(s) ==
  /\ At(s, "ok")
  /\ End(s, "done")
  /\ query' = [q \in Queries |-> IF q \in Invalidates[save[s].kind] THEN Invalidated(q) ELSE query[q]]
  /\ view' = IF view.tab = save[s].kind /\ view.tab \in Forms /\ Form[view.tab].closes
               THEN [tab |-> "overview", knows |-> {}, rash |-> FALSE, mine |-> {}] ELSE view
  /\ UNCHANGED <<server, past>>

-----------------------------------------------------------------------------
(* Queries.                                                                 *)

FetchRead(q) ==
  /\ query[q].fetch = "sent"
  /\ query' = [query EXCEPT ![q] = [@ EXCEPT !.fetch = "read", !.read = Answer(q, server)]]
  /\ UNCHANGED <<server, view, save, past>>

\* The data is fresh; a form that follows it is filled again if it has changed,
\* and one that waited for it is filled.
FetchLand(q) ==
  LET new == query[q].read
      late == query[q].fetch = "late"
      fills == /\ view.tab \in Forms /\ Form[view.tab].query = q
               /\ Form[view.tab].follows \/ (~query[q].known /\ ~Form[view.tab].blank)
  IN
  /\ query[q].fetch \in {"read", "late"}
  /\ query' = [query EXCEPT ![q] = [known |-> TRUE, value |-> new, stale |-> FALSE,
                                    fetch |-> "none", read |-> Seed]]
  /\ view' = IF ~fills THEN view
             ELSE [view EXCEPT !.rash = late \/ PendingFor(view.tab),
                               !.knows = IF query[q].known /\ query[q].value = new THEN @
                                         ELSE {new[view.tab]}]
  /\ past' = [past EXCEPT !.outdated = IF late THEN @ \cup {q} ELSE @ \ {q}]
  /\ UNCHANGED <<server, save>>

FetchFails(q) ==
  /\ query[q].fetch # "none"
  /\ query' = [query EXCEPT ![q] = Unfetched(@)]
  /\ UNCHANGED <<server, view, save, past>>

-----------------------------------------------------------------------------

\* The tenant's page has loaded, or that of the roles.
Init ==
  /\ server = Seed
  /\ query = [q \in Queries |-> [known |-> q \in Mounted("overview"), value |-> Seed,
                                 stale |-> FALSE, fetch |-> "none", read |-> Seed]]
  /\ view = [tab |-> "overview", knows |-> {}, rash |-> FALSE, mine |-> {}]
  /\ save = [s \in Saves |-> NoSave]
  /\ past = [outdated |-> {}]

Step(s) ==
  \/ ClickSave(s) \/ ClickSettings(s) \/ ClickButton(s)
  \/ Written(s) \/ Errs(s)
  \/ Retry(s) \/ Fail(s) \/ Succeed(s)

Next ==
  \/ \E s \in Saves : Step(s)
  \/ \E tab \in Tabs : Open(tab)
  \/ \E q \in Queries : FetchRead(q) \/ FetchLand(q) \/ FetchFails(q)
  \/ \E o \in Others : Outside(o)

Spec == Init /\ [][Next]_vars

-----------------------------------------------------------------------------
(* Properties.                                                             *)

TypeOK ==
  /\ server \in Content
  /\ query \in [Queries -> Query]
  /\ view \in View
  /\ save \in [Saves -> Save]
  /\ past \in Past

\* Records that q shows and whose saves do not invalidate it: a role or the
\* modules change what users may do, and an added user the number of users.
Unheard(q) ==
  CASE q = "effective" -> {"role", "modules"}
    [] q = "tenant" -> {"members"}
    [] OTHER -> {}

\* Nobody told q of the write w: another administrator's, one whose answer has
\* not come, or a save that q does not hear of.
Untold(w, q) == w \in Saves => ~At(w, "done") \/ save[w].kind \in Unheard(q)

BeingSaved(w) == w \in Saves /\ Pending(w)

\* What the page shows as fresh is what the server has, however fetches, saves,
\* tabs and failures interleave, but for writes that it was not told of, what it
\* is saving, and what was set back to an old snapshot or read before a save.
\* (The keys that the hooks invalidate, cancel and set.)
FreshMeansTrue ==
  \A q \in Queries : query[q].known /\ ~query[q].stale /\ query[q].fetch = "none" =>
    \A d \in Shows[q] \cap Records :
      \/ query[q].value[d] = server[d]
      \/ Untold(server[d], q) \/ BeingSaved(query[q].value[d])
      \/ q \in past.outdated

\* No query shows settings that no server has taken, once their save has failed.
\* (onMutate sets them before the answer, onError sets them back.)
NoPhantomSettings ==
  \A s \in Saves, q \in Queries :
    At(s, "failed") /\ ~save[s].written => \A d \in Records : query[q].value[d] # s

\* A save of a whole form never undoes an earlier save of this page whose success
\* was seen, unless the form was filled while its data was stale, being fetched or
\* being saved.  (Every form sends all it has, and no version.)
NoSilentRevert ==
  [][\A s \in Saves : server'[save[s].kind] = s /\ server[save[s].kind] # s /\ save[s].kind \in Forms =>
       LET w == server[save[s].kind] IN
         w \in Saves /\ w < s /\ At(w, "done") => w \in save[s].knows \/ save[s].rash]_vars
=============================================================================

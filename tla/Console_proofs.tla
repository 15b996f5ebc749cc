--------------------------- MODULE Console_proofs ---------------------------
(***************************************************************************)
(* Proofs about Console: type correctness, that what is shown as fresh is   *)
(* true, that no failed save stays on the page, and that no save undoes     *)
(* another unseen, for any records of a page and any numbers of saves and   *)
(* of other administrators' changes.                                        *)
(***************************************************************************)
EXTENDS Console, TLAPS

-----------------------------------------------------------------------------
(* The tables.                                                             *)

\* The table of what the queries show.
LEMMA Shown ==
  /\ DOMAIN Shows = {"tenant", "users", "modules", "roles", "userRoles", "pool", "manageable", "effective",
                     "platformRoles", "platformRole", "platformSettings"}
  /\ Shows["tenant"] = OfTenant /\ Shows["users"] = OfUsers /\ Shows["modules"] = OfModules
  /\ Shows["roles"] = OfRoles /\ Shows["userRoles"] = OfUserRoles /\ Shows["pool"] = OfPool
  /\ Shows["manageable"] = OfManageable /\ Shows["effective"] = OfEffective
  /\ Shows["platformRoles"] = OfPlatformRoles /\ Shows["platformRole"] = OfPlatformRole
  /\ Shows["platformSettings"] = OfPlatformSettings
BY DEF Shows

\* Which queries hear of the save of a record.
LEMMA Heard ==
  /\ Unheard("effective") = {"role", "modules"} /\ Unheard("tenant") = {"members"}
  /\ \A q \in DOMAIN Shows \ {"effective", "tenant"} : Unheard(q) = {}
BY Shown DEF Unheard

\* A form is filled from a query that shows its record.
LEMMA FormQuery ==
  ASSUME NEW tab \in Forms
  PROVE  /\ tab \in Records /\ Form[tab].query \in Queries /\ tab \in Shows[Form[tab].query]
         /\ tab \notin Unheard(Form[tab].query)
         /\ Form[tab].follows => Form[tab].query # "tenant"
<1>1. /\ "settings" \in Shows["tenant"] /\ "modules" \in Shows["modules"] /\ "role" \in Shows["roles"]
      /\ "overrides" \in Shows["effective"] /\ "pool" \in Shows["pool"]
      /\ "permissions" \in Shows["platformRole"]
      /\ "setting" \in Shows["platformSettings"] /\ "switch" \in Shows["platformSettings"]
  BY Shown DEF OfTenant, OfModules, OfRoles, OfEffective, OfPool, OfPlatformRole, OfPlatformSettings
<1>2. {"tenant", "modules", "roles", "effective", "pool", "platformRole", "platformSettings"} \subseteq DOMAIN Shows
  BY Shown
<1>3. /\ Form["settings"].query = "tenant" /\ Form["modules"].query = "modules" /\ Form["role"].query = "roles"
      /\ Form["overrides"].query = "effective" /\ Form["pool"].query = "pool"
      /\ Form["permissions"].query = "platformRole"
      /\ Form["setting"].query = "platformSettings" /\ Form["switch"].query = "platformSettings"
  BY DEF Form, SettingsForm, ModulesForm, RoleForm, OverridesForm, PoolForm, PermissionsForm, SettingForm, SwitchForm, AForm
<1>4. ~Form["settings"].follows
  BY DEF Form, SettingsForm, AForm
<1>5. tab \in {"settings", "modules", "role", "overrides", "pool", "permissions", "setting", "switch"}
  BY DEF Forms, Form
<1>6. tab \in Records
  BY DEF Forms
<1>7. tab \notin Unheard(Form[tab].query)
  BY <1>2, <1>3, <1>5, Heard
<1> QED
  BY <1>1, <1>2, <1>3, <1>4, <1>5, <1>6, <1>7 DEF Queries

\* What is saved by a button has no form.
LEMMA ButtonsHaveNoForm == "overview" \notin Forms /\ Buttons \cap Forms = {}
<1>1. DOMAIN Form = {"settings", "modules", "role", "overrides", "pool", "permissions", "setting", "switch"}
  BY DEF Form
<1> QED
  BY <1>1 DEF Forms, Buttons, TenantDialogs, RoleDialog

LEMMA ButtonsShown == \A tab : ButtonsOn(tab) \subseteq Buttons
BY DEF ButtonsOn

\* What a button drops are fetches of the platform's roles.
LEMMA CancelledRoles == \A kind : Cancelled(kind) \subseteq {"platformRoles", "platformRole"}
BY DEF Cancelled

\* A save invalidates every query that shows its record and hears of it.
LEMMA Told ==
  ASSUME NEW q \in Queries, NEW d \in Shows[q] \cap Records
  PROVE  q \in Invalidates[d] \/ d \in Unheard(q)
<1>1. q \in DOMAIN Shows
  BY DEF Queries
<1>2. CASE q \in {"tenant", "effective"}
  BY <1>2, Shown, Heard DEF OfTenant, OfEffective, Invalidates, TenantQueries, UsersQueries
<1>3. CASE q \in {"users", "userRoles", "modules", "roles"}
  BY <1>3, Shown DEF OfUsers, OfUserRoles, OfModules, OfRoles, Invalidates, TenantQueries, UsersQueries
<1>4. CASE q \in {"pool", "manageable"}
  BY <1>4, Shown DEF OfPool, OfManageable, Invalidates, TenantQueries
<1>5. CASE q \in {"platformRoles", "platformRole", "platformSettings"}
  BY <1>5, Shown DEF OfPlatformRoles, OfPlatformRole, OfPlatformSettings, Invalidates
<1> QED
  BY <1>1, <1>2, <1>3, <1>4, <1>5, Shown

\* The tenant's query, on the page with the settings.
LEMMA TenantQuery ==
  ASSUME "settings" \in Records
  PROVE  "tenant" \in Queries /\ "tenant" \in Mounted("overview")
<1>1. "tenant" \in DOMAIN Shows /\ "settings" \in Shows["tenant"]
  BY Shown DEF OfTenant
<1> QED
  BY <1>1 DEF Queries, Mounted

-----------------------------------------------------------------------------
(* Type correctness.                                                       *)

LEMMA SeedType == Seed \in Content /\ 0 \in Writes
  BY DEF Seed, Content, Writes

LEMMA NoSaveType ==
  /\ NoSave \in Save
  /\ NoSave.pc = "idle" /\ NoSave.kind \in Records /\ NoSave.written = FALSE
  /\ NoSave.knows = {} /\ NoSave.rash = FALSE /\ NoSave.known = FALSE /\ NoSave.snapshot = Seed /\ NoSave.tries = 0
<1> DEFINE kind == CHOOSE d \in Records : TRUE
<1>1. kind \in Records
  BY OnePage DEF Records
<1>2. NoSave = [pc |-> "idle", kind |-> kind, tries |-> 0, written |-> FALSE,
                knows |-> {}, rash |-> FALSE, known |-> FALSE, snapshot |-> Seed]
  BY DEF NoSave
<1> HIDE DEF kind
<1>3. {} \in SUBSET Writes /\ 0 \in 0 .. 2
  OBVIOUS
<1> QED
  BY <1>1, <1>2, <1>3, SeedType DEF Save, PC

LEMMA AnswerType ==
  ASSUME TypeOK, NEW q \in Queries
  PROVE  Answer(q, server) \in Content
  BY DEF TypeOK, Answer, Content, Writes

\* The fields in a state of the right type.
LEMMA QueryFields ==
  ASSUME TypeOK, NEW q \in Queries
  PROVE  /\ query[q] \in Query
         /\ query[q].known \in BOOLEAN /\ query[q].value \in Content /\ query[q].stale \in BOOLEAN
         /\ query[q].fetch \in Fetching /\ query[q].read \in Content
  BY DEF TypeOK, Query

LEMMA SaveFields ==
  ASSUME TypeOK, NEW s \in Saves
  PROVE  /\ save[s] \in Save
         /\ save[s].pc \in PC /\ save[s].kind \in Records /\ save[s].written \in BOOLEAN
         /\ save[s].knows \subseteq Writes /\ save[s].rash \in BOOLEAN
         /\ save[s].known \in BOOLEAN /\ save[s].snapshot \in Content
  BY DEF TypeOK, Save

LEMMA ViewFields ==
  ASSUME TypeOK
  PROVE  view \in View /\ view.tab \in Tabs /\ view.knows \subseteq Writes /\ view.rash \in BOOLEAN /\ view.mine \subseteq Saves
  BY DEF TypeOK, View

\* A query without its fetch.
LEMMA UnfetchedFields ==
  ASSUME NEW entry \in Query
  PROVE  /\ Unfetched(entry) \in Query
         /\ Unfetched(entry).known = entry.known /\ Unfetched(entry).value = entry.value
         /\ Unfetched(entry).stale = entry.stale /\ Unfetched(entry).fetch = "none"
         /\ Unfetched(entry).read = Seed
  BY SeedType DEF Unfetched, Query, Fetching

LEMMA StartedType ==
  ASSUME TypeOK, NEW s \in Saves, NEW kind \in Records
  PROVE  /\ Started(s, kind) \in Save
         /\ Started(s, kind).pc = "sent" /\ Started(s, kind).kind = kind /\ ~Started(s, kind).written
         /\ ~Started(s, kind).known /\ Started(s, kind).snapshot = Seed
<1>1. 1 \in 0 .. 2
  OBVIOUS
<1> QED
  BY <1>1, NoSaveType, ViewFields DEF Started, Save, PC

LEMMA EndType ==
  ASSUME TypeOK, NEW s \in Saves, NEW pc \in PC, End(s, pc)
  PROVE  /\ save' \in [Saves -> Save]
         /\ save'[s].pc = pc /\ save'[s].kind = save[s].kind /\ save'[s].written = save[s].written
         /\ \A t \in Saves \ {s} : save'[t] = save[t]
<1> DEFINE ended == [NoSave EXCEPT !.pc = pc, !.kind = save[s].kind, !.written = save[s].written]
<1>1. ended \in Save /\ ended.pc = pc /\ ended.kind = save[s].kind /\ ended.written = save[s].written
  BY NoSaveType, SaveFields DEF Save
<1>2. save' = [save EXCEPT ![s] = ended]
  BY DEF End
<1> HIDE DEF ended
<1> QED
  BY <1>1, <1>2 DEF TypeOK

LEMMA TypeInit == Init => TypeOK
<1> SUFFICES ASSUME Init PROVE TypeOK
  OBVIOUS
<1>1. query \in [Queries -> Query]
  BY SeedType DEF Init, Query, Fetching
<1>2. view \in View
  BY DEF Init, View, Tabs
<1> QED
  BY <1>1, <1>2, SeedType, NoSaveType DEF Init, TypeOK, Past

LEMMA FillType ==
  ASSUME TypeOK, NEW tab \in Forms
  PROVE  Fill(tab) \in View
<1> DEFINE q == Form[tab].query
<1>1. tab \in Records /\ q \in Queries /\ tab \in Tabs
  BY FormQuery DEF Tabs
<1>2. query[q].value[tab] \in Writes
  BY <1>1, QueryFields DEF Content
<1>3. (Doubtful(q) \/ PendingFor(tab)) \in BOOLEAN
  OBVIOUS
<1> QED
  BY <1>1, <1>2, <1>3 DEF Fill, View

\* What the user does.
LEMMA TypeUser ==
  ASSUME TypeOK, (\E tab \in Tabs : Open(tab)) \/ (\E s \in Saves : ClickSave(s) \/ ClickSettings(s) \/ ClickButton(s))
  PROVE  TypeOK'
<1>1. ASSUME NEW tab \in Tabs, Open(tab)
      PROVE  TypeOK'
  <2>1. view' \in View
    <3>1. CASE tab \in Forms
      BY <1>1, <3>1, FillType DEF Open
    <3>2. CASE tab \notin Forms
      BY <1>1, <3>2 DEF Open, View
    <3> QED
      BY <3>1, <3>2
  <2>2. \A q \in Queries : [query[q] EXCEPT !.fetch = "sent"] \in Query
    BY QueryFields DEF Query, Fetching
  <2>3. query' \in [Queries -> Query]
    BY <1>1, <2>2, QueryFields DEF Open
  <2> QED
    BY <1>1, <2>1, <2>3 DEF Open, TypeOK
<1>2. ASSUME NEW s \in Saves, ClickSave(s)
      PROVE  TypeOK'
  <2>1. view.tab \in Records
    BY <1>2, FormQuery DEF ClickSave
  <2>2. save' \in [Saves -> Save]
    BY <1>2, <2>1, StartedType DEF ClickSave, TypeOK
  <2>3. view' \in View
    BY <1>2, ViewFields DEF ClickSave, View, Writes
  <2> QED
    BY <1>2, <2>2, <2>3 DEF ClickSave, TypeOK
<1>3. ASSUME NEW s \in Saves, ClickSettings(s)
      PROVE  TypeOK'
  <2>1. "settings" \in Records /\ "tenant" \in Queries
    <3>1. "settings" \in Tabs
      BY <1>3, ViewFields DEF ClickSettings
    <3>2. "settings" \in Records
      BY <3>1 DEF Tabs, Forms, ReadOnlyTabs
    <3> QED
      BY <3>2, TenantQuery
  <2>2. save' \in [Saves -> Save]
    <3>1. [Started(s, "settings") EXCEPT !.known = query["tenant"].known, !.snapshot = query["tenant"].value] \in Save
      <4>1. Started(s, "settings") \in Save
        BY <2>1, StartedType
      <4>2. query["tenant"].known \in BOOLEAN /\ query["tenant"].value \in Content
        BY <2>1, QueryFields
      <4> QED
        BY <4>1, <4>2 DEF Save
    <3> QED
      BY <1>3, <3>1 DEF ClickSettings, TypeOK
  <2>3. view' \in View
    BY <1>3, ViewFields DEF ClickSettings, View, Writes
  <2>4. query' \in [Queries -> Query]
    <3>1. \A q \in Queries : Unfetched(query[q]) \in Query
      BY QueryFields, UnfetchedFields
    <3>2. [Unfetched(query["tenant"]) EXCEPT !.stale = FALSE, !.value["settings"] = s] \in Query
      <4>1. [query["tenant"].value EXCEPT !["settings"] = s] \in Content
        BY <2>1, QueryFields DEF Content, Writes
      <4>2. [Unfetched(query["tenant"]) EXCEPT !.stale = FALSE, !.value["settings"] = s]
              = [Unfetched(query["tenant"]) EXCEPT !.stale = FALSE, !.value = [query["tenant"].value EXCEPT !["settings"] = s]]
        BY <2>1, QueryFields, UnfetchedFields DEF Query
      <4> QED
        BY <2>1, <3>1, <4>1, <4>2 DEF Query
    <3> QED
      BY <1>3, <3>1, <3>2 DEF ClickSettings
  <2>5. past' \in Past
    BY <1>3, <2>1 DEF ClickSettings, TypeOK, Past
  <2> QED
    BY <1>3, <2>2, <2>3, <2>4, <2>5 DEF ClickSettings, TypeOK
<1>4. ASSUME NEW s \in Saves, ClickButton(s)
      PROVE  TypeOK'
  <2>1. PICK kind \in Buttons :
          /\ save' = [save EXCEPT ![s] = Started(s, kind)]
          /\ query' = [q \in Queries |-> IF q \in Cancelled(kind) THEN Unfetched(query[q]) ELSE query[q]]
    BY <1>4, ButtonsShown DEF ClickButton
  <2>2. save' \in [Saves -> Save]
    BY <2>1, StartedType DEF Buttons, TypeOK
  <2>3. query' \in [Queries -> Query]
    BY <2>1, QueryFields, UnfetchedFields
  <2> QED
    BY <1>4, <2>2, <2>3 DEF ClickButton, TypeOK
<1> QED
  BY <1>1, <1>2, <1>3, <1>4

\* The server, the network and the end of a mutation.
LEMMA TypeSave ==
  ASSUME TypeOK, NEW s \in Saves, Written(s) \/ Errs(s) \/ Retry(s) \/ Fail(s) \/ Succeed(s)
  PROVE  TypeOK'
<1>1. CASE Written(s)
  <2>1. [save[s] EXCEPT !.pc = "ok", !.written = TRUE] \in Save
    BY SaveFields DEF Save, PC
  <2>2. save' \in [Saves -> Save]
    BY <1>1, <2>1 DEF Written, TypeOK
  <2>3. server' \in Content
    BY <1>1, SaveFields DEF Written, TypeOK, Content, Writes
  <2> QED
    BY <1>1, <2>2, <2>3 DEF Written, TypeOK
<1>2. CASE Errs(s)
  <2>1. [save[s] EXCEPT !.pc = "error"] \in Save
    BY SaveFields DEF Save, PC
  <2> QED
    BY <1>2, <2>1 DEF Errs, Goto, TypeOK
<1>3. CASE Retry(s)
  <2>1. [save[s] EXCEPT !.pc = "sent", !.tries = 2] \in Save
    <3>1. 2 \in 0 .. 2
      OBVIOUS
    <3> QED
      BY <3>1, SaveFields DEF Save, PC
  <2> QED
    BY <1>3, <2>1 DEF Retry, TypeOK
<1>4. CASE Fail(s)
  <2>1. save' \in [Saves -> Save]
    BY <1>4, EndType DEF Fail, PC
  <2>2. query' \in [Queries -> Query]
    <3>1. \A q \in Queries : [query[q] EXCEPT !.value = save[s].snapshot, !.stale = FALSE] \in Query
      BY QueryFields, SaveFields DEF Query
    <3>2. query' = query \/
            query' = [query EXCEPT !["tenant"] = [query["tenant"] EXCEPT !.value = save[s].snapshot, !.stale = FALSE]]
      BY <1>4 DEF Fail, TypeOK
    <3> QED
      BY <3>1, <3>2 DEF TypeOK
  <2>3. past' \in Past
    <3>1. CASE save[s].kind = "settings"
      BY <1>4, <3>1, SaveFields, TenantQuery DEF Fail, TypeOK, Past
    <3>2. CASE save[s].kind # "settings"
      BY <1>4, <3>2 DEF Fail, TypeOK
    <3> QED
      BY <3>1, <3>2
  <2> QED
    BY <1>4, <2>1, <2>2, <2>3 DEF Fail, TypeOK
<1>5. CASE Succeed(s)
  <2>1. save' \in [Saves -> Save]
    BY <1>5, EndType DEF Succeed, PC
  <2>2. \A q \in Queries : Invalidated(q) \in Query
    <3> TAKE q \in Queries
    <3>1. [Unfetched(query[q]) EXCEPT !.stale = TRUE, !.fetch = "sent"] \in Query
      <4>1. Unfetched(query[q]) \in Query
        BY QueryFields, UnfetchedFields
      <4> QED
        BY <4>1 DEF Query, Fetching
    <3>2. \A f \in Fetching : [query[q] EXCEPT !.stale = TRUE, !.fetch = f] \in Query
      BY QueryFields DEF Query
    <3>3. (IF query[q].fetch = "read" THEN "late" ELSE query[q].fetch) \in Fetching
      BY QueryFields DEF Fetching
    <3>4. [query[q] EXCEPT !.stale = TRUE, !.fetch = IF @ = "read" THEN "late" ELSE @]
            = [query[q] EXCEPT !.stale = TRUE, !.fetch = IF query[q].fetch = "read" THEN "late" ELSE query[q].fetch]
      BY QueryFields DEF Query
    <3> QED
      BY <3>1, <3>2, <3>3, <3>4 DEF Invalidated
  <2>3. query' \in [Queries -> Query]
    BY <1>5, <2>2, QueryFields DEF Succeed
  <2>4. view' \in View
    BY <1>5, ViewFields DEF Succeed, View, Tabs
  <2> QED
    BY <1>5, <2>1, <2>3, <2>4 DEF Succeed, TypeOK
<1> QED
  BY <1>1, <1>2, <1>3, <1>4, <1>5

\* Fetches.
LEMMA TypeFetch ==
  ASSUME TypeOK, NEW q \in Queries, FetchRead(q) \/ FetchLand(q) \/ FetchFails(q)
  PROVE  TypeOK'
<1>1. CASE FetchRead(q)
  <2>1. [query[q] EXCEPT !.fetch = "read", !.read = Answer(q, server)] \in Query
    BY QueryFields, AnswerType DEF Query, Fetching
  <2> QED
    BY <1>1, <2>1 DEF FetchRead, TypeOK
<1>2. CASE FetchLand(q)
  <2>1. [known |-> TRUE, value |-> query[q].read, stale |-> FALSE, fetch |-> "none", read |-> Seed] \in Query
    BY QueryFields, SeedType DEF Query, Fetching
  <2>2. query' \in [Queries -> Query]
    BY <1>2, <2>1 DEF FetchLand, TypeOK
  <2>3. view' \in View
    <3>1. CASE view.tab \in Forms
      <4>1. query[q].read[view.tab] \in Writes
        BY <3>1, FormQuery, QueryFields DEF Content
      <4>2. \A b \in BOOLEAN, k \in SUBSET Writes : [view EXCEPT !.rash = b, !.knows = k] \in View
        BY ViewFields DEF View
      <4> DEFINE knows == IF query[q].known /\ query[q].value = query[q].read THEN view.knows
                          ELSE {query[q].read[view.tab]}
                 rash == query[q].fetch = "late" \/ PendingFor(view.tab)
      <4>3. knows \in SUBSET Writes /\ rash \in BOOLEAN
        BY <4>1, ViewFields
      <4>4. view' = view \/ view' = [view EXCEPT !.rash = rash, !.knows = knows]
        BY <1>2 DEF FetchLand
      <4> HIDE DEF knows, rash
      <4> QED
        BY <4>2, <4>3, <4>4, ViewFields
    <3>2. CASE view.tab \notin Forms
      BY <1>2, <3>2, ViewFields DEF FetchLand
    <3> QED
      BY <3>1, <3>2
  <2>4. past' \in Past
    BY <1>2 DEF FetchLand, TypeOK, Past
  <2> QED
    BY <1>2, <2>2, <2>3, <2>4 DEF FetchLand, TypeOK
<1>3. CASE FetchFails(q)
  BY <1>3, QueryFields, UnfetchedFields DEF FetchFails, TypeOK
<1> QED
  BY <1>1, <1>2, <1>3

LEMMA TypeNext == TypeOK /\ [Next]_vars => TypeOK'
<1> SUFFICES ASSUME TypeOK, [Next]_vars PROVE TypeOK'
  OBVIOUS
<1>1. ASSUME NEW o \in Others, Outside(o)
      PROVE  TypeOK'
  BY <1>1 DEF Outside, TypeOK, Content, Writes
<1>2. CASE UNCHANGED vars
  BY <1>2 DEF vars, TypeOK
<1> QED
  BY <1>1, <1>2, TypeUser, TypeSave, TypeFetch DEF Next, Step

\* The cache, the forms and the mutations have their types throughout, and no form is
\* filled from a query that does not show its record.  (lib/queries.ts and the pages.)
THEOREM TypeCorrect == Spec => []TypeOK
<1> QED
  BY TypeInit, TypeNext, PTL DEF Spec

-----------------------------------------------------------------------------
(* What holds on the way.                                                  *)

\* A save of the settings whose answer is awaited.
Setting(s) == Pending(s) /\ save[s].kind = "settings"

\* A write that a server has taken.
Real(w) == w \in Saves => save[w].written

\* What onMutate has set: a save of the settings, in the tenant's query.
Optimistic(q, d) ==
  /\ q = "tenant" /\ d = "settings"
  /\ query[q].value[d] \in Saves /\ Setting(query[q].value[d])

\* What is shown has been written, or is the optimistic value.
Mutations ==
  /\ \A s \in Saves : At(s, "idle") => ~save[s].written
  /\ \A s \in Saves : At(s, "ok") => save[s].written
  /\ \A d \in Records : server[d] \in Saves => save[server[d]].written /\ save[server[d]].kind = d

Provenance ==
  /\ \A q \in Queries, d \in Records : Real(query[q].value[d]) \/ Optimistic(q, d)
  /\ \A q \in Queries, d \in Records : Real(query[q].read[d])
  /\ \A s \in Saves : Setting(s) => save[s].known /\ \A d \in Records : Real(save[s].snapshot[d])

\* One save of the settings at a time, by a page that has its tenant.
OneSetting ==
  /\ "settings" \in Records => query["tenant"].known
  /\ \A s, t \in Saves : Setting(s) /\ Setting(t) => s = t

\* What is fetched again is stale, or was declared fresh meanwhile.
FetchedIsStale(q) ==
  query[q].known /\ query[q].fetch # "none" => query[q].stale \/ q \in past.outdated

\* An answer that was read and not overtaken is true.
ReadIsTrue(q) ==
  query[q].fetch = "read" =>
    \A d \in Shows[q] \cap Records : query[q].read[d] = server[d] \/ Untold(server[d], q)

\* What is fresh is true, or optimistic.
FreshIsTrue(q) ==
  query[q].known /\ ~query[q].stale /\ query[q].fetch = "none" =>
    \A d \in Shows[q] \cap Records :
      query[q].value[d] = server[d] \/ Untold(server[d], q) \/ Optimistic(q, d) \/ q \in past.outdated

\* What a failed save of the settings sets back is still true.
SnapshotIsTrue ==
  \A s \in Saves : Setting(s) =>
    \/ server["settings"] = s \/ Untold(server["settings"], "tenant")
    \/ save[s].snapshot["settings"] = server["settings"]
    \/ "tenant" \in past.outdated \/ query["tenant"].value["settings"] # s

Freshness == (\A q \in Queries : FetchedIsStale(q) /\ ReadIsTrue(q) /\ FreshIsTrue(q)) /\ SnapshotIsTrue

IInv == TypeOK /\ Mutations /\ Provenance /\ OneSetting /\ Freshness

LEMMA InitIInv == Init => IInv
<1> SUFFICES ASSUME Init PROVE IInv
  OBVIOUS
<1>1. TypeOK
  BY TypeInit
<1>2. \A s \in Saves : save[s] = NoSave
  BY DEF Init
<1>3. 0 \notin Saves
  BY Writers
<1>4. \A s \in Saves : At(s, "idle") /\ ~At(s, "ok") /\ ~Pending(s) /\ ~save[s].written
  BY <1>2, NoSaveType DEF At, Pending
<1>5. /\ \A d \in Records : server[d] = 0
      /\ \A q \in Queries, d \in Records : query[q].value[d] = 0 /\ query[q].read[d] = 0
      /\ \A q \in Queries : query[q].fetch = "none" /\ ~query[q].stale /\ query[q].known = (q \in Mounted("overview"))
  BY DEF Init, Seed
<1>6. Mutations
  BY <1>3, <1>4, <1>5 DEF Mutations
<1>7. Provenance
  BY <1>3, <1>4, <1>5 DEF Provenance, Real, Setting
<1>8. OneSetting
  BY <1>4, <1>5, TenantQuery DEF OneSetting, Setting
<1>9. Freshness
  BY <1>4, <1>5 DEF Freshness, FetchedIsStale, ReadIsTrue, FreshIsTrue, SnapshotIsTrue, Setting
<1> QED
  BY <1>1, <1>6, <1>7, <1>8, <1>9 DEF IInv

-----------------------------------------------------------------------------
(* How mutations and queries move.                                         *)

\* A query that has at most lost the fetch that was under way.
AtMostDropped(q) ==
  \/ query'[q] = query[q]
  \/ /\ query'[q].known = query[q].known /\ query'[q].value = query[q].value
     /\ query'[q].stale = query[q].stale
     /\ query'[q].fetch = "none" /\ query'[q].read = Seed

\* A save of a form that is not the settings', or of a button.
LEMMA Clicked ==
  ASSUME TypeOK, NEW s \in Saves, ClickSave(s) \/ ClickButton(s)
  PROVE  /\ At(s, "idle") /\ save'[s].pc = "sent" /\ save'[s].kind # "settings" /\ ~save'[s].written
         /\ \A t \in Saves \ {s} : save'[t] = save[t]
         /\ server' = server /\ past' = past
         /\ \A q \in Queries : AtMostDropped(q) /\ (q = "tenant" => query'[q] = query[q])
<1>1. PICK kind \in Records : kind # "settings" /\ save' = [save EXCEPT ![s] = Started(s, kind)]
  <2>1. CASE ClickSave(s)
    BY <2>1, FormQuery DEF ClickSave
  <2>2. CASE ClickButton(s)
    BY <2>2, ButtonsShown DEF ClickButton, Buttons, TenantDialogs, RoleDialog
  <2> QED
    BY <2>1, <2>2
<1>2. At(s, "idle") /\ server' = server /\ past' = past
  BY DEF ClickSave, ClickButton, IsNext
<1>3. ASSUME NEW q \in Queries
      PROVE  AtMostDropped(q) /\ (q = "tenant" => query'[q] = query[q])
  <2>1. CASE ClickSave(s)
    BY <2>1 DEF ClickSave, AtMostDropped
  <2>2. CASE ClickButton(s)
    <3>1. PICK b : query' = [p \in Queries |-> IF p \in Cancelled(b) THEN Unfetched(query[p]) ELSE query[p]]
      BY <2>2 DEF ClickButton
    <3>2. query'[q] = query[q] \/ (query'[q] = Unfetched(query[q]) /\ q # "tenant")
      BY <3>1, CancelledRoles
    <3> QED
      BY <3>2, QueryFields, UnfetchedFields DEF AtMostDropped
  <2> QED
    BY <2>1, <2>2
<1> QED
  BY <1>1, <1>2, <1>3, StartedType DEF TypeOK

\* A save of the settings.
LEMMA ClickedSettings ==
  ASSUME TypeOK, NEW s \in Saves, ClickSettings(s)
  PROVE  /\ "settings" \in Records /\ "tenant" \in Queries
         /\ At(s, "idle") /\ ~PendingFor("settings")
         /\ save'[s].pc = "sent" /\ save'[s].kind = "settings" /\ ~save'[s].written
         /\ save'[s].known = query["tenant"].known /\ save'[s].snapshot = query["tenant"].value
         /\ \A t \in Saves \ {s} : save'[t] = save[t]
         /\ server' = server
         /\ query'["tenant"].known = query["tenant"].known
         /\ query'["tenant"].value = [query["tenant"].value EXCEPT !["settings"] = s]
         /\ query'["tenant"].stale = FALSE
         /\ \A q \in Queries : query'[q].fetch = "none" /\ query'[q].read = Seed
         /\ \A q \in Queries \ {"tenant"} : query'[q].known = query[q].known /\ query'[q].value = query[q].value
                                            /\ query'[q].stale = query[q].stale
         /\ past.outdated \subseteq past'.outdated
         /\ Doubtful("tenant") => "tenant" \in past'.outdated
<1>1. "settings" \in Records /\ "tenant" \in Queries
  <2>1. "settings" \in Tabs
    BY ViewFields DEF ClickSettings
  <2>2. "settings" \in Records
    BY <2>1 DEF Tabs, Forms, ReadOnlyTabs
  <2> QED
    BY <2>2, TenantQuery
<1>2. save'[s].pc = "sent" /\ save'[s].kind = "settings" /\ ~save'[s].written
      /\ save'[s].known = query["tenant"].known /\ save'[s].snapshot = query["tenant"].value
      /\ \A t \in Saves \ {s} : save'[t] = save[t]
  <2> DEFINE started == [Started(s, "settings") EXCEPT !.known = query["tenant"].known, !.snapshot = query["tenant"].value]
  <2>1. Started(s, "settings") \in Save
        /\ Started(s, "settings").pc = "sent" /\ Started(s, "settings").kind = "settings" /\ ~Started(s, "settings").written
    BY <1>1, StartedType
  <2>2. started.pc = "sent" /\ started.kind = "settings" /\ ~started.written
        /\ started.known = query["tenant"].known /\ started.snapshot = query["tenant"].value
    BY <2>1 DEF Save
  <2>3. save' = [save EXCEPT ![s] = started]
    BY DEF ClickSettings
  <2> HIDE DEF started
  <2> QED
    BY <2>2, <2>3 DEF TypeOK
<1>3. \A q \in Queries :
        /\ Unfetched(query[q]) \in Query
        /\ Unfetched(query[q]).known = query[q].known /\ Unfetched(query[q]).value = query[q].value
        /\ Unfetched(query[q]).stale = query[q].stale
        /\ Unfetched(query[q]).fetch = "none" /\ Unfetched(query[q]).read = Seed
  BY QueryFields, UnfetchedFields
<1>4. query'["tenant"] = [Unfetched(query["tenant"]) EXCEPT !.stale = FALSE, !.value["settings"] = s]
  BY <1>1 DEF ClickSettings
<1>5. query'["tenant"].known = query["tenant"].known
      /\ query'["tenant"].value = [query["tenant"].value EXCEPT !["settings"] = s]
      /\ query'["tenant"].stale = FALSE /\ query'["tenant"].fetch = "none" /\ query'["tenant"].read = Seed
  BY <1>1, <1>3, <1>4 DEF Query
<1>6. \A q \in Queries \ {"tenant"} : query'[q] = Unfetched(query[q])
  BY DEF ClickSettings
<1>7. At(s, "idle") /\ ~PendingFor("settings") /\ server' = server
  BY DEF ClickSettings, IsNext
<1>8. past.outdated \subseteq past'.outdated /\ (Doubtful("tenant") => "tenant" \in past'.outdated)
  BY DEF ClickSettings, TypeOK, Past
<1> QED
  BY <1>1, <1>2, <1>3, <1>5, <1>6, <1>7, <1>8

\* A save is written, fails or is tried again.
LEMMA GoesOn ==
  ASSUME TypeOK, NEW s \in Saves, Written(s) \/ Errs(s) \/ Retry(s)
  PROVE  /\ Pending(s) /\ save'[s].pc \in {"sent", "ok", "error"}
         /\ save'[s].kind = save[s].kind /\ save'[s].known = save[s].known /\ save'[s].snapshot = save[s].snapshot
         /\ save[s].written => save'[s].written
         /\ save'[s].pc = "ok" => save'[s].written
         /\ \A t \in Saves \ {s} : save'[t] = save[t]
         /\ query' = query /\ past' = past
         /\ server' = server \/
              (server' = [server EXCEPT ![save[s].kind] = s] /\ save'[s].pc = "ok")
<1>1. CASE Written(s)
  BY <1>1 DEF Written, At, Pending, TypeOK, Save
<1>2. CASE Errs(s)
  BY <1>2 DEF Errs, Goto, Pending, TypeOK, Save
<1>3. CASE Retry(s)
  BY <1>3 DEF Retry, At, Pending, TypeOK, Save
<1> QED
  BY <1>1, <1>2, <1>3

\* A save has failed twice.
LEMMA Failed ==
  ASSUME TypeOK, NEW s \in Saves, Fail(s)
  PROVE  /\ Pending(s) /\ save'[s].pc = "failed" /\ save'[s].kind = save[s].kind /\ save'[s].written = save[s].written
         /\ \A t \in Saves \ {s} : save'[t] = save[t]
         /\ server' = server
         /\ ~(save[s].kind = "settings" /\ save[s].known) => query' = query /\ past' = past
         /\ \A q \in Queries \ {"tenant"} : query'[q] = query[q]
         /\ past.outdated \subseteq past'.outdated
         /\ save[s].kind = "settings" /\ save[s].known =>
              /\ "tenant" \in Queries
              /\ query'["tenant"].value = save[s].snapshot /\ query'["tenant"].stale = FALSE
              /\ query'["tenant"].known = query["tenant"].known
              /\ query'["tenant"].fetch = query["tenant"].fetch /\ query'["tenant"].read = query["tenant"].read
              /\ \/ "tenant" \in past'.outdated
                 \/ /\ ~query["tenant"].stale /\ query["tenant"].fetch = "none"
                    /\ query["tenant"].value = [save[s].snapshot EXCEPT !["settings"] = s]
<1>1. Pending(s) /\ server' = server /\ End(s, "failed") /\ "failed" \in PC
  BY DEF Fail, At, Pending, PC
<1>2. CASE ~(save[s].kind = "settings" /\ save[s].known)
  BY <1>1, <1>2, EndType DEF Fail
<1>3. CASE save[s].kind = "settings" /\ save[s].known
  <2>1. "tenant" \in Queries
    BY <1>3, SaveFields, TenantQuery
  <2>2. query' = [query EXCEPT !["tenant"] = [query["tenant"] EXCEPT !.value = save[s].snapshot, !.stale = FALSE]]
    BY <1>3, <2>1 DEF Fail, TypeOK
  <2>3. query["tenant"] \in Query
    BY <2>1, QueryFields
  <2>4. /\ query'["tenant"].value = save[s].snapshot /\ query'["tenant"].stale = FALSE
        /\ query'["tenant"].known = query["tenant"].known
        /\ query'["tenant"].fetch = query["tenant"].fetch /\ query'["tenant"].read = query["tenant"].read
        /\ \A q \in Queries \ {"tenant"} : query'[q] = query[q]
    BY <2>1, <2>2, <2>3 DEF TypeOK, Query
  <2>5. /\ past.outdated \subseteq past'.outdated
        /\ \/ "tenant" \in past'.outdated
           \/ /\ ~query["tenant"].stale /\ query["tenant"].fetch = "none"
              /\ query["tenant"].value = [save[s].snapshot EXCEPT !["settings"] = s]
    BY <1>3 DEF Fail, TypeOK, Past
  <2> QED
    BY <1>1, <1>3, <2>1, <2>4, <2>5, EndType
<1> QED
  BY <1>2, <1>3

\* A save has succeeded.
LEMMA Succeeded ==
  ASSUME TypeOK, NEW s \in Saves, Succeed(s)
  PROVE  /\ At(s, "ok") /\ Pending(s)
         /\ save'[s].pc = "done" /\ save'[s].kind = save[s].kind /\ save'[s].written = save[s].written
         /\ \A t \in Saves \ {s} : save'[t] = save[t]
         /\ server' = server /\ past' = past
         /\ \A q \in Queries \ Invalidates[save[s].kind] : query'[q] = query[q]
         /\ \A q \in Queries \cap Invalidates[save[s].kind] :
              query'[q].known = query[q].known /\ query'[q].value = query[q].value /\ query'[q].stale = TRUE
         /\ \A q \in Queries : query'[q].read = query[q].read \/ query'[q].read = Seed
         /\ \A q \in Queries \cap Invalidates[save[s].kind] : query'[q].fetch # "read"
<1>1. At(s, "ok") /\ Pending(s) /\ server' = server /\ past' = past /\ End(s, "done") /\ "done" \in PC
  BY DEF Succeed, At, Pending, PC
<1>2. \A q \in Queries \ Invalidates[save[s].kind] : query'[q] = query[q]
  BY DEF Succeed
<1>3. ASSUME NEW q \in Queries \cap Invalidates[save[s].kind]
      PROVE  /\ query'[q].known = query[q].known /\ query'[q].value = query[q].value /\ query'[q].stale = TRUE
             /\ query'[q].read = query[q].read \/ query'[q].read = Seed
             /\ query'[q].fetch # "read"
  <2>1. query'[q] = Invalidated(q)
    BY DEF Succeed
  <2>2. Unfetched(query[q]) \in Query /\ Unfetched(query[q]).known = query[q].known
        /\ Unfetched(query[q]).value = query[q].value /\ Unfetched(query[q]).read = Seed
    BY QueryFields, UnfetchedFields
  <2>3. query[q] \in Query
    BY QueryFields
  <2> QED
    BY <2>1, <2>2, <2>3 DEF Invalidated, Query
<1> QED
  BY <1>1, <1>2, <1>3, EndType

\* A mutation that goes on or ends stays what it was, and changes no other.
LEMMA OnlyItself ==
  ASSUME TypeOK, NEW s \in Saves, Written(s) \/ Errs(s) \/ Retry(s) \/ Fail(s) \/ Succeed(s)
  PROVE  /\ Pending(s) /\ save'[s].pc \in PC \ {"idle"} /\ save'[s].kind = save[s].kind
         /\ \A t \in Saves \ {s} : save'[t] = save[t]
<1>1. CASE Written(s) \/ Errs(s) \/ Retry(s)
  BY <1>1, GoesOn DEF PC
<1>2. CASE Fail(s)
  BY <1>2, Failed DEF PC
<1>3. CASE Succeed(s)
  BY <1>3, Succeeded DEF PC
<1> QED
  BY <1>1, <1>2, <1>3

\* A tab is opened: at most, queries that are stale or unknown are fetched.
LEMMA Opened ==
  ASSUME TypeOK, NEW tab \in Tabs, Open(tab)
  PROVE  /\ server' = server /\ save' = save /\ past' = past
         /\ \A q \in Queries :
              /\ query'[q].known = query[q].known /\ query'[q].value = query[q].value
              /\ query'[q].stale = query[q].stale /\ query'[q].read = query[q].read
              /\ \/ query'[q].fetch = query[q].fetch
                 \/ query'[q].fetch = "sent" /\ (query[q].stale \/ ~query[q].known)
<1>1. \A q \in Queries : query'[q] = query[q] \/
        (query'[q] = [query[q] EXCEPT !.fetch = "sent"] /\ (query[q].stale \/ ~query[q].known))
  BY DEF Open
<1>2. \A q \in Queries : query[q] \in Query
  BY QueryFields
<1> QED
  BY <1>1, <1>2 DEF Open, Query

\* A step of a fetch.
LEMMA Fetched ==
  ASSUME TypeOK, NEW q \in Queries, FetchRead(q) \/ FetchLand(q) \/ FetchFails(q)
  PROVE  /\ server' = server /\ save' = save /\ \A p \in Queries \ {q} : query'[p] = query[p]
         /\ past'.outdated \ {q} = past.outdated \ {q}
         /\ FetchRead(q) =>
              /\ query[q].fetch = "sent" /\ query'[q].fetch = "read" /\ query'[q].read = Answer(q, server)
              /\ query'[q].known = query[q].known /\ query'[q].value = query[q].value /\ query'[q].stale = query[q].stale
              /\ past' = past
         /\ FetchLand(q) =>
              /\ query[q].fetch \in {"read", "late"} /\ query'[q].fetch = "none" /\ query'[q].read = Seed
              /\ query'[q].known /\ query'[q].value = query[q].read /\ ~query'[q].stale
              /\ query[q].fetch = "late" => q \in past'.outdated
         /\ FetchFails(q) =>
              /\ query[q].fetch # "none" /\ query'[q].fetch = "none" /\ query'[q].read = Seed
              /\ query'[q].known = query[q].known /\ query'[q].value = query[q].value /\ query'[q].stale = query[q].stale
              /\ past' = past
<1>1. query[q] \in Query
  BY QueryFields
<1>2. server' = server /\ save' = save /\ \A p \in Queries \ {q} : query'[p] = query[p]
  BY DEF FetchRead, FetchLand, FetchFails, TypeOK
<1>3. past'.outdated \ {q} = past.outdated \ {q}
  BY DEF FetchRead, FetchLand, FetchFails, TypeOK, Past
<1>5. FetchLand(q) =>
              /\ query[q].fetch \in {"read", "late"} /\ query'[q].fetch = "none" /\ query'[q].read = Seed
              /\ query'[q].known /\ query'[q].value = query[q].read /\ ~query'[q].stale
              /\ query[q].fetch = "late" => q \in past'.outdated
  BY DEF FetchLand, TypeOK, Past
<1>6. FetchFails(q) =>
              /\ query[q].fetch # "none" /\ query'[q].fetch = "none" /\ query'[q].read = Seed
              /\ query'[q].known = query[q].known /\ query'[q].value = query[q].value /\ query'[q].stale = query[q].stale
              /\ past' = past
  BY <1>1, UnfetchedFields DEF FetchFails, TypeOK
<1>7. FetchRead(q) =>
              /\ query[q].fetch = "sent" /\ query'[q].fetch = "read" /\ query'[q].read = Answer(q, server)
              /\ query'[q].known = query[q].known /\ query'[q].value = query[q].value /\ query'[q].stale = query[q].stale
              /\ past' = past
  BY <1>1 DEF FetchRead, TypeOK, Query
<1> QED
  BY <1>2, <1>3, <1>5, <1>6, <1>7

\* Another administrator writes.
LEMMA FromOutside ==
  ASSUME TypeOK, NEW o \in Others, Outside(o)
  PROVE  /\ query' = query /\ save' = save /\ past' = past /\ o \notin Saves
         /\ \A d \in Records : server'[d] = server[d] \/ server'[d] = o
  BY Writers DEF Outside, TypeOK, Content

-----------------------------------------------------------------------------
(* What is shown has been written.                                          *)

LEMMA MutationsNext == IInv /\ [Next]_vars => Mutations'
<1> SUFFICES ASSUME IInv, [Next]_vars PROVE Mutations'
  OBVIOUS
<1>0. TypeOK /\ Mutations
  BY DEF IInv
<1> USE <1>0
<1>1. ASSUME NEW s \in Saves, ClickSave(s) \/ ClickButton(s) \/ ClickSettings(s)
      PROVE  Mutations'
  <2>1. /\ At(s, "idle") /\ save'[s].pc = "sent" /\ server' = server
        /\ \A t \in Saves \ {s} : save'[t] = save[t]
    BY <1>1, Clicked, ClickedSettings
  <2>2. \A d \in Records : server[d] # s
    BY <2>1 DEF Mutations
  <2> QED
    BY <2>1, <2>2 DEF Mutations, At
<1>2. ASSUME NEW s \in Saves, Written(s) \/ Errs(s) \/ Retry(s)
      PROVE  Mutations'
  <2>1. /\ save'[s].pc \in {"sent", "ok", "error"} /\ save'[s].kind = save[s].kind
        /\ save[s].written => save'[s].written
        /\ save'[s].pc = "ok" => save'[s].written
        /\ \A t \in Saves \ {s} : save'[t] = save[t]
    BY <1>2, GoesOn
  <2>2. \A d \in Records : server'[d] = server[d] \/ (server'[d] = s /\ d = save[s].kind /\ save'[s].pc = "ok")
    BY <1>2, GoesOn DEF TypeOK, Content
  <2> QED
    BY <2>1, <2>2 DEF Mutations, At
<1>3. ASSUME NEW s \in Saves, Fail(s) \/ Succeed(s)
      PROVE  Mutations'
  <2>1. /\ save'[s].pc \in {"failed", "done"} /\ save'[s].kind = save[s].kind /\ save'[s].written = save[s].written
        /\ \A t \in Saves \ {s} : save'[t] = save[t]
        /\ server' = server
    BY <1>3, Failed, Succeeded
  <2> QED
    BY <2>1 DEF Mutations, At
<1>4. ASSUME NEW o \in Others, Outside(o)
      PROVE  Mutations'
  BY <1>4, FromOutside DEF Mutations, At
<1>5. CASE UNCHANGED <<server, save>>
  BY <1>5 DEF Mutations, At
<1> QED
  BY <1>1, <1>2, <1>3, <1>4, <1>5, Opened, Fetched DEF Next, Step, vars

\* What is written stays so.
LEMMA RealStays ==
  ASSUME TypeOK, Mutations, [Next]_vars, NEW w, Real(w)
  PROVE  Real(w)'
<1>1. ASSUME NEW s \in Saves, Step(s)
      PROVE  \A t \in Saves : save[t].written => save'[t].written
  <2>1. CASE ClickSave(s) \/ ClickButton(s) \/ ClickSettings(s)
    <3>1. ~save[s].written /\ \A t \in Saves \ {s} : save'[t] = save[t]
      BY <2>1, Clicked, ClickedSettings DEF Mutations
    <3> QED
      BY <3>1
  <2>2. CASE Written(s) \/ Errs(s) \/ Retry(s)
    BY <2>2, GoesOn
  <2>3. CASE Fail(s) \/ Succeed(s)
    BY <2>3, Failed, Succeeded
  <2> QED
    BY <1>1, <2>1, <2>2, <2>3 DEF Step
<1>2. CASE save' = save
  BY <1>2 DEF Real
<1> QED
  BY <1>1, <1>2, Opened, Fetched, FromOutside DEF Next, vars, Real

LEMMA OneSettingNext == IInv /\ [Next]_vars => OneSetting'
<1> SUFFICES ASSUME IInv, [Next]_vars PROVE OneSetting'
  OBVIOUS
<1>0. TypeOK /\ OneSetting
  BY DEF IInv
<1> USE <1>0
<1>1. \A q \in Queries : query[q].known => query'[q].known
  <2>1. ASSUME NEW s \in Saves, Step(s)
        PROVE  \A q \in Queries : query[q].known => query'[q].known
    <3>1. CASE Fail(s)
      BY <3>1, Failed
    <3>2. CASE Succeed(s)
      BY <3>2, Succeeded
    <3>3. CASE ClickSettings(s)
      BY <3>3, ClickedSettings
    <3> QED
      BY <2>1, <3>1, <3>2, <3>3, Clicked, GoesOn DEF Step, AtMostDropped
  <2>2. ASSUME NEW q \in Queries, FetchRead(q) \/ FetchLand(q) \/ FetchFails(q)
        PROVE  \A p \in Queries : query[p].known => query'[p].known
    BY <2>2, Fetched
  <2>3. ASSUME NEW tab \in Tabs, Open(tab)
        PROVE  \A q \in Queries : query[q].known => query'[q].known
    BY <2>3, Opened
  <2> QED
    BY <2>1, <2>2, <2>3, FromOutside DEF Next, vars
<1>2. \A s, t \in Saves : Setting(s)' /\ Setting(t)' => s = t
  <2>1. ASSUME NEW s \in Saves, ClickSettings(s)
        PROVE  \A t \in Saves : Setting(t)' => t = s
    BY <2>1, ClickedSettings DEF Setting, Pending, PendingFor
  <2>2. ASSUME NEW s \in Saves, Step(s), ~ClickSettings(s)
        PROVE  \A t \in Saves : Setting(t)' => Setting(t)
    <3>1. CASE ClickSave(s) \/ ClickButton(s)
      BY <3>1, Clicked DEF Setting, Pending
    <3>2. CASE Written(s) \/ Errs(s) \/ Retry(s) \/ Fail(s) \/ Succeed(s)
      BY <3>2, OnlyItself DEF Setting, Pending
    <3> QED
      BY <2>2, <3>1, <3>2 DEF Step
  <2>3. save' = save => \A t \in Saves : Setting(t)' => Setting(t)
    BY DEF Setting, Pending
  <2> QED
    BY <2>1, <2>2, <2>3, Opened, Fetched, FromOutside DEF Next, vars, OneSetting
<1> QED
  BY <1>1, <1>2, TenantQuery DEF OneSetting

\* A step that leaves what is shown, but for reads dropped, and the pending saves of settings.
LEMMA ProvenanceQuiet ==
  ASSUME TypeOK, Mutations, Provenance, [Next]_vars,
         \A q \in Queries : query'[q].value = query[q].value,
         \A q \in Queries : query'[q].read = query[q].read \/ query'[q].read = Seed,
         \A s \in Saves : Setting(s)' => Setting(s) /\ save'[s].known = save[s].known /\ save'[s].snapshot = save[s].snapshot,
         \A s \in Saves : Setting(s) => Setting(s)' \/ save[s].written
  PROVE  Provenance'
<1>1. \A w : Real(w) => Real(w)'
  BY RealStays
<1>2. \A d \in Records : Real(Seed[d])'
  BY Writers DEF Seed, Real
<1>3. \A q \in Queries, d \in Records : Real(query[q].value[d])' \/ Optimistic(q, d)'
  <2> TAKE q \in Queries, d \in Records
  <2>1. CASE Real(query[q].value[d])
    BY <1>1, <2>1 DEF Real
  <2>2. CASE Optimistic(q, d) /\ ~Real(query[q].value[d])
    BY <2>2 DEF Optimistic, Real
  <2> QED
    BY <2>1, <2>2 DEF Provenance
<1>4. \A q \in Queries, d \in Records : Real(query[q].read[d])'
  BY <1>1, <1>2 DEF Provenance, Real
<1>5. \A s \in Saves : Setting(s)' => save'[s].known /\ \A d \in Records : Real(save[s].snapshot[d])'
  BY <1>1 DEF Provenance, Real
<1> QED
  BY <1>3, <1>4, <1>5 DEF Provenance

LEMMA ProvenanceNext == IInv /\ [Next]_vars => Provenance'
<1> SUFFICES ASSUME IInv, [Next]_vars PROVE Provenance'
  OBVIOUS
<1>0. TypeOK /\ Mutations /\ Provenance /\ OneSetting
  BY DEF IInv
<1> USE <1>0
<1>1. \A w : Real(w) => Real(w)'
  BY RealStays
<1>2. \A d \in Records : Real(Seed[d])'
  BY Writers DEF Seed, Real
<1>3. ASSUME NEW s \in Saves, ClickSave(s) \/ ClickButton(s)
      PROVE  Provenance'
  BY <1>3, Clicked, ProvenanceQuiet DEF AtMostDropped, Setting, Pending, At
<1>4. ASSUME NEW s \in Saves, ClickSettings(s)
      PROVE  Provenance'
  <2>0. "settings" \in Records /\ "tenant" \in Queries
    BY <1>4, ClickedSettings
  <2>1. \A q \in Queries, d \in Records : Real(query[q].value[d])
    <3>1. \A t \in Saves : ~Setting(t)
      BY <1>4, ClickedSettings DEF Setting, PendingFor
    <3> QED
      BY <3>1 DEF Provenance, Optimistic
  <2>2. \A q \in Queries, d \in Records :
          query'[q].value[d] = query[q].value[d] \/ (q = "tenant" /\ d = "settings" /\ query'[q].value[d] = s)
    <3>1. query["tenant"].value \in Content
      BY <2>0, QueryFields
    <3>2. \A d \in Records : query'["tenant"].value[d] = query["tenant"].value[d]
                              \/ (d = "settings" /\ query'["tenant"].value[d] = s)
      <4>1. query'["tenant"].value = [query["tenant"].value EXCEPT !["settings"] = s]
        BY <1>4, ClickedSettings
      <4> QED
        BY <3>1, <4>1 DEF Content
    <3>3. \A q \in Queries \ {"tenant"} : query'[q].value = query[q].value
      BY <1>4, ClickedSettings
    <3> QED
      BY <3>2, <3>3
  <2>3. Setting(s)'
    BY <1>4, ClickedSettings DEF Setting, Pending
  <2>4. \A q \in Queries, d \in Records : Real(query[q].value[d])' \/ Optimistic(q, d)'
    BY <1>1, <2>1, <2>2, <2>3 DEF Real, Optimistic
  <2>5. \A q \in Queries, d \in Records : Real(query[q].read[d])'
    BY <1>2, <1>4, ClickedSettings DEF Real
  <2>6. \A t \in Saves : Setting(t)' => t = s
    <3>1. \A t \in Saves : ~Setting(t)
      BY <1>4, ClickedSettings DEF Setting, PendingFor
    <3>2. \A t \in Saves \ {s} : save'[t] = save[t]
      BY <1>4, ClickedSettings
    <3> QED
      BY <3>1, <3>2 DEF Setting, Pending
  <2>7. save'[s].known /\ \A d \in Records : Real(save[s].snapshot[d])'
    BY <1>1, <1>4, <2>0, <2>1, ClickedSettings DEF OneSetting, Real
  <2> QED
    BY <2>4, <2>5, <2>6, <2>7 DEF Provenance
<1>5. ASSUME NEW s \in Saves, Written(s) \/ Errs(s) \/ Retry(s)
      PROVE  Provenance'
  BY <1>5, GoesOn, ProvenanceQuiet DEF Setting, Pending
<1>6. ASSUME NEW s \in Saves, Fail(s)
      PROVE  Provenance'
  <2>1. CASE save[s].kind # "settings"
    <3>1. \A t \in Saves : (Setting(t)' <=> Setting(t)) /\ (Setting(t) => save'[t] = save[t])
      BY <1>6, <2>1, OnlyItself DEF Setting, Pending
    <3> QED
      BY <1>6, <2>1, <3>1, Failed, ProvenanceQuiet
  <2>2. CASE save[s].kind = "settings"
    <3>1. Setting(s) /\ save[s].known /\ \A d \in Records : Real(save[s].snapshot[d])
      BY <1>6, <2>2, Failed DEF Setting, Provenance
    <3>2. \A t \in Saves : ~Setting(t)'
      <4>1. \A t \in Saves \ {s} : ~Setting(t) /\ save'[t] = save[t]
        BY <1>6, <3>1, Failed DEF OneSetting
      <4>2. save'[s].pc = "failed"
        BY <1>6, Failed
      <4> QED
        BY <4>1, <4>2 DEF Setting, Pending
    <3>3. \A q \in Queries, d \in Records : Real(query[q].value[d])'
      <4> TAKE q \in Queries, d \in Records
      <4>1. CASE q = "tenant"
        BY <1>1, <1>6, <2>2, <3>1, <4>1, Failed DEF Real
      <4>2. CASE q # "tenant"
        <5>1. query'[q] = query[q]
          BY <1>6, <4>2, Failed
        <5>2. Real(query[q].value[d])
          BY <4>2 DEF Provenance, Optimistic
        <5> QED
          BY <1>1, <5>1, <5>2 DEF Real
      <4> QED
        BY <4>1, <4>2
    <3>4. \A q \in Queries, d \in Records : Real(query[q].read[d])'
      <4>1. \A q \in Queries : query'[q].read = query[q].read
        BY <1>6, <2>2, <3>1, Failed
      <4> QED
        BY <1>1, <4>1 DEF Real, Provenance
    <3> QED
      BY <3>2, <3>3, <3>4 DEF Provenance
  <2> QED
    BY <2>1, <2>2
<1>7. ASSUME NEW s \in Saves, Succeed(s)
      PROVE  Provenance'
  <2>1. \A t \in Saves : Setting(t)' => Setting(t) /\ save'[t] = save[t]
    BY <1>7, Succeeded DEF Setting, Pending
  <2>2. \A t \in Saves : Setting(t) => Setting(t)' \/ save[t].written
    <3>1. save[s].written /\ \A t \in Saves \ {s} : save'[t] = save[t]
      BY <1>7, Succeeded DEF Mutations
    <3> QED
      BY <3>1 DEF Setting, Pending
  <2>3. \A q \in Queries : query'[q].value = query[q].value /\ (query'[q].read = query[q].read \/ query'[q].read = Seed)
    BY <1>7, Succeeded
  <2> QED
    BY <2>1, <2>2, <2>3, ProvenanceQuiet
<1>8. ASSUME NEW q \in Queries, FetchRead(q) \/ FetchLand(q) \/ FetchFails(q)
      PROVE  Provenance'
  <2>1. save' = save /\ \A t \in Saves : (Setting(t)' <=> Setting(t))
    BY <1>8, Fetched DEF Setting, Pending
  <2>2. CASE FetchFails(q)
    <3>1. \A p \in Queries : query'[p].value = query[p].value /\ (query'[p].read = query[p].read \/ query'[p].read = Seed)
      BY <2>2, Fetched
    <3> QED
      BY <2>1, <3>1, ProvenanceQuiet
  <2>3. CASE FetchRead(q)
    <3>1. \A d \in Records : Real(Answer(q, server)[d])
      BY Writers DEF Answer, Real, Mutations
    <3>2. \A p \in Queries : query'[p].value = query[p].value
                             /\ (query'[p].read = query[p].read \/ query'[p].read = Answer(q, server))
      BY <2>3, Fetched
    <3>3. \A p \in Queries, d \in Records : Real(query[p].read[d])'
      BY <2>1, <3>1, <3>2 DEF Provenance, Real
    <3>4. \A p \in Queries, d \in Records : Real(query[p].value[d])' \/ Optimistic(p, d)'
      BY <2>1, <3>2 DEF Provenance, Real, Optimistic
    <3> QED
      BY <2>1, <3>3, <3>4 DEF Provenance, Real
  <2>4. CASE FetchLand(q)
    <3>1. \A p \in Queries : (query'[p].value = query[p].value \/ query'[p].value = query[p].read)
                             /\ (query'[p].read = query[p].read \/ query'[p].read = Seed)
      BY <2>4, Fetched
    <3>2. \A p \in Queries, d \in Records : Real(query[p].read[d])'
      BY <1>1, <1>2, <3>1 DEF Provenance, Real
    <3>3. \A p \in Queries, d \in Records : Real(query[p].value[d])' \/ Optimistic(p, d)'
      BY <2>1, <3>1 DEF Provenance, Real, Optimistic
    <3> QED
      BY <2>1, <3>2, <3>3 DEF Provenance, Real
  <2> QED
    BY <1>8, <2>2, <2>3, <2>4
<1>9. ASSUME NEW tab \in Tabs, Open(tab)
      PROVE  Provenance'
  BY <1>9, Opened, ProvenanceQuiet DEF Setting, Pending
<1>10. ASSUME UNCHANGED <<query, save>>
       PROVE  Provenance'
  BY <1>10, ProvenanceQuiet DEF Setting, Pending
<1> QED
  BY <1>3, <1>4, <1>5, <1>6, <1>7, <1>8, <1>9, <1>10, FromOutside DEF Next, Step, vars

-----------------------------------------------------------------------------
(* What is fresh is true.                                                   *)

\* No save has just succeeded.
NoneDone == \A w \in Saves : save'[w].pc = "done" => save[w].pc = "done" /\ save'[w].kind = save[w].kind

\* Untold, of a write after the step.
UntoldNext(w, q) == w \in Saves => save'[w].pc # "done" \/ save'[w].kind \in Unheard(q)

LEMMA UntoldStays ==
  ASSUME NoneDone, NEW w, NEW q, Untold(w, q)
  PROVE  UntoldNext(w, q)
  BY DEF NoneDone, Untold, UntoldNext, At

\* A query that is as it was, or has lost its fetch, over a server that has at most got writes it was not told of.
LEMMA QueryQuiet ==
  ASSUME NoneDone, NEW q \in Queries, FetchedIsStale(q), ReadIsTrue(q), FreshIsTrue(q),
         AtMostDropped(q), past.outdated \subseteq past'.outdated,
         \A d \in Records : server'[d] = server[d] \/ UntoldNext(server'[d], q),
         \A d \in Records : Optimistic(q, d) => Optimistic(q, d)'
  PROVE  (FetchedIsStale(q) /\ ReadIsTrue(q) /\ FreshIsTrue(q))'
<1>1. \A d \in Records : Untold(server[d], q) => UntoldNext(server[d], q)
  BY UntoldStays
<1>2. FetchedIsStale(q)'
  <2>1. CASE query'[q] = query[q]
    BY <2>1 DEF FetchedIsStale
  <2>2. CASE query'[q].fetch = "none"
    BY <2>2 DEF FetchedIsStale
  <2> QED
    BY <2>1, <2>2 DEF AtMostDropped
<1>3. ASSUME NEW d \in Shows[q] \cap Records, query'[q].fetch = "read"
      PROVE  query'[q].read[d] = server'[d] \/ UntoldNext(server'[d], q)
  <2>0. query'[q] = query[q]
    BY <1>3 DEF AtMostDropped
  <2>1. CASE server'[d] = server[d]
    BY <1>1, <1>3, <2>0, <2>1 DEF ReadIsTrue
  <2>2. CASE UntoldNext(server'[d], q)
    BY <2>2
  <2> QED
    BY <2>1, <2>2
<1>4. ASSUME NEW d \in Shows[q] \cap Records, query'[q].known, ~query'[q].stale, query'[q].fetch = "none"
      PROVE  query'[q].value[d] = server'[d] \/ UntoldNext(server'[d], q) \/ Optimistic(q, d)' \/ q \in past'.outdated
  <2>0. query[q].known /\ ~query[q].stale /\ query'[q].value = query[q].value
    BY <1>4 DEF AtMostDropped
  <2>3. query[q].fetch = "none" \/ q \in past.outdated
    BY <2>0 DEF FetchedIsStale
  <2>1. CASE server'[d] = server[d]
    BY <1>1, <2>0, <2>1, <2>3 DEF FreshIsTrue
  <2>2. CASE UntoldNext(server'[d], q)
    BY <2>2
  <2> QED
    BY <2>1, <2>2
<1> QED
  BY <1>2, <1>3, <1>4 DEF ReadIsTrue, FreshIsTrue, Untold, UntoldNext, At

\* A step that leaves the queries, but for fetches dropped.
LEMMA FreshnessQuiet ==
  ASSUME TypeOK, Freshness, NoneDone, past' = past,
         \A q \in Queries : AtMostDropped(q),
         \A d \in Records, q \in Queries : server'[d] = server[d] \/ UntoldNext(server'[d], q),
         \A s \in Saves : (Setting(s) <=> Setting(s)') /\ (Setting(s) => save'[s].snapshot = save[s].snapshot)
  PROVE  Freshness'
<1>1. \A q \in Queries : (FetchedIsStale(q) /\ ReadIsTrue(q) /\ FreshIsTrue(q))'
  BY QueryQuiet DEF Freshness, Optimistic, AtMostDropped
<1>2. SnapshotIsTrue'
  <2> SUFFICES ASSUME NEW s \in Saves, Setting(s)'
               PROVE  \/ server'["settings"] = s \/ UntoldNext(server'["settings"], "tenant")
                      \/ save'[s].snapshot["settings"] = server'["settings"]
                      \/ "tenant" \in past'.outdated \/ query'["tenant"].value["settings"] # s
    BY DEF SnapshotIsTrue, Untold, UntoldNext, At
  <2>1. Setting(s) /\ save'[s].snapshot = save[s].snapshot
    OBVIOUS
  <2>2. "settings" \in Records /\ "tenant" \in Queries
    BY <2>1, SaveFields, TenantQuery DEF Setting
  <2>3. CASE server'["settings"] = server["settings"]
    <3>1. query'["tenant"].value = query["tenant"].value
      BY <2>2 DEF AtMostDropped
    <3> QED
      BY <2>1, <2>3, <3>1, UntoldStays DEF Freshness, SnapshotIsTrue
  <2>4. CASE UntoldNext(server'["settings"], "tenant")
    BY <2>4
  <2> QED
    BY <2>2, <2>3, <2>4
<1> QED
  BY <1>1, <1>2 DEF Freshness

LEMMA FreshClick ==
  ASSUME IInv, NEW s \in Saves, ClickSettings(s)
  PROVE  Freshness'
<1>0. TypeOK /\ Provenance /\ Freshness
  BY DEF IInv
<1> USE <1>0
<1>1. NoneDone
  BY ClickedSettings DEF NoneDone
<1>2. Setting(s)' /\ \A t \in Saves : ~Setting(t) /\ (Setting(t)' => t = s)
  BY ClickedSettings DEF Setting, Pending, PendingFor
<1>3. "settings" \in Records /\ "tenant" \in Queries /\ server' = server
      /\ \A q \in Queries : query'[q].fetch = "none"
  BY ClickedSettings
<1>4. query["tenant"].value \in Content /\ query'["tenant"].value = [query["tenant"].value EXCEPT !["settings"] = s]
  BY <1>3, QueryFields, ClickedSettings
<1>5. query'["tenant"].value["settings"] = s
      /\ \A d \in Records \ {"settings"} : query'["tenant"].value[d] = query["tenant"].value[d]
  BY <1>3, <1>4 DEF Content
<1>6. "tenant" \in past'.outdated \/ (query["tenant"].known /\ ~query["tenant"].stale /\ query["tenant"].fetch = "none")
  BY ClickedSettings DEF Doubtful
<1>7. \A d \in Shows["tenant"] \cap Records :
        "tenant" \in past'.outdated \/ query["tenant"].value[d] = server[d] \/ UntoldNext(server[d], "tenant")
  <2> TAKE d \in Shows["tenant"] \cap Records
  <2>1. ~Optimistic("tenant", d)
    BY <1>2 DEF Optimistic
  <2>2. past.outdated \subseteq past'.outdated
    BY ClickedSettings
  <2> QED
    BY <1>1, <1>3, <1>6, <2>1, <2>2, UntoldStays DEF Freshness, FreshIsTrue
<1>8. FreshIsTrue("tenant")'
  <2> SUFFICES ASSUME NEW d \in Shows["tenant"] \cap Records, d # "settings"
               PROVE  query'["tenant"].value[d] = server'[d] \/ UntoldNext(server'[d], "tenant") \/ "tenant" \in past'.outdated
    BY <1>2, <1>5 DEF FreshIsTrue, Optimistic, Untold, UntoldNext, At
  <2> QED
    BY <1>3, <1>5, <1>7
<1>9. \A q \in Queries \ {"tenant"} : FreshIsTrue(q)'
  <2> SUFFICES ASSUME NEW q \in Queries \ {"tenant"}, query'[q].known, ~query'[q].stale, NEW d \in Shows[q] \cap Records
               PROVE  query'[q].value[d] = server'[d] \/ UntoldNext(server'[d], q) \/ q \in past'.outdated
    BY DEF FreshIsTrue, Untold, UntoldNext, At
  <2>1. query[q].known /\ ~query[q].stale /\ query'[q].value = query[q].value /\ past.outdated \subseteq past'.outdated
    BY ClickedSettings
  <2>2. q \in past.outdated \/ query[q].fetch = "none"
    BY <2>1 DEF Freshness, FetchedIsStale
  <2>3. ~Optimistic(q, d)
    BY DEF Optimistic
  <2> QED
    BY <1>1, <1>3, <2>1, <2>2, <2>3, UntoldStays DEF Freshness, FreshIsTrue
<1>10. SnapshotIsTrue'
  <2>1. save'[s].snapshot = query["tenant"].value
    BY ClickedSettings
  <2>2. "settings" \in Shows["tenant"]
    BY Shown DEF OfTenant
  <2>3. "tenant" \in past'.outdated \/ save'[s].snapshot["settings"] = server'["settings"] \/ UntoldNext(server'["settings"], "tenant")
    BY <1>3, <1>7, <2>1, <2>2
  <2> QED
    BY <1>2, <2>3 DEF SnapshotIsTrue, Untold, UntoldNext, At
<1> QED
  BY <1>3, <1>8, <1>9, <1>10 DEF Freshness, FetchedIsStale, ReadIsTrue

LEMMA FreshFail ==
  ASSUME IInv, NEW s \in Saves, Fail(s)
  PROVE  Freshness'
<1>0. TypeOK /\ Provenance /\ OneSetting /\ Freshness
  BY DEF IInv
<1> USE <1>0
<1>1. NoneDone
  BY Failed DEF NoneDone
<1>2. CASE save[s].kind # "settings"
  <2>1. \A t \in Saves : (Setting(t)' <=> Setting(t)) /\ (Setting(t) => save'[t] = save[t])
    BY <1>2, OnlyItself DEF Setting, Pending
  <2>2. query' = query /\ past' = past /\ server' = server
    BY <1>2, Failed
  <2> QED
    BY <1>1, <2>1, <2>2, FreshnessQuiet DEF AtMostDropped
<1>3. CASE save[s].kind = "settings"
  <2>1. Setting(s) /\ save[s].known
    BY <1>3, Failed DEF Setting, Provenance
  <2>2. "settings" \in Records /\ "tenant" \in Queries /\ server' = server /\ past.outdated \subseteq past'.outdated
    BY <1>3, <2>1, SaveFields, Failed
  <2>3. \A t \in Saves : ~Setting(t)'
    <3>1. \A t \in Saves \ {s} : ~Setting(t) /\ save'[t] = save[t]
      BY <2>1, Failed DEF OneSetting
    <3>2. save'[s].pc = "failed"
      BY Failed
    <3> QED
      BY <3>1, <3>2 DEF Setting, Pending
  <2>4. ASSUME NEW q \in Queries \ {"tenant"}
        PROVE  (FetchedIsStale(q) /\ ReadIsTrue(q) /\ FreshIsTrue(q))'
    <3>1. \A d \in Records : ~Optimistic(q, d)
      BY DEF Optimistic
    <3>2. query'[q] = query[q]
      BY Failed
    <3> QED
      BY <1>1, <2>2, <3>1, <3>2, QueryQuiet DEF Freshness, AtMostDropped
  <2>5. /\ query'["tenant"].value = save[s].snapshot /\ query'["tenant"].known = query["tenant"].known
        /\ query'["tenant"].fetch = query["tenant"].fetch /\ query'["tenant"].read = query["tenant"].read
        /\ \/ "tenant" \in past'.outdated
           \/ /\ ~query["tenant"].stale /\ query["tenant"].fetch = "none"
              /\ query["tenant"].value = [save[s].snapshot EXCEPT !["settings"] = s]
    BY <1>3, <2>1, Failed
  <2>6. FetchedIsStale("tenant")'
    BY <2>5 DEF FetchedIsStale
  <2>7. ReadIsTrue("tenant")'
    <3> SUFFICES ASSUME query["tenant"].fetch = "read", NEW d \in Shows["tenant"] \cap Records
                 PROVE  query["tenant"].read[d] = server[d] \/ UntoldNext(server[d], "tenant")
      BY <2>2, <2>5 DEF ReadIsTrue, Untold, UntoldNext, At
    <3> QED
      BY <1>1, <2>2, UntoldStays DEF Freshness, ReadIsTrue
  <2>8. FreshIsTrue("tenant")'
    <3> SUFFICES ASSUME query["tenant"].known, NEW d \in Shows["tenant"] \cap Records, "tenant" \notin past'.outdated
                 PROVE  save[s].snapshot[d] = server[d] \/ UntoldNext(server[d], "tenant")
      BY <2>2, <2>5 DEF FreshIsTrue, Untold, UntoldNext, At
    <3>1. save[s].snapshot \in Content
      BY SaveFields
    <3>2. CASE d = "settings"
      <4>1. query["tenant"].value["settings"] = s
        BY <2>2, <2>5, <3>1 DEF Content
      <4>2. \/ server["settings"] = s \/ Untold(server["settings"], "tenant")
            \/ save[s].snapshot["settings"] = server["settings"]
        BY <2>1, <2>2, <4>1 DEF Freshness, SnapshotIsTrue
      <4>3. UntoldNext(s, "tenant")
        BY Failed DEF UntoldNext
      <4> QED
        BY <1>1, <3>2, <4>2, <4>3, UntoldStays
    <3>3. CASE d # "settings"
      <4>1. query["tenant"].value[d] = save[s].snapshot[d] /\ ~query["tenant"].stale /\ query["tenant"].fetch = "none"
        BY <2>5, <3>1, <3>3 DEF Content
      <4>2. ~Optimistic("tenant", d)
        BY <3>3 DEF Optimistic
      <4> QED
        BY <1>1, <2>2, <4>1, <4>2, UntoldStays DEF Freshness, FreshIsTrue
    <3> QED
      BY <3>2, <3>3
  <2>9. SnapshotIsTrue'
    BY <2>3 DEF SnapshotIsTrue
  <2> QED
    BY <2>4, <2>6, <2>7, <2>8, <2>9 DEF Freshness
<1> QED
  BY <1>2, <1>3

LEMMA FreshSucceed ==
  ASSUME IInv, NEW s \in Saves, Succeed(s)
  PROVE  Freshness'
<1>0. TypeOK /\ Mutations /\ OneSetting /\ Freshness
  BY DEF IInv
<1> USE <1>0
<1>1. server' = server /\ past' = past /\ save'[s].pc = "done" /\ save'[s].kind = save[s].kind
      /\ \A t \in Saves \ {s} : save'[t] = save[t]
  BY Succeeded
<1>2. ASSUME NEW q \in Queries, NEW d \in Shows[q] \cap Records, Untold(server[d], q), q \notin Invalidates[save[s].kind]
      PROVE  UntoldNext(server[d], q)
  <2>1. CASE server[d] = s
    <3>1. save[s].kind = d
      BY <2>1 DEF Mutations
    <3>2. d \in Unheard(q)
      BY <1>2, <3>1, Told
    <3> QED
      BY <1>1, <2>1, <3>1, <3>2 DEF UntoldNext
  <2>2. CASE server[d] # s
    BY <1>1, <1>2, <2>2 DEF Untold, UntoldNext, At
  <2> QED
    BY <2>1, <2>2
<1>3. ASSUME NEW q \in Queries, q \in Invalidates[save[s].kind]
      PROVE  (FetchedIsStale(q) /\ ReadIsTrue(q) /\ FreshIsTrue(q))'
  <2>1. query'[q].stale = TRUE /\ query'[q].fetch # "read"
    BY <1>3, Succeeded
  <2> QED
    BY <2>1 DEF FetchedIsStale, ReadIsTrue, FreshIsTrue
<1>4. ASSUME NEW q \in Queries, q \notin Invalidates[save[s].kind]
      PROVE  (FetchedIsStale(q) /\ ReadIsTrue(q) /\ FreshIsTrue(q))'
  <2>1. query'[q] = query[q]
    BY <1>4, Succeeded
  <2>2. \A d \in Records : Optimistic(q, d) => Optimistic(q, d)'
    <3> SUFFICES ASSUME NEW d \in Records, Optimistic(q, d)
                 PROVE  Optimistic(q, d)'
      OBVIOUS
    <3>1. q = "tenant" /\ query[q].value[d] \in Saves /\ Setting(query[q].value[d])
      BY DEF Optimistic
    <3>2. query[q].value[d] # s
      BY <1>4, <3>1 DEF Setting, Invalidates, TenantQueries
    <3> QED
      BY <1>1, <2>1, <3>2 DEF Optimistic, Setting, Pending
  <2>3. ReadIsTrue(q)'
    <3> SUFFICES ASSUME query[q].fetch = "read", NEW d \in Shows[q] \cap Records
                 PROVE  query[q].read[d] = server[d] \/ UntoldNext(server[d], q)
      BY <1>1, <2>1 DEF ReadIsTrue, Untold, UntoldNext, At
    <3> QED
      BY <1>2, <1>4 DEF Freshness, ReadIsTrue
  <2>4. FreshIsTrue(q)'
    <3> SUFFICES ASSUME query[q].known, ~query[q].stale, query[q].fetch = "none", NEW d \in Shows[q] \cap Records,
                        q \notin past.outdated, ~Optimistic(q, d)
                 PROVE  query[q].value[d] = server[d] \/ UntoldNext(server[d], q)
      BY <1>1, <2>1, <2>2 DEF FreshIsTrue, Untold, UntoldNext, At
    <3> QED
      BY <1>2, <1>4 DEF Freshness, FreshIsTrue
  <2> QED
    BY <1>1, <2>1, <2>3, <2>4 DEF Freshness, FetchedIsStale
<1>5. SnapshotIsTrue'
  <2> SUFFICES ASSUME NEW t \in Saves, Setting(t)'
               PROVE  \/ server["settings"] = t \/ UntoldNext(server["settings"], "tenant")
                      \/ save'[t].snapshot["settings"] = server["settings"]
                      \/ "tenant" \in past.outdated \/ query'["tenant"].value["settings"] # t
    BY <1>1 DEF SnapshotIsTrue, Untold, UntoldNext, At
  <2>1. t # s /\ save'[t] = save[t] /\ Setting(t)
    BY <1>1 DEF Setting, Pending
  <2>2. "settings" \in Records /\ "tenant" \in Queries
    BY <2>1, SaveFields, TenantQuery DEF Setting
  <2>3. query'["tenant"].value = query["tenant"].value
    BY <2>2, Succeeded
  <2>4. server["settings"] # s
    <3>1. ~Setting(s)
      BY <2>1 DEF OneSetting
    <3>2. save[s].kind # "settings"
      BY <3>1, Succeeded DEF Setting
    <3> QED
      BY <2>2, <3>2 DEF Mutations
  <2>5. Untold(server["settings"], "tenant") => UntoldNext(server["settings"], "tenant")
    BY <1>1, <2>4 DEF Untold, UntoldNext, At
  <2> QED
    BY <2>1, <2>3, <2>5 DEF Freshness, SnapshotIsTrue
<1> QED
  BY <1>3, <1>4, <1>5 DEF Freshness

LEMMA FreshFetch ==
  ASSUME IInv, NEW q \in Queries, FetchRead(q) \/ FetchLand(q) \/ FetchFails(q)
  PROVE  Freshness'
<1>0. TypeOK /\ Freshness
  BY DEF IInv
<1> USE <1>0
<1>1. server' = server /\ save' = save /\ past'.outdated \ {q} = past.outdated \ {q}
      /\ \A p \in Queries \ {q} : query'[p] = query[p]
  BY Fetched
<1>2. NoneDone
  BY <1>1 DEF NoneDone
<1>3. \A w : UntoldNext(w, q) <=> Untold(w, q)
  BY <1>1 DEF UntoldNext, Untold, At
<1>4. \A t \in Saves : Setting(t)' <=> Setting(t)
  BY <1>1 DEF Setting, Pending
<1>5. ASSUME NEW p \in Queries \ {q}
      PROVE  (FetchedIsStale(p) /\ ReadIsTrue(p) /\ FreshIsTrue(p))'
  <2>1. query'[p] = query[p] /\ (p \in past.outdated <=> p \in past'.outdated)
    BY <1>1
  <2>2. \A d \in Records : Optimistic(p, d)' <=> Optimistic(p, d)
    BY <1>4, <2>1 DEF Optimistic
  <2>3. \A w : UntoldNext(w, p) <=> Untold(w, p)
    BY <1>1 DEF UntoldNext, Untold, At
  <2>4. FetchedIsStale(p) /\ ReadIsTrue(p) /\ FreshIsTrue(p)
    BY DEF Freshness
  <2>5. FetchedIsStale(p)'
    BY <2>1, <2>4 DEF FetchedIsStale
  <2>6. ReadIsTrue(p)'
    <3> SUFFICES ASSUME query[p].fetch = "read", NEW d \in Shows[p] \cap Records
                 PROVE  query[p].read[d] = server[d] \/ UntoldNext(server[d], p)
      BY <1>1, <2>1 DEF ReadIsTrue, Untold, UntoldNext, At
    <3> QED
      BY <2>3, <2>4 DEF ReadIsTrue
  <2>7. FreshIsTrue(p)'
    <3> SUFFICES ASSUME query[p].known, ~query[p].stale, query[p].fetch = "none", NEW d \in Shows[p] \cap Records,
                        p \notin past.outdated, ~Optimistic(p, d)
                 PROVE  query[p].value[d] = server[d] \/ UntoldNext(server[d], p)
      BY <1>1, <2>1, <2>2 DEF FreshIsTrue, Untold, UntoldNext, At
    <3> QED
      BY <2>3, <2>4 DEF FreshIsTrue
  <2> QED
    BY <2>5, <2>6, <2>7
<1>6. CASE FetchRead(q)
  <2>1. query'[q].fetch = "read" /\ query'[q].read = Answer(q, server) /\ past' = past
        /\ query'[q].known = query[q].known /\ query'[q].stale = query[q].stale /\ query'[q].value = query[q].value
        /\ query[q].fetch # "none"
    BY <1>6, Fetched
  <2>2. ReadIsTrue(q)'
    BY <1>1, <2>1 DEF ReadIsTrue, Answer
  <2>3. FetchedIsStale(q)' /\ FreshIsTrue(q)'
    BY <2>1 DEF Freshness, FetchedIsStale, FreshIsTrue
  <2>4. \A p \in Queries : query'[p].value = query[p].value
    BY <1>1, <2>1
  <2>5. SnapshotIsTrue'
    BY <1>1, <1>4, <2>1, <2>4, SaveFields, TenantQuery DEF Freshness, SnapshotIsTrue, Setting, Untold, At
  <2> QED
    BY <1>5, <2>2, <2>3, <2>5 DEF Freshness
<1>7. CASE FetchFails(q)
  <2>1. query'[q].fetch = "none" /\ past' = past
        /\ query'[q].known = query[q].known /\ query'[q].stale = query[q].stale /\ query'[q].value = query[q].value
        /\ query[q].fetch # "none"
    BY <1>7, Fetched
  <2>2. FetchedIsStale(q)' /\ ReadIsTrue(q)' /\ FreshIsTrue(q)'
    BY <2>1 DEF Freshness, FetchedIsStale, ReadIsTrue, FreshIsTrue
  <2>3. \A p \in Queries : query'[p].value = query[p].value
    BY <1>1, <2>1
  <2>4. SnapshotIsTrue'
    BY <1>1, <1>4, <2>1, <2>3, SaveFields, TenantQuery DEF Freshness, SnapshotIsTrue, Setting, Untold, At
  <2> QED
    BY <1>5, <2>2, <2>4 DEF Freshness
<1>8. CASE FetchLand(q)
  <2>1. query[q].fetch \in {"read", "late"} /\ query'[q].fetch = "none" /\ query'[q].value = query[q].read
        /\ (query[q].fetch = "late" => q \in past'.outdated)
    BY <1>8, Fetched
  <2>2. \A d \in Shows[q] \cap Records :
          q \in past'.outdated \/ query'[q].value[d] = server[d] \/ Untold(server[d], q)
    BY <2>1 DEF Freshness, ReadIsTrue
  <2>3. FreshIsTrue(q)'
    BY <1>1, <1>3, <2>2 DEF FreshIsTrue, Untold, UntoldNext, At
  <2>4. SnapshotIsTrue'
    <3> SUFFICES ASSUME NEW t \in Saves, Setting(t)
                 PROVE  \/ server["settings"] = t \/ UntoldNext(server["settings"], "tenant")
                        \/ save[t].snapshot["settings"] = server["settings"]
                        \/ "tenant" \in past'.outdated \/ query'["tenant"].value["settings"] # t
      BY <1>1, <1>4 DEF SnapshotIsTrue, Untold, UntoldNext, At
    <3>1. "settings" \in Records /\ "tenant" \in Queries /\ "settings" \in Shows["tenant"]
      BY SaveFields, TenantQuery, Shown DEF Setting, OfTenant
    <3>2. CASE q = "tenant"
      BY <1>3, <2>2, <3>1, <3>2
    <3>3. CASE q # "tenant"
      <4>1. query'["tenant"] = query["tenant"] /\ ("tenant" \in past.outdated => "tenant" \in past'.outdated)
        BY <1>1, <3>1, <3>3
      <4> QED
        BY <1>2, <4>1, UntoldStays DEF Freshness, SnapshotIsTrue
    <3> QED
      BY <3>2, <3>3
  <2> QED
    BY <1>5, <2>1, <2>3, <2>4 DEF Freshness, FetchedIsStale, ReadIsTrue
<1> QED
  BY <1>6, <1>7, <1>8

LEMMA FreshOpen ==
  ASSUME IInv, NEW tab \in Tabs, Open(tab)
  PROVE  Freshness'
<1>0. TypeOK /\ Freshness
  BY DEF IInv
<1> USE <1>0
<1>1. server' = server /\ save' = save /\ past' = past
  BY Opened
<1>2. \A t \in Saves : Setting(t)' <=> Setting(t)
  BY <1>1 DEF Setting, Pending
<1>3. ASSUME NEW q \in Queries
      PROVE  (FetchedIsStale(q) /\ ReadIsTrue(q) /\ FreshIsTrue(q))'
  <2>1. /\ query'[q].known = query[q].known /\ query'[q].value = query[q].value
        /\ query'[q].stale = query[q].stale /\ query'[q].read = query[q].read
        /\ \/ query'[q].fetch = query[q].fetch
           \/ query'[q].fetch = "sent" /\ (query[q].stale \/ ~query[q].known)
    BY Opened
  <2>2. FetchedIsStale(q)'
    BY <1>1, <2>1 DEF Freshness, FetchedIsStale
  <2>3. ReadIsTrue(q)'
    BY <1>1, <2>1 DEF Freshness, ReadIsTrue, Untold, At
  <2>4. \A d \in Records : Optimistic(q, d) => Optimistic(q, d)'
    BY <1>2, <2>1 DEF Optimistic
  <2>5. FreshIsTrue(q)'
    BY <1>1, <2>1, <2>4 DEF Freshness, FreshIsTrue, Untold, At
  <2> QED
    BY <2>2, <2>3, <2>5
<1>4. SnapshotIsTrue'
  BY <1>1, <1>2, Opened, SaveFields, TenantQuery DEF Freshness, SnapshotIsTrue, Setting, Untold, At
<1> QED
  BY <1>3, <1>4 DEF Freshness

LEMMA FreshnessNext == IInv /\ [Next]_vars => Freshness'
<1> SUFFICES ASSUME IInv, [Next]_vars PROVE Freshness'
  OBVIOUS
<1>0. TypeOK /\ Mutations /\ Freshness
  BY DEF IInv
<1> USE <1>0
<1>1. ASSUME NEW s \in Saves, ClickSave(s) \/ ClickButton(s)
      PROVE  Freshness'
  <2>1. NoneDone /\ (\A q \in Queries : AtMostDropped(q)) /\ past' = past /\ server' = server
    BY <1>1, Clicked DEF NoneDone
  <2>2. \A t \in Saves : (Setting(t) <=> Setting(t)') /\ (Setting(t) => save'[t].snapshot = save[t].snapshot)
    BY <1>1, Clicked DEF Setting, Pending, At
  <2> QED
    BY <2>1, <2>2, FreshnessQuiet
<1>2. ASSUME NEW s \in Saves, Written(s) \/ Errs(s) \/ Retry(s)
      PROVE  Freshness'
  <2>1. NoneDone /\ (\A q \in Queries : AtMostDropped(q)) /\ past' = past
    BY <1>2, GoesOn DEF NoneDone, AtMostDropped
  <2>2. \A t \in Saves : (Setting(t) <=> Setting(t)') /\ (Setting(t) => save'[t].snapshot = save[t].snapshot)
    BY <1>2, GoesOn DEF Setting, Pending
  <2>3. \A d \in Records, q \in Queries : server'[d] = server[d] \/ UntoldNext(server'[d], q)
    <3>1. \A d \in Records : server'[d] = server[d] \/ (server'[d] = s /\ save'[s].pc = "ok")
      BY <1>2, GoesOn DEF TypeOK, Content
    <3> QED
      BY <3>1 DEF UntoldNext
  <2> QED
    BY <2>1, <2>2, <2>3, FreshnessQuiet
<1>3. ASSUME NEW o \in Others, Outside(o)
      PROVE  Freshness'
  <2>1. NoneDone /\ (\A q \in Queries : AtMostDropped(q)) /\ past' = past
    BY <1>3, FromOutside DEF NoneDone, AtMostDropped
  <2>2. \A t \in Saves : (Setting(t) <=> Setting(t)') /\ (Setting(t) => save'[t].snapshot = save[t].snapshot)
    BY <1>3, FromOutside DEF Setting, Pending
  <2>3. \A d \in Records, q \in Queries : server'[d] = server[d] \/ UntoldNext(server'[d], q)
    BY <1>3, FromOutside DEF UntoldNext
  <2> QED
    BY <2>1, <2>2, <2>3, FreshnessQuiet
<1>4. CASE UNCHANGED vars
  BY <1>4, FreshnessQuiet DEF vars, NoneDone, AtMostDropped, Setting, Pending
<1> QED
  BY <1>1, <1>2, <1>3, <1>4, FreshClick, FreshFail, FreshSucceed, FreshFetch, FreshOpen DEF Next, Step

-----------------------------------------------------------------------------

LEMMA Inductive == Spec => []IInv
<1>1. IInv /\ [Next]_vars => IInv'
  BY TypeNext, MutationsNext, ProvenanceNext, OneSettingNext, FreshnessNext DEF IInv
<1> QED
  BY <1>1, InitIInv, PTL DEF Spec

\* What the page shows as fresh is what the server has, but for writes it was not
\* told of, what it is saving, and what was set back to an old snapshot or read
\* before a save, for any records and any number of saves.  (The keys that the
\* hooks of lib/queries.ts invalidate, cancel and set.)
THEOREM FreshIsTrueAlways == Spec => []FreshMeansTrue
<1>1. IInv => FreshMeansTrue
  <2> SUFFICES ASSUME IInv, NEW q \in Queries, NEW d \in Shows[q] \cap Records,
                      query[q].known, ~query[q].stale, query[q].fetch = "none"
               PROVE  \/ query[q].value[d] = server[d]
                      \/ Untold(server[d], q) \/ BeingSaved(query[q].value[d])
                      \/ q \in past.outdated
    BY DEF FreshMeansTrue
  <2>1. FreshIsTrue(q)
    BY DEF IInv, Freshness
  <2>2. Optimistic(q, d) => BeingSaved(query[q].value[d])
    BY DEF Optimistic, Setting, BeingSaved
  <2> QED
    BY <2>1, <2>2 DEF FreshIsTrue
<1> QED
  BY <1>1, Inductive, PTL

\* No query shows settings that no server has taken, once their save has failed.
\* (onMutate and onError of the settings' hook: the snapshot is of an earlier save.)
THEOREM FailedSavesLeaveNoTrace == Spec => []NoPhantomSettings
<1>1. IInv => NoPhantomSettings
  BY DEF IInv, Provenance, Real, Optimistic, Setting, Pending, NoPhantomSettings, At
<1> QED
  BY <1>1, Inductive, PTL

-----------------------------------------------------------------------------
(* What a form and a save know.                                             *)

\* Saves begin in their order.
Ordered == \A s, t \in Saves : s < t /\ At(s, "idle") => At(t, "idle")

\* A save of d that is under way, or has succeeded and is what the server has.
Counts(w, d) == (Pending(w) /\ save[w].kind = d) \/ (At(w, "done") /\ server[d] = w)

\* A form that was filled from what is true knows them all.
FormKnows ==
  view.tab \in Forms /\ ~view.rash => \A w \in Saves : Counts(w, view.tab) => w \in view.knows

\* A form that follows its query knows what it shows.
FormFollows ==
  view.tab \in Forms /\ Form[view.tab].follows /\ query[Form[view.tab].query].known =>
    query[Form[view.tab].query].value[view.tab] \in view.knows

\* A save of such a form knows the earlier ones.
SavesKnow ==
  \A s \in Saves : Pending(s) /\ save[s].kind \in Forms /\ ~save[s].rash =>
    \A w \in Saves : w < s /\ Counts(w, save[s].kind) => w \in save[s].knows

Knowledge == Ordered /\ FormKnows /\ FormFollows /\ SavesKnow

LEMMA KnowledgeInit == Init => Knowledge
<1> SUFFICES ASSUME Init PROVE Knowledge
  OBVIOUS
<1>1. \A s \in Saves : At(s, "idle") /\ ~Pending(s)
  BY NoSaveType DEF Init, At, Pending
<1>2. view.tab \notin Forms
  BY ButtonsHaveNoForm DEF Init
<1> QED
  BY <1>1, <1>2 DEF Knowledge, Ordered, FormKnows, FormFollows, SavesKnow

\* A save goes on as it was, or is one that was just clicked, with what its form knew.
LEMMA Carries ==
  ASSUME TypeOK, [Next]_vars
  PROVE  \A t \in Saves :
           \/ Pending(t)' => Pending(t) /\ save'[t].kind = save[t].kind /\ save'[t].knows = save[t].knows
                             /\ save'[t].rash = save[t].rash
           \/ /\ IsNext(t) /\ server' = server /\ \A u \in Saves \ {t} : save'[u] = save[u]
              /\ save'[t].pc = "sent"
              /\ save'[t].kind \in Forms =>
                   /\ save'[t].kind = view.tab /\ save'[t].knows = view.knows /\ save'[t].rash = view.rash
                   /\ view'.tab = view.tab /\ view'.rash = view.rash /\ view'.knows = view.knows \cup {t}
              /\ save'[t].kind \notin Forms => view' = view
<1>1. ASSUME NEW s \in Saves, ClickSave(s) \/ ClickButton(s) \/ ClickSettings(s)
      PROVE  /\ IsNext(s) /\ server' = server /\ \A u \in Saves \ {s} : save'[u] = save[u]
             /\ save'[s].pc = "sent"
             /\ save'[s].kind \in Forms =>
                  /\ save'[s].kind = view.tab /\ save'[s].knows = view.knows /\ save'[s].rash = view.rash
                  /\ view'.tab = view.tab /\ view'.rash = view.rash /\ view'.knows = view.knows \cup {s}
             /\ save'[s].kind \notin Forms => view' = view
  <2>1. ASSUME NEW kind \in Records
        PROVE  /\ Started(s, kind) \in Save
               /\ Started(s, kind).pc = "sent" /\ Started(s, kind).kind = kind
               /\ Started(s, kind).knows = view.knows /\ Started(s, kind).rash = view.rash
    <3>1. Started(s, kind) \in Save
      BY StartedType
    <3> QED
      BY <3>1, NoSaveType DEF Started, Save
  <2>2. CASE ClickSave(s)
    <3>1. view.tab \in Records /\ view.tab \in Forms
      BY <2>2, FormQuery DEF ClickSave
    <3>2. save' = [save EXCEPT ![s] = Started(s, view.tab)]
          /\ view' = [view EXCEPT !.knows = view.knows \cup {s}, !.mine = view.mine \cup {s}]
          /\ IsNext(s) /\ server' = server
      BY <2>2 DEF ClickSave
    <3>3. view'.tab = view.tab /\ view'.rash = view.rash /\ view'.knows = view.knows \cup {s}
      BY <3>2, ViewFields DEF View
    <3>4. save'[s] = Started(s, view.tab) /\ \A u \in Saves \ {s} : save'[u] = save[u]
      BY <3>2 DEF TypeOK
    <3> QED
      BY <2>1, <3>1, <3>2, <3>3, <3>4
  <2>3. CASE ClickSettings(s)
    <3>1. "settings" \in Records /\ view.tab = "settings"
      BY <2>3, ClickedSettings DEF ClickSettings
    <3> DEFINE started == [Started(s, "settings") EXCEPT !.known = query["tenant"].known,
                                                         !.snapshot = query["tenant"].value]
    <3>2. started.pc = "sent" /\ started.kind = "settings" /\ started.knows = view.knows /\ started.rash = view.rash
      BY <2>1, <3>1 DEF Save
    <3>3. save' = [save EXCEPT ![s] = started]
          /\ view' = [view EXCEPT !.knows = view.knows \cup {s}, !.mine = view.mine \cup {s}]
          /\ IsNext(s) /\ server' = server
      BY <2>3 DEF ClickSettings
    <3> HIDE DEF started
    <3>4. view'.tab = view.tab /\ view'.rash = view.rash /\ view'.knows = view.knows \cup {s}
      BY <3>3, ViewFields DEF View
    <3>5. save'[s] = started /\ \A u \in Saves \ {s} : save'[u] = save[u]
      BY <3>3 DEF TypeOK
    <3>6. "settings" \in Forms
      BY <3>1 DEF Forms, Form
    <3> QED
      BY <3>1, <3>2, <3>3, <3>4, <3>5, <3>6
  <2>4. CASE ClickButton(s)
    <3>1. PICK kind \in Buttons : save' = [save EXCEPT ![s] = Started(s, kind)]
      BY <2>4, ButtonsShown DEF ClickButton
    <3>2. kind \in Records /\ kind \notin Forms
      BY ButtonsHaveNoForm DEF Buttons
    <3>3. save'[s] = Started(s, kind) /\ \A u \in Saves \ {s} : save'[u] = save[u]
      BY <3>1 DEF TypeOK
    <3> QED
      BY <2>1, <2>4, <3>2, <3>3 DEF ClickButton
  <2> QED
    BY <1>1, <2>2, <2>3, <2>4
<1>2. ASSUME NEW s \in Saves, Written(s) \/ Errs(s) \/ Retry(s)
      PROVE  Pending(s) /\ save'[s].kind = save[s].kind /\ save'[s].knows = save[s].knows
             /\ save'[s].rash = save[s].rash /\ \A u \in Saves \ {s} : save'[u] = save[u]
  <2>1. save[s] \in Save
    BY SaveFields
  <2>2. save'[s] = [save[s] EXCEPT !.pc = "ok", !.written = TRUE] \/ save'[s] = [save[s] EXCEPT !.pc = "error"]
        \/ save'[s] = [save[s] EXCEPT !.pc = "sent", !.tries = 2]
    BY <1>2 DEF Written, Errs, Goto, Retry, TypeOK
  <2> QED
    BY <1>2, <2>1, <2>2, GoesOn DEF Save
<1>3. ASSUME NEW s \in Saves, Fail(s) \/ Succeed(s)
      PROVE  ~Pending(s)' /\ \A u \in Saves \ {s} : save'[u] = save[u]
  BY <1>3, Failed, Succeeded DEF Pending
<1>4. ASSUME NEW s \in Saves, Step(s), ~(ClickSave(s) \/ ClickButton(s) \/ ClickSettings(s))
      PROVE  \A t \in Saves : Pending(t)' => Pending(t) /\ save'[t].kind = save[t].kind
               /\ save'[t].knows = save[t].knows /\ save'[t].rash = save[t].rash
  BY <1>2, <1>3, <1>4 DEF Step, Pending
<1>5. ASSUME NEW s \in Saves, ClickSave(s) \/ ClickButton(s) \/ ClickSettings(s)
      PROVE  \A t \in Saves \ {s} : Pending(t)' => Pending(t) /\ save'[t].kind = save[t].kind
               /\ save'[t].knows = save[t].knows /\ save'[t].rash = save[t].rash
  BY <1>1, <1>5 DEF Pending
<1>6. save' = save => \A t \in Saves : Pending(t)' => Pending(t)
  BY DEF Pending
<1> QED
  BY <1>1, <1>4, <1>5, <1>6, Opened, Fetched, FromOutside DEF Next, vars

\* Counts of the state after a step, for a record that is itself named by that state.
CountsNext(w, d) ==
  (save'[w].pc \in {"sent", "ok", "error"} /\ save'[w].kind = d) \/ (save'[w].pc = "done" /\ server'[d] = w)

\* What counts has counted before, or is the save that was just clicked.
LEMMA CountsFrom ==
  ASSUME TypeOK, Mutations, [Next]_vars, NEW w \in Saves, NEW d \in Records, CountsNext(w, d)
  PROVE  Counts(w, d) \/ (At(w, "idle") /\ Pending(w)' /\ save'[w].kind = d)
<1>1. CASE Pending(w)' /\ save'[w].kind = d
  BY <1>1, Carries DEF Counts, IsNext
<1>2. CASE At(w, "done")' /\ server'[d] = w
  <2>1. ASSUME NEW s \in Saves, ClickSave(s) \/ ClickButton(s) \/ ClickSettings(s)
        PROVE  Counts(w, d)
    <3>1. /\ server' = server /\ save'[s].pc = "sent"
          /\ \A t \in Saves \ {s} : save'[t] = save[t]
      BY <2>1, Clicked, ClickedSettings
    <3> QED
      BY <1>2, <3>1 DEF Counts, At
  <2>2. ASSUME NEW s \in Saves, Written(s) \/ Errs(s) \/ Retry(s)
        PROVE  Counts(w, d)
    <3>1. w # s /\ save'[w] = save[w]
      BY <1>2, <2>2, GoesOn DEF At
    <3>2. server[d] = w
      BY <1>2, <2>2, <3>1, GoesOn DEF TypeOK, Content
    <3> QED
      BY <1>2, <3>1, <3>2 DEF Counts, At
  <2>3. ASSUME NEW s \in Saves, Fail(s) \/ Succeed(s)
        PROVE  Counts(w, d)
    <3>1. server[d] = w
      BY <1>2, <2>3, Failed, Succeeded
    <3>2. CASE w = s
      <4>1. save[w].kind = d
        BY <3>1 DEF Mutations
      <4> QED
        BY <2>3, <3>2, <4>1, OnlyItself DEF Counts
    <3>3. CASE w # s
      <4>1. save'[w] = save[w]
        BY <2>3, <3>3, OnlyItself
      <4> QED
        BY <1>2, <3>1, <4>1 DEF Counts, At
    <3> QED
      BY <3>2, <3>3
  <2>4. ASSUME NEW o \in Others, Outside(o)
        PROVE  Counts(w, d)
    BY <1>2, <2>4, FromOutside DEF Counts, At
  <2>5. CASE server' = server /\ save' = save
    BY <1>2, <2>5 DEF Counts, At
  <2> QED
    BY <2>1, <2>2, <2>3, <2>4, <2>5, Opened, Fetched DEF Next, Step, vars
<1> QED
  BY <1>1, <1>2 DEF CountsNext, Pending, At

\* What a form is filled with, from a query that is true, is all that counts.
LEMMA FillKnows ==
  ASSUME TypeOK, Mutations, NEW tab \in Forms, NEW value,
         ~PendingFor(tab), value = server[tab] \/ Untold(server[tab], Form[tab].query)
  PROVE  \A w \in Saves : Counts(w, tab) => w = value
<1> SUFFICES ASSUME NEW w \in Saves, Counts(w, tab)
             PROVE  w = value
  OBVIOUS
<1>1. At(w, "done") /\ server[tab] = w
  BY DEF Counts, PendingFor
<1>2. tab \in Records /\ tab \notin Unheard(Form[tab].query)
  BY FormQuery
<1>3. save[w].kind = tab
  BY <1>1, <1>2 DEF Mutations
<1> QED
  BY <1>1, <1>2, <1>3 DEF Untold

LEMMA OrderedNext == TypeOK /\ Ordered /\ [Next]_vars => Ordered'
<1> SUFFICES ASSUME TypeOK, Ordered, [Next]_vars PROVE Ordered'
  OBVIOUS
<1>1. ASSUME NEW s \in Saves, ClickSave(s) \/ ClickButton(s) \/ ClickSettings(s)
      PROVE  Ordered'
  <2>1. IsNext(s) /\ save'[s].pc = "sent" /\ \A t \in Saves \ {s} : save'[t] = save[t]
    <3>1. IsNext(s)
      BY <1>1 DEF ClickSave, ClickButton, ClickSettings
    <3> QED
      BY <1>1, <3>1, Clicked, ClickedSettings
  <2> QED
    BY <2>1, Writers DEF Ordered, IsNext, At
<1>2. ASSUME \A t \in Saves : At(t, "idle")' <=> At(t, "idle")
      PROVE  Ordered'
  BY <1>2 DEF Ordered
<1>3. ASSUME NEW s \in Saves, Written(s) \/ Errs(s) \/ Retry(s) \/ Fail(s) \/ Succeed(s)
      PROVE  \A t \in Saves : At(t, "idle")' <=> At(t, "idle")
  BY <1>3, OnlyItself DEF At, Pending
<1>4. save' = save => \A t \in Saves : At(t, "idle")' <=> At(t, "idle")
  BY DEF At
<1> QED
  BY <1>1, <1>2, <1>3, <1>4, Opened, Fetched, FromOutside DEF Next, Step, vars

LEMMA SavesKnowNext == IInv /\ Knowledge /\ [Next]_vars => SavesKnow'
<1> SUFFICES ASSUME IInv, Knowledge, [Next]_vars,
                    NEW s \in Saves, Pending(s)', save'[s].kind \in Forms, ~save'[s].rash,
                    NEW w \in Saves, w < s, CountsNext(w, save'[s].kind)
             PROVE  w \in save'[s].knows
  BY DEF SavesKnow, Counts, CountsNext, Pending, At
<1>0. TypeOK /\ Mutations /\ Ordered /\ FormKnows /\ SavesKnow
  BY DEF IInv, Knowledge
<1>1. save'[s].kind \in Records
  BY FormQuery
<1>2. Counts(w, save'[s].kind) \/ At(w, "idle")
  BY <1>0, <1>1, CountsFrom DEF Counts, Pending, At
<1>3. CASE Pending(s) /\ save'[s].kind = save[s].kind /\ save'[s].knows = save[s].knows /\ save'[s].rash = save[s].rash
  <2>1. ~At(w, "idle")
    BY <1>0, <1>3 DEF Ordered, Pending, At
  <2> QED
    BY <1>0, <1>2, <1>3, <2>1 DEF SavesKnow
<1>4. CASE IsNext(s) /\ save'[s].kind = view.tab /\ save'[s].knows = view.knows /\ save'[s].rash = view.rash
  <2>1. ~At(w, "idle")
    BY <1>4 DEF IsNext
  <2> QED
    BY <1>0, <1>2, <1>4, <2>1 DEF FormKnows
<1> QED
  BY <1>0, <1>3, <1>4, Carries

LEMMA FormKnowsNext == IInv /\ Knowledge /\ [Next]_vars => FormKnows'
<1> SUFFICES ASSUME IInv, Knowledge, [Next]_vars, view'.tab \in Forms, ~view'.rash,
                    NEW w \in Saves, CountsNext(w, view'.tab)
             PROVE  w \in view'.knows
  BY DEF FormKnows, Counts, CountsNext, Pending, At
<1>0. TypeOK /\ Mutations /\ FormKnows /\ FormFollows /\ Freshness
  BY DEF IInv, Knowledge
<1>1. view'.tab \in Records
  BY FormQuery
<1>2. Counts(w, view'.tab) \/ (At(w, "idle") /\ Pending(w)' /\ save'[w].kind = view'.tab)
  BY <1>0, <1>1, CountsFrom DEF Counts, Pending, At
<1>3. CASE view' = view
  <2>1. At(w, "idle") /\ Pending(w)' /\ save'[w].kind = view'.tab => w \in view'.knows
    BY <1>0, Carries DEF Pending, At
  <2> QED
    BY <1>0, <1>2, <1>3, <2>1 DEF FormKnows
<1>4. ASSUME NEW s \in Saves, ClickSave(s) \/ ClickSettings(s)
      PROVE  w \in view'.knows
  <2>1. view' = [view EXCEPT !.knows = view.knows \cup {s}, !.mine = view.mine \cup {s}]
    BY <1>4 DEF ClickSave, ClickSettings
  <2>2. view'.tab = view.tab /\ view'.rash = view.rash /\ view'.knows = view.knows \cup {s}
    BY <1>0, <2>1, ViewFields DEF View
  <2>3. At(w, "idle") /\ Pending(w)' => w = s
    BY <1>0, <1>4, Clicked, ClickedSettings DEF At, Pending
  <2> QED
    BY <1>0, <1>2, <2>2, <2>3 DEF FormKnows
<1>5. ASSUME NEW tab \in Tabs, Open(tab)
      PROVE  w \in view'.knows
  <2>1. tab \in Forms /\ view' = Fill(tab)
    BY <1>5, ButtonsHaveNoForm DEF Open
  <2> DEFINE q == Form[tab].query
  <2>2. view'.tab = tab /\ view'.knows = (IF query[q].known THEN {query[q].value[tab]} ELSE {})
        /\ view'.rash = (Doubtful(q) \/ PendingFor(tab))
    BY <2>1 DEF Fill
  <2>3. q \in Queries /\ tab \in Shows[q] \cap Records
    BY <2>1, FormQuery
  <2>4. query[q].known /\ ~query[q].stale /\ query[q].fetch = "none" /\ q \notin past.outdated /\ ~PendingFor(tab)
    BY <2>2 DEF Doubtful
  <2>5. ~Optimistic(q, tab)
    BY <2>4 DEF Optimistic, Setting, PendingFor
  <2>6. query[q].value[tab] = server[tab] \/ Untold(server[tab], q)
    BY <1>0, <2>3, <2>4, <2>5 DEF Freshness, FreshIsTrue
  <2>7. Counts(w, tab)
    BY <1>0, <1>2, <1>5, <2>2, Opened DEF Pending, At
  <2> QED
    BY <1>0, <2>1, <2>2, <2>4, <2>6, <2>7, FillKnows
<1>6. ASSUME NEW q \in Queries, FetchLand(q), view' # view
      PROVE  w \in view'.knows
  <2> DEFINE new == query[q].read
             knows == IF query[q].known /\ query[q].value = new THEN view.knows ELSE {new[view.tab]}
             rash == query[q].fetch = "late" \/ PendingFor(view.tab)
  <2>1. /\ view.tab \in Forms /\ Form[view.tab].query = q
        /\ Form[view.tab].follows \/ ~query[q].known
        /\ view' = [view EXCEPT !.rash = rash, !.knows = knows]
        /\ query[q].fetch \in {"read", "late"}
    BY <1>6 DEF FetchLand
  <2>2. view'.tab = view.tab /\ view'.rash = rash /\ view'.knows = knows
    <3> HIDE DEF rash, knows
    <3> QED
      BY <1>0, <2>1, ViewFields DEF View
  <2>3. query[q].fetch = "read" /\ ~PendingFor(view.tab)
    BY <2>1, <2>2
  <2>4. view.tab \in Shows[q] \cap Records
    BY <2>1, FormQuery
  <2>5. new[view.tab] = server[view.tab] \/ Untold(server[view.tab], q)
    BY <1>0, <2>3, <2>4 DEF Freshness, ReadIsTrue
  <2>6. Counts(w, view.tab)
    BY <1>0, <1>2, <1>6, <2>2, Fetched DEF Pending, At
  <2>7. w = new[view.tab]
    BY <1>0, <2>1, <2>3, <2>5, <2>6, FillKnows
  <2>8. new[view.tab] \in knows
    BY <1>0, <2>1 DEF FormFollows
  <2> QED
    BY <2>2, <2>7, <2>8
<1>7. ASSUME NEW s \in Saves, Succeed(s), view' # view
      PROVE  FALSE
  BY <1>7, ButtonsHaveNoForm DEF Succeed
<1>8. \A s \in Saves : ClickButton(s) \/ Written(s) \/ Errs(s) \/ Retry(s) \/ Fail(s) => view' = view
  BY DEF ClickButton, Written, Errs, Retry, Fail
<1>9. (\A q \in Queries : FetchRead(q) \/ FetchFails(q) => view' = view) /\ (\A o \in Others : Outside(o) => view' = view)
  BY DEF FetchRead, FetchFails, Outside
<1> QED
  BY <1>3, <1>4, <1>5, <1>6, <1>7, <1>8, <1>9 DEF Next, Step, vars

LEMMA FormFollowsNext == IInv /\ Knowledge /\ [Next]_vars => FormFollows'
<1> SUFFICES ASSUME IInv, Knowledge, [Next]_vars, view'.tab \in Forms, Form[view'.tab].follows,
                    query'[Form[view'.tab].query].known
             PROVE  query'[Form[view'.tab].query].value[view'.tab] \in view'.knows
  BY DEF FormFollows
<1>0. TypeOK /\ FormFollows
  BY DEF IInv, Knowledge
<1> DEFINE p == Form[view'.tab].query
<1>1. p \in Queries \ {"tenant"}
  BY FormQuery
<1>2. CASE /\ view'.tab = view.tab /\ view.knows \subseteq view'.knows
           /\ query'[p].known = query[p].known /\ query'[p].value = query[p].value
  BY <1>0, <1>2 DEF FormFollows
<1>3. ASSUME NEW s \in Saves, ClickSave(s) \/ ClickSettings(s)
      PROVE  query'[p].value[view'.tab] \in view'.knows
  <2>1. view' = [view EXCEPT !.knows = view.knows \cup {s}, !.mine = view.mine \cup {s}]
    BY <1>3 DEF ClickSave, ClickSettings
  <2>2. view'.tab = view.tab /\ view'.knows = view.knows \cup {s}
    BY <1>0, <2>1, ViewFields DEF View
  <2>3. query'[p].known = query[p].known /\ query'[p].value = query[p].value
    BY <1>0, <1>1, <1>3, Clicked, ClickedSettings DEF AtMostDropped
  <2> QED
    BY <1>2, <2>2, <2>3
<1>4. ASSUME NEW s \in Saves, ClickButton(s) \/ Written(s) \/ Errs(s) \/ Retry(s) \/ Fail(s)
      PROVE  query'[p].value[view'.tab] \in view'.knows
  <2>1. view' = view
    BY <1>4 DEF ClickButton, Written, Errs, Retry, Fail
  <2>2. query'[p].known = query[p].known /\ query'[p].value = query[p].value
    BY <1>0, <1>1, <1>4, Clicked, GoesOn, Failed DEF AtMostDropped
  <2> QED
    BY <1>2, <2>1, <2>2
<1>5. ASSUME NEW s \in Saves, Succeed(s)
      PROVE  query'[p].value[view'.tab] \in view'.knows
  <2>1. view' = view
    BY <1>5, ButtonsHaveNoForm DEF Succeed
  <2>2. query'[p].known = query[p].known /\ query'[p].value = query[p].value
    BY <1>0, <1>1, <1>5, Succeeded
  <2> QED
    BY <1>2, <2>1, <2>2
<1>6. ASSUME NEW tab \in Tabs, Open(tab)
      PROVE  query'[p].value[view'.tab] \in view'.knows
  <2>1. tab \in Forms /\ view' = Fill(tab)
    BY <1>6, ButtonsHaveNoForm DEF Open
  <2>2. view'.tab = tab /\ view'.knows = (IF query[p].known THEN {query[p].value[tab]} ELSE {})
    BY <2>1 DEF Fill
  <2>3. query'[p].known = query[p].known /\ query'[p].value = query[p].value
    BY <1>0, <1>1, <1>6, Opened
  <2> QED
    BY <2>2, <2>3
<1>7. ASSUME NEW q \in Queries, FetchLand(q)
      PROVE  query'[p].value[view'.tab] \in view'.knows
  <2>1. view'.tab = view.tab
    BY <1>0, <1>7, ViewFields DEF FetchLand, View
  <2>2. CASE q = p
    <3> DEFINE knows == IF query[q].known /\ query[q].value = query[q].read THEN view.knows
                        ELSE {query[q].read[view.tab]}
    <3>1. view'.knows = knows
      BY <1>0, <1>7, <2>1, <2>2, ViewFields DEF FetchLand, View
    <3>2. query'[p].value = query[p].read
      BY <1>0, <1>7, <2>2, Fetched
    <3> QED
      BY <1>0, <2>1, <2>2, <3>1, <3>2 DEF FormFollows
  <2>3. CASE q # p
    <3>1. query'[p] = query[p]
      BY <1>0, <1>1, <1>7, <2>3, Fetched
    <3>2. view' = view
      BY <1>7, <2>1, <2>3 DEF FetchLand
    <3> QED
      BY <1>2, <3>1, <3>2
  <2> QED
    BY <2>2, <2>3
<1>8. ASSUME NEW q \in Queries, FetchRead(q) \/ FetchFails(q)
      PROVE  query'[p].value[view'.tab] \in view'.knows
  <2>1. view' = view
    BY <1>8 DEF FetchRead, FetchFails
  <2>2. query'[p].known = query[p].known /\ query'[p].value = query[p].value
    BY <1>0, <1>1, <1>8, Fetched
  <2> QED
    BY <1>2, <2>1, <2>2
<1>9. CASE UNCHANGED <<query, view>>
  BY <1>2, <1>9
<1> QED
  BY <1>3, <1>4, <1>5, <1>6, <1>7, <1>8, <1>9 DEF Next, Step, vars, Outside

\* A save of a whole form never undoes an earlier save of this page whose success was
\* seen, unless the form was filled while its data was stale, being fetched or being
\* saved, for any records and any number of saves.  (The forms of the pages send
\* all they have, and no version.)
THEOREM SavesRevertNothingUnseen == Spec => NoSilentRevert
<1> DEFINE Revert ==
      \A s \in Saves : server'[save[s].kind] = s /\ server[save[s].kind] # s /\ save[s].kind \in Forms =>
        LET w == server[save[s].kind] IN
          w \in Saves /\ w < s /\ At(w, "done") => w \in save[s].knows \/ save[s].rash
<1>1. IInv /\ Knowledge /\ [Next]_vars => Knowledge'
  BY OrderedNext, SavesKnowNext, FormKnowsNext, FormFollowsNext DEF IInv, Knowledge
<1>2. IInv /\ Knowledge /\ [Next]_vars => [Revert]_vars
  <2> SUFFICES ASSUME IInv, Knowledge, [Next]_vars, NEW s \in Saves,
                      server'[save[s].kind] = s, server[save[s].kind] # s, save[s].kind \in Forms,
                      server[save[s].kind] \in Saves, server[save[s].kind] < s, At(server[save[s].kind], "done"),
                      ~save[s].rash
               PROVE  server[save[s].kind] \in save[s].knows
    OBVIOUS
  <2>1. save[s].kind \in Records
    BY FormQuery
  <2>2. \A d \in Records : server'[d] = server[d] \/ Pending(server'[d]) \/ server'[d] \in Others
    <3>1. ASSUME NEW t \in Saves, Step(t)
          PROVE  \A d \in Records : server'[d] = server[d] \/ Pending(server'[d])
      <4>1. CASE Written(t) \/ Errs(t) \/ Retry(t)
        BY <4>1, GoesOn DEF IInv, TypeOK, Content
      <4> QED
        BY <3>1, <4>1, Clicked, ClickedSettings, Failed, Succeeded DEF Step, IInv
    <3>2. ASSUME NEW o \in Others, Outside(o)
          PROVE  \A d \in Records : server'[d] = server[d] \/ server'[d] \in Others
      BY <3>2, FromOutside DEF IInv
    <3> QED
      BY <3>1, <3>2, Opened, Fetched DEF IInv, Next, vars
  <2>3. Pending(s)
    BY <2>1, <2>2, Writers
  <2> QED
    BY <2>3 DEF Knowledge, SavesKnow, Counts
<1> QED
  BY <1>1, <1>2, Inductive, KnowledgeInit, PTL DEF Spec, NoSilentRevert

=============================================================================

# Verification of PEB CRM Super Admin

TLA+ models of the Super Admin console, its back end and its browser client,
checked by TLC on small instances, and theorems about them proved with TLAPS for
every instance.

Contents: [the system](#the-system), [the models](#the-models),
[the runs](#the-runs), [the proofs](#the-proofs),
[findings](#where-the-code-and-its-words-part),
[behaviours worth knowing](#behaviours-worth-knowing),
[not modelled](#not-modelled).

## The system

Super Admin is the control plane of a CRM. A Next.js front end talks to one
NestJS process (`backend/src`), which works on **two PostgreSQL databases**: its
own *platform* database (tenants, platform users, sessions, roles) and the
*CRM* database (organizations, CRM users, roles, module switches). No
transaction spans the two. The process is single-threaded; concurrency is that of
request handlers, which interleave at every `await`, of the CRM's own
application, which works on the same rows, and of browser tabs, which share a
cookie and the local storage.

| Component | State | Operations | Hard because | Module |
| --- | --- | --- | --- | --- |
| Tenant lifecycle, `tenants.service.ts` | `Tenant` row (version, status, syncState, crmOrganizationId, domain), CRM `Organization` and `User` rows | create, retryProvisioning, update, remove, restore, suspend, unsuspend | two databases, compensation after failure, retries that race, a crash between steps, optimistic versions used by some writes and not by others | TenantLifecycle, TenantLink |
| Platform authentication, `auth.service.ts`, `session.service.ts`, `login-protection.service.ts`, `jwt-auth.guard.ts` | `PlatformUser` row (password, version, lock), `PlatformSession`, `RefreshToken`, access tokens held by clients | login, refresh, logout, changePassword, resetPassword, the guard | every decision is made on a read that may be old; sessions and tokens are written separately | PlatformAuth |
| Platform users and security, `users.service.ts`, `security.service.ts` | the same rows, and the roles of an account | create, update, remove, restore, suspend, unsuspend, unlock, reset, forceLogout, revokeSession, assignRoles, IP blocks | they race with the account's own requests and with each other | PlatformAuth (sessions), PlatformRbac (rows and roles) |
| Platform roles, `roles.service.ts`, `permissions.guard.ts` | `PlatformRole`, `RolePermission`, `PlatformUserRole` | create, update, remove, assignPermissions | differences to an old read, check then act, soft deletes that no guard looks at | PlatformRbac |
| Tenant modules, `tenant-ops.service.ts` 121-293 | `Tenant.modulesEnabled`, `TenantModuleOverride`, CRM `OrganizationModule` | getModules, updateModules | platform transaction, CRM transaction, compensation from an old read | TenantModules |
| Tenant users, `tenant-ops.service.ts` 368-674 | CRM `User`, `Session`, `RefreshToken`, and the status of the tenant in both databases | create, update, enable, disable, reset, forceLogout, delete, revoke a session | columns written back from an old read, race with suspend and unsuspend of the whole tenant, operations that write the status in one database only | TenantUsers |
| Tenant roles and permissions, `tenant-ops.service.ts` 676-1361, `permission-scope.service.ts` | CRM `Role`, assignments, overrides, the tenant's permission pool, per-user caches | assign, remove, override, create, clone, delete, set permissions, set the pool | check then act across databases, READ COMMITTED transactions that delete and insert, cache invalidation | TenantRoles |
| Browser client, `lib/api.ts`, `AuthContext.tsx`, `RouteGuard.tsx` | access token in localStorage, refresh token in a cookie, the refresh in flight, the user, the page | request, refreshAccessToken, login, logout, fetchUser, the redirect of RouteGuard | single flight per tab, late 401s, several tabs, logout during a refresh, a page that is loaded while the API fails | BrowserSession |
| Console pages, `lib/queries.ts`, `tenants/[id]/page.tsx`, `roles/page.tsx`, `settings/page.tsx` | the query cache, the forms, the mutations under way | open a tab or dialog, save, refetch, invalidate, optimistic update and its undoing | forms that send all they have and no version, answers out of order, retries | Console |
| Rate limiter, `rate-limit.guard.ts` | a map of windows | canActivate, cleanup | boundaries of a window, a timer | - |
| Audit, mail, monitoring, health, configuration, lists and dashboards | one row or none | inserts, reads, formatting | - | - |

Interactions: every HTTP request passes the guard (reads the account), then a
controller calls one service method. `TenantsService` and `TenantOpsService`
write both databases; suspending a tenant disables its CRM users and revokes
their sessions; the account operations of `UsersService` and `SecurityService`
write the rows that `AuthService` reads. The front end refreshes its access
token through `AuthService.refresh`. Nothing else is shared; there are no
queues, workers or events.

What makes each component correct:

- *lifecycle*: one organization per tenant and one tenant per organization, a
  link that never changes, no tenant left SYNCING, no organization left behind,
  no update lost between conditional writes, status changes that reach the CRM
  one at a time;
- *authentication*: a password change ends the sessions before it, a closed
  session stays closed, rotation of refresh tokens leaves no session without one;
- *platform roles and users*: nobody who is deleted is let in, a deleted role
  grants nothing, racing replacements leave what was asked for, no form is
  written over one that its author has not seen;
- *modules*: platform and CRM agree when nothing is in flight, a failed update
  changes nothing;
- *tenant users*: a reset ends the old tokens, a suspension the sessions, an unlocked
  user stays unlocked, no password leaves the history, no user stays without his role, both
  databases agree on whether the tenant is suspended;
- *tenant roles*: permissions within the pool and, but for two ways that the code leaves open,
  within what their givers have, one role each, caches that do not outlive the rows they were computed from;
- *browser*: nobody is sent to the login page while his session is open without one of a few
  named reasons, a logout leaves no token, every call ends;
- *console*: what counts as fresh is true, a failed save leaves no trace, a save does not
  undo an earlier one unseen.

`PROJECT.json` lists every hazard at its line with the properties that cover it.

## The models

An action is **one awaited call of one handler** with the synchronous code up to
the next `await`. A handler is a record `req[r]`: `pc` names the await it is at,
the other fields are its local variables (`seen` is the row an earlier read
returned, so a decision on an old read is one on `req[r].seen`). `Requests` is the set
of requests of a behaviour; each is served at most once. It bounds the
behaviours, and no counter needs a bound besides: a version grows by at most one
per write. Audit records, which nothing reads, are left out but for the place in TenantUsers
where writing one can fail after the operation has been done.

### TenantLink (abstract)

What provisioning promises, with requests and failures abstracted away: `owner`,
the tenant an organization was created for, and `link`, a tenant's
`crmOrganizationId`. `Provision` gives a tenant its only organization, `Link`
writes the link once, to that organization.

### TenantLifecycle

`tenant`, `org`, `user` are the rows of the two databases, by their unique
columns (slug, organization id, e-mail); a tenant row of version 0 does not exist.
The correspondence, with the lines in `PROJECT.json`:

| Code | Actions |
| --- | --- |
| `create` | CreateFindSlug, CreateFindDomain, CreateWrite, then provisioning |
| `retryProvisioning` | RetryRead, RetryMark, then provisioning |
| `runProvisioning` and both callers' catch blocks | ProvisionCommit, ProvisionRollback, LinkWrite, LinkWriteFails, MarkFailed, MarkLinkFailed |
| `update` | UpdateRead, UpdateFindDomain, UpdateWrite, StaleVersion |
| `remove`, `restore` | RemoveRead, RemoveWrite, RestoreRead, RestoreWrite |
| `suspend` | SuspendRead, SuspendWrite, SuspendCrm, CrmStatusRollback, SuspendRevert |
| `unsuspend` | UnsuspendRead, UnsuspendWrite, UnsuspendCrm, CrmStatusRollback, UnsuspendRevert |
| a rejected platform call, a dying process | PlatformCallFails, Crash |

`Faults` says which faults may happen. The CRM transaction of `runProvisioning`
(organization, system roles, module rows, administrator) is one action, since it
commits as a whole; roles and module rows are not represented. A commit whose
answer is lost (the CRM has committed and the client sees an error) is not
modelled. The retry of a conditional write with the client's own `version` is
StaleVersion: versions only grow, so an older one never matches.

Names, plan limits, contact data and the other columns no property reads are
left out.

### PlatformAuth

One account with its sessions, refresh tokens and the access tokens that clients
hold. A request makes at most one of each and at most one password, named after
the request; `First` names those of a login before the behaviour. The bcrypt
comparison is a Boolean chosen at the first read, with the hash that read
returned: a login that read the old hash goes on after a password change. `born` is a history field: the password the account had when the
session was made.

| Code | Actions |
| --- | --- |
| `login`, `recordAttempt` | LoginRead, LoginCheck, LoginSession, LoginToken, LoginReset, FailureRead, FailureWrite |
| passing of `lockedUntil` | LockTimePasses |
| `refresh`, `rotateRefresh` | RefreshRead, RefreshRecheck, RefreshRotate, RefreshIssue |
| `JwtAuthGuard` in front of logout, changePassword | Guard |
| `logout`, `SecurityService.revokeSession` | RevokeSession, AdminFindSession |
| `changePassword`, `resetPassword`, the administrator's reset | ChangeRead, ResetRead, PasswordWrite, CloseSessions, RevokeTokens |
| suspend, unsuspend, remove, restore, unlock, forceLogout | AdminRead, AdminWrite, CloseSessions |
| a rejected call or a dying process | Abort |

Not in it: expiry of tokens and sessions, and blocked IP addresses. `users.update`, whose
`isActive` sets the flag of suspend and unsuspend and closes no session, is in PlatformRbac.

### TenantModules

One tenant's switches: `enabled` (`Tenant.modulesEnabled`), `override` and `crm`
(the rows of the two databases; a switch without a row is "unset"), and `link`, how
far provisioning has come. `began` is a history variable: the rows when a handler
began, and whether anybody else has written since.

| Code | Actions |
| --- | --- |
| `updateModules`, its two reads | UpdateRead, OverridesRead |
| its platform transaction | PlatformCommit, PlatformRollback |
| its CRM transaction | CrmCommit, CrmRollback |
| the compensating transaction | Compensate, CompensateFails |
| `runProvisioning` and the write of the link | Provision, LinkWrite |
| a dying process | Crash |

A transaction is one action: the first two write the rows they touch without
reading them, the compensation reads the overrides after it has locked the tenant's row,
which every update of the modules writes; all hold their locks until they commit. The clearing of
`lastPermissionCalculation` in the CRM transaction is left out; what that column is
for is in TenantRoles. A module is one value on both sides, as `normalizeModuleKey` maps no
two keys of the catalog to one.

### TenantUsers

The CRM's `user` rows by e-mail, its `session`s, and the `status` of the tenant on both
sides (`status`, `org`). A handler reads the tenant, reads the user, writes, and records:
four calls, four actions. `seen` is the row it has read. A write goes by the id of that row
(`Same`): a user who was deleted and created again under his e-mail is another row.
`past` remembers who was enabled since a suspension, who was unlocked, which
passwords were replaced, and which changes overlapped.

The status has five writers besides the compensations: `suspend` and `unsuspend`, which go on to the CRM, and
`update`, `remove` and `restore`, which do not. A tenant begins with the status of its
create, and its organization Active. `apart` says that the last change of the status was
of the second kind, `crossed` that a change was made while a suspend or an unsuspend was
between the two databases, or that one died there.

| Code | Actions |
| --- | --- |
| `ensureTenant`, the read of the user | TenantRead, RowRead |
| `createTenantUser` | Insert, SystemRoleRead, Assign |
| `updateTenantUser`, `setTenantUserActive` | Update, Enable, Disable |
| `resetTenantUserPassword` | Reset |
| `forceLogoutTenantUser`, `revokeTenantSession`, `softDeleteTenantUser` | ForceLogout, RevokeSession, Delete |
| `TenantsService.suspend`, `unsuspend` | TenantRead, PlatformWrite, Conflict, CrmSuspend, CrmUnsuspend, CrmRollback, Compensate |
| `TenantsService.update`, `remove`, `restore` | TenantRead, Edit, Conflict, SoftDelete, Restore |
| `AuditService.record`, a rejected call or a dying process | Record, Fail |
| the CRM's application (external) | CrmLogin, CrmLock |

`Update` changes no modelled column: name, mobile, department and designation are
written by it alone. The operations on the tenant are those of TenantLifecycle without
provisioning, with the rows of the users, which that module leaves out, and without the columns
that only `update` writes.

### TenantRoles

Roles of the organization by `name`, assignments (`holds`), overrides of permissions and
modules (`rows`), the tenant's `pool`, and the `cache` that the CRM keeps of a user's
permissions. `Effective` is `getEffectivePermissionsForUser`. A row carries the request
that wrote it: the DELETE of a READ COMMITTED transaction sees the rows that are
committed when it begins (`clearedRoles`, `cleared`), and a row that another request
inserts before the commit stays, or makes the INSERT fail when the unique key is the same.
`owner` are the users whose own role is OWNER, by the code of the role they were given
(`Owning`); `System` are the roles that provisioning made. `Founders` are the users of the
beginning, and every other user has to be created first.

| Code | Actions |
| --- | --- |
| `createTenantUser`, as far as its role goes | JoinInsert, JoinRoleRead, JoinAssign |
| `assignTenantUserRole`, `removeTenantUserRole` | RoleRead, Check, AssignDelete, AssignCommit, Remove |
| `setTenantUserPermissions`, `setTenantUserModules` | Check, OverridesDelete, OverridesCommit |
| `createTenantRole`, `cloneTenantRole`, `deleteTenantRole` | Create, CreateInsert, CloneRead, CloneInsert, EditedRoleRead, DeleteCount, DeleteCommit |
| `setTenantRolePermissions` | EditedRoleRead, Check, RoleWrite, HoldersRead, Clear |
| `setTenantPermissionPool` | PoolWrite |
| `validatePermissionsInPool`, `validateActorCanGrant` | MayGrant, in Check |
| the CRM's resolver (external), a rejected call or a dying process | CrmCalculate, Fail |

The two reads of the pool that the two validations make are one. `updateTenantRole` and
inheritance are left out, and so is the deletion of a user: it takes rows away, and every
property is a bound on what a user's rows give.

### PlatformRbac

The rows of `UsersService` and `RolesService` and what the guards make of them
(`Accepts`, `Permissions`). `past` keeps, for each user and role, the bodies that what
it has now may come from: that of the last change and those of the changes that
overlapped it.

| Code | Actions |
| --- | --- |
| `UsersService.create`, `update` | CreateUserRead, InsertUser, UpdateUserRead, UpdateUser |
| `remove`, `restore`, `suspend`, `unsuspend` | SwitchRead, SwitchWrite |
| `assignRoles` | HeldRead, Drop, Give |
| `RolesService.create`, `update`, `assignPermissions` | CreateRoleRead, InsertRole, RoleRead, UpdateRole, PermsRead, Replace |
| `RolesService.remove` | RoleRead, CountHolders, DeleteRole |
| a refusing lookup, a rejected call, a dying process | Refuse, Fail |

### BrowserSession

Tabs that share a cookie (refresh token) and the local storage (access token); each tab
has its own `refreshInFlight`. The two tokens of an answer have one number. An answer of the
server comes in two steps: the browser sets the cookie, then the script runs. The server
is the part of PlatformAuth that a browser sees: `FlightCheck` and `FlightRotate` are the check
and the rotation of `AuthService.refresh`. `barred` is an account that the guard refuses and `refresh`
does not, which is what makes the bound on retries matter.

A tab is on a page of the console or on that of the login. `Guarded` is the effect of
RouteGuard, which stands around all of `/super-admin`: a console page that is done loading and has
no user gives way to the login page. It follows every step that changes the user: the end of
`fetchUser`, of a login and of a logout. `GiveUp` is `handleUnauthorized`, which leaves by a
load of the login page (`leaving`, then Unload). A load, also one by the user (Open), takes the
calls of the page with it: the server has served them by then, or does not serve them at all.

| Code | Actions |
| --- | --- |
| `request`, its first 401, its retry, its end | Begin, Unauthorized, Retry, Finish |
| `refreshAccessToken` and those who wait for it | FlightCookie, FlightEnds |
| `handleUnauthorized`, the load of the login page; the user's loads | GiveUp, Unload; Open |
| `AuthContext.login`, `logout`, `fetchUser` | Begin, BeginLogout, FetchUser, FetchNone, Finish (`After`) |
| `RouteGuard` | Guarded, in FetchNone, Finish and GiveUp; Shown, in Begin and BeginLogout |
| the server, the network and the cookie interceptor | Serve, ServeLogin, ServeLogout, ServeFails, FlightCheck, FlightRotate, FlightFails, CallCookie |
| expiry, other administrators | Expire, CloseSessions |

### Console

A record of the server is the write that it has now; a query has cached, for each record
that its answer is made of, the write that it shows. A form knows the writes it was filled
with. `Shows`, `Invalidates`, `Form`, `ButtonsOn` and `Mounted` are tables read off the API,
the hooks and the pages: which records an answer is made of (`OfTenant` and the others,
one for each route), which queries a mutation invalidates (all those whose keys begin
with the key that it names), which form follows its query, closes on success, waits for
its own save, or opens before its data is there, and which dialogs have no data at all
(`TenantDialogs`, `RoleDialog`).

A behaviour stays on its page: leaving it for the list and coming back mounts new
mutations and is not modelled. Lists are one page long.

| Code | Actions |
| --- | --- |
| opening a tab or a dialog | Open |
| the buttons, `onMutate` of the settings | ClickSave, ClickSettings, ClickButton (`Cancelled`: `onMutate` of a new role) |
| `mutationFn` on the server, its errors, its retry | Written, Errs, Retry |
| `onSuccess`, `onError` | Succeed, Fail |
| `useQuery` | FetchRead, FetchLand, FetchFails |
| another administrator | Outside |

React Query is external, and modelled by what the pages use of it; the head of the
module says which of its rules.

## The runs

| Run | Instance | Shows |
| --- | --- | --- |
| `lifecycle_faults` | 2 tenants, 3 organization ids, 2 e-mails, 1 domain, 3 requests of any kind, every fault; about 113,000 states | `TypeOK`, `NoLostUpdate`, `OneStatusChangePerVersion`, and that provisioning implements `TenantLink` |
| `lifecycle_settles` | 1 tenant, 4 requests among create, retry and suspend, CRM faults only; about 29,000 states | `SyncingIsAttended`, `NoOrphanOrganization`, and under fairness `RequestsAreAnswered`, `SyncSettles` |
| `auth_sessions` | 1 account, 3 requests of any kind, lock after 2 failures; about 396,000 states | `PasswordChangeEndsOldSessions`, `StrandedOnlyByRevocation`, `OldPasswordsAccessRefused`, `DrainedSessionsStayClosed` |
| `modules_updates` | 1 tenant, 2 modules, 2 updates with every body, provisioning, every fault; about 58,000 states | `TypeOK`, `SerialUpdatesAgree`, `AllOrNothing` |
| `tenant_users` | 1 user, 3 requests of any kind on him or on the tenant, the CRM's logins and locks; about 1,264,000 states | `TypeOK`, `ResetEndsOldTokens`, `SuspensionEndsSessions`, `UnlockHolds`, `HistoryKeepsReplaced`, `NoRolelessUser`, `StatusesAgree` |
| `tenant_roles` | a user and one who may be created, 3 roles, 1 permission of 1 module, 2 kinds of administrator, 2 requests of any kind; about 1,907,000 states | `CacheFollowsRights`, `OneRolePerUser`, `NobodyHoldsDeletedRole`, `GivenWithinPool`, `NoOtherEscalation` |
| `platform_rbac` | 1 user, 2 roles, 2 permissions, 2 requests of any kind; about 63,000 states | `DeletedUserIsOut`, `DeletedRoleGrantsNothing`, `RolePermissionsAsAsked`, `UserRolesAsAsked`, `NoLostAccountUpdate` |
| `browser_session` | 2 tabs, 2 calls, 3 tokens, loads, expiry and revocation at any time; about 326,000 states | `LogoutSticks`, `NoNeedlessLogin`, and under fairness `CallsEnd` |
| `console_tenant` | settings, status and overrides of a tenant, 2 saves, 1 other administrator; about 475,000 states | `FreshMeansTrue`, `NoPhantomSettings`, `NoSilentRevert` |
| `console_platform` | permissions of a role and a switch of the platform, 2 saves, 1 other administrator; about 1,168,000 states | `FreshMeansTrue`, `NoSilentRevert` |
| `honest_sync_state`, `refresh_rotates_once` | the smallest instance of the race | a disagreement between the code and its words, [below](#where-the-code-and-its-words-part) |

`TypeOK` of PlatformAuth, TenantRoles, PlatformRbac, BrowserSession and Console is in no run: it is a
theorem of each (`TypeCorrect`).

### Bounds

- The races of *TenantLifecycle* are between two requests, about one tenant (two creates,
  create and retry, suspend and unsuspend) or about two that compete for an e-mail or a
  domain; the third request sets the stage or comes after. Three organization ids are enough
  for each request to make one. Four requests in `lifecycle_settles` let one attempt fail,
  two race to repair it and a fourth come last.
- In `auth_sessions` three requests are two that race and one that looks at the outcome; a
  lock after two failures needs two of them.
- In `modules_updates` two modules are one that a request names and one that it does not,
  and two updates are two that race, or one that starts from what the other left.
- In `tenant_users` no operation looks at two users but suspend and unsuspend, which do the
  same to each; three requests are two that race over one row after a third has
  made it what it is (deleted it, suspended the tenant, changed the password), or suspend, remove
  and restore in a row.
- In `tenant_roles` one user is there and one is to be created, so that what a user was
  created with and what he was given later are told apart. One role is the system's, one
  makes its holder an owner and may be there or be made, and one does neither and may be the
  copy of another; one
  administrator may do everything and one has nothing to give, and one permission
  is in the pool, out of it, or withdrawn. Every race is of two requests, with the
  CRM's calculation between any two of their calls.
- In `platform_rbac` two permissions are one that both replacements ask for and one that
  one of them does; likewise the two roles, of which one is the seed's.
- In `browser_session` two calls share a refresh, are one late 401 after the other's
  refresh, or are a call and a logout; two tabs make each of these with and without a
  shared memory. `MaxToken` bounds the logins and rotations, none of which takes place past it: with
  two calls, each of which begins one session or rotates one token, a fourth token is never
  needed, and a third is enough for one to be out of date twice.
- In the two console runs, a save that undoes another needs two; the records are the ones
  that are handled differently: the settings are optimistic and their form is filled once,
  that of the overrides follows its query, the status has a button; the permissions' form
  opens before its data is there, and two saves of the switch can be under way at once. The
  records of the other tabs and dialogs (modules, role, assignment, members, pool, setting, the
  new roles) have entries in the same tables and combine the same features; the theorems cover
  them.

Requests (but in Console, whose saves are numbered as they are clicked) and, in
TenantLifecycle and TenantModules, organization ids, tenants, e-mail addresses and modules
are interchangeable and used as symmetry sets, except in the runs with liveness.

### Fairness

`FairSpec` of `TenantLifecycle` is weak fairness of each handler's `Step`: an awaited Prisma
call returns or throws, and Node then runs the handler on. Clients need not send requests
(`Start` is not fair) and faults need not happen. The liveness run has no crash and no
rejected platform write: with them `SyncSettles` is false, as the code has nothing that looks
for tenants left SYNCING. In that run `SyncingIsAttended` and `NoOrphanOrganization` state
what is left when only the CRM fails.

`BrowserSession` is fair to each call and to each tab's refresh: a `fetch` that was sent ends
with an answer or an error, and the script that awaits it runs. Users need not call, tokens
need not expire. That is all `CallsEnd` needs: it holds because a call is repeated once and
a refresh is awaited by whoever shares it.

Deadlock is checked in every run: `AllServed` is the only way to stop, and it needs every
handler to be finished (in `PlatformAuth`, `PlatformRbac`, `TenantModules`, `TenantUsers` and
`TenantRoles`, lost or not begun either). `Console` has no such action: a page can always
open another tab.

Each property of a passing run has a mutant in its module: the way a plausible bug would
change one definition, under which TLC finds the property violated.

## The proofs

`tlapm` checks the eight modules named `_proofs`. Each module's theorems hold for every value
of its constants; nothing is assumed finite. What is assumed, by name:

| Module | Assumption | Says |
| --- | --- | --- |
| TenantLifecycle, PlatformAuth | `ConstantsAssumption` | kinds of the sets; null and "undefined" are not members of them |
| TenantUsers | `SomeUser`, `RequestNames` | there is an e-mail; no request is named as the seed or nobody |
| TenantRoles | `Catalog`, `SomeOfEach` | a permission belongs to a module; the sets are of their kinds and not empty |
| PlatformRbac | `Seeds`, `SomeUserAndRole` | a role that grants everything is the system's; there are a user and a role |
| BrowserSession | `Bounds` | tabs and calls are numbers, there is a tab, there may be a token |
| Console | `OnePage`, `Writers` | the records are of one page; saves and other writes have different positive numbers |

Each file has the same order: what the fields of records and the tables are; type
correctness; the parts of the invariant; a lemma for each action of what it leaves alone;
a lemma for each part of the invariant with one step per action; the theorems.

### TenantLifecycle_proofs

Theorems `TypeCorrect`, `NoUpdateIsLost`, `StatusChangesAreSerial`,
`LifecycleImplementsLink`, `SyncingHasAnOwner` and `NoOrganizationIsOrphaned`, all from one
inductive invariant (`Inductive`):

- `Locals`: what a handler's position says of its locals (a running handler serves
  a tenant, a create or a retry has an e-mail, only these two provision);
- `Linking`, `OneLinker`, `LinkedOwned`: the organization a handler is about to link
  is the tenant's, no other handler is about to link that tenant, a link is to
  an organization the tenant owns. Without them a link might be overwritten;
- `SeenEarlier`: what a handler saw is not newer than the row, and
  equal to it in link, e-mail and domain when the versions are equal; this is
  `NoLostUpdate` at both positions of a handler with a conditional write, before
  the domain lookup and before the write itself;
- `Superseded`: once a status change has gone on to the CRM its row is newer
  than the version it read. This makes `OneStatusChangePerVersion` inductive: the
  second handler's conditional write finds another version.

The refinement has one lemma, `LinkStep`: `ProvisionCommit` is
`Provision` (the unique slug of the CRM is its guard), `LinkWrite` is `Link`
(`OneLinker` and `Linking` give its guard), everything else stutters.

`SyncingIsAttended` and `NoOrphanOrganization` are not true of every `Faults`: a crash, or a
platform database that rejects the write of FAILED, leaves a tenant SYNCING, or an organization
without link, and nothing looks for either. The two theorems therefore have the hypothesis
`OnlyCrmFails` (`Faults \subseteq {"crm"}`: the fault set of the run, and the empty one), and say
that the CRM alone, however it fails, cannot do that. `StepSettles` is the reason: a
handler that is provisioning (`Attending`) stays so until it has written SYNCED or FAILED.
The two are proved together since the write of FAILED ends an attempt whose
organization, if it made one, has to be announced to the operator (`Announced`).

### PlatformAuth_proofs

Theorems `TypeCorrect`, `PasswordChangeEndsSessions`, `RotationStrandsNobody`,
`ClosedSessionsStayClosed` and `OldPasswordsGrantNothing`. The invariant adds `Locals`: the operation a
position belongs to (`OpOf`), that a handler yet to make its session or token
has not made it (`Unmade`: a closed session named after it would otherwise be reopened),
and that a refresh works on an existing token (`Presented`). Two lemmas say
what a step leaves alone (`RowsStay`, `OthersStay`) and how a handler moves
(`Moves`); each property is then one case split on the step of one handler.

`OldPasswordsGrantNothing` has an invariant of its own, `Versions`: every password that was
read, is the account's or is behind an access token has the version that its request
counted (`Numbered`), which that request does not read again. Two passwords of one version
were then counted from the same one, the exception that the property names.

### TenantModules_proofs

Theorems `TypeCorrect`, `UpdatesAreAllOrNothing` and
`SerialUpdatesKeepAgreement`. The invariant says what a handler that runs alone knows
of the rows (`Knows`): what it read is what it found when it began, and the
rows are still that, or that with its own update on top. `UpdatesAreAllOrNothing` follows
for each answer. `SerialUpdatesAgree` speaks of states where nobody runs and is not
inductive; `AgreeSoFar` adds that, while an update is halfway, the rows
it found agree. A write then finds everyone else ended or not begun, since it would
have disturbed them (`LoneAfterWrite`).

### TenantUsers_proofs

Theorems `TypeCorrect` and one for each property of the run. The invariant is
`TypeOK /\ Handlers /\ Accounts /\ Histories /\ NoRolelessUser /\ Statuses`:

- `Handlers`: what a position says of the operation (`Positions`), that a create which may
  still insert its row has not (`Fresh`), and whose user a create is completing (`Owners`);
- `Accounts`: a session is of its user's password version and password, or of an older
  version (`SessionsHold`: the CRM increments the version itself, in the write that sets the
  password); who is active in a suspended organization was granted it (`Grants`);
  nobody is about to lock from an old read whom the properties take for unlocked
  (`Openings`);
- `Histories`: what a reset has read lacks no password but those of resets that
  overlapped it (`ResetsRead`);
- `Statuses`: while nothing has crossed, one suspend or unsuspend at most is between the
  databases (`OneBetween`); with none there, and no status written to the platform alone
  since, both agree (`Agreed`); the one that is there has written the platform's status, and
  the CRM's is still the other one (`HalfWay`), as its read and its version had it
  (`StatusRead`; remove and restore do not touch the version). So either of its ends restores the agreement:
  the CRM's transaction, or the compensation.

### TenantRoles_proofs

Theorems `TypeCorrect` and one for each property of the run. The invariant is
`TypeOK /\ Bodied /\ Granting /\ Holding /\ Joining /\ Assigning /\ Deleted /\ Cached /\ Remembered`.
`GivenWithinPool` and `NoOtherEscalation` are about the same permissions, the `Givable` ones: what is in
the pool or was, and, as long as no super administrator has acted, what some other
administrator has. They follow from `Granting` (what a handler past its check is to write is
givable), `Holding` (what a user has been given is givable, or came with his creation) and
`Remembered` (so is what is cached of one who is no owner). `createTenantRole` checks nothing, so an unassigned role may have anything;
the invariant speaks of held roles, and `assignTenantUserRole` checks before it makes one
held. A role that is changed while it is being assigned is checked by whoever
changes it. `Cached` names the users whose caches are still to be cleared. `Joining` says what is
known of a user who is being created: he has no role yet, nobody else creates him, and his role is the system's,
which nobody deletes.

### PlatformRbac_proofs

Theorems `TypeCorrect` and one for each property of the run, from
`TypeOK /\ Flows /\ Accounts /\ RolePerms /\ UserRoles`. `Flows` ties positions to kinds and
bodies; `FormsRead` says that a form that was read at the row's version is the row's;
`PermsFound` and `RolesFound` that what a replacement has found is still there unless
another has overtaken it, in which case both bodies are among those asked for; `RolesDue`
says what is still to come between the two writes of `assignRoles`.

### BrowserSession_proofs

Theorems `TypeCorrect`, `LogoutsStick` and `NobodyIsSentAwayNeedlessly`. The invariant of the
second is `TypeOK /\ Positions /\ Alone /\ CookieTaken /\ SignedOut`: a login or a
logout that has not been `crossed` meets no refresh but its own, so that a logout the server
has served has taken the cookie, and a later refresh has no token to show. `LogoutSticks`
says nothing of the time between the answer and the removal of the stored token; `SignedOut`
does.

`NobodyIsSentAwayNeedlessly` is the action property `NoNeedlessLogin`. Two ways lead to the login
page, and each has its invariant, on top of that one.

- `RInv`, for `handleUnauthorized`, follows the cookie: while nothing has crossed or failed
  (`Quiet`), only one tab refreshes (`OneTab`) and not during a login (`LoginAlone`), the
  cookie of an open session can be rotated or its successor is under way (`CookieLives`), a
  refresh shows that cookie and is answered with its successor or, if the session is closed,
  with nothing (`Presents`). So a call left with its 401 has lost its session
  (`RefusedForGood`).
- `TInv`, for RouteGuard, follows the access token: while besides nobody is barred, signed out or late
  (`Fine`), a refresh brings a token that has not expired (`BringsFresh`), only a closed session
  refuses a second try (`SecondTry`), and the storage is empty only if the session is closed or
  a login is about to fill it (`StoredOrClosed`). A console page without user is loading
  (`Settled`), so only a step that ends the load, or takes the user away, sends it off.

`SentAwayExcused` goes through the steps: GiveUp by the first, Finish and FetchNone by the second.

### Console_proofs

Theorems `TypeCorrect`, `FreshIsTrueAlways`, `FailedSavesLeaveNoTrace` and
`SavesRevertNothingUnseen`. The first three come from
`TypeOK /\ Mutations /\ Provenance /\ OneSetting /\ Freshness`. `Mutations` says that the save
a record has now is of that record and was written; `Provenance` where what a query shows
comes from: the server, or the one optimistic save (`OneSetting`) and its snapshot.
`FreshMeansTrue` is not inductive, since a fetch that is under way makes a query fresh when it
lands: `Freshness` says it of what has been read as well (`ReadIsTrue`), that a query that is
being fetched is stale (`FetchedIsStale`), and of the snapshot (`SnapshotIsTrue`).

`SavesRevertNothingUnseen` has an invariant of its own, `Knowledge`: saves are clicked in
order (`Ordered`), and a form that was not filled in doubt, and a save made from it, knows
every save that is pending or that the server has (`FormKnows`, `SavesKnow`). That a form
knows is where `Freshness` is needed: a form is filled with what is fresh, and what is
fresh is true.

### Only model-checked

Liveness (`RequestsAreAnswered`, `SyncSettles`, `CallsEnd`): its proofs need ENABLED of the fair
actions, which is out of the prover's reach. Every invariant and every action property of a passing run is
a theorem. The two runs that expect a violation have none: their properties are false.

## Where the code and its words part

| Run | Code | Words |
| --- | --- | --- |
| `honest_sync_state` | the loser of two provisioning attempts marks FAILED the tenant that the winner linked, and a retry refuses it | "retryable, honest sync state", `tenants.service.ts` 121-123 |
| `refresh_rotates_once` | `FOR UPDATE` outside a transaction holds nothing | "Acquire real Postgres row-level lock", `auth.service.ts` 181 |
| exceptions of `NoOtherEscalation` in `tenant_roles` | an administrator who may give nothing makes a user an owner, or creates one with any role of the system | "This prevents privilege escalation", `permission-scope.service.ts` 133-134 |
| exception `LoadFailed` of `NoNeedlessLogin` in `browser_session` | a page that is loaded while `/auth/me` fails is left for the login page | "transient errors (500, network) must not log the user out", `AuthContext.tsx` 35 |

The first two have a run that finds the trace. The other two are behaviours of the models that
the property names as exceptions; without the exception TLC finds it violated.

*Escalation.* `validateActorCanGrant` asks of the permissions of a role whether the actor has them, and
three paths pass it by. `createTenantRole` checks nothing, and `assignTenantUserRole` does not
call it for a role without permissions (`tenant-ops.service.ts` 715): an
administrator creates a role coded OWNER with no permissions and assigns it, the assignment
sets `user.role` to OWNER (734, `toCrmUserRole` 36-48), and an owner's effective permissions
are the whole catalog (810-821). `createTenantUser` with the role OWNER does the same in one call
(403). And `createTenantUser` with the code of any other system role assigns that role with no look at
its permissions (423-441). Creating roles and users needs a platform permission of its own, but none of
the permissions that are given.

*The login page.* `fetchUser` keeps the token when `/auth/me` fails with 500 or without network,
and the user too, but on a page that has just been loaded there is no user yet: it stays null, `isLoading`
becomes false, and RouteGuard pushes `/login` (`RouteGuard.tsx` 37-39). Nothing there leads
back: the user has to sign in again, or to open a page by its address once the API answers. A 401
that is repeated with a refreshed token, as of an account that is locked, goes the same way
(`AuthContext.tsx` 37-39) with the session open and no refresh refused.

## Behaviours worth knowing

The models have these behaviours, and the properties name them as exceptions or do not speak
of them. Whether they matter is for the owners of the code to say.

*Tenants*

- A create looks the domain up and refuses when a tenant has it, also when that tenant is the failed row
  that it is about to reuse (`tenants.service.ts` 81, where 73-75 says "Allow it to be reused
  and provisioned again"). The same create without a domain goes through.
- A suspend that fails in the CRM writes ACTIVE, whatever status it found (641); an unsuspend
  enables every user who is not locked, also those who were disabled before the suspension
  (708-709 speaks of "users that were active before").
- `remove` and `restore` test no version and leave the CRM alone (531): the users of a deleted
  tenant go on working.
- `update` writes any status that its body has, and `create` begins with one (98, 498), without the
  CRM, whose organization is created Active (325): `update` with SUSPENDED suspends nobody, and a `suspend` of
  that tenant is then refused (588). Suspended, removed and restored, a tenant is ACTIVE
  (566) over a suspended organization, and `unsuspend` is refused (673). (`apart`, an exception of
  `StatusesAgree`.)
- A suspend and an unsuspend, or a restore, that pass each other between the two databases leave
  them with different statuses, and so does a process that dies there (`crossed`, the other exception).
- The compensation of `updateModules` restores the overrides that it read before its own
  transaction, those of a concurrent update too (`tenant-ops.service.ts` 245, 271);
  `SerialUpdatesAgree` is about updates that do not overlap.
- Two concurrent assignments, or one and a creation that has not assigned its role yet, leave a
  user with two roles (719, 432); of a grant and a change of the pool, or a grant and a deletion
  of the role, each may miss the other. `createTenantUser` does not clear the cache: permissions
  that the CRM calculates before its last insert stay until they expire.

*Accounts*

- Nothing clears `isLocked` when `lockedUntil` has passed. The first check lets the login go
  on, and the one at `auth.service.ts` 104 refuses it; line 69 says "Try again after".
- The guard does not look at the session (`jwt-auth.guard.ts` 49): an access token works until
  it expires after a logout. `test/super-admin.e2e-spec.ts` 184-189 expects 401.
- Two concurrent changes of a password give both the same `passwordVersion`
  (`auth.service.ts` 314), and a token of the first is accepted under the second (the
  exception of `OldPasswordsAccessRefused`); a login that has compared the old password makes its session
  after the change has closed the others (111).
- Failures are counted by a read and a write (`login-protection.service.ts` 54): two at the
  same time count as one.
- `RolesService.update` compares a version that nothing increases (`roles.service.ts` 121): the
  second of two forms overwrites the first. `UsersService.update` compares one that grows
  (`NoLostAccountUpdate`).

*Console*

- The dialog of a platform role is filled once, and opens before its data is there
  (`roles/page.tsx` 200): it is blank, and what is saved from it takes away all that was not ticked.
- `providers.tsx` 37 and 46 ask whether an error is axios', and the client throws its own
  `ApiError`: what the comment says is not retried is, once for a mutation and
  twice for a query.
- A change of a role or of the modules invalidates no effective permissions of a user
  (`queries.ts` 111, 282), and an added user not the tenant, whose header counts its users (295):
  what was cached is shown as fresh until its stale time is over (`Unheard`, an exception of
  `FreshMeansTrue`).
- `useCreateRole` puts the new role into the entry `['roles']` of the cache (`queries.ts` 530), which no
  query reads: it is seen when the list has been fetched again.
- A switch of the settings does not wait for its own save (`settings/page.tsx` 62): of two clicks the one that
  is served last stays.

## Not modelled

- *Rate limiter*: a counter per window in the memory of one process, read and written without
  an `await` between; that it refuses is one of the failures of a request in BrowserSession.
- *Blocked IP addresses*: one row per address, which a login looks up; a login that is
  refused for it writes nothing.
- *Expiry* of the platform's sessions and tokens: what has expired is refused like what was revoked.
- *`updateTenantRole`* writes a name and a description. *Inheritance* of roles is written
  by nobody here; the walk along `inheritsFromId` (`tenant-ops.service.ts` 846) does not end
  for a role that inherits from itself.
- *forgotPassword* only records that it was called; `touchSession` and `expireOldSessions`
  are called by nobody.
- *Monitoring, dashboards and lists* aggregate and show what others write; *mail* is a call
  whose failure is logged.
- *Signing and hashing*: library calls; a token is named after the request that made it.
- *Bootstrap, CORS, filters, interceptors, pipes, health, connection retry*: wiring, without
  state that another step depends on.
- *Schema, migrations and seeds*: their unique columns and defaults are in the modules
  that rely on them; they run once, by hand.
- *Layout and wording* of the pages.

`PROJECT.json` lists every component with what is left out of it.

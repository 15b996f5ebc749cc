--------------------------- MODULE TenantLifecycle ---------------------------
(***************************************************************************)
(* TenantsService: the life of a platform tenant and of the CRM            *)
(* organization that backs it.                                             *)
(*                                                                         *)
(* The service runs in one Node process over two PostgreSQL databases that *)
(* share no transaction.  A request handler is a sequence of awaited       *)
(* database calls; other handlers run between any two of them.  Each       *)
(* action below is one awaited call of one handler together with the       *)
(* synchronous code up to the next await.  Handlers keep what they read in *)
(* local variables (req[r]) and act on it later.                           *)
(*                                                                         *)
(* A member of Requests is one HTTP request; it is served at most once, so *)
(* the size of Requests bounds a behaviour and nothing else does.          *)
(***************************************************************************)
EXTENDS Naturals

CONSTANTS
  Slugs,         \* tenant slugs; a slug identifies a row (unique, never updated)
  Orgs,          \* identifiers the CRM may give to an organization
  Emails,        \* e-mail addresses of tenants and CRM users
  Domains,       \* custom domains
  Requests,      \* the requests of a behaviour
  Ops,           \* the operations clients call
  CreateInputs,  \* bodies of create requests: email, domain, status
  UpdateInputs,  \* bodies of update requests: email, domain, status
  Faults,        \* the faults that may happen
  None,          \* null
  Keep           \* undefined: a field the client leaves out

AllOps == {"create", "retry", "update", "remove", "restore", "suspend", "unsuspend"}
TenantStatus == {"ACTIVE", "SUSPENDED", "DELETED"}

\* "crm": a CRM transaction rolls back;  "platform": a write to the platform
\* database is rejected;  "crash": the Node process dies and restarts.
AllFaults == {"crm", "platform", "crash"}

ASSUME ConstantsAssumption ==
  /\ None \notin Slugs \cup Orgs \cup Emails \cup Domains \cup TenantStatus \cup AllOps
  /\ Keep \notin Slugs \cup Orgs \cup Emails \cup Domains \cup TenantStatus \cup {None}
  /\ Ops \subseteq AllOps
  /\ CreateInputs \subseteq [email: Emails, domain: Domains \cup {Keep},
                             status: TenantStatus \cup {Keep}]
  /\ UpdateInputs \subseteq [email: Emails \cup {None, Keep}, domain: Domains \cup {None, Keep},
                             status: TenantStatus \cup {Keep}]
  /\ Faults \subseteq AllFaults

VARIABLES
  tenant,   \* platform database: tenant[s], the row with slug s
  org,      \* CRM database: org[o]
  user,     \* CRM database: user[e], the user with e-mail e (unique)
  req       \* req[r]: the handler serving request r, its position and locals

vars == <<tenant, org, user, req>>
stores == <<tenant, org, user>>

-----------------------------------------------------------------------------
(* Rows.  A row of version 0 does not exist: the column starts at 1.       *)

Tenant == [version: Nat, link: Orgs \cup {None}, email: Emails \cup {None},
           domain: Domains \cup {None}, status: TenantStatus,
           sync: {"SYNCING", "SYNCED", "FAILED"}, deleted: BOOLEAN]

NoTenant == [version |-> 0, link |-> None, email |-> None, domain |-> None,
             status |-> "ACTIVE", sync |-> "FAILED", deleted |-> FALSE]

\* An organization with slug None, or a user with org None, does not exist.
Organization == [slug: Slugs \cup {None}, email: Emails \cup {None},
                 status: {"Active", "Suspended"}]
NoOrg == [slug |-> None, email |-> None, status |-> "Active"]

\* session: the user has a session and refresh token that are not revoked.
CrmUser == [org: Orgs \cup {None}, active: BOOLEAN, locked: BOOLEAN, session: BOOLEAN]
NoUser == [org |-> None, active |-> FALSE, locked |-> FALSE, session |-> FALSE]

Exists(row) == row.version > 0
Live(row) == Exists(row) /\ ~row.deleted
Bump(row) == [row EXCEPT !.version = @ + 1]

-----------------------------------------------------------------------------
(* Handlers.  pc names the await a handler is at; seen is the row its      *)
(* first read returned, kept where the handler uses it again; org the      *)
(* organization it provisioned or whose status it is changing.             *)

PC == {"idle", "domain", "write", "mark", "provision", "link", "markFailed",
       "markLinkFailed", "crm", "revert", "done"}

Request == [pc: PC, op: AllOps \cup {None}, slug: Slugs \cup {None},
            email: Emails \cup {None, Keep}, domain: Domains \cup {None, Keep},
            status: TenantStatus \cup {Keep},
            org: Orgs \cup {None}, seen: Tenant]

NoInput == [email |-> Keep, domain |-> Keep, status |-> Keep]

Handler(op, pc, slug, input, seen) ==
  [pc |-> pc, op |-> op, slug |-> slug, email |-> input.email, domain |-> input.domain,
   status |-> input.status, org |-> None, seen |-> seen]

Idle == Handler(None, "idle", None, NoInput, NoTenant)
Done == Handler(None, "done", None, NoInput, NoTenant)

At(r, op, pc) == req[r].op = op /\ req[r].pc = pc
Goto(r, pc) == req' = [req EXCEPT ![r].pc = pc]
Finish(r) == req' = [req EXCEPT ![r] = Done]
Running(r) == req[r].pc \notin {"idle", "done"}
Row(r) == tenant[req[r].slug]
SetRow(r, row) == tenant' = [tenant EXCEPT ![req[r].slug] = row]

\* The first await of a handler: a read, after which it is refused (an HTTP
\* error, nothing written) or goes on with the locals in start.
Begin(r, accepted, start) ==
  /\ req[r].pc = "idle"
  /\ start.op \in Ops
  /\ req' = [req EXCEPT ![r] = IF accepted THEN start ELSE Done]
  /\ UNCHANGED stores

\* An update leaves a column alone when the client left the field out.
Given(new, old) == IF new = Keep THEN old ELSE new

\* Tenant.domain is unique.
DomainTaken(d, s) == \E t \in Slugs \ {s} : d # None /\ tenant[t].domain = d

-----------------------------------------------------------------------------
(* create: find the slug, find the domain, write the row, provision, link. *)

\* The row of an attempt that failed before it was linked may be used again.
Reusable(row) == Exists(row) /\ row.sync = "FAILED" /\ row.link = None

CreateFindSlug(r) ==
  \E s \in Slugs, dto \in CreateInputs :
    Begin(r, ~Exists(tenant[s]) \/ Reusable(tenant[s]),
          Handler("create", IF dto.domain = Keep THEN "write" ELSE "domain", s, dto, tenant[s]))

\* The lookup does not leave out the row being reused.
CreateFindDomain(r) ==
  /\ At(r, "create", "domain")
  /\ IF \E t \in Slugs : tenant[t].domain = req[r].domain
       THEN Finish(r)
       ELSE Goto(r, "write")
  /\ UNCHANGED stores

\* Writes over the row seen by id, or inserts: unique columns may refuse it.
CreateWrite(r) ==
  LET q == req[r]
      reuse == Exists(q.seen)
      base == IF reuse THEN Row(r) ELSE NoTenant
      accepted == (reuse \/ ~Exists(Row(r))) /\ ~DomainTaken(Given(q.domain, base.domain), q.slug)
  IN
  /\ At(r, "create", "write")
  /\ \/ /\ accepted
        /\ SetRow(r, [Bump(base) EXCEPT !.email = q.email,
                                        !.domain = Given(q.domain, @),
                                        !.status = Given(q.status, "ACTIVE"),
                                        !.sync = "SYNCING"])
        /\ Goto(r, "provision")
     \/ ~accepted /\ Finish(r) /\ UNCHANGED tenant
  /\ UNCHANGED <<org, user>>

-----------------------------------------------------------------------------
(* retryProvisioning: read and refuse, mark SYNCING, provision, link.      *)

RetryRead(r) ==
  \E s \in Slugs :
    Begin(r, /\ Live(tenant[s])
             /\ tenant[s].link = None
             /\ tenant[s].sync # "SYNCING"
             /\ tenant[s].email # None,
          Handler("retry", "mark", s, [NoInput EXCEPT !.email = tenant[s].email], NoTenant))

RetryMark(r) ==
  /\ At(r, "retry", "mark")
  /\ SetRow(r, [Bump(Row(r)) EXCEPT !.sync = "SYNCING"])
  /\ Goto(r, "provision")
  /\ UNCHANGED <<org, user>>

-----------------------------------------------------------------------------
(* runProvisioning and what both callers do with its outcome.              *)

\* Mutant: Organization.slug is not unique.
CanProvisionSlugNotUnique(s, e) == user[e].org = None /\ \A o \in Orgs : org[o].email # e

\* The CRM's unique columns, and the lookup of the administrator's account.
CanProvision(s, e) ==
  /\ \A o \in Orgs : org[o].slug # s /\ org[o].email # e
  /\ user[e].org = None

\* One CRM transaction: organization, system roles, modules, administrator.
ProvisionCommit(r) ==
  /\ req[r].pc = "provision"
  /\ CanProvision(req[r].slug, req[r].email)
  /\ \E o \in Orgs :
       /\ org[o].slug = None
       /\ org' = [org EXCEPT ![o] = [slug |-> req[r].slug, email |-> req[r].email,
                                     status |-> "Active"]]
       /\ user' = [user EXCEPT ![req[r].email] = [org |-> o, active |-> TRUE,
                                                  locked |-> FALSE, session |-> FALSE]]
       /\ req' = [req EXCEPT ![r].pc = "link", ![r].org = o]
  /\ UNCHANGED tenant

\* Mutant: the writes of runProvisioning are not one transaction.
ProvisionRollbackNoTransaction(r) ==
  /\ req[r].pc = "provision"
  /\ "crm" \in Faults /\ CanProvision(req[r].slug, req[r].email)
  /\ \E o \in Orgs :
       /\ org[o].slug = None
       /\ org' = [org EXCEPT ![o] = [slug |-> req[r].slug, email |-> req[r].email,
                                     status |-> "Active"]]
  /\ Goto(r, "markFailed")
  /\ UNCHANGED <<tenant, user>>

\* Mutant: a transaction that meets a unique constraint is tried again.
ProvisionRollbackTriesForEver(r) ==
  /\ req[r].pc = "provision"
  /\ "crm" \in Faults /\ CanProvision(req[r].slug, req[r].email)
  /\ Goto(r, "markFailed")
  /\ UNCHANGED stores

ProvisionRollback(r) ==
  /\ req[r].pc = "provision"
  /\ ~CanProvision(req[r].slug, req[r].email) \/ "crm" \in Faults
  /\ Goto(r, "markFailed")
  /\ UNCHANGED stores

\* Mutant: the link is written without a new version.
LinkWriteNoVersion(r) ==
  /\ req[r].pc = "link"
  /\ SetRow(r, [Row(r) EXCEPT !.link = req[r].org, !.sync = "SYNCED"])
  /\ Finish(r)
  /\ UNCHANGED <<org, user>>

LinkWrite(r) ==
  /\ req[r].pc = "link"
  /\ SetRow(r, [Bump(Row(r)) EXCEPT !.link = req[r].org, !.sync = "SYNCED"])
  /\ Finish(r)
  /\ UNCHANGED <<org, user>>

\* Mutant: the catch block answers without recording the failure.
MarkFailedForgotten(r) ==
  /\ req[r].pc = "markFailed"
  /\ Finish(r)
  /\ UNCHANGED stores

MarkFailed(r) ==
  /\ req[r].pc = "markFailed"
  /\ SetRow(r, [Bump(Row(r)) EXCEPT !.sync = "FAILED"])
  /\ Finish(r)
  /\ UNCHANGED <<org, user>>

\* create records a failed link without a new version.
MarkLinkFailed(r) ==
  /\ req[r].pc = "markLinkFailed"
  /\ SetRow(r, [Row(r) EXCEPT !.sync = "FAILED"])
  /\ Finish(r)
  /\ UNCHANGED <<org, user>>

-----------------------------------------------------------------------------
(* update, remove, restore: the platform row alone.                        *)

\* The handlers whose write is conditional on the version of the row.
Versioned(r) == req[r].op \in {"update", "suspend", "unsuspend"}

\* dto.version, when the client sends it, replaces the version just read.  It
\* is that of a row the client saw before: the one just read, or an older one
\* that no later row has, and then the conditional write finds no row.
StaleVersion(r) ==
  /\ Versioned(r)
  /\ req[r].pc = "write"
  /\ Finish(r)
  /\ UNCHANGED stores

UpdateRead(r) ==
  \E s \in Slugs, dto \in UpdateInputs :
    Begin(r, Live(tenant[s]),
          Handler("update", IF dto.domain \in Domains THEN "domain" ELSE "write", s, dto, tenant[s]))

UpdateFindDomain(r) ==
  /\ At(r, "update", "domain")
  /\ IF DomainTaken(req[r].domain, req[r].slug) THEN Finish(r) ELSE Goto(r, "write")
  /\ UNCHANGED stores

UpdateWrite(r) ==
  LET q == req[r]
      accepted == Row(r).version = q.seen.version /\ ~DomainTaken(Given(q.domain, None), q.slug)
  IN
  /\ At(r, "update", "write")
  /\ IF accepted
       THEN SetRow(r, [Bump(Row(r)) EXCEPT !.email = Given(q.email, @),
                                           !.domain = Given(q.domain, @),
                                           !.status = Given(q.status, @)])
       ELSE UNCHANGED tenant
  /\ Finish(r)
  /\ UNCHANGED <<org, user>>

RemoveRead(r) ==
  \E s \in Slugs :
    Begin(r, Live(tenant[s]),
          Handler("remove", "write", s, NoInput, NoTenant))

\* No condition on the version, and no new one.
RemoveWrite(r) ==
  /\ At(r, "remove", "write")
  /\ SetRow(r, [Row(r) EXCEPT !.deleted = TRUE, !.status = "DELETED"])
  /\ Finish(r)
  /\ UNCHANGED <<org, user>>

RestoreRead(r) ==
  \E s \in Slugs :
    Begin(r, Exists(tenant[s]) /\ tenant[s].deleted,
          Handler("restore", "write", s, NoInput, NoTenant))

RestoreWrite(r) ==
  /\ At(r, "restore", "write")
  /\ SetRow(r, [Row(r) EXCEPT !.deleted = FALSE, !.status = "ACTIVE"])
  /\ Finish(r)
  /\ UNCHANGED <<org, user>>

-----------------------------------------------------------------------------
(* suspend, unsuspend: a conditional write of the platform row, then a CRM *)
(* transaction, and a compensating write when that transaction fails.      *)

SuspendRead(r) ==
  \E s \in Slugs :
    Begin(r, Live(tenant[s]) /\ tenant[s].status # "SUSPENDED",
          Handler("suspend", "write", s, NoInput, tenant[s]))

UnsuspendRead(r) ==
  \E s \in Slugs :
    Begin(r, Live(tenant[s]) /\ tenant[s].status = "SUSPENDED",
          Handler("unsuspend", "write", s, NoInput, tenant[s]))

\* Mutant: the row is written by id, whatever its version.
StatusWriteUnconditional(r, status) ==
  /\ SetRow(r, [Bump(Row(r)) EXCEPT !.status = status])
  /\ IF Row(r).link = None
       THEN Finish(r)
       ELSE req' = [req EXCEPT ![r].pc = "crm", ![r].org = Row(r).link]
  /\ UNCHANGED <<org, user>>

\* The row the conditional write returns says which organization to change;
\* a tenant without one is finished here.
StatusWrite(r, status) ==
  /\ IF Row(r).version = req[r].seen.version
       THEN /\ SetRow(r, [Bump(Row(r)) EXCEPT !.status = status])
            /\ IF Row(r).link = None
                 THEN Finish(r)
                 ELSE req' = [req EXCEPT ![r].pc = "crm", ![r].org = Row(r).link]
       ELSE Finish(r) /\ UNCHANGED tenant
  /\ UNCHANGED <<org, user>>

SuspendWrite(r) == At(r, "suspend", "write") /\ StatusWrite(r, "SUSPENDED")
\* Mutant: the CRM's spelling of the status.
UnsuspendWriteCrmSpelling(r) == At(r, "unsuspend", "write") /\ StatusWrite(r, "Active")

UnsuspendWrite(r) == At(r, "unsuspend", "write") /\ StatusWrite(r, "ACTIVE")

MembersOf(o) == {e \in Emails : user[e].org = o}

\* Every user of the organization is disabled and every session revoked.
SuspendCrm(r) ==
  /\ At(r, "suspend", "crm")
  /\ org' = [org EXCEPT ![req[r].org].status = "Suspended"]
  /\ user' = [e \in Emails |->
                IF e \in MembersOf(req[r].org)
                  THEN [user[e] EXCEPT !.active = FALSE, !.session = FALSE] ELSE user[e]]
  /\ Finish(r)
  /\ UNCHANGED tenant

\* Every user that is not locked is enabled.
UnsuspendCrm(r) ==
  /\ At(r, "unsuspend", "crm")
  /\ org' = [org EXCEPT ![req[r].org].status = "Active"]
  /\ user' = [e \in Emails |->
                IF e \in MembersOf(req[r].org) /\ ~user[e].locked
                  THEN [user[e] EXCEPT !.active = TRUE] ELSE user[e]]
  /\ Finish(r)
  /\ UNCHANGED tenant

CrmStatusRollback(r) ==
  /\ "crm" \in Faults
  /\ req[r].pc = "crm"
  /\ Goto(r, "revert")
  /\ UNCHANGED stores

\* The compensating writes carry no condition on the version.
SuspendRevert(r) ==
  /\ At(r, "suspend", "revert")
  /\ SetRow(r, [Bump(Row(r)) EXCEPT !.status = "ACTIVE"])
  /\ Finish(r)
  /\ UNCHANGED <<org, user>>

UnsuspendRevert(r) ==
  /\ At(r, "unsuspend", "revert")
  /\ SetRow(r, [Bump(Row(r)) EXCEPT !.status = "SUSPENDED"])
  /\ Finish(r)
  /\ UNCHANGED <<org, user>>

-----------------------------------------------------------------------------
(* Faults of the platform database and of the process.                     *)

\* A rejected link write is caught and recorded.
LinkWriteFails(r) ==
  /\ "platform" \in Faults
  /\ req[r].pc = "link"
  /\ Goto(r, IF req[r].op = "create" THEN "markLinkFailed" ELSE "markFailed")
  /\ UNCHANGED stores

\* Any other rejected call to the platform database ends the handler.
PlatformCallFails(r) ==
  /\ "platform" \in Faults
  /\ req[r].pc \in {"domain", "write", "mark", "markFailed", "markLinkFailed", "revert"}
  /\ Finish(r)
  /\ UNCHANGED stores

\* The handlers in flight are lost with their locals; both databases stay.
Crash ==
  /\ "crash" \in Faults
  /\ \E r \in Requests : Running(r)
  /\ req' = [r \in Requests |-> IF Running(r) THEN Done ELSE req[r]]
  /\ UNCHANGED stores

-----------------------------------------------------------------------------

Init ==
  /\ tenant = [s \in Slugs |-> NoTenant]
  /\ org = [o \in Orgs |-> NoOrg]
  /\ user = [e \in Emails |-> NoUser]
  /\ req = [r \in Requests |-> Idle]

Start(r) ==
  \/ CreateFindSlug(r) \/ RetryRead(r) \/ UpdateRead(r) \/ RemoveRead(r) \/ RestoreRead(r)
  \/ SuspendRead(r) \/ UnsuspendRead(r)

Step(r) ==
  \/ CreateFindDomain(r) \/ CreateWrite(r) \/ RetryMark(r)
  \/ ProvisionCommit(r) \/ ProvisionRollback(r)
  \/ LinkWrite(r) \/ MarkFailed(r) \/ MarkLinkFailed(r)
  \/ UpdateFindDomain(r) \/ UpdateWrite(r) \/ StaleVersion(r) \/ RemoveWrite(r) \/ RestoreWrite(r)
  \/ SuspendWrite(r) \/ SuspendCrm(r) \/ SuspendRevert(r)
  \/ UnsuspendWrite(r) \/ UnsuspendCrm(r) \/ UnsuspendRevert(r)
  \/ CrmStatusRollback(r) \/ LinkWriteFails(r) \/ PlatformCallFails(r)

\* No request of the behaviour is left to serve.
AllServed == (\A r \in Requests : req[r].pc = "done") /\ UNCHANGED vars

Next == (\E r \in Requests : Start(r) \/ Step(r)) \/ Crash \/ AllServed

Spec == Init /\ [][Next]_vars

\* Every awaited call settles: it returns, or it throws and the handler's
\* catch block goes on.  Clients need not send requests; faults need not happen.
FairSpec == Spec /\ \A r \in Requests : WF_vars(Step(r))

-----------------------------------------------------------------------------
(* Properties.                                                             *)

TypeOK ==
  /\ tenant \in [Slugs -> Tenant]
  /\ org \in [Orgs -> Organization]
  /\ user \in [Emails -> CrmUser]
  /\ req \in [Requests -> Request]

\* Provisioning implements the abstract link, whatever the interleaving of
\* creates, retries and crashes: no tenant gets a second organization, no
\* organization a second tenant, and a link once written never changes.
\* (The CRM's unique slug and the read of crmOrganizationId in retryProvisioning.)
Link == INSTANCE TenantLink WITH owner <- [o \in Orgs |-> org[o].slug],
                                 link <- [s \in Slugs |-> tenant[s].link]
ImplementsTenantLink == Link!Spec

\* The handlers past the point where they own a provisioning attempt.
Provisioning(r, s) ==
  req[r].slug = s /\ req[r].pc \in {"provision", "link", "markFailed", "markLinkFailed"}

\* A row says SYNCING only while some handler is still going to settle it: a
\* racing create or retry may overwrite the mark of another, but the last to
\* finish always leaves SYNCED or FAILED.  (Every path of create and
\* retryProvisioning ends in a write of syncState; a crash, or a platform
\* database that rejects that write, breaks it.)
SyncingIsAttended ==
  \A s \in Slugs : tenant[s].sync = "SYNCING" => \E r \in Requests : Provisioning(r, s)

\* Every CRM organization is linked by its tenant, or its creator is about
\* to link it.  (runProvisioning is one transaction; only a link write that
\* fails or never happens leaves an organization behind.)
NoOrphanOrganization ==
  \A o \in Orgs : org[o].slug # None =>
    \/ tenant[org[o].slug].link = o
    \/ \E r \in Requests : req[r].pc = "link" /\ req[r].org = o

\* When a conditional write finds the version it expects, nobody has linked
\* the tenant or changed its e-mail or domain since the handler read it.
\* (The version guards of update, suspend and unsuspend, against every write
\* of create, retryProvisioning and update that carries a new version.)
NoLostUpdate ==
  \A r \in Requests :
    Versioned(r) /\ req[r].pc = "write" /\ Row(r).version = req[r].seen.version =>
      /\ Row(r).link = req[r].seen.link
      /\ Row(r).email = req[r].seen.email
      /\ Row(r).domain = req[r].seen.domain

\* Of the suspend and unsuspend requests that read the same version of a
\* tenant, at most one goes on to the CRM.  (The version in the where clause
\* decides, since the status check is made on an old read.)
OneStatusChangePerVersion ==
  \A r1, r2 \in Requests :
    /\ r1 # r2
    /\ req[r1].pc \in {"crm", "revert"} /\ req[r2].pc \in {"crm", "revert"}
    /\ req[r1].slug = req[r2].slug
    => req[r1].seen.version # req[r2].seen.version

\* Every request that is being served is answered.  (No handler waits for
\* another: each await ends in a result or an exception.)
RequestsAreAnswered == \A r \in Requests : Running(r) ~> req[r].pc = "done"

\* Without crashes and with a platform database that accepts writes, a
\* tenant never stays SYNCING.
SyncSettles == \A s \in Slugs : tenant[s].sync = "SYNCING" ~> tenant[s].sync # "SYNCING"

-----------------------------------------------------------------------------
(* What comments in the code say and the code does not do.                 *)

\* "retryable, honest sync state": when nothing is in flight, a linked
\* tenant is SYNCED and one that is FAILED can be retried.
HonestSyncState ==
  \A s \in Slugs :
    tenant[s].link # None /\ (\A r \in Requests : ~Provisioning(r, s)) => tenant[s].sync = "SYNCED"

=============================================================================

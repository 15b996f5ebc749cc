------------------------ MODULE TenantLifecycle_proofs ------------------------
(***************************************************************************)
(* Theorems about TenantLifecycle, for every set of tenants, requests and  *)
(* organizations and every fault.                                          *)
(***************************************************************************)
EXTENDS TenantLifecycle, TLAPS

-----------------------------------------------------------------------------
(* The invariant.                                                          *)

\* What a handler's locals are: it serves a tenant, and create and
\* retryProvisioning hold an e-mail address.
Locals ==
  \A r \in Requests :
    /\ Running(r) => req[r].slug \in Slugs
    /\ req[r].op \in {"create", "retry"} => req[r].email \in Emails
    /\ req[r].pc = "provision" => req[r].op \in {"create", "retry"}

\* The linking handler holds the organization of its tenant, not linked yet.
Linking ==
  \A r \in Requests : req[r].pc = "link" =>
    /\ req[r].org \in Orgs
    /\ org[req[r].org].slug = req[r].slug
    /\ Row(r).link = None

\* A tenant has at most one of them.
OneLinker ==
  \A r1, r2 \in Requests :
    r1 # r2 /\ req[r1].pc = "link" /\ req[r2].pc = "link" => req[r1].slug # req[r2].slug

\* A link leads to an organization of that tenant, from a row that exists.
LinkedOwned ==
  \A s \in Slugs :
    tenant[s].link # None => Exists(tenant[s]) /\ org[tenant[s].link].slug = s

\* What a versioned handler read is an earlier version of the row, or this one.
SeenEarlier ==
  \A r \in Requests : Versioned(r) /\ req[r].pc \in {"domain", "write"} =>
    /\ req[r].seen.version <= Row(r).version
    /\ req[r].seen.version = Row(r).version =>
         /\ Row(r).link = req[r].seen.link
         /\ Row(r).email = req[r].seen.email
         /\ Row(r).domain = req[r].seen.domain

\* A status change on its way to the CRM has made a version of its own.
Superseded ==
  \A r \in Requests : req[r].pc \in {"crm", "revert"} =>
    req[r].seen.version < Row(r).version

IInv ==
  /\ TypeOK /\ Locals
  /\ Linking /\ OneLinker /\ LinkedOwned
  /\ SeenEarlier /\ Superseded /\ OneStatusChangePerVersion

-----------------------------------------------------------------------------
(* Rows and locals, one write at a time.                                   *)

\* A record of the locals, written to req[r].
LEMMA ReqWritten ==
  ASSUME TypeOK, NEW r \in Requests, NEW q \in Request, req' = [req EXCEPT ![r] = q]
  PROVE  /\ req' \in [Requests -> Request]
         /\ req'[r] = q
         /\ \A p \in Requests \ {r} : req'[p] = req[p]
BY DEF TypeOK

Inputs == [email: Emails \cup {None, Keep}, domain: Domains \cup {None, Keep},
           status: TenantStatus \cup {Keep}]

\* The locals of a handler that has read a row.
LEMMA HandlerType ==
  ASSUME NEW op \in AllOps \cup {None}, NEW pc \in PC, NEW slug \in Slugs \cup {None},
         NEW input \in Inputs, NEW seen \in Tenant
  PROVE  LET h == Handler(op, pc, slug, input, seen)
         IN  /\ h \in Request
             /\ h.op = op /\ h.pc = pc /\ h.slug = slug /\ h.email = input.email /\ h.seen = seen
BY DEF Handler, Inputs, Request

\* The locals with which no handler runs.
LEMMA IdleType ==
  /\ NoTenant \in Tenant /\ NoInput \in Inputs
  /\ Idle \in Request /\ Idle.pc = "idle" /\ Idle.op = None
  /\ Done \in Request /\ Done.pc = "done" /\ Done.op = None
<1>1. NoTenant \in Tenant
  BY DEF NoTenant, Tenant, TenantStatus
<1>2. NoInput \in Inputs
  BY DEF NoInput, Inputs
<1> QED
  BY <1>1, <1>2, HandlerType DEF Idle, Done, PC

\* A new version of a row.
LEMMA BumpType ==
  ASSUME NEW row \in Tenant
  PROVE  /\ Bump(row) \in Tenant
         /\ Bump(row).version = row.version + 1
         /\ \A f \in {"link", "email", "domain", "status", "sync", "deleted"} :
              Bump(row)[f] = row[f]
BY DEF Bump, Tenant

\* The row that the link write leaves.
LEMMA LinkedRow ==
  ASSUME NEW row \in Tenant, NEW o \in Orgs
  PROVE  LET linked == [Bump(row) EXCEPT !.link = o, !.sync = "SYNCED"]
         IN  linked \in Tenant /\ linked.link = o /\ linked.sync = "SYNCED"
<1>1. Bump(row) \in Tenant
  BY BumpType
<1> QED
  BY <1>1 DEF Tenant

\* A row is written.
LEMMA RowWritten ==
  ASSUME TypeOK, NEW r \in Requests, NEW row \in Tenant, req[r].slug \in Slugs, SetRow(r, row)
  PROVE  /\ tenant' \in [Slugs -> Tenant]
         /\ tenant'[req[r].slug] = row
         /\ \A s \in Slugs \ {req[r].slug} : tenant'[s] = tenant[s]
BY DEF TypeOK, SetRow

\* Locals depends on each handler alone.
LEMMA LocalsOfOne ==
  ASSUME TypeOK, Locals, NEW r \in Requests,
         \A p \in Requests \ {r} : req'[p] = req[p],
         req'[r].pc \notin {"idle", "done"} => req'[r].slug \in Slugs,
         req'[r].op \in {"create", "retry"} => req'[r].email \in Emails,
         req'[r].pc = "provision" => req'[r].op \in {"create", "retry"}
  PROVE  Locals'
BY DEF Locals, Running

\* A handler moves on.
LEMMA GotoLocals ==
  ASSUME TypeOK, Locals, NEW r \in Requests, NEW pc \in PC, Goto(r, pc), Running(r),
         pc = "provision" => req[r].op \in {"create", "retry"}
  PROVE  /\ req' \in [Requests -> Request]
         /\ req'[r] = [req[r] EXCEPT !.pc = pc]
         /\ \A p \in Requests \ {r} : req'[p] = req[p]
         /\ Locals'
<1>1. /\ req' \in [Requests -> Request]
      /\ req'[r] = [req[r] EXCEPT !.pc = pc]
      /\ \A p \in Requests \ {r} : req'[p] = req[p]
  BY DEF TypeOK, Goto, Request
<1>2. req'[r].pc = pc /\ \A f \in {"op", "slug", "email"} : req'[r][f] = req[r][f]
  BY <1>1 DEF TypeOK, Request
<1>3. /\ Running(r) => req[r].slug \in Slugs
      /\ req[r].op \in {"create", "retry"} => req[r].email \in Emails
  BY DEF Locals
<1> QED
  BY <1>1, <1>2, <1>3, LocalsOfOne

\* A handler ends.
LEMMA FinishLocals ==
  ASSUME TypeOK, Locals, NEW r \in Requests, Finish(r)
  PROVE  /\ req' \in [Requests -> Request]
         /\ req'[r] = Done
         /\ \A p \in Requests \ {r} : req'[p] = req[p]
         /\ Locals'
<1>1. /\ req' \in [Requests -> Request]
      /\ req'[r] = Done
      /\ \A p \in Requests \ {r} : req'[p] = req[p]
  BY ReqWritten, IdleType DEF Finish
<1> QED
  BY <1>1, LocalsOfOne, IdleType, ConstantsAssumption DEF AllOps

\* The first await of a handler.
LEMMA BeginType ==
  ASSUME TypeOK, Locals, NEW r \in Requests, NEW start \in Request, NEW accepted \in BOOLEAN,
         start.slug \in Slugs,
         accepted /\ start.op \in {"create", "retry"} => start.email \in Emails,
         start.pc # "provision",
         Begin(r, accepted, start)
  PROVE  TypeOK' /\ Locals'
<1>1. PICK q \in {start, Done} : req' = [req EXCEPT ![r] = q] /\ (accepted \/ q = Done)
  BY DEF Begin
<1>2. q \in Request
  BY IdleType
<1>3. /\ req' \in [Requests -> Request]
      /\ req'[r] = q
      /\ \A p \in Requests \ {r} : req'[p] = req[p]
  BY <1>1, <1>2, ReqWritten
<1>5. TypeOK'
  BY <1>3 DEF Begin, TypeOK, stores
<1>6. Locals'
  BY <1>1, <1>3, IdleType, LocalsOfOne, ConstantsAssumption DEF AllOps
<1> QED
  BY <1>5, <1>6

-----------------------------------------------------------------------------
(* Type correctness.                                                       *)

LEMMA TypeInit == Init => TypeOK /\ Locals
BY ConstantsAssumption, IdleType
   DEF Init, TypeOK, Locals, Running, Idle, NoOrg, Organization, NoUser, CrmUser, AllOps

LEMMA TypeStart ==
  ASSUME TypeOK, Locals, NEW r \in Requests, Start(r)
  PROVE  TypeOK' /\ Locals'
<1> USE IdleType
<1>1. \A s \in Slugs : tenant[s] \in Tenant /\ tenant[s].email \in Emails \cup {None}
  BY DEF TypeOK, Tenant
<1>2. ASSUME NEW s \in Slugs, NEW op \in AllOps, NEW pc \in PC \ {"provision"},
             NEW input \in Inputs, NEW seen \in Tenant, NEW accepted \in BOOLEAN,
             accepted /\ op \in {"create", "retry"} => input.email \in Emails,
             Begin(r, accepted, Handler(op, pc, s, input, seen))
      PROVE  TypeOK' /\ Locals'
  BY <1>2, HandlerType, BeginType
<1>3. CASE CreateFindSlug(r)
  <2>1. CreateInputs \subseteq Inputs /\ \A dto \in CreateInputs : dto.email \in Emails
    BY ConstantsAssumption DEF Inputs
  <2> QED
    BY <1>1, <1>2, <1>3, <2>1 DEF CreateFindSlug, AllOps, PC, Exists, Reusable
<1>4. CASE RetryRead(r)
  <2>1. ASSUME NEW e \in Emails \cup {None}
        PROVE  [NoInput EXCEPT !.email = e] \in Inputs /\ [NoInput EXCEPT !.email = e].email = e
    BY DEF NoInput, Inputs
  <2>2. PICK s \in Slugs, accepted \in BOOLEAN, input \in Inputs :
          /\ accepted => input.email \in Emails
          /\ Begin(r, accepted, Handler("retry", "mark", s, input, NoTenant))
    BY <1>1, <1>4, <2>1 DEF RetryRead, Live, Exists
  <2> QED
    BY <1>2, <2>2 DEF AllOps, PC
<1>5. CASE UpdateRead(r)
  <2>1. UpdateInputs \subseteq Inputs
    BY ConstantsAssumption DEF Inputs
  <2> QED
    BY <1>1, <1>2, <1>5, <2>1 DEF UpdateRead, AllOps, PC, Live, Exists
<1>6. CASE RemoveRead(r)
  BY <1>1, <1>2, <1>6 DEF RemoveRead, AllOps, PC, Live, Exists
<1>7. CASE RestoreRead(r)
  BY <1>1, <1>2, <1>7 DEF RestoreRead, AllOps, PC, Live, Exists
<1>8. CASE SuspendRead(r)
  BY <1>1, <1>2, <1>8 DEF SuspendRead, AllOps, PC, Live, Exists
<1>9. CASE UnsuspendRead(r)
  BY <1>1, <1>2, <1>9 DEF UnsuspendRead, AllOps, PC, Live, Exists
<1> QED
  BY <1>3, <1>4, <1>5, <1>6, <1>7, <1>8, <1>9 DEF Start

\* A status change writes one row, and takes the organization from it.
LEMMA TypeStatusWrite ==
  ASSUME TypeOK, Locals, NEW r \in Requests, Running(r), req[r].op \notin {"create", "retry"},
         NEW status \in TenantStatus, StatusWrite(r, status)
  PROVE  TypeOK' /\ Locals'
<1>1. req[r].slug \in Slugs /\ Row(r) \in Tenant /\ Row(r).link \in Orgs \cup {None}
  BY DEF Locals, Row, TypeOK, Tenant
<1>2. [Bump(Row(r)) EXCEPT !.status = status] \in Tenant
  BY <1>1, BumpType DEF Tenant
<1>3. tenant' \in [Slugs -> Tenant]
  BY <1>1, <1>2, RowWritten DEF StatusWrite, TypeOK
<1>4. CASE Finish(r)
  BY <1>3, <1>4, FinishLocals DEF StatusWrite, TypeOK
<1>5. CASE req' = [req EXCEPT ![r].pc = "crm", ![r].org = Row(r).link]
  <2>1. /\ req' \in [Requests -> Request]
        /\ req'[r].pc = "crm" /\ req'[r].slug = req[r].slug /\ req'[r].op = req[r].op
        /\ \A p \in Requests \ {r} : req'[p] = req[p]
    <3> DEFINE q == [req[r] EXCEPT !.pc = "crm", !.org = Row(r).link]
    <3>1. q \in Request /\ q.pc = "crm" /\ q.slug = req[r].slug /\ q.op = req[r].op
      BY ZenonT(40), <1>1 DEF TypeOK, Request, PC
    <3>2. req' = [req EXCEPT ![r] = q]
      BY <1>5
    <3> QED
      BY <3>1, <3>2, ReqWritten
  <2>3. Locals'
    BY <1>1, <2>1, LocalsOfOne
  <2> QED
    BY <1>3, <2>1, <2>3 DEF StatusWrite, TypeOK
<1> QED
  BY <1>4, <1>5 DEF StatusWrite

LEMMA TypeStep ==
  ASSUME TypeOK, Locals, NEW r \in Requests, Step(r)
  PROVE  TypeOK' /\ Locals'
<1>1. req[r] \in Request
  BY DEF TypeOK
<1>2. Running(r) => req[r].slug \in Slugs /\ Row(r) \in Tenant
  BY DEF Locals, Row, TypeOK
<1>3. ASSUME UNCHANGED <<org, user>>, tenant' \in [Slugs -> Tenant], Running(r),
             Finish(r) \/ \E pc \in PC : /\ Goto(r, pc)
                                         /\ pc = "provision" => req[r].op \in {"create", "retry"}
      PROVE  TypeOK' /\ Locals'
  <2>1. req' \in [Requests -> Request] /\ Locals'
    <3>1. CASE Finish(r)
      BY <3>1, FinishLocals
    <3>2. CASE ~Finish(r)
      <4>1. PICK pc \in PC : /\ Goto(r, pc)
                             /\ pc = "provision" => req[r].op \in {"create", "retry"}
        BY <1>3, <3>2
      <4> QED
        BY <1>3, <4>1, GotoLocals
    <3> QED
      BY <3>1, <3>2
  <2> QED
    BY <1>3, <2>1 DEF TypeOK
<1>4. UNCHANGED tenant => tenant' \in [Slugs -> Tenant]
  BY DEF TypeOK
<1>5. CASE CreateFindDomain(r)
  BY <1>3, <1>4, <1>5 DEF CreateFindDomain, At, Running, PC, stores
<1>6. CASE CreateWrite(r)
  <2> DEFINE base == IF Exists(req[r].seen) THEN Row(r) ELSE NoTenant
             row == [Bump(base) EXCEPT !.email = req[r].email,
                                       !.domain = Given(req[r].domain, @),
                                       !.status = Given(req[r].status, "ACTIVE"),
                                       !.sync = "SYNCING"]
  <2>1. Running(r) /\ req[r].op = "create" /\ req[r].email \in Emails
    BY <1>6 DEF CreateWrite, At, Running, Locals
  <2>2. base \in Tenant
    BY <1>2, <2>1, IdleType
  <2> HIDE DEF base
  <2>3. Bump(base) \in Tenant /\ Bump(base).domain \in Domains \cup {None}
    BY <2>2, BumpType DEF Tenant
  <2>4. /\ Given(req[r].domain, Bump(base).domain) \in Domains \cup {None}
        /\ Given(req[r].status, "ACTIVE") \in TenantStatus
    BY <1>1, <2>3 DEF Given, Request, TenantStatus
  <2>5. row \in Tenant
    BY <2>1, <2>3, <2>4 DEF Tenant
  <2> HIDE DEF row
  <2>6. CASE SetRow(r, row)
    BY <1>2, <1>3, <1>6, <2>1, <2>5, <2>6, RowWritten DEF CreateWrite, PC
  <2>7. CASE ~SetRow(r, row)
    <3>1. Finish(r) /\ UNCHANGED <<tenant, org, user>>
      BY <1>6, <2>7 DEF CreateWrite, row, base
    <3> QED
      BY <1>3, <1>4, <2>1, <3>1
  <2> QED
    BY <2>6, <2>7
<1>7. CASE RetryMark(r)
  <2>1. [Bump(Row(r)) EXCEPT !.sync = "SYNCING"] \in Tenant
    BY <1>2, <1>7, BumpType DEF RetryMark, At, Running, Tenant
  <2> QED
    BY <1>2, <1>3, <1>7, <2>1, RowWritten DEF RetryMark, At, Running, PC
<1>8. CASE ProvisionCommit(r)
  <2>1. PICK o \in Orgs :
          /\ org' = [org EXCEPT ![o] = [slug |-> req[r].slug, email |-> req[r].email,
                                        status |-> "Active"]]
          /\ user' = [user EXCEPT ![req[r].email] = [org |-> o, active |-> TRUE,
                                                     locked |-> FALSE, session |-> FALSE]]
          /\ req' = [req EXCEPT ![r].pc = "link", ![r].org = o]
    BY <1>8 DEF ProvisionCommit
  <2>2. req[r].slug \in Slugs /\ req[r].email \in Emails
    BY <1>2, <1>8 DEF ProvisionCommit, Running, Locals
  <2>3. org' \in [Orgs -> Organization]
    BY <2>1, <2>2 DEF TypeOK, Organization
  <2>4. user' \in [Emails -> CrmUser]
    BY <2>1, <2>2 DEF TypeOK, CrmUser
  <2> DEFINE q == [req[r] EXCEPT !.pc = "link", !.org = o]
  <2>5. q \in Request /\ q.pc = "link" /\ q.slug = req[r].slug /\ q.op = req[r].op
        /\ q.email = req[r].email
    BY <1>1 DEF Request, PC
  <2>6. req' = [req EXCEPT ![r] = q]
    BY <2>1
  <2> HIDE DEF q
  <2>7. req' \in [Requests -> Request] /\ Locals'
    BY <2>2, <2>5, <2>6, ReqWritten, LocalsOfOne
  <2> QED
    BY <1>8, <2>3, <2>4, <2>7 DEF ProvisionCommit, TypeOK
<1>9. CASE ProvisionRollback(r)
  BY <1>3, <1>4, <1>9 DEF ProvisionRollback, Running, PC, stores
<1>10. CASE LinkWrite(r)
  <2>1. req[r].org \in Orgs \cup {None} /\ Bump(Row(r)) \in Tenant
    BY <1>1, <1>2, <1>10, BumpType DEF LinkWrite, Running, Request
  <2>2. [Bump(Row(r)) EXCEPT !.link = req[r].org, !.sync = "SYNCED"] \in Tenant
    BY <2>1 DEF Tenant
  <2> QED
    BY <1>2, <1>3, <1>10, <2>2, RowWritten DEF LinkWrite, Running
<1>11. CASE MarkFailed(r)
  <2>1. [Bump(Row(r)) EXCEPT !.sync = "FAILED"] \in Tenant
    BY <1>2, <1>11, BumpType DEF MarkFailed, Running, Tenant
  <2> QED
    BY <1>2, <1>3, <1>11, <2>1, RowWritten DEF MarkFailed, Running
<1>12. CASE MarkLinkFailed(r)
  <2>1. [Row(r) EXCEPT !.sync = "FAILED"] \in Tenant
    BY <1>2, <1>12 DEF MarkLinkFailed, Running, Tenant
  <2> QED
    BY <1>2, <1>3, <1>12, <2>1, RowWritten DEF MarkLinkFailed, Running
<1>13. CASE UpdateFindDomain(r)
  BY <1>3, <1>4, <1>13 DEF UpdateFindDomain, At, Running, PC, stores
<1>14. CASE UpdateWrite(r)
  <2> DEFINE row == [Bump(Row(r)) EXCEPT !.email = Given(req[r].email, @),
                                         !.domain = Given(req[r].domain, @),
                                         !.status = Given(req[r].status, @)]
  <2>1. Running(r) /\ Finish(r) /\ UNCHANGED <<org, user>>
    BY <1>14 DEF UpdateWrite, At, Running
  <2>2. Bump(Row(r)) \in Tenant
    BY <1>2, <2>1, BumpType
  <2>3. /\ Given(req[r].email, Bump(Row(r)).email) \in Emails \cup {None}
        /\ Given(req[r].domain, Bump(Row(r)).domain) \in Domains \cup {None}
        /\ Given(req[r].status, Bump(Row(r)).status) \in TenantStatus
    BY <1>1, <2>2 DEF Given, Request, Tenant
  <2>4. row \in Tenant
    BY <2>2, <2>3 DEF Tenant
  <2>5. SetRow(r, row) \/ UNCHANGED tenant
    BY <1>14 DEF UpdateWrite
  <2> HIDE DEF row
  <2> QED
    BY <1>2, <1>3, <1>4, <2>1, <2>4, <2>5, RowWritten
<1>15. CASE StaleVersion(r)
  BY <1>3, <1>4, <1>15 DEF StaleVersion, Running, stores
<1>16. CASE RemoveWrite(r)
  <2>1. [Row(r) EXCEPT !.deleted = TRUE, !.status = "DELETED"] \in Tenant
    BY <1>2, <1>16 DEF RemoveWrite, At, Running, Tenant, TenantStatus
  <2> QED
    BY <1>2, <1>3, <1>16, <2>1, RowWritten DEF RemoveWrite, At, Running
<1>17. CASE RestoreWrite(r)
  <2>1. [Row(r) EXCEPT !.deleted = FALSE, !.status = "ACTIVE"] \in Tenant
    BY <1>2, <1>17 DEF RestoreWrite, At, Running, Tenant, TenantStatus
  <2> QED
    BY <1>2, <1>3, <1>17, <2>1, RowWritten DEF RestoreWrite, At, Running
<1>18. CASE SuspendWrite(r)
  BY <1>18, TypeStatusWrite DEF SuspendWrite, At, Running, TenantStatus
<1>19. CASE UnsuspendWrite(r)
  BY <1>19, TypeStatusWrite DEF UnsuspendWrite, At, Running, TenantStatus
<1>20. CASE SuspendCrm(r)
  <2>1. org' \in [Orgs -> Organization]
    BY <1>20 DEF SuspendCrm, TypeOK, Organization
  <2>2. user' \in [Emails -> CrmUser]
    BY <1>20 DEF SuspendCrm, TypeOK, CrmUser
  <2> QED
    BY <1>20, <2>1, <2>2, FinishLocals DEF SuspendCrm, TypeOK
<1>21. CASE UnsuspendCrm(r)
  <2>1. org' \in [Orgs -> Organization]
    BY <1>21 DEF UnsuspendCrm, TypeOK, Organization
  <2>2. user' \in [Emails -> CrmUser]
    BY <1>21 DEF UnsuspendCrm, TypeOK, CrmUser
  <2> QED
    BY <1>21, <2>1, <2>2, FinishLocals DEF UnsuspendCrm, TypeOK
<1>22. CASE SuspendRevert(r)
  <2>1. [Bump(Row(r)) EXCEPT !.status = "ACTIVE"] \in Tenant
    BY <1>2, <1>22, BumpType DEF SuspendRevert, At, Running, Tenant, TenantStatus
  <2> QED
    BY <1>2, <1>3, <1>22, <2>1, RowWritten DEF SuspendRevert, At, Running
<1>23. CASE UnsuspendRevert(r)
  <2>1. [Bump(Row(r)) EXCEPT !.status = "SUSPENDED"] \in Tenant
    BY <1>2, <1>23, BumpType DEF UnsuspendRevert, At, Running, Tenant, TenantStatus
  <2> QED
    BY <1>2, <1>3, <1>23, <2>1, RowWritten DEF UnsuspendRevert, At, Running
<1>24. CASE CrmStatusRollback(r)
  BY <1>3, <1>4, <1>24 DEF CrmStatusRollback, Running, PC, stores
<1>25. CASE LinkWriteFails(r)
  BY <1>3, <1>4, <1>25 DEF LinkWriteFails, Running, PC, stores
<1>26. CASE PlatformCallFails(r)
  BY <1>3, <1>4, <1>26 DEF PlatformCallFails, Running, stores
<1> QED
  BY <1>5, <1>6, <1>7, <1>8, <1>9, <1>10, <1>11, <1>12, <1>13, <1>14, <1>15, <1>16, <1>17,
     <1>18, <1>19, <1>20, <1>21, <1>22, <1>23, <1>24, <1>25, <1>26 DEF Step

LEMMA TypeNext == TypeOK /\ Locals /\ [Next]_vars => TypeOK' /\ Locals'
<1> SUFFICES ASSUME TypeOK, Locals, [Next]_vars
             PROVE  TypeOK' /\ Locals'
  OBVIOUS
<1>1. ASSUME NEW r \in Requests, Start(r) \/ Step(r)
      PROVE  TypeOK' /\ Locals'
  BY <1>1, TypeStart, TypeStep
<1>2. CASE Crash
  BY <1>2, IdleType, ConstantsAssumption DEF Crash, TypeOK, Locals, Running, stores, AllOps
<1>3. CASE UNCHANGED vars
  BY <1>3 DEF vars, TypeOK, Locals, Running
<1> QED
  BY <1>1, <1>2, <1>3 DEF Next, AllServed

\* Every reachable state is well typed (TypeOK, of the run lifecycle_faults).
THEOREM TypeCorrect == Spec => []TypeOK
<1>1. Init => TypeOK /\ Locals
  BY TypeInit
<1>2. TypeOK /\ Locals /\ [Next]_vars => (TypeOK /\ Locals)'
  BY TypeNext
<1> QED
  BY <1>1, <1>2, PTL DEF Spec

-----------------------------------------------------------------------------
(* What a step does to the rows and to its own handler.                    *)

\* row is a later state of old: a new version, or a write that leaves the
\* version and with it the link, the e-mail address and the domain.
Later(row, old) ==
  /\ row.version >= old.version
  /\ row.version = old.version =>
       row.link = old.link /\ row.email = old.email /\ row.domain = old.domain

\* Only LinkWrite changes a link.
LinkKept(r, s) ==
  \/ tenant'[s].link = tenant[s].link
  \/ LinkWrite(r) /\ s = req[r].slug /\ tenant'[s].link = req[r].org

LEMMA RowLater ==
  ASSUME TypeOK, NEW r \in Requests, NEW row \in Tenant, req[r].slug \in Slugs, SetRow(r, row),
         Later(row, Row(r)),
         row.link = Row(r).link \/ (LinkWrite(r) /\ row.link = req[r].org)
  PROVE  \A s \in Slugs : Later(tenant'[s], tenant[s]) /\ LinkKept(r, s)
<1>1. /\ tenant'[req[r].slug] = row
      /\ \A s \in Slugs \ {req[r].slug} : tenant'[s] = tenant[s]
  BY RowWritten
<1>2. \A s \in Slugs : tenant[s].version \in Nat
  BY DEF TypeOK, Tenant
<1> QED
  BY <1>1, <1>2 DEF Later, LinkKept, Row

\* A new version of the row, with the same link.
LEMMA BumpLater ==
  ASSUME TypeOK, NEW r \in Requests, NEW row \in Tenant, req[r].slug \in Slugs, SetRow(r, row),
         row.version = Bump(Row(r)).version, row.link = Row(r).link
  PROVE  \A s \in Slugs : Later(tenant'[s], tenant[s]) /\ LinkKept(r, s)
<1>1. Row(r) \in Tenant /\ Row(r).version \in Nat
  BY DEF TypeOK, Row, Tenant
<1>2. row.version = Row(r).version + 1
  BY <1>1, BumpType
<1>3. Later(row, Row(r))
  BY <1>1, <1>2 DEF Later
<1> QED
  BY <1>3, RowLater

LEMMA RowsGrow ==
  ASSUME TypeOK, Locals, LinkedOwned, NEW r \in Requests, Step(r)
  PROVE  \A s \in Slugs : Later(tenant'[s], tenant[s]) /\ LinkKept(r, s)
<1>1. req[r] \in Request
  BY DEF TypeOK
<1>2. Running(r) => req[r].slug \in Slugs /\ Row(r) \in Tenant
  BY DEF Locals, Row, TypeOK
<1>3. ASSUME UNCHANGED tenant
      PROVE  \A s \in Slugs : Later(tenant'[s], tenant[s]) /\ LinkKept(r, s)
  BY <1>3 DEF TypeOK, Tenant, Later, LinkKept
<1>4. CASE CreateWrite(r)
  <2> DEFINE base == IF Exists(req[r].seen) THEN Row(r) ELSE NoTenant
             row == [Bump(base) EXCEPT !.email = req[r].email,
                                       !.domain = Given(req[r].domain, @),
                                       !.status = Given(req[r].status, "ACTIVE"),
                                       !.sync = "SYNCING"]
  <2>1. Running(r) /\ req[r].op = "create" /\ req[r].email \in Emails
    BY <1>4 DEF CreateWrite, At, Running, Locals
  <2>2. CASE UNCHANGED tenant
    BY <1>3, <2>2
  <2>3. CASE ~UNCHANGED tenant
    <3>1. SetRow(r, row) /\ (Exists(req[r].seen) \/ ~Exists(Row(r)))
      BY <1>4, <2>3 DEF CreateWrite
    <3>2. base \in Tenant /\ base.version = Row(r).version /\ base.link = Row(r).link
      BY <1>2, <2>1, <3>1, IdleType DEF LinkedOwned, Row, Exists, NoTenant, Tenant
    <3> HIDE DEF base
    <3>3. /\ Bump(base) \in Tenant
          /\ Bump(base).version = Bump(Row(r)).version /\ Bump(base).link = Row(r).link
          /\ Bump(base).domain \in Domains \cup {None}
      BY <1>2, <2>1, <3>2, BumpType DEF Tenant
    <3>4. /\ Given(req[r].domain, Bump(base).domain) \in Domains \cup {None}
          /\ Given(req[r].status, "ACTIVE") \in TenantStatus
      BY <1>1, <3>3 DEF Given, Request, TenantStatus
    <3>5. row \in Tenant /\ row.version = Bump(Row(r)).version /\ row.link = Row(r).link
      BY <2>1, <3>3, <3>4 DEF Tenant
    <3> HIDE DEF row
    <3> QED
      BY <1>2, <2>1, <3>1, <3>5, BumpLater
  <2> QED
    BY <2>2, <2>3
<1>5. CASE RetryMark(r)
  <2> DEFINE row == [Bump(Row(r)) EXCEPT !.sync = "SYNCING"]
  <2>1. Running(r) /\ SetRow(r, row)
    BY <1>5 DEF RetryMark, At, Running
  <2>2. row \in Tenant /\ row.version = Bump(Row(r)).version /\ row.link = Row(r).link
    BY <1>2, <2>1, BumpType DEF Tenant, TenantStatus
  <2> HIDE DEF row
  <2> QED
    BY <1>2, <2>1, <2>2, BumpLater
<1>6. CASE LinkWrite(r)
  <2> DEFINE row == [Bump(Row(r)) EXCEPT !.link = req[r].org, !.sync = "SYNCED"]
  <2>1. Running(r) /\ SetRow(r, row) /\ req[r].org \in Orgs \cup {None}
    BY <1>1, <1>6 DEF LinkWrite, Running, Request
  <2>2. Bump(Row(r)) \in Tenant /\ Bump(Row(r)).version = Row(r).version + 1
    BY <1>2, <2>1, BumpType
  <2>3. row \in Tenant /\ row.version = Row(r).version + 1 /\ row.link = req[r].org
    BY <2>1, <2>2 DEF Tenant
  <2> HIDE DEF row
  <2>4. Later(row, Row(r))
    BY <1>2, <2>1, <2>3 DEF Later, Tenant
  <2> QED
    BY <1>2, <1>6, <2>1, <2>3, <2>4, RowLater
<1>7. CASE MarkFailed(r)
  <2> DEFINE row == [Bump(Row(r)) EXCEPT !.sync = "FAILED"]
  <2>1. Running(r) /\ SetRow(r, row)
    BY <1>7 DEF MarkFailed, Running
  <2>2. row \in Tenant /\ row.version = Bump(Row(r)).version /\ row.link = Row(r).link
    BY <1>2, <2>1, BumpType DEF Tenant, TenantStatus
  <2> HIDE DEF row
  <2> QED
    BY <1>2, <2>1, <2>2, BumpLater
<1>8. CASE MarkLinkFailed(r)
  <2> DEFINE row == [Row(r) EXCEPT !.sync = "FAILED"]
  <2>1. Running(r) /\ SetRow(r, row)
    BY <1>8 DEF MarkLinkFailed, Running
  <2>2. row \in Tenant /\ \A f \in {"version", "link", "email", "domain"} : row[f] = Row(r)[f]
    BY <1>2, <2>1 DEF Tenant, TenantStatus
  <2> HIDE DEF row
  <2>3. Later(row, Row(r)) /\ row.link = Row(r).link
    BY <1>2, <2>1, <2>2 DEF Later, Tenant
  <2> QED
    BY <1>2, <2>1, <2>2, <2>3, RowLater
<1>9. CASE UpdateWrite(r)
  <2> DEFINE row == [Bump(Row(r)) EXCEPT !.email = Given(req[r].email, @),
                                         !.domain = Given(req[r].domain, @),
                                         !.status = Given(req[r].status, @)]
  <2>1. Running(r) /\ (SetRow(r, row) \/ UNCHANGED tenant)
    BY <1>9 DEF UpdateWrite, At, Running
  <2>2. Bump(Row(r)) \in Tenant /\ Bump(Row(r)).link = Row(r).link
    BY <1>2, <2>1, BumpType
  <2>3. /\ Given(req[r].email, Bump(Row(r)).email) \in Emails \cup {None}
        /\ Given(req[r].domain, Bump(Row(r)).domain) \in Domains \cup {None}
        /\ Given(req[r].status, Bump(Row(r)).status) \in TenantStatus
    BY <1>1, <2>2 DEF Given, Request, Tenant
  <2>4. row \in Tenant /\ row.version = Bump(Row(r)).version /\ row.link = Row(r).link
    BY <2>2, <2>3 DEF Tenant
  <2> HIDE DEF row
  <2> QED
    BY <1>2, <1>3, <2>1, <2>4, BumpLater
<1>10. CASE RemoveWrite(r)
  <2> DEFINE row == [Row(r) EXCEPT !.deleted = TRUE, !.status = "DELETED"]
  <2>1. Running(r) /\ SetRow(r, row)
    BY <1>10 DEF RemoveWrite, At, Running
  <2>2. row \in Tenant /\ \A f \in {"version", "link", "email", "domain"} : row[f] = Row(r)[f]
    BY <1>2, <2>1 DEF Tenant, TenantStatus
  <2> HIDE DEF row
  <2>3. Later(row, Row(r)) /\ row.link = Row(r).link
    BY <1>2, <2>1, <2>2 DEF Later, Tenant
  <2> QED
    BY <1>2, <2>1, <2>2, <2>3, RowLater
<1>11. CASE RestoreWrite(r)
  <2> DEFINE row == [Row(r) EXCEPT !.deleted = FALSE, !.status = "ACTIVE"]
  <2>1. Running(r) /\ SetRow(r, row)
    BY <1>11 DEF RestoreWrite, At, Running
  <2>2. row \in Tenant /\ \A f \in {"version", "link", "email", "domain"} : row[f] = Row(r)[f]
    BY <1>2, <2>1 DEF Tenant, TenantStatus
  <2> HIDE DEF row
  <2>3. Later(row, Row(r)) /\ row.link = Row(r).link
    BY <1>2, <2>1, <2>2 DEF Later, Tenant
  <2> QED
    BY <1>2, <2>1, <2>2, <2>3, RowLater
<1>12. ASSUME NEW status \in TenantStatus, Running(r), StatusWrite(r, status)
      PROVE  \A s \in Slugs : Later(tenant'[s], tenant[s]) /\ LinkKept(r, s)
  <2> DEFINE row == [Bump(Row(r)) EXCEPT !.status = status]
  <2>1. SetRow(r, row) \/ UNCHANGED tenant
    BY <1>12 DEF StatusWrite
  <2>2. row \in Tenant /\ row.version = Bump(Row(r)).version /\ row.link = Row(r).link
    BY <1>2, <1>12, BumpType DEF Tenant
  <2> HIDE DEF row
  <2> QED
    BY <1>2, <1>3, <1>12, <2>1, <2>2, BumpLater
<1>13. CASE SuspendWrite(r) \/ UnsuspendWrite(r)
  BY <1>12, <1>13 DEF SuspendWrite, UnsuspendWrite, At, Running, TenantStatus
<1>14. CASE SuspendRevert(r)
  <2> DEFINE row == [Bump(Row(r)) EXCEPT !.status = "ACTIVE"]
  <2>1. Running(r) /\ SetRow(r, row)
    BY <1>14 DEF SuspendRevert, At, Running
  <2>2. row \in Tenant /\ row.version = Bump(Row(r)).version /\ row.link = Row(r).link
    BY <1>2, <2>1, BumpType DEF Tenant, TenantStatus
  <2> HIDE DEF row
  <2> QED
    BY <1>2, <2>1, <2>2, BumpLater
<1>15. CASE UnsuspendRevert(r)
  <2> DEFINE row == [Bump(Row(r)) EXCEPT !.status = "SUSPENDED"]
  <2>1. Running(r) /\ SetRow(r, row)
    BY <1>15 DEF UnsuspendRevert, At, Running
  <2>2. row \in Tenant /\ row.version = Bump(Row(r)).version /\ row.link = Row(r).link
    BY <1>2, <2>1, BumpType DEF Tenant, TenantStatus
  <2> HIDE DEF row
  <2> QED
    BY <1>2, <2>1, <2>2, BumpLater
<1> QED
  BY <1>3, <1>4, <1>5, <1>6, <1>7, <1>8, <1>9, <1>10, <1>11, <1>13, <1>14, <1>15
     DEF Step, stores, CreateFindDomain, ProvisionCommit, ProvisionRollback, UpdateFindDomain,
         StaleVersion, SuspendCrm, UnsuspendCrm, CrmStatusRollback, LinkWriteFails,
         PlatformCallFails

\* Handlers other than the one that steps keep their locals, and this one
\* keeps its tenant and what it read of it until it ends.  It reaches the link
\* write through ProvisionCommit alone, and the CRM with the version it read.
Proceeds(r) ==
  /\ \A p \in Requests \ {r} : req'[p] = req[p]
  /\ req'[r].pc = "done" \/ (/\ req'[r].op = req[r].op /\ req'[r].slug = req[r].slug
                             /\ req'[r].seen = req[r].seen)
  /\ req'[r].pc = "link" => ProvisionCommit(r)
  /\ req'[r].pc \in {"domain", "write"} => req[r].pc \in {"domain", "write"}
  /\ req'[r].pc \in {"crm", "revert"} =>
       \/ req[r].pc \in {"crm", "revert"}
       \/ /\ req[r].seen.version = Row(r).version
          /\ tenant'[req[r].slug].version = Row(r).version + 1

LEMMA StepProceeds ==
  ASSUME TypeOK, Locals, NEW r \in Requests, Step(r)
  PROVE  Proceeds(r)
<1>1. req[r] \in Request
  BY DEF TypeOK
<1>2. ASSUME Finish(r)
      PROVE  Proceeds(r)
  BY <1>2, FinishLocals, IdleType DEF Proceeds
<1>3. ASSUME NEW pc \in PC \ {"link"}, Goto(r, pc),
             pc \in {"domain", "write"} => req[r].pc \in {"domain", "write"},
             pc \in {"crm", "revert"} => req[r].pc \in {"crm", "revert"}
      PROVE  Proceeds(r)
  <2> DEFINE q == [req[r] EXCEPT !.pc = pc]
  <2>1. /\ q \in Request /\ q.pc = pc
        /\ q.op = req[r].op /\ q.slug = req[r].slug /\ q.seen = req[r].seen
    BY <1>1 DEF Request
  <2>2. req' = [req EXCEPT ![r] = q]
    BY <1>3 DEF Goto
  <2> HIDE DEF q
  <2>3. req'[r] = q /\ \A p \in Requests \ {r} : req'[p] = req[p]
    BY <2>1, <2>2, ReqWritten
  <2> QED
    BY <1>3, <2>1, <2>3 DEF Proceeds
<1>4. CASE ProvisionCommit(r)
  <2>1. PICK o \in Orgs : req' = [req EXCEPT ![r].pc = "link", ![r].org = o]
    BY <1>4 DEF ProvisionCommit
  <2> DEFINE q == [req[r] EXCEPT !.pc = "link", !.org = o]
  <2>2. /\ q \in Request /\ q.pc = "link"
        /\ q.op = req[r].op /\ q.slug = req[r].slug /\ q.seen = req[r].seen
    BY <1>1 DEF Request, PC
  <2>3. req' = [req EXCEPT ![r] = q]
    BY <2>1
  <2> HIDE DEF q
  <2>4. req'[r] = q /\ \A p \in Requests \ {r} : req'[p] = req[p]
    BY <2>2, <2>3, ReqWritten
  <2> QED
    BY <1>4, <2>2, <2>4 DEF Proceeds
<1>5. ASSUME NEW status \in TenantStatus, Running(r), StatusWrite(r, status)
      PROVE  Proceeds(r)
  <2>1. Row(r) \in Tenant /\ req[r].slug \in Slugs /\ Row(r).link \in Orgs \cup {None}
    BY <1>5 DEF Locals, Row, TypeOK, Tenant
  <2>2. CASE ~Finish(r)
    <3> DEFINE row == [Bump(Row(r)) EXCEPT !.status = status]
               q == [req[r] EXCEPT !.pc = "crm", !.org = Row(r).link]
    <3>1. /\ Row(r).version = req[r].seen.version
          /\ SetRow(r, row)
          /\ req' = [req EXCEPT ![r] = q]
      BY <1>5, <2>2 DEF StatusWrite
    <3>2. row \in Tenant /\ row.version = Row(r).version + 1
      BY <2>1, BumpType DEF Tenant
    <3>3. /\ q \in Request /\ q.pc = "crm"
          /\ q.op = req[r].op /\ q.slug = req[r].slug /\ q.seen = req[r].seen
      BY <1>1, <2>1 DEF Request, PC
    <3> HIDE DEF row, q
    <3>4. req'[r] = q /\ \A p \in Requests \ {r} : req'[p] = req[p]
      BY <3>1, <3>3, ReqWritten
    <3>5. tenant'[req[r].slug].version = Row(r).version + 1
      BY <2>1, <3>1, <3>2, RowWritten
    <3> QED
      BY <3>1, <3>3, <3>4, <3>5 DEF Proceeds
  <2> QED
    BY <1>2, <2>2
<1>6. CASE SuspendWrite(r) \/ UnsuspendWrite(r)
  BY <1>5, <1>6 DEF SuspendWrite, UnsuspendWrite, At, Running, TenantStatus
<1>7. CASE CreateFindDomain(r) \/ UpdateFindDomain(r)
  BY <1>2, <1>3, <1>7 DEF CreateFindDomain, UpdateFindDomain, At, PC
<1>8. CASE CreateWrite(r) \/ RetryMark(r)
  BY <1>2, <1>3, <1>8 DEF CreateWrite, RetryMark, PC
<1>9. CASE ProvisionRollback(r) \/ CrmStatusRollback(r) \/ LinkWriteFails(r)
  BY <1>2, <1>3, <1>9 DEF ProvisionRollback, CrmStatusRollback, LinkWriteFails, PC
<1> QED
  BY <1>2, <1>4, <1>6, <1>7, <1>8, <1>9
     DEF Step, LinkWrite, MarkFailed, MarkLinkFailed, UpdateWrite, StaleVersion, RemoveWrite,
         RestoreWrite, SuspendCrm, SuspendRevert, UnsuspendCrm, UnsuspendRevert, PlatformCallFails

\* An organization keeps its tenant; only ProvisionCommit gives it one.
LEMMA OrgsStay ==
  ASSUME TypeOK, NEW r \in Requests, Step(r)
  PROVE  \A o \in Orgs : org'[o].slug = org[o].slug \/ (ProvisionCommit(r) /\ org[o].slug = None)
<1>1. CASE ProvisionCommit(r)
  BY <1>1 DEF ProvisionCommit, TypeOK
<1>2. CASE SuspendCrm(r) \/ UnsuspendCrm(r)
  <2>1. PICK status \in {"Active", "Suspended"} : org' = [org EXCEPT ![req[r].org].status = status]
    BY <1>2 DEF SuspendCrm, UnsuspendCrm
  <2> QED
    BY <2>1 DEF TypeOK, Organization
<1>3. CASE UNCHANGED org
  BY <1>3
<1> QED
  BY <1>1, <1>2, <1>3
     DEF Step, stores, CreateFindDomain, CreateWrite, RetryMark, ProvisionRollback, LinkWrite,
         MarkFailed, MarkLinkFailed, UpdateFindDomain, UpdateWrite, StaleVersion, RemoveWrite,
         RestoreWrite, SuspendWrite, UnsuspendWrite, StatusWrite, SuspendRevert, UnsuspendRevert,
         CrmStatusRollback, LinkWriteFails, PlatformCallFails

\* A handler begins with what it read just now, far from the CRM.
Begins(r) ==
  /\ UNCHANGED stores
  /\ \A p \in Requests \ {r} : req'[p] = req[p]
  /\ req'[r].pc \notin {"link", "crm", "revert"}
  /\ (Versioned(r)' /\ req'[r].pc \in {"domain", "write"}) => req'[r].seen = tenant[req'[r].slug]

LEMMA StartBegins ==
  ASSUME TypeOK, NEW r \in Requests, Start(r)
  PROVE  Begins(r)
<1>1. ASSUME NEW s \in Slugs, NEW op \in AllOps, NEW pc \in PC \ {"link", "crm", "revert"},
             NEW input \in Inputs, NEW seen \in Tenant, NEW accepted \in BOOLEAN,
             op \in {"update", "suspend", "unsuspend"} => seen = tenant[s],
             Begin(r, accepted, Handler(op, pc, s, input, seen))
      PROVE  Begins(r)
  <2> DEFINE h == Handler(op, pc, s, input, seen)
  <2>1. h \in Request /\ h.op = op /\ h.pc = pc /\ h.slug = s /\ h.seen = seen
    BY <1>1, HandlerType
  <2> HIDE DEF h
  <2>2. PICK q \in {h, Done} : req' = [req EXCEPT ![r] = q]
    BY <1>1 DEF Begin, h
  <2>3. req'[r] = q /\ \A p \in Requests \ {r} : req'[p] = req[p]
    BY <2>1, <2>2, IdleType, ReqWritten
  <2> QED
    BY <1>1, <2>1, <2>3, IdleType DEF Begins, Begin, Versioned
<1>2. \A s \in Slugs : tenant[s] \in Tenant /\ tenant[s].email \in Emails \cup {None}
  BY DEF TypeOK, Tenant
<1>3. CreateInputs \subseteq Inputs /\ UpdateInputs \subseteq Inputs
  BY ConstantsAssumption DEF Inputs
<1>4. CASE CreateFindSlug(r)
  BY <1>1, <1>2, <1>3, <1>4 DEF CreateFindSlug, AllOps, PC, Exists, Reusable
<1>5. CASE RetryRead(r)
  <2>1. ASSUME NEW e \in Emails \cup {None}
        PROVE  [NoInput EXCEPT !.email = e] \in Inputs
    BY DEF NoInput, Inputs
  <2>2. PICK s \in Slugs, accepted \in BOOLEAN, input \in Inputs :
          Begin(r, accepted, Handler("retry", "mark", s, input, NoTenant))
    BY <1>2, <1>5, <2>1 DEF RetryRead, Live, Exists
  <2> QED
    BY <1>1, <2>2, IdleType DEF AllOps, PC
<1>6. CASE UpdateRead(r)
  BY <1>1, <1>2, <1>3, <1>6 DEF UpdateRead, AllOps, PC, Live, Exists
<1>7. CASE RemoveRead(r) \/ RestoreRead(r)
  BY <1>1, <1>2, <1>7, IdleType DEF RemoveRead, RestoreRead, AllOps, PC, Live, Exists
<1>8. CASE SuspendRead(r) \/ UnsuspendRead(r)
  BY <1>1, <1>2, <1>8, IdleType DEF SuspendRead, UnsuspendRead, AllOps, PC, Live, Exists
<1> QED
  BY <1>4, <1>5, <1>6, <1>7, <1>8 DEF Start

-----------------------------------------------------------------------------
(* The invariant is inductive.                                             *)

LEMMA IInvInit == Init => IInv
<1> SUFFICES ASSUME Init
             PROVE  IInv
  OBVIOUS
<1>1. TypeOK /\ Locals
  BY TypeInit
<1>2. /\ \A r \in Requests : req[r].pc = "idle"
      /\ \A s \in Slugs : tenant[s].link = None
  BY IdleType DEF Init, NoTenant
<1> QED
  BY <1>1, <1>2
     DEF IInv, Linking, OneLinker, LinkedOwned, SeenEarlier, Superseded, OneStatusChangePerVersion

LEMMA IInvStart ==
  ASSUME IInv, NEW r \in Requests, Start(r)
  PROVE  IInv'
<1>1. TypeOK' /\ Locals'
  BY TypeStart DEF IInv
<1>2. Begins(r)
  BY StartBegins DEF IInv
<1>3. Linking' /\ OneLinker' /\ LinkedOwned'
  BY <1>2 DEF IInv, Begins, stores, Linking, OneLinker, LinkedOwned, Row
<1>4. SeenEarlier'
  <2>1. \A p \in Requests : Running(p)' => Row(p)' \in Tenant /\ Row(p)'.version \in Nat
    BY <1>1 DEF Locals, Row, TypeOK, Tenant
  <2> QED
    BY <1>2, <2>1 DEF IInv, Begins, stores, SeenEarlier, Row, Versioned, Running
<1>5. Superseded' /\ OneStatusChangePerVersion'
  BY <1>2 DEF IInv, Begins, stores, Superseded, OneStatusChangePerVersion, Row
<1> QED
  BY <1>1, <1>3, <1>4, <1>5 DEF IInv

LEMMA IInvStep ==
  ASSUME IInv, NEW r \in Requests, Step(r)
  PROVE  IInv'
<1> USE DEF IInv
<1>1. TypeOK' /\ Locals'
  BY TypeStep
<1>2. Proceeds(r)
  BY StepProceeds
<1>3. \A s \in Slugs : Later(tenant'[s], tenant[s]) /\ LinkKept(r, s)
  BY RowsGrow
<1>4. \A o \in Orgs : org'[o].slug = org[o].slug \/ (ProvisionCommit(r) /\ org[o].slug = None)
  BY OrgsStay
<1>5. /\ \A s \in Slugs : /\ tenant[s].version \in Nat /\ tenant'[s].version \in Nat
                          /\ tenant[s].link \in Orgs \cup {None}
      /\ \A p \in Requests : req[p].seen.version \in Nat
  BY <1>1 DEF TypeOK, Tenant, Request
<1>6. /\ \A p \in Requests : Running(p) => req[p].slug \in Slugs
      /\ None \notin Slugs /\ None \notin Orgs
  BY ConstantsAssumption DEF Locals
<1>7. ASSUME ProvisionCommit(r)
      PROVE  /\ UNCHANGED tenant /\ req[r].slug \in Slugs
             /\ \A o \in Orgs : org[o].slug # req[r].slug
             /\ req'[r].org \in Orgs /\ req'[r].slug = req[r].slug
             /\ org'[req'[r].org].slug = req[r].slug
             /\ Row(r).link = None
  <2>1. req[r].slug \in Slugs /\ \A o \in Orgs : org[o].slug # req[r].slug
    BY <1>6, <1>7 DEF ProvisionCommit, CanProvision, Running
  <2>2. PICK o \in Orgs :
          /\ org' = [org EXCEPT ![o] = [slug |-> req[r].slug, email |-> req[r].email,
                                        status |-> "Active"]]
          /\ req' = [req EXCEPT ![r].pc = "link", ![r].org = o]
    BY <1>7 DEF ProvisionCommit
  <2>3. req'[r].org = o /\ req'[r].slug = req[r].slug
    BY <2>2 DEF TypeOK, Request
  <2>4. org'[o].slug = req[r].slug
    BY <2>2 DEF TypeOK
  <2>5. Row(r).link = None
    BY <1>5, <2>1 DEF LinkedOwned, Row
  <2> QED
    BY <1>7, <2>1, <2>3, <2>4, <2>5 DEF ProvisionCommit
<1>8. Linking'
  <2> SUFFICES ASSUME NEW p \in Requests, req'[p].pc = "link"
               PROVE  /\ req'[p].org \in Orgs
                      /\ org'[req'[p].org].slug = req'[p].slug
                      /\ Row(p)'.link = None
    BY DEF Linking
  <2>1. CASE p = r
    BY <1>2, <1>7, <2>1 DEF Proceeds, Row
  <2>2. CASE p # r
    <3>1. req'[p] = req[p] /\ req[p].pc = "link" /\ req[p].slug \in Slugs
      BY <1>2, <1>6, <2>2 DEF Proceeds, Running
    <3>2. req[p].org \in Orgs /\ org[req[p].org].slug = req[p].slug /\ Row(p).link = None
      BY <3>1 DEF Linking
    <3>3. org'[req[p].org].slug = req[p].slug
      BY <1>4, <1>6, <3>1, <3>2
    <3>4. ~(LinkWrite(r) /\ req[p].slug = req[r].slug)
      BY <2>2, <3>1 DEF OneLinker, LinkWrite
    <3> QED
      BY <1>3, <3>1, <3>2, <3>3, <3>4 DEF LinkKept, Row
  <2> QED
    BY <2>1, <2>2
<1>9. OneLinker'
  <2> SUFFICES ASSUME NEW r1 \in Requests, NEW r2 \in Requests, r1 # r2,
                      req'[r1].pc = "link", req'[r2].pc = "link"
               PROVE  req'[r1].slug # req'[r2].slug
    BY DEF OneLinker
  <2>1. ASSUME NEW p \in Requests \ {r}, req'[p].pc = "link", req'[r].pc = "link"
        PROVE  req'[p].slug # req'[r].slug
    BY <1>2, <1>7, <2>1 DEF Proceeds, Linking
  <2> QED
    BY <1>2, <2>1 DEF Proceeds, OneLinker
<1>10. LinkedOwned'
  <2> SUFFICES ASSUME NEW s \in Slugs, tenant'[s].link # None
               PROVE  Exists(tenant[s])' /\ org'[tenant'[s].link].slug = s
    BY DEF LinkedOwned
  <2>1. CASE tenant'[s].link = tenant[s].link
    BY <1>3, <1>4, <1>5, <1>6, <2>1 DEF LinkedOwned, Exists, Later
  <2>2. CASE tenant'[s].link # tenant[s].link
    <3>1. LinkWrite(r) /\ s = req[r].slug /\ tenant'[s].link = req[r].org
      BY <1>3, <2>2 DEF LinkKept
    <3>2. org'[req[r].org].slug = s
      BY <3>1 DEF LinkWrite, Linking
    <3>3. tenant'[s].version > 0
      BY <1>3, <1>5, <2>2 DEF Later
    <3> QED
      BY <3>1, <3>2, <3>3 DEF Exists
  <2> QED
    BY <2>1, <2>2
<1>11. SeenEarlier'
  <2> SUFFICES ASSUME NEW p \in Requests, Versioned(p)', req'[p].pc \in {"domain", "write"}
               PROVE  /\ req'[p].seen.version <= Row(p)'.version
                      /\ req'[p].seen.version = Row(p)'.version =>
                           /\ Row(p)'.link = req'[p].seen.link
                           /\ Row(p)'.email = req'[p].seen.email
                           /\ Row(p)'.domain = req'[p].seen.domain
    BY DEF SeenEarlier
  <2>1. /\ req'[p].slug = req[p].slug /\ req'[p].seen = req[p].seen /\ req'[p].op = req[p].op
        /\ req[p].pc \in {"domain", "write"}
    BY <1>2 DEF Proceeds
  <2>2. req[p].slug \in Slugs /\ Versioned(p)
    BY <1>6, <2>1 DEF Running, Versioned
  <2>3. /\ req[p].seen.version <= Row(p).version
        /\ req[p].seen.version = Row(p).version =>
             /\ Row(p).link = req[p].seen.link
             /\ Row(p).email = req[p].seen.email
             /\ Row(p).domain = req[p].seen.domain
    BY <2>1, <2>2 DEF SeenEarlier
  <2> QED
    BY <1>3, <1>5, <2>1, <2>2, <2>3 DEF Later, Row
<1>12. Superseded'
  <2> SUFFICES ASSUME NEW p \in Requests, req'[p].pc \in {"crm", "revert"}
               PROVE  req'[p].seen.version < Row(p)'.version
    BY DEF Superseded
  <2>1. req'[p].slug = req[p].slug /\ req'[p].seen = req[p].seen
    BY <1>2 DEF Proceeds
  <2>2. CASE req[p].pc \in {"crm", "revert"}
    <3>1. req[p].slug \in Slugs /\ req[p].seen.version < Row(p).version
      BY <1>6, <2>2 DEF Superseded, Running
    <3> QED
      BY <1>3, <1>5, <2>1, <3>1 DEF Later, Row
  <2>3. CASE req[p].pc \notin {"crm", "revert"}
    BY <1>2, <1>5, <2>1, <2>3 DEF Proceeds, Row
  <2> QED
    BY <2>2, <2>3
<1>13. OneStatusChangePerVersion'
  <2>1. ASSUME NEW p \in Requests \ {r},
               req'[p].pc \in {"crm", "revert"}, req'[r].pc \in {"crm", "revert"},
               req'[p].slug = req'[r].slug
        PROVE  req'[p].seen.version # req'[r].seen.version
    <3>1. /\ req'[p] = req[p]
          /\ req'[r].slug = req[r].slug /\ req'[r].seen = req[r].seen
      BY <1>2, <2>1 DEF Proceeds
    <3>2. CASE req[r].pc \in {"crm", "revert"}
      BY <2>1, <3>1, <3>2 DEF OneStatusChangePerVersion
    <3>3. CASE req[r].pc \notin {"crm", "revert"}
      <4>1. req[r].seen.version = Row(r).version
        BY <1>2, <2>1, <3>3 DEF Proceeds
      <4>2. req[p].seen.version < Row(p).version /\ Row(p) = Row(r)
        BY <2>1, <3>1 DEF Superseded, Row
      <4> QED
        BY <1>5, <3>1, <4>1, <4>2
    <3> QED
      BY <3>2, <3>3
  <2> QED
    BY <1>2, <2>1 DEF Proceeds, OneStatusChangePerVersion
<1> QED
  BY <1>1, <1>8, <1>9, <1>10, <1>11, <1>12, <1>13

LEMMA IInvNext == IInv /\ [Next]_vars => IInv'
<1> SUFFICES ASSUME IInv, [Next]_vars
             PROVE  IInv'
  OBVIOUS
<1>1. ASSUME NEW r \in Requests, Start(r) \/ Step(r)
      PROVE  IInv'
  BY <1>1, IInvStart, IInvStep
<1>2. CASE Crash
  <2>1. TypeOK' /\ Locals'
    BY <1>2, TypeNext DEF IInv, Next
  <2>2. /\ UNCHANGED stores
        /\ \A r \in Requests : req'[r] = req[r] \/ req'[r].pc = "done"
    BY <1>2, IdleType DEF Crash
  <2> QED
    BY <2>1, <2>2
       DEF IInv, stores, Linking, OneLinker, LinkedOwned, SeenEarlier, Superseded,
           OneStatusChangePerVersion, Versioned, Row
<1>3. CASE UNCHANGED vars
  BY <1>3
     DEF vars, IInv, TypeOK, Locals, Linking, OneLinker, LinkedOwned, SeenEarlier, Superseded,
         OneStatusChangePerVersion, Versioned, Row, Running
<1> QED
  BY <1>1, <1>2, <1>3 DEF Next, AllServed

\* Every reachable state satisfies the inductive invariant.
THEOREM Inductive == Spec => []IInv
BY IInvInit, IInvNext, PTL DEF Spec

\* A conditional write that finds the version it expects overwrites no link,
\* e-mail address or domain written since its read (update, suspend and
\* unsuspend against create, retryProvisioning and update).
THEOREM NoUpdateIsLost == Spec => []NoLostUpdate
<1>1. IInv => NoLostUpdate
  BY DEF IInv, SeenEarlier, NoLostUpdate
<1> QED
  BY <1>1, Inductive, PTL

\* Of the suspend and unsuspend requests that read one version of a tenant,
\* at most one goes on to the CRM.
THEOREM StatusChangesAreSerial == Spec => []OneStatusChangePerVersion
<1>1. IInv => OneStatusChangePerVersion
  BY DEF IInv
<1> QED
  BY <1>1, Inductive, PTL

-----------------------------------------------------------------------------
(* Who settles a provisioning attempt, with a platform database that takes *)
(* its writes and a process that does not die.                             *)

\* The CRM may refuse every transaction; nothing else fails.
OnlyCrmFails == Faults \subseteq {"crm"}

Attending == {"provision", "link", "markFailed", "markLinkFailed"}

\* A row starts to say SYNCING only by a handler that goes on to provision it.
Announced(r) ==
  \A s \in Slugs : tenant'[s].sync = "SYNCING" /\ tenant[s].sync # "SYNCING" =>
    req'[r].slug = s /\ req'[r].pc = "provision"

\* A handler that is provisioning goes on with it, or has settled its row; it
\* leaves the link write by writing the link.
Settles(r) ==
  req[r].pc \in Attending =>
    /\ \/ req'[r].pc \in Attending /\ req'[r].slug = req[r].slug
       \/ tenant'[req[r].slug].sync # "SYNCING"
    /\ req[r].pc = "link" => LinkWrite(r)

\* One row is written, with a mark that is not SYNCING unless it was.
LEMMA MarkWritten ==
  ASSUME TypeOK, NEW r \in Requests, NEW row \in Tenant, req[r].slug \in Slugs, SetRow(r, row),
         row.sync = Row(r).sync \/ row.sync # "SYNCING"
  PROVE  Announced(r)
BY RowWritten DEF Announced, Row

LEMMA StepAnnounced ==
  ASSUME TypeOK, Locals, LinkedOwned, NEW r \in Requests, Step(r)
  PROVE  Announced(r)
<1>1. req[r] \in Request
  BY DEF TypeOK
<1>2. Running(r) => req[r].slug \in Slugs /\ Row(r) \in Tenant
  BY DEF Locals, Row, TypeOK
<1>3. ASSUME UNCHANGED tenant
      PROVE  Announced(r)
  BY <1>3 DEF Announced
<1>4. ASSUME NEW row \in Tenant, Running(r), SetRow(r, row), Goto(r, "provision")
      PROVE  Announced(r)
  <2>1. req'[r].pc = "provision" /\ req'[r].slug = req[r].slug
    BY <1>1, <1>4 DEF Goto, TypeOK, Request
  <2> QED
    BY <1>2, <1>4, <2>1, RowWritten DEF Announced
<1>5. CASE CreateWrite(r)
  <2> DEFINE base == IF Exists(req[r].seen) THEN Row(r) ELSE NoTenant
             row == [Bump(base) EXCEPT !.email = req[r].email,
                                       !.domain = Given(req[r].domain, @),
                                       !.status = Given(req[r].status, "ACTIVE"),
                                       !.sync = "SYNCING"]
  <2>1. Running(r) /\ req[r].email \in Emails
    BY <1>5 DEF CreateWrite, At, Running, Locals
  <2>2. base \in Tenant
    BY <1>2, <2>1, IdleType
  <2>3. UNCHANGED tenant \/ (SetRow(r, row) /\ Goto(r, "provision"))
    BY <1>5 DEF CreateWrite
  <2> HIDE DEF base
  <2>4. Bump(base) \in Tenant /\ Bump(base).domain \in Domains \cup {None}
    BY <2>2, BumpType DEF Tenant
  <2>5. /\ Given(req[r].domain, Bump(base).domain) \in Domains \cup {None}
        /\ Given(req[r].status, "ACTIVE") \in TenantStatus
    BY <1>1, <2>4 DEF Given, Request, TenantStatus
  <2>6. row \in Tenant
    BY <2>1, <2>4, <2>5 DEF Tenant
  <2> HIDE DEF row
  <2> QED
    BY <1>3, <1>4, <2>1, <2>3, <2>6
<1>6. CASE RetryMark(r)
  <2>1. Running(r)
    BY <1>6 DEF RetryMark, At, Running
  <2>2. [Bump(Row(r)) EXCEPT !.sync = "SYNCING"] \in Tenant
    BY <1>2, <2>1, BumpType DEF Tenant
  <2> QED
    BY <1>4, <1>6, <2>1, <2>2 DEF RetryMark
<1>7. CASE LinkWrite(r)
  <2> DEFINE row == [Bump(Row(r)) EXCEPT !.link = req[r].org, !.sync = "SYNCED"]
  <2>1. Running(r) /\ SetRow(r, row) /\ req[r].org \in Orgs \cup {None}
    BY <1>1, <1>7 DEF LinkWrite, Running, Request
  <2>2. row \in Tenant /\ row.sync = "SYNCED"
    BY <1>2, <2>1, BumpType DEF Tenant
  <2> HIDE DEF row
  <2> QED
    BY <1>2, <2>1, <2>2, MarkWritten
<1>8. CASE MarkFailed(r)
  <2> DEFINE row == [Bump(Row(r)) EXCEPT !.sync = "FAILED"]
  <2>1. Running(r) /\ SetRow(r, row)
    BY <1>8 DEF MarkFailed, Running
  <2>2. row \in Tenant /\ row.sync = "FAILED"
    BY <1>2, <2>1, BumpType DEF Tenant
  <2> HIDE DEF row
  <2> QED
    BY <1>2, <2>1, <2>2, MarkWritten
<1>9. CASE MarkLinkFailed(r)
  <2> DEFINE row == [Row(r) EXCEPT !.sync = "FAILED"]
  <2>1. Running(r) /\ SetRow(r, row)
    BY <1>9 DEF MarkLinkFailed, Running
  <2>2. row \in Tenant /\ row.sync = "FAILED"
    BY <1>2, <2>1 DEF Tenant
  <2> HIDE DEF row
  <2> QED
    BY <1>2, <2>1, <2>2, MarkWritten
<1>10. CASE UpdateWrite(r)
  <2> DEFINE row == [Bump(Row(r)) EXCEPT !.email = Given(req[r].email, @),
                                         !.domain = Given(req[r].domain, @),
                                         !.status = Given(req[r].status, @)]
  <2>1. Running(r) /\ (SetRow(r, row) \/ UNCHANGED tenant)
    BY <1>10 DEF UpdateWrite, At, Running
  <2>2. Bump(Row(r)) \in Tenant /\ Bump(Row(r)).sync = Row(r).sync
    BY <1>2, <2>1, BumpType
  <2>3. /\ Given(req[r].email, Bump(Row(r)).email) \in Emails \cup {None}
        /\ Given(req[r].domain, Bump(Row(r)).domain) \in Domains \cup {None}
        /\ Given(req[r].status, Bump(Row(r)).status) \in TenantStatus
    BY <1>1, <2>2 DEF Given, Request, Tenant
  <2>4. row \in Tenant /\ row.sync = Row(r).sync
    BY <2>2, <2>3 DEF Tenant
  <2> HIDE DEF row
  <2> QED
    BY <1>2, <1>3, <2>1, <2>4, MarkWritten
<1>11. CASE RemoveWrite(r)
  <2> DEFINE row == [Row(r) EXCEPT !.deleted = TRUE, !.status = "DELETED"]
  <2>1. Running(r) /\ SetRow(r, row)
    BY <1>11 DEF RemoveWrite, At, Running
  <2>2. row \in Tenant /\ row.sync = Row(r).sync
    BY <1>2, <2>1 DEF Tenant, TenantStatus
  <2> HIDE DEF row
  <2> QED
    BY <1>2, <2>1, <2>2, MarkWritten
<1>12. CASE RestoreWrite(r)
  <2> DEFINE row == [Row(r) EXCEPT !.deleted = FALSE, !.status = "ACTIVE"]
  <2>1. Running(r) /\ SetRow(r, row)
    BY <1>12 DEF RestoreWrite, At, Running
  <2>2. row \in Tenant /\ row.sync = Row(r).sync
    BY <1>2, <2>1 DEF Tenant, TenantStatus
  <2> HIDE DEF row
  <2> QED
    BY <1>2, <2>1, <2>2, MarkWritten
<1>13. ASSUME NEW status \in TenantStatus, Running(r),
              SetRow(r, [Bump(Row(r)) EXCEPT !.status = status]) \/ UNCHANGED tenant
       PROVE  Announced(r)
  <2> DEFINE row == [Bump(Row(r)) EXCEPT !.status = status]
  <2>1. row \in Tenant /\ row.sync = Row(r).sync
    BY <1>2, <1>13, BumpType DEF Tenant
  <2>2. SetRow(r, row) \/ UNCHANGED tenant
    BY <1>13
  <2> HIDE DEF row
  <2> QED
    BY <1>2, <1>3, <1>13, <2>1, <2>2, MarkWritten
<1>14. CASE SuspendWrite(r) \/ UnsuspendWrite(r)
  BY <1>13, <1>14 DEF SuspendWrite, UnsuspendWrite, StatusWrite, At, Running, TenantStatus
<1>15. CASE SuspendRevert(r) \/ UnsuspendRevert(r)
  BY <1>13, <1>15 DEF SuspendRevert, UnsuspendRevert, At, Running, TenantStatus
<1> QED
  BY <1>3, <1>5, <1>6, <1>7, <1>8, <1>9, <1>10, <1>11, <1>12, <1>14, <1>15
     DEF Step, stores, CreateFindDomain, ProvisionCommit, ProvisionRollback, UpdateFindDomain,
         StaleVersion, SuspendCrm, UnsuspendCrm, CrmStatusRollback, LinkWriteFails,
         PlatformCallFails

LEMMA StepSettles ==
  ASSUME OnlyCrmFails, TypeOK, Locals, NEW r \in Requests, Step(r), req[r].pc \in Attending
  PROVE  Settles(r)
<1>1. req[r] \in Request /\ req[r].slug \in Slugs /\ Row(r) \in Tenant
  BY DEF TypeOK, Locals, Running, Attending, Row
<1>2. \/ ProvisionCommit(r) \/ ProvisionRollback(r)
      \/ LinkWrite(r) \/ MarkFailed(r) \/ MarkLinkFailed(r)
  BY DEF Step, OnlyCrmFails, Attending, At, CreateFindDomain, CreateWrite, RetryMark,
         UpdateFindDomain, UpdateWrite, StaleVersion, RemoveWrite, RestoreWrite, SuspendWrite,
         SuspendCrm, SuspendRevert, UnsuspendWrite, UnsuspendCrm, UnsuspendRevert,
         CrmStatusRollback, LinkWriteFails, PlatformCallFails
<1>3. ASSUME NEW row \in Tenant, SetRow(r, row), row.sync # "SYNCING"
      PROVE  tenant'[req[r].slug].sync # "SYNCING"
  BY <1>1, <1>3, RowWritten
<1>4. CASE ProvisionCommit(r)
  <2>1. PICK o \in Orgs : req' = [req EXCEPT ![r].pc = "link", ![r].org = o]
    BY <1>4 DEF ProvisionCommit
  <2>2. req'[r].pc = "link" /\ req'[r].slug = req[r].slug
    BY <1>1, <2>1 DEF TypeOK, Request
  <2> QED
    BY <1>4, <2>2 DEF Settles, Attending, ProvisionCommit
<1>5. CASE ProvisionRollback(r)
  <2>1. req'[r].pc = "markFailed" /\ req'[r].slug = req[r].slug
    BY <1>1, <1>5 DEF ProvisionRollback, Goto, TypeOK, Request
  <2> QED
    BY <1>5, <2>1 DEF Settles, Attending, ProvisionRollback
<1>6. CASE LinkWrite(r)
  <2> DEFINE row == [Bump(Row(r)) EXCEPT !.link = req[r].org, !.sync = "SYNCED"]
  <2>1. SetRow(r, row) /\ req[r].org \in Orgs \cup {None}
    BY <1>1, <1>6 DEF LinkWrite, Request
  <2>2. row \in Tenant /\ row.sync = "SYNCED"
    BY <1>1, <2>1, BumpType DEF Tenant
  <2> HIDE DEF row
  <2> QED
    BY <1>3, <1>6, <2>1, <2>2 DEF Settles
<1>7. CASE MarkFailed(r)
  <2> DEFINE row == [Bump(Row(r)) EXCEPT !.sync = "FAILED"]
  <2>1. row \in Tenant /\ row.sync = "FAILED" /\ SetRow(r, row)
    BY <1>1, <1>7, BumpType DEF MarkFailed, Tenant
  <2> HIDE DEF row
  <2> QED
    BY <1>3, <1>7, <2>1 DEF Settles, MarkFailed
<1>8. CASE MarkLinkFailed(r)
  <2> DEFINE row == [Row(r) EXCEPT !.sync = "FAILED"]
  <2>1. row \in Tenant /\ row.sync = "FAILED" /\ SetRow(r, row)
    BY <1>1, <1>8 DEF MarkLinkFailed, Tenant
  <2> HIDE DEF row
  <2> QED
    BY <1>3, <1>8, <2>1 DEF Settles, MarkLinkFailed
<1> QED
  BY <1>2, <1>4, <1>5, <1>6, <1>7, <1>8

LEMMA AttendedStep ==
  ASSUME OnlyCrmFails, IInv, SyncingIsAttended, NEW r \in Requests, Step(r)
  PROVE  SyncingIsAttended'
<1>1. Proceeds(r) /\ Announced(r)
  BY StepProceeds, StepAnnounced DEF IInv
<1>2. req[r].pc \in Attending => Settles(r)
  BY StepSettles DEF IInv
<1> SUFFICES ASSUME NEW s \in Slugs, tenant'[s].sync = "SYNCING"
             PROVE  \E p \in Requests : req'[p].slug = s /\ req'[p].pc \in Attending
  BY DEF SyncingIsAttended, Provisioning, Attending
<1>3. CASE tenant[s].sync # "SYNCING"
  BY <1>1, <1>3 DEF Announced, Attending
<1>4. CASE tenant[s].sync = "SYNCING"
  <2>1. PICK p \in Requests : req[p].slug = s /\ req[p].pc \in Attending
    BY <1>4 DEF SyncingIsAttended, Provisioning, Attending
  <2>2. CASE p # r
    BY <1>1, <2>1, <2>2 DEF Proceeds
  <2>3. CASE p = r
    BY <1>2, <2>1, <2>3 DEF Settles
  <2> QED
    BY <2>2, <2>3
<1> QED
  BY <1>3, <1>4

LEMMA OwnedStep ==
  ASSUME OnlyCrmFails, IInv, NoOrphanOrganization, NEW r \in Requests, Step(r)
  PROVE  NoOrphanOrganization'
<1> USE DEF IInv
<1>1. Proceeds(r) /\ \A s \in Slugs : LinkKept(r, s)
  BY StepProceeds, RowsGrow
<1>2. req[r].pc \in Attending => Settles(r)
  BY StepSettles
<1>3. \A o \in Orgs : org'[o].slug = org[o].slug \/ (ProvisionCommit(r) /\ org[o].slug = None)
  BY OrgsStay
<1>4. None \notin Orgs /\ \A o \in Orgs : org[o].slug \in Slugs \cup {None}
  BY ConstantsAssumption DEF TypeOK, Organization
<1> SUFFICES ASSUME NEW o \in Orgs, org'[o].slug # None
             PROVE  \/ tenant'[org'[o].slug].link = o
                    \/ \E p \in Requests : req'[p].pc = "link" /\ req'[p].org = o
  BY DEF NoOrphanOrganization
<1>5. CASE org[o].slug = None
  <2>1. ProvisionCommit(r)
    BY <1>3, <1>5
  <2>2. PICK n \in Orgs :
          /\ org' = [org EXCEPT ![n] = [slug |-> req[r].slug, email |-> req[r].email,
                                        status |-> "Active"]]
          /\ req' = [req EXCEPT ![r].pc = "link", ![r].org = n]
    BY <2>1 DEF ProvisionCommit
  <2>3. n = o
    BY <1>5, <2>2 DEF TypeOK
  <2>4. req'[r].pc = "link" /\ req'[r].org = o
    BY <2>2, <2>3 DEF TypeOK, Request
  <2> QED
    BY <2>4
<1>6. CASE org[o].slug # None
  <2>1. org'[o].slug = org[o].slug /\ org[o].slug \in Slugs
    BY <1>3, <1>4, <1>6
  <2>2. CASE tenant[org[o].slug].link = o
    <3>1. ~(LinkWrite(r) /\ org[o].slug = req[r].slug)
      BY <1>4, <2>2 DEF LinkWrite, Linking, Row
    <3> QED
      BY <1>1, <2>1, <2>2, <3>1 DEF LinkKept
  <2>3. ASSUME NEW p \in Requests, req[p].pc = "link", req[p].org = o
        PROVE  \/ tenant'[org'[o].slug].link = o
               \/ \E q \in Requests : req'[q].pc = "link" /\ req'[q].org = o
    <3>1. CASE p # r
      BY <1>1, <2>3, <3>1 DEF Proceeds
    <3>2. CASE p = r
      <4>1. LinkWrite(r) /\ org[o].slug = req[r].slug
        BY <1>2, <2>3, <3>2 DEF Settles, Attending, Linking
      <4>2. tenant'[req[r].slug].link = req[r].org
        <5> DEFINE row == [Bump(Row(r)) EXCEPT !.link = req[r].org, !.sync = "SYNCED"]
        <5>1. Row(r) \in Tenant /\ SetRow(r, row)
          BY <2>1, <4>1 DEF LinkWrite, TypeOK, Row
        <5>2. row \in Tenant /\ row.link = req[r].org
          BY <2>3, <3>2, <5>1, BumpType DEF Tenant
        <5> HIDE DEF row
        <5> QED
          BY <2>1, <4>1, <5>1, <5>2, RowWritten
      <4> QED
        BY <2>1, <2>3, <3>2, <4>1, <4>2
    <3> QED
      BY <3>1, <3>2
  <2> QED
    BY <1>6, <2>2, <2>3 DEF NoOrphanOrganization
<1> QED
  BY <1>5, <1>6

\* Nothing is provisioned and no row exists; a handler begins without a write.
LEMMA SettledInit == Init => SyncingIsAttended /\ NoOrphanOrganization
BY ConstantsAssumption DEF Init, SyncingIsAttended, NoOrphanOrganization, NoTenant, NoOrg

LEMMA SettledNext ==
  ASSUME OnlyCrmFails, IInv, SyncingIsAttended, NoOrphanOrganization, [Next]_vars
  PROVE  SyncingIsAttended' /\ NoOrphanOrganization'
<1>1. ASSUME NEW r \in Requests, Start(r)
      PROVE  SyncingIsAttended' /\ NoOrphanOrganization'
  <2>1. UNCHANGED stores /\ \A p \in Requests \ {r} : req'[p] = req[p]
    BY <1>1, StartBegins DEF IInv, Begins
  <2>2. req[r].pc = "idle"
    BY <1>1 DEF Start, Begin, CreateFindSlug, RetryRead, UpdateRead, RemoveRead, RestoreRead,
                SuspendRead, UnsuspendRead
  <2>3. \A p \in Requests : req[p].pc \in Attending => req'[p] = req[p]
    BY <2>1, <2>2 DEF Attending
  <2> QED
    BY <2>1, <2>3 DEF stores, SyncingIsAttended, NoOrphanOrganization, Provisioning, Attending
<1>2. ASSUME NEW r \in Requests, Step(r)
      PROVE  SyncingIsAttended' /\ NoOrphanOrganization'
  BY <1>2, AttendedStep, OwnedStep
<1>3. ~Crash
  BY DEF Crash, OnlyCrmFails
<1>4. CASE UNCHANGED vars
  BY <1>4 DEF vars, SyncingIsAttended, NoOrphanOrganization, Provisioning
<1> QED
  BY <1>1, <1>2, <1>3, <1>4 DEF Next, AllServed

\* With a platform database that takes its writes and a process that does not
\* die, whatever the CRM refuses: a row says SYNCING only while a create or a
\* retry is still going to settle it (every path of create and
\* retryProvisioning ends in a write of syncState, and a racing handler that
\* finishes first settles the row for all).
THEOREM SyncingHasAnOwner == OnlyCrmFails => (Spec => []SyncingIsAttended)
<1> SUFFICES ASSUME OnlyCrmFails
             PROVE  Spec => []SyncingIsAttended
  OBVIOUS
<1>1. IInv /\ (SyncingIsAttended /\ NoOrphanOrganization) /\ [Next]_vars
        => (SyncingIsAttended /\ NoOrphanOrganization)'
  BY SettledNext
<1> QED
  BY <1>1, SettledInit, Inductive, PTL DEF Spec

\* Under the same condition every organization of the CRM is linked by its
\* tenant, or the handler that created it is about to write the link: a
\* transaction that rolls back leaves no organization, and no later create or
\* retry takes the link from the one that has it.
THEOREM NoOrganizationIsOrphaned == OnlyCrmFails => (Spec => []NoOrphanOrganization)
<1> SUFFICES ASSUME OnlyCrmFails
             PROVE  Spec => []NoOrphanOrganization
  OBVIOUS
<1>1. IInv /\ (SyncingIsAttended /\ NoOrphanOrganization) /\ [Next]_vars
        => (SyncingIsAttended /\ NoOrphanOrganization)'
  BY SettledNext
<1> QED
  BY <1>1, SettledInit, Inductive, PTL DEF Spec

-----------------------------------------------------------------------------
(* Provisioning implements the abstract link.                              *)

LEMMA LinkStep ==
  ASSUME IInv, NEW r \in Requests, Step(r)
  PROVE  [Link!Next]_Link!vars
<1> USE DEF IInv
<1>1. \A s \in Slugs : LinkKept(r, s)
  BY RowsGrow
<1>2. CASE ProvisionCommit(r)
  <2>1. PICK o \in Orgs :
          /\ org[o].slug = None
          /\ org' = [org EXCEPT ![o] = [slug |-> req[r].slug, email |-> req[r].email,
                                        status |-> "Active"]]
    BY <1>2 DEF ProvisionCommit
  <2>2. req[r].slug \in Slugs /\ \A p \in Orgs : org[p].slug # req[r].slug
    BY <1>2 DEF ProvisionCommit, CanProvision, Locals, Running
  <2>3. [p \in Orgs |-> org'[p].slug] = [[p \in Orgs |-> org[p].slug] EXCEPT ![o] = req[r].slug]
    BY <2>1 DEF TypeOK
  <2>4. UNCHANGED tenant
    BY <1>2 DEF ProvisionCommit
  <2>5. Link!Provision(req[r].slug, o)
    BY <2>1, <2>2, <2>3, <2>4 DEF Link!Provision
  <2> QED
    BY <2>2, <2>5 DEF Link!Next
<1>3. CASE LinkWrite(r)
  <2>1. /\ req[r].slug \in Slugs /\ req[r].org \in Orgs
        /\ org[req[r].org].slug = req[r].slug /\ tenant[req[r].slug].link = None
    BY <1>3 DEF LinkWrite, Linking, Locals, Running, Row
  <2> DEFINE row == [Bump(Row(r)) EXCEPT !.link = req[r].org, !.sync = "SYNCED"]
  <2>2. Row(r) \in Tenant /\ Bump(Row(r)) \in Tenant /\ SetRow(r, row)
    BY <1>3, <2>1, BumpType DEF LinkWrite, TypeOK, Row
  <2>3. row \in Tenant /\ row.link = req[r].org
    BY <2>1, <2>2, LinkedRow
  <2> HIDE DEF row
  <2>4. /\ tenant'[req[r].slug].link = req[r].org
        /\ \A s \in Slugs \ {req[r].slug} : tenant'[s] = tenant[s]
    BY <2>1, <2>2, <2>3, RowWritten
  <2>5. [s \in Slugs |-> tenant'[s].link] =
          [[s \in Slugs |-> tenant[s].link] EXCEPT ![req[r].slug] = req[r].org]
    BY <2>4
  <2>6. UNCHANGED org
    BY <1>3 DEF LinkWrite
  <2>7. PICK s \in Slugs, o \in Orgs : s = req[r].slug /\ o = req[r].org
    BY <2>1
  <2>8. Link!Link(s, o)
    BY <2>1, <2>5, <2>6, <2>7 DEF Link!Link
  <2> QED
    BY <2>8 DEF Link!Next
<1>4. CASE ~ProvisionCommit(r) /\ ~LinkWrite(r)
  <2>1. \A s \in Slugs : tenant'[s].link = tenant[s].link
    BY <1>1, <1>4 DEF LinkKept
  <2>2. \A o \in Orgs : org'[o].slug = org[o].slug
    BY <1>4, OrgsStay
  <2> QED
    BY <2>1, <2>2 DEF Link!vars
<1> QED
  BY <1>2, <1>3, <1>4

\* The initial states map to the abstract initial state, and every step to a
\* Provision, a Link or a stutter: a tenant gets at most one organization and a
\* link, once written, stays.
THEOREM LifecycleImplementsLink == Spec => ImplementsTenantLink
<1>1. Init => Link!Init
  BY DEF Init, Link!Init, NoOrg, NoTenant
<1>2. IInv /\ [Next]_vars => [Link!Next]_Link!vars
  <2> SUFFICES ASSUME IInv, [Next]_vars
               PROVE  [Link!Next]_Link!vars
    OBVIOUS
  <2>1. ASSUME NEW r \in Requests, Start(r)
        PROVE  UNCHANGED stores
    BY <2>1, StartBegins DEF IInv, Begins
  <2>2. ASSUME UNCHANGED stores
        PROVE  UNCHANGED Link!vars
    BY <2>2 DEF stores, Link!vars
  <2> QED
    BY <2>1, <2>2, LinkStep DEF Next, Crash, AllServed, vars, stores
<1> QED
  BY <1>1, <1>2, Inductive, PTL DEF Spec, ImplementsTenantLink, Link!Spec
=============================================================================

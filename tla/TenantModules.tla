---------------------------- MODULE TenantModules ----------------------------
(***************************************************************************)
(* TenantOpsService.updateModules: which modules of the CRM a tenant may   *)
(* use, kept in the platform database (Tenant.modulesEnabled and the rows  *)
(* of TenantModuleOverride) and in the CRM (OrganizationModule).           *)
(*                                                                         *)
(* An update writes the two databases in two transactions, and undoes the  *)
(* first when the second fails.  Each action is one awaited call.          *)
(* Provisioning, which is TenantLifecycle's, is here by its writes to the  *)
(* same rows.                                                              *)
(*                                                                         *)
(* The CRM spells a module's key in its own way (normalizeModuleKey); no   *)
(* two keys of the catalog get one spelling, so a module is one value.     *)
(***************************************************************************)

CONSTANTS
  Modules,   \* the catalog of modules
  Requests   \* the updates of a behaviour

VARIABLES
  link,      \* how far the tenant's provisioning has come
  enabled,   \* Tenant.modulesEnabled
  override,  \* the TenantModuleOverride rows
  crm,       \* the OrganizationModule rows
  req,       \* the handlers
  began      \* what the rows were when a handler began (history)

vars == <<link, enabled, override, crm, req, began>>
stores == <<link, enabled, override, crm>>

-----------------------------------------------------------------------------
(* Rows.  A switch without a row is unset.                                 *)

Switch == {"unset", "on", "off"}
Switches == [Modules -> Switch]

Unset == [m \in Modules |-> "unset"]
AllOn == [m \in Modules |-> "on"]

\* An upsert of a row for each module that the body of the request names.
Upserted(rows, asked) ==
  [m \in Modules |-> IF asked[m] = "unset" THEN rows[m] ELSE asked[m]]

\* Mutant: the entries are stored and not their keys.
EnabledKeysAsEntries(asked) == {<<m, asked[m]>> : m \in {n \in Modules : asked[n] = "on"}}

\* The keys that the body of the request enables.
EnabledKeys(asked) == {m \in Modules : asked[m] = "on"}

-----------------------------------------------------------------------------
(* Handlers.  asked is the body; linked, seen and before are what the two  *)
(* reads returned.  A handler whose process dies is lost where it was.     *)

Ended == {"done", "refused", "reverted", "failed"}
PC == {"idle", "overrides", "platform", "crm", "compensate"} \cup Ended

Request == [pc: PC, asked: Switches, linked: BOOLEAN, seen: SUBSET Modules,
            before: Switches, lost: BOOLEAN]

\* alone: nobody else has written since.
Beginning == [alone: BOOLEAN, enabled: SUBSET Modules, override: Switches, crm: Switches]

At(r, pc) == req[r].pc = pc /\ ~req[r].lost
Running(r) == req[r].pc \notin {"idle"} \cup Ended /\ ~req[r].lost
Goto(r, pc) == req' = [req EXCEPT ![r].pc = pc]

\* A write of one of writers disturbs the other handlers that are running.
DisturbAllBut(writers) ==
  began' = [q \in Requests |-> IF q \notin writers /\ Running(q)
                                 THEN [began[q] EXCEPT !.alone = FALSE] ELSE began[q]]

-----------------------------------------------------------------------------
(* updateModules.                                                          *)

\* The tenant is read.  It may be missing or deleted, or a key may be wrong.
UpdateRead(r) ==
  \E asked \in Switches, pc \in {"overrides", "refused"} :
    /\ At(r, "idle")
    /\ req' = [req EXCEPT ![r] = [pc |-> pc, asked |-> asked, linked |-> link = "linked",
                                  seen |-> enabled, before |-> Unset, lost |-> FALSE]]
    /\ began' = [began EXCEPT ![r] = [alone |-> TRUE, enabled |-> enabled,
                                      override |-> override, crm |-> crm]]
    /\ UNCHANGED stores

\* The overrides are read by a second call.
OverridesRead(r) ==
  /\ At(r, "overrides")
  /\ req' = [req EXCEPT ![r] = [@ EXCEPT !.pc = "platform", !.before = override]]
  /\ UNCHANGED <<stores, began>>

\* One transaction.  modulesEnabled gets the keys of this request alone.
PlatformCommit(r) ==
  /\ At(r, "platform")
  /\ override' = Upserted(override, req[r].asked)
  /\ enabled' = EnabledKeys(req[r].asked)
  /\ Goto(r, IF req[r].linked THEN "crm" ELSE "done")
  /\ DisturbAllBut({r})
  /\ UNCHANGED <<link, crm>>

PlatformRollback(r) ==
  /\ At(r, "platform")
  /\ Goto(r, "refused")
  /\ UNCHANGED <<stores, began>>

\* Mutant: only the modules that are enabled are written to the CRM.
CrmCommitEnabledOnly(r) ==
  /\ At(r, "crm")
  /\ crm' = [m \in Modules |-> IF req[r].asked[m] = "on" THEN "on" ELSE crm[m]]
  /\ Goto(r, "done")
  /\ DisturbAllBut({r})
  /\ UNCHANGED <<link, enabled, override>>

CrmCommit(r) ==
  /\ At(r, "crm")
  /\ crm' = Upserted(crm, req[r].asked)
  /\ Goto(r, "done")
  /\ DisturbAllBut({r})
  /\ UNCHANGED <<link, enabled, override>>

CrmRollback(r) ==
  /\ At(r, "crm")
  /\ Goto(r, "compensate")
  /\ UNCHANGED <<stores, began>>

\* Mutant: the overrides that were not there before are not deleted.
CompensateKeepsNew(r) ==
  /\ At(r, "compensate")
  /\ enabled' = req[r].seen
  /\ override' = Upserted(override, req[r].before)
  /\ Goto(r, "reverted")
  /\ DisturbAllBut({r})
  /\ UNCHANGED <<link, crm>>

\* The rows that were read are upserted, every other row is deleted.
Compensate(r) ==
  /\ At(r, "compensate")
  /\ enabled' = req[r].seen
  /\ override' = req[r].before
  /\ Goto(r, "reverted")
  /\ DisturbAllBut({r})
  /\ UNCHANGED <<link, crm>>

CompensateFails(r) ==
  /\ At(r, "compensate")
  /\ Goto(r, "failed")
  /\ UNCHANGED <<stores, began>>

Crash(r) ==
  /\ Running(r)
  /\ req' = [req EXCEPT ![r].lost = TRUE]
  /\ UNCHANGED <<stores, began>>

-----------------------------------------------------------------------------
(* create and retryProvisioning.                                           *)

\* runProvisioning makes the organization with every module enabled.
Provision ==
  /\ link = "none"
  /\ link' = "organization"
  /\ crm' = AllOn
  /\ DisturbAllBut({})
  /\ UNCHANGED <<enabled, override, req>>

\* The tenant is linked, and modulesEnabled set to the catalog; the overrides
\* stay as they are.
LinkWrite ==
  /\ link = "organization"
  /\ link' = "linked"
  /\ enabled' = Modules
  /\ DisturbAllBut({})
  /\ UNCHANGED <<override, crm, req>>

-----------------------------------------------------------------------------

\* A tenant whose provisioning has failed, or one that was provisioned.
Init ==
  /\ \/ link = "none" /\ enabled = {} /\ crm = Unset
     \/ link = "linked" /\ enabled = Modules /\ crm = AllOn
  /\ override = Unset
  /\ req = [r \in Requests |-> [pc |-> "idle", asked |-> Unset, linked |-> FALSE, seen |-> {},
                                before |-> Unset, lost |-> FALSE]]
  /\ began = [r \in Requests |-> [alone |-> TRUE, enabled |-> {}, override |-> Unset, crm |-> Unset]]

Step(r) ==
  \/ UpdateRead(r) \/ OverridesRead(r)
  \/ PlatformCommit(r) \/ PlatformRollback(r)
  \/ CrmCommit(r) \/ CrmRollback(r)
  \/ Compensate(r) \/ CompensateFails(r)
  \/ Crash(r)

\* Clients need not send the requests that are left.
AllServed == (\A r \in Requests : ~Running(r)) /\ UNCHANGED vars

Next == (\E r \in Requests : Step(r)) \/ Provision \/ LinkWrite \/ AllServed

Spec == Init /\ [][Next]_vars

-----------------------------------------------------------------------------
(* Properties.                                                             *)

TypeOK ==
  /\ link \in {"none", "organization", "linked"}
  /\ enabled \subseteq Modules
  /\ override \in Switches
  /\ crm \in Switches
  /\ req \in [Requests -> Request]
  /\ began \in [Requests -> Beginning]

\* The answers of an update: r is answered by this step.
Answered(r, pc) == req[r].pc # pc /\ req'[r].pc = pc

\* The rows of the platform are as they were when r began.
PlatformAsBefore(r) == enabled' = began[r].enabled /\ override' = began[r].override

\* r is answered with everything done, or with nothing done.
Whole(r) ==
  /\ Answered(r, "done") =>
       /\ override' = Upserted(began[r].override, req[r].asked)
       /\ crm' = IF req[r].linked THEN Upserted(began[r].crm, req[r].asked) ELSE began[r].crm
  /\ req[r].pc # "idle" /\ (Answered(r, "refused") \/ Answered(r, "reverted")) =>
       PlatformAsBefore(r) /\ crm' = began[r].crm

\* An update during which nobody else writes is all or nothing, although it
\* takes two transactions in two databases, after two separate reads: when it
\* succeeds, every module asked for has its switch on both sides and every
\* other module keeps its two switches; when it answers that it was refused or
\* reverted, both databases are as it found them.  (updateModules and its
\* compensating transaction.)
AllOrNothing == [][\A r \in Requests : began[r].alone => Whole(r)]_vars

\* An override agrees with the CRM.
Agree(overrides, rows) == \A m \in Modules : overrides[m] \in {"unset", rows[m]}

\* r has run alone, to an answer that tells the truth, on a tenant with an
\* organization; or it has not begun.
Orderly(r) ==
  /\ req[r].pc \in {"idle", "done", "refused", "reverted"} /\ ~req[r].lost
  /\ began[r].alone
  /\ req[r].pc = "done" => req[r].linked

\* A sequence of updates one after the other, however many fail in the CRM,
\* leaves the overrides that getModules shows in agreement with the switches
\* that the CRM goes by.  Where they disagree, two updates have overlapped, or
\* one was lost or failed to compensate, or came before the organization.
SerialUpdatesAgree == (\A r \in Requests : Orderly(r)) => Agree(override, crm)

=============================================================================

----------------------------- MODULE TenantLink -----------------------------
(***************************************************************************)
(* What provisioning promises about the link between a platform tenant and *)
(* the CRM organization that backs it, with requests, failures and retries *)
(* abstracted away.                                                        *)
(*                                                                         *)
(* An organization is created for one tenant and stays that tenant's; a    *)
(* tenant gets at most one organization; the tenant's link is written once *)
(* and only to its own organization.  An organization may stay unlinked    *)
(* for ever: nothing here promises that a link follows a creation.         *)
(***************************************************************************)

CONSTANTS
  Slugs,   \* the tenants, by their unique slug
  Orgs,    \* identifiers of CRM organizations
  None     \* the null value of a column

VARIABLES
  owner,   \* owner[o]: the tenant organization o was created for, or None
  link     \* link[s]: Tenant.crmOrganizationId of tenant s, or None

vars == <<owner, link>>

Init ==
  /\ owner = [o \in Orgs |-> None]
  /\ link = [s \in Slugs |-> None]

\* A CRM transaction commits the first organization of tenant s.
Provision(s, o) ==
  /\ owner[o] = None
  /\ \A p \in Orgs : owner[p] # s
  /\ owner' = [owner EXCEPT ![o] = s]
  /\ UNCHANGED link

\* Tenant s, not linked so far, is linked to its organization.
Link(s, o) ==
  /\ owner[o] = s
  /\ link[s] = None
  /\ link' = [link EXCEPT ![s] = o]
  /\ UNCHANGED owner

Next == \E s \in Slugs, o \in Orgs : Provision(s, o) \/ Link(s, o)

Spec == Init /\ [][Next]_vars
=============================================================================

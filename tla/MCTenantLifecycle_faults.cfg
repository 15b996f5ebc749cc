\* Two tenants that compete for e-mail addresses and a domain, every fault.
SPECIFICATION Spec
CONSTANTS
  None = None
  Keep = Keep
  Slugs = {s1, s2}
  Orgs = {o1, o2, o3}
  Emails = {e1, e2}
  Domains = {d1}
  Requests = {r1, r2, r3}
  Ops = {"create", "retry", "update", "remove", "restore", "suspend", "unsuspend"}
  CreateInputs <- CreatesWithStatus
  UpdateInputs <- FieldUpdates
  Faults = {"crm", "platform", "crash"}
SYMMETRY FullSymmetry
INVARIANT TypeOK
INVARIANT NoLostUpdate
INVARIANT OneStatusChangePerVersion
PROPERTY ImplementsTenantLink

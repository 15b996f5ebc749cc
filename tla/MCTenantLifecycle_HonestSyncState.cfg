\* One tenant, a CRM that may fail.
SPECIFICATION Spec
CONSTANTS
  None = None
  Keep = Keep
  Slugs = {s1}
  Orgs = {o1}
  Emails = {e1}
  Domains = {}
  Requests = {r1, r2, r3}
  Ops = {"create", "retry"}
  CreateInputs <- Creates
  UpdateInputs <- FieldUpdates
  Faults = {"crm"}
INVARIANT HonestSyncState

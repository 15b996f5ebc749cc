\* One tenant, four provisioning or suspending requests, a CRM that may fail and a platform that does not.
SPECIFICATION FairSpec
CONSTANTS
  None = None
  Keep = Keep
  Slugs = {s1}
  Orgs = {o1, o2}
  Emails = {e1}
  Domains = {}
  Requests = {r1, r2, r3, r4}
  Ops = {"create", "retry", "suspend"}
  CreateInputs <- Creates
  UpdateInputs <- FieldUpdates
  Faults = {"crm"}
INVARIANT SyncingIsAttended
INVARIANT NoOrphanOrganization
PROPERTY RequestsAreAnswered
PROPERTY SyncSettles

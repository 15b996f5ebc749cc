\* A user and one who may be created, an owning role, one of the system and one
\* that is neither, which a copy may become; two operations of any kind.
SPECIFICATION Spec
CONSTANTS
  write = write
  leads = leads
  Users = {ann, bob}
  Founders = {ann}
  Names = {chief, sales, staff}
  Owning = {chief}
  System = {sales}
  Perms = {write}
  Modules = {leads}
  ModuleOf <- MCModuleOf
  Enabled = {leads}
  Actors <- MCActors
  Requests = {r1, r2}
SYMMETRY Symmetry
INVARIANT CacheFollowsRights
INVARIANT OneRolePerUser
INVARIANT NobodyHoldsDeletedRole
INVARIANT GivenWithinPool
INVARIANT NoOtherEscalation

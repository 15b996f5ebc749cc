\* One account, the seed's role and another, two operations of every kind.
SPECIFICATION Spec
CONSTANTS
  Users = {ann}
  Roles = {super, support}
  System = {super}
  Wild = {super}
  Perms = {read, write}
  Requests = {r1, r2}
SYMMETRY Symmetry
INVARIANT DeletedUserIsOut
INVARIANT DeletedRoleGrantsNothing
INVARIANT RolePermissionsAsAsked
INVARIANT UserRolesAsAsked
PROPERTY NoLostAccountUpdate

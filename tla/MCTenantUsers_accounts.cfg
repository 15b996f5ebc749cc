\* One user, three operations of every kind, suspensions, every fault.
SPECIFICATION Spec
CONSTANTS
  Users = {ann}
  Requests = {r1, r2, r3}
SYMMETRY Symmetry
INVARIANT TypeOK
INVARIANT ResetEndsOldTokens
INVARIANT SuspensionEndsSessions
INVARIANT UnlockHolds
INVARIANT HistoryKeepsReplaced
INVARIANT NoRolelessUser
INVARIANT StatusesAgree

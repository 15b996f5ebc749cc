\* One account, three requests at a time of every kind.
SPECIFICATION Spec
CONSTANTS
  None = None
  First = First
  Requests = {r1, r2, r3}
  Ops = {"login", "refresh", "resetPassword", "revokeSession", "logout", "changePassword",
         "suspend", "unsuspend", "remove", "restore", "unlock", "forceLogout", "adminReset"}
  LockThreshold = 2
SYMMETRY RequestSymmetry
INVARIANT PasswordChangeEndsOldSessions
INVARIANT StrandedOnlyByRevocation
INVARIANT OldPasswordsAccessRefused
PROPERTY DrainedSessionsStayClosed

\* One account, two requests that may present one refresh token.
SPECIFICATION Spec
CONSTANTS
  None = None
  First = First
  Requests = {r1, r2}
  Ops = {"refresh"}
  LockThreshold = 2
INVARIANT RefreshRotatesOnce

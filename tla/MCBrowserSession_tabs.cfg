\* Two tabs and two calls; each call begins one session or rotates one token.
SPECIFICATION Spec
CONSTANTS
  Tabs = {1, 2}
  Calls = {1, 2}
  MaxToken = 3
INVARIANT LogoutSticks
PROPERTY NoNeedlessLogin
PROPERTY CallsEnd

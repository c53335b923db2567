CONSTANTS
  u1 = u1  u2 = u2  r1 = r1  r2 = r2
  User = {u1, u2}
  AdminEmail = {u1}
  Request = {r1, r2}
  MaxTokens = 2
  None = None
SYMMETRY Symmetry
SPECIFICATION Spec
INVARIANTS TypeOK OneUsableLink
PROPERTIES NewestLinkOnce LandsOnActive
CHECK_DEADLOCK FALSE

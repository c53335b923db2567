CONSTANTS
  u1 = u1  u2 = u2  r1 = r1  r2 = r2
  User = {u1, u2}
  AdminEmail = {u1, u2}
  Request = {r1, r2}
  MaxTokens = 0
  None = None
SPECIFICATION Spec
PROPERTIES AdminRemains
CHECK_DEADLOCK FALSE

CONSTANTS
  r1 = r1  r2 = r2  c1 = c1
  Choices <- SavedValues
  Deployment <- Deployments
  Request = {r1, r2}
  Caller = {c1}
  MaxChanges = 3
  None = None
SYMMETRY Symmetry
SPECIFICATION Spec
INVARIANTS TypeOK UsedWasInForce
PROPERTIES NothingOverwrittenUnseen

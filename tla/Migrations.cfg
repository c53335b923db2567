CONSTANTS
  Upgrade = {u1, u2}
  MaxStarts = 3
  MaxFaults = 1
  Revisions <- Chain
SPECIFICATION Spec
INVARIANTS TypeOK VersionMeansSchema ServesOnItsSchema NothingHalfDone
PROPERTY OneOfThemFinishes
CHECK_DEADLOCK FALSE

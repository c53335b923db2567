CONSTANTS
  n1 = n1  n2 = n2
  Notification = {n1, n2}
  MaxTries = 2
  MaxFaults = 2
SPECIFICATION FairSpec
INVARIANTS TypeOK ResentOnlyAfterError FailureIsDeadLettered
PROPERTIES DeliveredWithoutFaults KeepsPromise
CHECK_DEADLOCK FALSE

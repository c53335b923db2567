CONSTANTS
  n1 = n1  n2 = n2
  Notification = {n1}
  MaxTries = 2
  MaxFaults = 1
SPECIFICATION FairSpec
PROPERTIES ProcessingEnds
CHECK_DEADLOCK FALSE

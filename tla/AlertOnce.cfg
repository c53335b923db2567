CONSTANTS
  m1 = m1  m2 = m2  s1 = s1   c1 = c1  c2 = c2
  None = None  Stale = Stale
  Monitor = {m1}
  Source = {s1}
  SourceOf <- OneSource
  Check = {c1, c2}
  Price = {1, 2}
  Target = {1, 2}
  Currency = {"RUB"}
  HomeCurrency = "RUB"
  Page <- Priced
  MaxAlerts = 2
  MaxEdits = 1
SYMMETRY Symmetry
SPECIFICATION Spec
INVARIANTS OneAlertPerWindow SuppressedByTwin MonitorShowsNewestCheck
PROPERTIES AlertWithinTarget ChecksAreSerial
CHECK_DEADLOCK FALSE

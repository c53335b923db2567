CONSTANTS
  m1 = m1  m2 = m2  s1 = s1   c1 = c1  c2 = c2
  None = None  Stale = Stale
  Monitor = {m1, m2}
  Source = {s1}
  SourceOf <- OneSource
  Check = {c1, c2}
  Price = {1, 2}
  Target = {1}
  Currency = {"RUB", "USD"}
  HomeCurrency = "RUB"
  Page <- AnyCurrency
  MaxAlerts = 1
  MaxEdits = 0
SYMMETRY Symmetry
SPECIFICATION Spec
INVARIANTS TypeOK SourceShowsOneCheck
PROPERTIES AlertInSourceCurrency
CHECK_DEADLOCK FALSE

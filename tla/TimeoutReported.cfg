CONSTANTS
  Provider = {"apify"}
  Link <- WildberriesLinks
  Digits = {"7", "8"}
  MaxAttempts = 3
  BasketHosts = 1
  RequestTimeout = 1200
  BaseDelay = 5
  MaxDelay = 100
  JitterPart = 5
  Deadline = 3600
  AnswerTime = {1, 1200}
  None = None
  Page <- Pages
SPECIFICATION Spec
PROPERTIES TimeoutIsReported
CHECK_DEADLOCK FALSE

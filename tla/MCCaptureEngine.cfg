SPECIFICATION CaptureSpec
CONSTANTS
  MaxExact <- MCMaxExact
  Floats <- MCFloats
  MaxDepth = 3
  MaxHeight = 5
  NotUtf8 = NotUtf8
  Exchanges <- MCExchanges
  Limits = {1, 2, 4}
INVARIANTS
  SuccessMeansSatisfied
  RetainsFirstFailures
  CapturesReadBack
  WalkFailsStatically
CHECK_DEADLOCK FALSE

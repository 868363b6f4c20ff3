\* wait_any, then erase or destroy the async_response it designates.
SPECIFICATION Spec
CONSTANTS
  k1 = k1
  k2 = k2
  h1 = h1
  h2 = h2
  Call <- TwoCalls
  Handle <- TwoHandles
  Null = Null
  Timeouts <- OnlyFive
  ReuseHandle = FALSE
  RetryTimeout = FALSE
INVARIANT NoDoubleWait
CHECK_DEADLOCK FALSE

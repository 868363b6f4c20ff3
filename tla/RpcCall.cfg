\* Two calls, each in any mode, on two handles; every interleaving with the
\* network, the timer and the handlers.  A vector of two is erased from at the
\* front and at the end.  Calls are used up, and std::terminate ends the program,
\* so the system may stop.
SPECIFICATION FairSpec
CONSTANTS
  k1 = k1
  k2 = k2
  h1 = h1
  h2 = h2
  Call <- TwoCalls
  Handle <- TwoHandles
  Null = Null
  Timeouts <- ZeroAndFive
  ReuseHandle = FALSE
  RetryTimeout = FALSE
INVARIANTS
  TypeOK
  OneWaiter
  PackedHoldsOwnResponse
PROPERTIES
  KeepsPromise
  TimedCallsEnd
  AnsweredCallsEnd
CHECK_DEADLOCK FALSE

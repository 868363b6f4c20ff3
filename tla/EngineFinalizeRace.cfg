\* A pop on one ULT, and finalize called by another.
SPECIFICATION Spec
CONSTANTS
  c1 = c1
  c2 = c2
  c3 = c3
  o1 = o1
  t1 = t1
  t2 = t2
  e1 = e1
  e2 = e2
  Callback <- ThreeCallbacks
  Owner <- OneOwner
  Thread <- TwoThreads
  Holder <- TwoHolders
  Null = Null
  Concurrent = TRUE
INVARIANT NoUseAfterFree
CHECK_DEADLOCK FALSE

\* Three objects of each class over two handles; two waiters, one with a deadline
\* and three producers on a condition variable; two rounds of an eventual with
\* three setters; a future of two objects, set three times; two timed callbacks;
\* two threads on two streams, one stealing.  Every part ends: handles are used
\* up, all threads are done, or the program is.
SPECIFICATION FairSpec
CONSTANTS
  a1 = a1
  m1 = m1
  m2 = m2
  n1 = n1
  n2 = n2
  w1 = w1
  w2 = w2
  t1 = t1
  p1 = p1
  p2 = p2
  p3 = p3
  s1 = s1
  s2 = s2
  s3 = s3
  o1 = o1
  o2 = o2
  k1 = k1
  k2 = k2
  es1 = es1
  es2 = es2
  q1 = q1
  q2 = q2
  Nobody = Nobody
  Waiter <- TwoWaiters
  TimedWaiter <- OneTimed
  Producer <- ThreeProducers
  Setter <- ThreeSetters
  Rounds = 2
  Compartments = 2
  Garbage = Garbage
  Object <- ThreeObjects
  Managed <- ManagedObjects
  Handle <- TwoHandles
  Dead = Dead
  MaxRaw = 1
  MoveTimers = FALSE
  Timed <- TwoTimed
  Timer <- TwoTimers
  Null = Null
  MaxStarts = 3
  DestroyWaits = TRUE
  FirstLists <- Lists
  PoolsUsed <- Used
  User <- TwoUsers
  Nothing = Nothing
  StaleIndex = FALSE
  Unit <- TwoUnits
  Tasks <- NoTask
  Stream <- TwoStreams
  Pools <- TwoPools
  PoolsOf <- Stealing
  None = None
  MaxRevivals = 1
  MaxPauses = 1
INVARIANTS
  TypesOK
  Accounting
  PredicateHolds
  NoSignalLost
  ValueOfThisRound
  CallbackFirst
  FunctionAlive
  CancelHolds
  ReferencesKept
  OnePlace
  FunctionOnce
  NobodyLeftBehind
PROPERTY EveryPartEnds
CHECK_DEADLOCK FALSE

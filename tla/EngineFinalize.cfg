\* Three callbacks of either kind, two of them possibly without an owner, pushed
\* and popped before, during and after the finalization, which two ULTs, the
\* last reference or a callback may trigger or accompany.
SPECIFICATION FairSpec
CONSTANTS
  c1 = c1
  c2 = c2
  c3 = c3
  o1 = o1
  t1 = t1
  t2 = t2
  e1 = e1
  e2 = e2
  Callback <- ThreeCallbacks
  Owner <- OneOwner
  Thread <- TwoThreads
  Holder <- TwoHolders
  Null = Null
  Concurrent = FALSE
INVARIANTS
  TypeOK
  RefsExact
  OneFate
  EntriesLive
PROPERTIES
  DeadOwnersSilent
  FinalizeEnds
CHECK_DEADLOCK FALSE

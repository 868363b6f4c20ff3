\* Two ids defined by free functions and by members of two providers; ids defined
\* anew, deregistered and lost with their providers at any time, and two RPCs.
\* The system stops once it is finalized or when it aborts.
SPECIFICATION Spec
CONSTANTS
  i1 = i1
  i2 = i2
  f1 = f1
  f2 = f2
  f3 = f3
  p1 = p1
  p2 = p2
  r1 = r1
  r2 = r2
  Id <- TwoIds
  Function <- ThreeFunctions
  Provider <- TwoProviders
  Rpc <- TwoRpcs
  Null = Null
SYMMETRY Symmetry
INVARIANTS
  TypeOK
  FunctionsOwned
  ReachableIsLive
  DataThereOutsideGap
CHECK_DEADLOCK FALSE

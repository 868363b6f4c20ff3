\* An RPC that arrives between the two steps of engine::define.
SPECIFICATION Spec
CONSTANTS
  i1 = i1
  i2 = i2
  f1 = f1
  f2 = f2
  f3 = f3
  p1 = p1
  p2 = p2
  r1 = r1
  r2 = r2
  Id <- TwoIds
  Function <- ThreeFunctions
  Provider <- OneProvider
  Rpc <- TwoRpcs
  Null = Null
INVARIANT RegisteredDataNotNull
CHECK_DEADLOCK FALSE

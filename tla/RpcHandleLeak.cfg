\* Assignments between packed_data.
SPECIFICATION Spec
CONSTANTS
  h1 = h1
  h2 = h2
  c1 = c1
  c2 = c2
  r1 = r1
  r2 = r2
  p1 = p1
  p2 = p2
  q1 = q1
  q2 = q2
  Handle <- HandlesDef
  Callable <- CallablesDef
  Response <- ResponsesDef
  Packed <- PackedDef
  Request <- RequestsDef
  NoHandle = NoHandle
  Spent = Spent
  Dead = Dead
  MaxLeak = 1
SYMMETRY Symmetry
INVARIANT NoLeak
\* std::terminate ends the program, and the model stops at undefined behaviour.
CHECK_DEADLOCK FALSE

\* Two transfers between a bulk of one byte and one of two, in two-bit
\* arithmetic, after up to two selections.  Transfers are used up, and
\* std::terminate ends the program.
SPECIFICATION FairSpec
CONSTANTS
  a1 = a1
  a2 = a2
  Transfers = 2
  Object <- TwoObjects
  Null = Null
  Dead = Dead
  LocalSize = 1
  RemoteSize = 2
  Width = 4
  MaxSelects = 2
INVARIANTS
  TypeOK
  SelectionExact
  SomebodyWaits
PROPERTIES
  Confined
  TimedTransfersEnd
CHECK_DEADLOCK FALSE

\* One transfer from or to a selection of a selection.
SPECIFICATION FairSpec
CONSTANTS
  a1 = a1
  a2 = a2
  Transfers = 1
  Object <- TwoObjects
  Null = Null
  Dead = Dead
  LocalSize = 1
  RemoteSize = 2
  Width = 4
  MaxSelects = 2
PROPERTY AlwaysConfined
CHECK_DEADLOCK FALSE

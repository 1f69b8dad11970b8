SPECIFICATION Spec
CONSTANTS
  Configs <- All
  Unknown = 2
  MaxHost = 3
  B = 3
  Points = 256
INVARIANTS FramesInOrder TimesAreTrue FormatsKept
PROPERTY Returns
CHECK_DEADLOCK FALSE

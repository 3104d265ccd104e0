CONSTANTS
  MaxItem = 3
  MaxVersion = 2
  MaxRequest = 5
SPECIFICATION Spec
CHECK_DEADLOCK FALSE
INVARIANTS
  TypeOK
  ActsOnTheRowPressed
  ScreenAgrees
PROPERTY ScreenComesBack

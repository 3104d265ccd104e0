CONSTANTS
  NumUsers = 2
  MaxDir = 5
  MaxFile = 1
  MaxRevision = 3
  MaxCopies = 2
  Names = {a}
  Slips = {}
  MaxCrashes = 1
SPECIFICATION StepsSpec
INVARIANTS
  StepsTypeOK
  ClimbsEnd
  CrashIsLocal
  ListedWhereItSays
PROPERTIES
  OnlyTrashIsErased
  ImplementsCatalog

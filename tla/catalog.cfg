CONSTANTS
  NumUsers = 2
  MaxDir = 5
  MaxFile = 2
  MaxRevision = 2
  MaxCopies = 2
  Names = {a, b}
  Slips = {}
SPECIFICATION Spec
INVARIANTS
  TypeOK
  DirectoryTree
  Placement
  ShareSymmetry
  StoreMatchesCatalog

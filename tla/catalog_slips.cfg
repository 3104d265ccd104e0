CONSTANTS
  NumUsers = 2
  MaxDir = 4
  MaxFile = 2
  MaxRevision = 2
  MaxCopies = 2
  Names = {a}
  Slips = {"stale_delete", "stale_share", "root_id", "disk_full"}
SPECIFICATION Spec
INVARIANTS
  ClimbsEnd
  GrantsListed
  FilesReadable
  NoFileIsLost
PROPERTY OnlyTrashIsForgotten

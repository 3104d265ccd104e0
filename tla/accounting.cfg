CONSTANTS
  NumUsers = 2
  MaxDir = 5
  MaxFile = 2
  MaxRevision = 2
  MaxCopies = 1
  Names = {a}
  Slips = {}
  Sizes = {1, 2}
  MaxQuota = 3
  Width = 6
SPECIFICATION AccountingSpec
INVARIANTS
  AccountingTypeOK
  QuotaBoundsStorage
  QuotaIsAccounted
  DirSizeIsSum
  DirSizeIsAccounted

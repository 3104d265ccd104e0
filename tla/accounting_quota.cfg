CONSTANTS
  NumUsers = 1
  MaxDir = 3
  MaxFile = 2
  MaxRevision = 2
  MaxCopies = 1
  Names = {a}
  Slips = {}
  Sizes = {1, 2}
  MaxQuota = 4
  Width = 8
SPECIFICATION AccountingSpec
INVARIANT QuotaIsStorage

CONSTANTS
  MaxItem = 2
  MaxVersion = 2
  MaxRequest = 6
SPECIFICATION Spec
CHECK_DEADLOCK FALSE
INVARIANT DownloadsLastVersion

SPECIFICATION FairSpec
CONSTANTS
  a = a
  b = b
  page = page
  Nothing = Nothing
  Procs = {a, b}
  Dirs = {page}
  Owner <- MCOwner
  Chunks = 2
  Outputs <- MCOutputs
  PageSizes = {1, 3}
  IoChunkBytes = 2
  IndexStride = 2
  MaxCrashes = 2
  MaxReads = 1
CHECK_DEADLOCK FALSE
INVARIANTS PagesExact AnnouncedReadable
PROPERTIES LiveStagingKept ImplementsShelf OrphansRemoved

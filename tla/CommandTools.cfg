SPECIFICATION FairSpec
CONSTANTS
  Configs <- Settings
  x1 = x1
  batch = batch
  d1 = d1
  d2 = d2
  Singles = {x1}
  Batch = batch
  N = 3
  Concurrency = 2
  MaxOutput = 1
  MaxCommandOutput = 2
  Burst = 3
  MaxRefills = 1
  Dirs = {d1, d2}
  Home = d1
  MaxMoves = 1
INVARIANTS ReportFaithful OverrunBounded RateHolds AuditNamesTheDirectory
PROPERTIES BatchReturns

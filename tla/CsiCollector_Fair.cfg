CONSTANTS
  Workers = {w1, w2}
  Rntis <- MCRntis
  RecordSizes <- MCRecordSizes
  MaxFileSize <- MCMaxFileSize
  SameRntiConcurrent = FALSE
  RestartSeconds <- MCRestartSeconds
  MaxRecords <- MCFairMaxRecords
  MaxRestarts <- MCMaxRestarts

SPECIFICATION FairSpec

PROPERTIES
  TrackerCatchesUp

CHECK_DEADLOCK FALSE

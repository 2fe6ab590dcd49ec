CONSTANTS
  Workers = {w1, w2}
  Rntis <- MCRntis
  RecordSizes <- MCRecordSizes
  MaxFileSize <- MCMaxFileSize
  SameRntiConcurrent = TRUE
  RestartSeconds <- MCRestartSeconds
  MaxRecords <- MCMaxRecords
  MaxRestarts <- MCMaxRestarts

SPECIFICATION Spec

SYMMETRY WorkerSymmetry

INVARIANT
  FileSizeBounded

CHECK_DEADLOCK FALSE

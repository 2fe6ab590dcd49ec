CONSTANTS
  Workers = {w1, w2}
  Rntis <- MCRntis
  RecordSizes <- MCRecordSizes
  MaxFileSize <- MCMaxFileSize
  SameRntiConcurrent = FALSE
  RestartSeconds <- MCRestartSeconds
  MaxRecords <- MCMaxRecords
  MaxRestarts <- MCMaxRestarts

SPECIFICATION Spec

SYMMETRY WorkerSymmetry

INVARIANT
  NoMapDataRace

CHECK_DEADLOCK FALSE

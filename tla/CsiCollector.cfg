CONSTANTS
  Workers = {w1, w2}
  Rntis <- MCRntis
  RecordSizes <- MCRecordSizes
  MaxFileSize <- MCMaxFileSize
  SameRntiConcurrent = FALSE
  RestartSeconds <- MCRestartSeconds
  MaxRecords <- MCMaxRecords
  MaxRestarts <- MCMaxRestarts

SPECIFICATION Spec

SYMMETRY WorkerSymmetry

INVARIANTS
  TypeOK
  FileSizeBounded
  TrackedSizeMatchesFile
  MetadataConsistent

PROPERTIES
  ClosedFilesImmutable
  ImplementsCsiLog

CHECK_DEADLOCK FALSE

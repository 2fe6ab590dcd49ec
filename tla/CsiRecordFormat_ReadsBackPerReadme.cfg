CONSTANTS
  Records <- MCRecords
  MaxRecords <- MCMaxRecords

SPECIFICATION Spec

INVARIANT
  ReadsBackPerReadme

CHECK_DEADLOCK FALSE

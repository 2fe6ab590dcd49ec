CONSTANTS
  Records <- MCRecords
  MaxRecords <- MCMaxRecords

SPECIFICATION Spec

INVARIANTS
  TypeOK
  ReadsBackPerGuide

CHECK_DEADLOCK FALSE

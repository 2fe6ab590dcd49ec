CONSTANTS
  TableSize <- MCTableSize
  UnsignedModulus <- MCUnsignedModulus
  PhaseUnits <- MCPhaseUnits
  PhaseShifts <- MCPhaseShifts
  PhaseOffsets <- MCPhaseOffsets
  SeqLengths <- MCSeqLengths

SPECIFICATION Spec

INVARIANTS
  TypeOK
  NearestTableEntry

CONSTANTS
  TxPortCounts  <- MCTxPortCounts
  RxPortCounts  <- MCRxPortCounts
  SymbolCounts  <- MCSymbolCounts
  StartSymbols  <- MCStartSymbols
  CyclicShifts  <- MCCyclicShifts
  NCsMax        <- MCNCsMax
  SeqLengths    <- MCSeqLengths
  Contexts      <- MCContexts
  NoContext     = NoContext
  NotHex        = NotHex
  TaEstimates   <- MCTaEstimates
  TaResolutions <- MCTaResolutions
  MaxTa         <- MCMaxTa
  DoubleMin     <- MCDoubleMin
  DoubleMax     <- MCDoubleMax
  AssertsActive = TRUE
  UnsignedModulus <- MCUnsignedModulus

SPECIFICATION Spec

INVARIANT
  ChannelMatrixComplete

CHECK_DEADLOCK FALSE

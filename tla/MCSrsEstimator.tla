--------------------------- MODULE MCSrsEstimator ---------------------------
(***************************************************************************)
(* SrsEstimator for TLC: every port count the standard allows, one and two *)
(* symbols, a cyclic shift on each side of n_cs_max / 2, and one context   *)
(* for every way the sink's RNTI parsing can end.                          *)
(***************************************************************************)
EXTENDS SrsEstimator

MCTxPortCounts == {1, 2, 4}
MCRxPortCounts == {1, 2}
MCSymbolCounts == {1, 2}
\* 12 + 2 and 13 + 1 fit in the slot of 14 symbols, 13 + 2 does not.
MCStartSymbols == {12, 13}
\* Comb size 4: n_cs_max = 12, and 6 is the first interleaving cyclic shift.
MCNCsMax       == 12
MCCyclicShifts == {5, 6}
\* The shortest sequence of comb size 8 (4 resource blocks).
MCSeqLengths   == {6}

\* No context; text without "rnti=0x"; text stoul rejects; RNTI 0; RNTI 0x4601.
MCContexts ==
  {NoContext,
   [marker |-> FALSE, digits |-> 17921],
   [marker |-> TRUE,  digits |-> NotHex],
   [marker |-> TRUE,  digits |-> 0],
   [marker |-> TRUE,  digits |-> 17921]}

\* Only requests whose context carries an RNTI: the sink files every record.
MCContextsWithRnti == {[marker |-> TRUE, digits |-> 17921]}

\* Time in units in which every mean of 1, 2 or 4 measurements is an integer.
MCTaEstimates   == {-4, 0, 4}
MCTaResolutions == {1, 2}
MCMaxTa         == 4
\* Smaller than every positive measurement, larger than every measurement.
MCDoubleMin     == 1
MCDoubleMax     == 1000
\* TLC's integers have 32 bits: 16 bits of `unsigned` are modelled, far above
\* every product of the model and below every wrapped difference.
MCUnsignedModulus == 65536

=============================================================================

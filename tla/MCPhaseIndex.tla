---------------------------- MODULE MCPhaseIndex ----------------------------
(***************************************************************************)
(* PhaseIndex for TLC: a table of 8 entries, phases in 32nds of a turn, so *)
(* that phases fall on, between and exactly half way between two entries, *)
(* in both directions, and ramps pass the end of the table.                *)
(***************************************************************************)
EXTENDS PhaseIndex

MCTableSize    == 8
\* 8 bits of `unsigned`: as the 32 bits of the build, a multiple of the table.
MCUnsignedModulus == 256
MCPhaseUnits   == 32
MCPhaseShifts  == -5 .. 5
MCPhaseOffsets == -5 .. 5
MCSeqLengths   == {1, 4, 6}

=============================================================================

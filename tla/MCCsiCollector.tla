--------------------------- MODULE MCCsiCollector ---------------------------
(***************************************************************************)
(* CsiCollector for TLC: two threads, two UEs, records of one and two      *)
(* units and a limit of three units, so that a file fills exactly, a       *)
(* record does not fit, and a rotation of one UE overlaps the first record *)
(* of the other.                                                           *)
(***************************************************************************)
EXTENDS CsiCollector

MCRntis       == {17921, 17922}
MCRecordSizes == {1, 2}
MCMaxFileSize == 3
\* A restart takes at least a second.
MCRestartSeconds == {1}
\* Enough for a file to fill (1 + 1 + 1) and the next record to rotate.
MCMaxRecords  == 4
MCMaxRestarts == 1
\* For the liveness run: two records of two units fill a file and rotate.
MCFairMaxRecords == 3

WorkerSymmetry == Permutations(Workers)

=============================================================================

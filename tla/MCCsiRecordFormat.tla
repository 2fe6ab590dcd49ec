------------------------- MODULE MCCsiRecordFormat --------------------------
(***************************************************************************)
(* CsiRecordFormat for TLC: records of one and two tones, on combs of two  *)
(* and four, for the first and the last port and the largest RNTI, two to  *)
(* a file, so that a reader has to find where the second record starts.    *)
(***************************************************************************)
EXTENDS CsiRecordFormat

MCRecords ==
  [ts : {1}, rnti : {17921, 65535}, rx_port : {0, 1}, tx_port : {0, 3},
   seq_len : {1, 2}, k0 : {0, 3}, comb_size : {2, 4}, symbol : {13},
   re : {5}, im : {6}]

MCMaxRecords == 2

=============================================================================

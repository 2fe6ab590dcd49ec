----------------------------- MODULE PhaseIndex -----------------------------
(***************************************************************************)
(* compensate_phase_shift() of srs_estimator_generic_impl.cpp: the index   *)
(* into the complex-exponential table that is computed for every element   *)
(* of a buffer, and the order in which the indices are generated, on the   *)
(* scratch of one estimator instance over any number of calls.             *)
(*                                                                         *)
(* A phase is a whole number of PhaseUnits-th parts of a turn, so that     *)
(* phase / TWOPI is the fraction phase / PhaseUnits and the arithmetic is  *)
(* exact.  The sample values are left out: the result of the call is the   *)
(* table entry each element was multiplied by.                             *)
(***************************************************************************)
EXTENDS Integers, Sequences, FiniteSetsExt

CONSTANTS
  TableSize,        \* cexp_table_size
  UnsignedModulus,  \* 2^w for the w bits of `unsigned`
  PhaseUnits,       \* parts of a turn a phase is counted in
  PhaseShifts,      \* values of phase_shift_subcarrier
  PhaseOffsets,     \* values of phase_shift_offset
  SeqLengths        \* values of mean_lse.size()

ASSUME /\ TableSize \in Nat \ {0} /\ UnsignedModulus \in Nat \ {0}
       /\ PhaseUnits \in Nat \ {0}
       /\ PhaseShifts \subseteq Int /\ PhaseOffsets \subseteq Int
       /\ SeqLengths \subseteq Nat \ {0}

VARIABLES
  at,          \* "idle", "generate" or "done"
  call,        \* sequence_length, phase_shift_subcarrier, phase_shift_offset
  n,           \* the counter captured by the generator
  temp_phase,  \* the scratch array temp_phase of the instance
  cexp         \* the table entries the buffer was multiplied by

vars == <<at, call, n, temp_phase, cexp>>

-----------------------------------------------------------------------------
(* The index arithmetic *)

Round_TowardsZero(num, den) ==
  IF num >= 0 THEN num \div den ELSE -((-num) \div den)

\* std::round of num / den: to the nearest integer, halves away from zero.
Round(num, den) ==
  IF num >= 0
  THEN (2 * num + den) \div (2 * den)
  ELSE -((2 * (-num) + den) \div (2 * den))

ToUnsigned_Identity(i) == i

\* The int the generator returns, stored into an element of span<unsigned>.
ToUnsigned(i) == i % UnsignedModulus

\* The phase of element k, in PhaseUnits-th parts of a turn.
PhaseOf(k) == k * call.shift + call.offset

\* The value the generator produces for element k.
IndexOf(k) == ToUnsigned(Round(TableSize * PhaseOf(k), PhaseUnits))

\* complex_exponential_table::generate: the entry an index selects.
TableEntry(index) == index % TableSize

NoCall == [len |-> 0, shift |-> 0, offset |-> 0]

\* The capacity of the scratch: enough for the longest sequence.
max_seq_length == Max(SeqLengths)

-----------------------------------------------------------------------------
(* Actions *)

Init ==
  /\ at = "idle"
  /\ call = NoCall
  /\ n = 0
  /\ temp_phase = [k \in 0 .. max_seq_length - 1 |-> 0]
  /\ cexp = <<>>

\* The call: the view of temp_phase and the generator with n = 0.
Compensate(len, ps, po) ==
  /\ at = "idle"
  /\ call' = [len |-> len, shift |-> ps, offset |-> po]
  /\ at' = "generate"
  /\ UNCHANGED <<n, temp_phase, cexp>>

\* std::generate: element n of the view, from n++.
GenerateIndex ==
  /\ at = "generate"
  /\ n < call.len
  /\ temp_phase' = [temp_phase EXCEPT ![n] = IndexOf(n)]
  /\ n' = n + 1
  /\ UNCHANGED <<at, call, cexp>>

\* cexp_table.generate and srsvec::prod: every element is multiplied by the
\* table entry of its index.
Multiply ==
  /\ at = "generate"
  /\ n = call.len
  /\ cexp' = [k \in 1 .. call.len |-> TableEntry(temp_phase[k - 1])]
  /\ at' = "done"
  /\ UNCHANGED <<call, n, temp_phase>>

\* The call returns; the scratch of the instance keeps what it holds.
Return ==
  /\ at = "done"
  /\ at' = "idle"
  /\ call' = NoCall
  /\ n' = 0
  /\ cexp' = <<>>
  /\ UNCHANGED temp_phase

Next ==
  \/ \E len \in SeqLengths, ps \in PhaseShifts, po \in PhaseOffsets :
       Compensate(len, ps, po)
  \/ GenerateIndex
  \/ Multiply
  \/ Return

Spec == Init /\ [][Next]_vars

-----------------------------------------------------------------------------
(* Properties *)

\* Every variable has its type; every index compensate_phase_shift() hands to
\* the table is an unsigned value.
TypeOK ==
  /\ at \in {"idle", "generate", "done"}
  /\ call \in [len : SeqLengths, shift : PhaseShifts, offset : PhaseOffsets]
               \cup {NoCall}
  /\ n \in 0 .. max_seq_length
  /\ temp_phase \in [0 .. max_seq_length - 1 -> 0 .. UnsignedModulus - 1]
  /\ cexp \in Seq(0 .. TableSize - 1)

\* The distance on the circle, in (TableSize * PhaseUnits)-th parts of a
\* turn, between table entry e and the phase of element k.
PhaseError(e, k) ==
  LET turn == TableSize * PhaseUnits
      d    == (e * PhaseUnits - TableSize * PhaseOf(k)) % turn
  IN IF 2 * d <= turn THEN d ELSE turn - d

\* spec.md 4.2 and 5: element k of the buffer is multiplied by the table's
\* value for the phase k * phase_per_subcarrier + phase_offset of this call,
\* quantised to the nearest table entry: the phase applied by
\* compensate_phase_shift() is off by at most half a table step, for negative
\* phases (a negative time alignment) as well, where the index wraps when it
\* is stored as unsigned, and whatever earlier, longer calls have left in the
\* scratch.
NearestTableEntry ==
  at = "done" =>
    /\ Len(cexp) = call.len
    /\ \A k \in 1 .. Len(cexp) : 2 * PhaseError(cexp[k], k - 1) <= PhaseUnits

=============================================================================

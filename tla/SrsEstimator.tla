---------------------------- MODULE SrsEstimator ----------------------------
(***************************************************************************)
(* The control flow of srs_estimator_generic_impl::estimate(): one call on *)
(* one estimator instance, from the validation of the request to the       *)
(* returned result.                                                        *)
(*                                                                         *)
(* Complex samples are abstracted to what the properties tell apart.  A    *)
(* buffer is the record of what was done to it (which symbols were summed  *)
(* into it, by which pilot it was multiplied, how often it was phase       *)
(* compensated, which recovered signals were subtracted), and a power is   *)
(* "zero" or "pos".  Every loop iteration of the code is a step, in the    *)
(* order the code takes them.                                              *)
(*                                                                         *)
(* The body of the second loop is split at the diagnostic CSI sink: the    *)
(* sink either skips the rest of the iteration (the `continue` statements) *)
(* or hands one record to the collector (module CsiCollector).             *)
(***************************************************************************)
EXTENDS Integers, Sequences, FiniteSets, FiniteSetsExt

CONSTANTS
  TxPortCounts,    \* values of config.resource.nof_antenna_ports
  RxPortCounts,    \* values of config.ports.size()
  SymbolCounts,    \* values of config.resource.nof_symbols
  StartSymbols,    \* values of config.resource.start_symbol
  CyclicShifts,    \* values of n_cs of transmit port 0
  NCsMax,          \* n_cs_max of the comb size in use
  SeqLengths,      \* values of sequence_length
  Contexts,        \* values of config.context
  NoContext,       \* config.context holds no value
  NotHex,          \* text after "rnti=0x" that std::stoul rejects
  TaEstimates,     \* time_alignment values the TA estimator may return
  TaResolutions,   \* resolution values the TA estimator may return
  MaxTa,           \* max_ta, the largest measurable delay
  DoubleMin,       \* std::numeric_limits<double>::min()
  DoubleMax,       \* std::numeric_limits<double>::max()
  AssertsActive,   \* TRUE iff srsran_assert is compiled in
  UnsignedModulus  \* 2^w for the w bits of `unsigned` (2^32 in the build)

ASSUME /\ TxPortCounts \subseteq {1, 2, 4}
       /\ RxPortCounts \subseteq Nat \ {0}
       /\ SymbolCounts \subseteq Nat \ {0}
       /\ CyclicShifts \subseteq 0 .. NCsMax - 1
       \* numeric_limits<double>::min() is the smallest POSITIVE double.
       /\ 0 < DoubleMin /\ \A t \in TaEstimates : t > 0 => DoubleMin < t
       /\ MaxTa < DoubleMax
       \* The mean over 1, 2 or 4 ports is an integer of the model.
       /\ \A t \in TaEstimates : t % 4 = 0 /\ -MaxTa <= t /\ t <= MaxTa
       /\ AssertsActive \in BOOLEAN
       /\ UnsignedModulus \in Nat \ {0}

VARIABLES
  phase,        \* where the call is: see Phases
  config,       \* the srs_estimator_configuration of the call
  i_tx,         \* i_antenna_port
  i_rx,         \* i_rx_port_index / i_rx_port
  i_sym,        \* i_symbol
  temp_lse,     \* temp_lse: one buffer per (rx, tx)
  temp_noise,   \* temp_noise: one buffer per (parity, rx)
  ta,           \* result.time_alignment
  ta_sum,       \* history: sum of the measurements' time_alignment
  matrix,       \* result.channel_matrix: the (rx, tx) pairs that were set
  epre_terms,   \* number of average powers summed into epre
  rsrp_terms,   \* number of squared magnitudes summed into rsrp
  noise_terms,  \* number of residual buffers summed into noise_var
  rsrp,         \* class of rsrp
  noise_var,    \* class of noise_var
  csi_out,      \* records handed to the CSI sink during this call
  result        \* what the call returns

indices == <<i_tx, i_rx, i_sym>>
buffers == <<temp_lse, temp_noise>>
sums    == <<epre_terms, rsrp_terms, noise_terms, rsrp, noise_var>>
outputs == <<matrix, csi_out, result>>

vars == <<phase, config, indices, buffers, ta, ta_sum, sums, outputs>>

-----------------------------------------------------------------------------
(* Data *)

Phases == {"idle", "accumulate", "compensate", "sink", "coefficient",
           "done", "aborted", "thrown"}

NofSymbolsPerSlot == 14          \* get_nsymb_per_slot(cyclic_prefix::NORMAL)

MaxTx == Max(TxPortCounts)
MaxRx == Max(RxPortCounts)
TxIdx == 0 .. MaxTx - 1
RxIdx == 0 .. MaxRx - 1

Power == {"zero", "pos"}

\* A formatted context: whether the text holds "rnti=0x", and what follows.
ContextText == [marker : BOOLEAN, digits : Nat \cup {NotHex}]

Configs ==
  [nof_tx : TxPortCounts, nof_rx : RxPortCounts, nof_symbols : SymbolCounts,
   start_symbol : StartSymbols, n_cs : CyclicShifts, seq_len : SeqLengths,
   context : Contexts, pdu_valid : BOOLEAN, grid : {"silent", "signal"}]

NoConfig == [nof_tx |-> 0]

\* A least-squares buffer that nothing was written to yet.
UninitLse == [syms |-> <<>>, garbage |-> TRUE, pilot |-> -1, scaled |-> FALSE,
              comp |-> 0, comp_ta |-> 0]

\* A noise-helper buffer after srsvec::zero.
ZeroNoise == [syms |-> <<>>, comp |-> 0, removed |-> <<>>, early |-> FALSE]

NoResult == [ready |-> FALSE]

\* What deps.ta_estimator->estimate() may return for a given max_ta.
TaMeasurements ==
  [time_alignment : TaEstimates, resolution : TaResolutions,
   min : {-MaxTa}, max : {MaxTa}]

-----------------------------------------------------------------------------
(* Helpers of estimate() *)

\* The RNTI the sink parses out of the formatted context; 0 stands for every
\* path that ends in `continue` (no context, no "rnti=0x", stoul throwing,
\* and the value 0 itself).
RntiOf(ctx) ==
  IF ctx = NoContext \/ ~ctx.marker \/ ctx.digits = NotHex
  THEN 0
  ELSE ctx.digits % 65536

\* The sink leaves the iteration with `continue`.
SinkSkips == RntiOf(config.context) = 0

\* The sink has an RNTI to file the record under.
HasRnti == RntiOf(config.context) # 0

\* Whether the validator's verdict on the request is a success.
handle_validation(c) == c.pdu_valid

IsValid_PduOnly(c) == handle_validation(c)

\* Both assertions at the head of estimate().
IsValid(c) ==
  /\ handle_validation(c)
  /\ c.start_symbol + c.nof_symbols <= NofSymbolsPerSlot

interleaved_pilots ==
  config.nof_tx = 4 /\ config.n_cs >= NCsMax \div 2

Parity_OneBuffer(p) == 0

\* The noise buffer of transmit port p: one per parity when interleaved.
Parity(p) == IF interleaved_pilots THEN p % 2 ELSE 0

\* The transmit ports whose iteration feeds and compensates a noise buffer.
FeedsNoise(p) == p = 0 \/ (interleaved_pilots /\ p = 1)

IsFirstSymbol_Zero(s) == s = 0

\* The symbol whose samples are copied, not added, into the LSE buffer.
IsFirstSymbol(s) == s = config.start_symbol

i_symbol_end == config.start_symbol + config.nof_symbols

nof_estimates_AllPorts == config.nof_tx

\* Degrees of freedom used per receive port.
nof_estimates == IF interleaved_pilots THEN 2 ELSE config.nof_tx

correction_factor == IF interleaved_pilots THEN 2 ELSE 1

MeanTa_NoDivision(sum) == sum

\* The mean over the transmit ports.
MeanTa(sum) == sum \div config.nof_tx

-----------------------------------------------------------------------------
(* Actions *)

Init ==
  /\ phase = "idle"
  /\ config = NoConfig
  /\ i_tx = 0 /\ i_rx = 0 /\ i_sym = 0
  /\ temp_lse = [pr \in RxIdx \X TxIdx |-> UninitLse]
  /\ temp_noise = [qr \in (0 .. 1) \X RxIdx |-> ZeroNoise]
  /\ ta = [time_alignment |-> 0, resolution |-> 0, min |-> DoubleMin, max |-> DoubleMax]
  /\ ta_sum = 0
  /\ matrix = {}
  /\ epre_terms = 0 /\ rsrp_terms = 0 /\ noise_terms = 0
  /\ rsrp = "zero" /\ noise_var = "zero"
  /\ csi_out = <<>>
  /\ result = NoResult

\* The locals of a call as estimate() creates them before the first loop:
\* the fresh result, the scratch tensors, the zeroed noise buffers.
FreshLocals(start_symbol) ==
  /\ i_tx' = 0 /\ i_rx' = 0 /\ i_sym' = start_symbol
  /\ temp_lse' = [pr \in RxIdx \X TxIdx |-> UninitLse]
  /\ temp_noise' = [qr \in (0 .. 1) \X RxIdx |-> ZeroNoise]
  /\ ta' = [time_alignment |-> 0, resolution |-> 0,
            min |-> DoubleMin, max |-> DoubleMax]
  /\ ta_sum' = 0
  /\ matrix' = {}
  /\ epre_terms' = 0 /\ rsrp_terms' = 0 /\ noise_terms' = 0
  /\ rsrp' = "zero" /\ noise_var' = "zero"
  /\ csi_out' = <<>>
  /\ result' = NoResult

\* The call up to the first loop: the two assertions, then the locals.
Estimate(c) ==
  /\ phase = "idle"
  /\ config' = c
  /\ phase' = IF AssertsActive /\ ~IsValid(c) THEN "aborted" ELSE "accumulate"
  /\ FreshLocals(c.start_symbol)

\* One iteration of the symbol loop for (i_rx, i_tx).
AccumulateSymbol ==
  /\ phase = "accumulate"
  /\ i_tx # config.nof_tx /\ i_rx # config.nof_rx /\ i_sym # i_symbol_end
  /\ IF FeedsNoise(i_tx)
     THEN /\ temp_noise' = [temp_noise EXCEPT ![<<Parity(i_tx), i_rx>>].syms =
                              Append(@, <<i_tx, i_sym>>)]
          /\ epre_terms' = epre_terms + 1
     ELSE UNCHANGED <<temp_noise, epre_terms>>
  /\ temp_lse' = [temp_lse EXCEPT ![<<i_rx, i_tx>>] =
                    IF IsFirstSymbol(i_sym)
                    THEN [@ EXCEPT !.syms = <<i_sym>>, !.garbage = FALSE]
                    ELSE [@ EXCEPT !.syms = Append(@, i_sym)]]
  /\ i_sym' = i_sym + 1
  /\ UNCHANGED <<phase, config, i_tx, i_rx, ta, ta_sum, matrix, rsrp_terms,
                 noise_terms, rsrp, noise_var, csi_out, result>>

\* After the symbol loop: the least-squares estimate of (i_rx, i_tx).
ComputeLse ==
  /\ phase = "accumulate"
  /\ i_tx # config.nof_tx /\ i_rx # config.nof_rx /\ i_sym = i_symbol_end
  /\ temp_lse' = [temp_lse EXCEPT ![<<i_rx, i_tx>>] =
                    [@ EXCEPT !.pilot = i_tx, !.scaled = config.nof_symbols > 1]]
  /\ i_rx' = i_rx + 1
  /\ i_sym' = config.start_symbol
  /\ UNCHANGED <<phase, config, i_tx, temp_noise, ta, ta_sum, sums, outputs>>

\* After the receive-port loop: the TA measurement of i_tx, combined.
EstimateTa ==
  /\ phase = "accumulate"
  /\ i_tx # config.nof_tx /\ i_rx = config.nof_rx
  /\ \E ta_meas \in TaMeasurements :
       /\ ta' = [time_alignment |-> ta.time_alignment + ta_meas.time_alignment,
                 min            |-> Max({ta.min, ta_meas.min}),
                 max            |-> Min({ta.max, ta_meas.max}),
                 resolution     |-> Max({ta.resolution, ta_meas.resolution})]
       /\ ta_sum' = ta_sum + ta_meas.time_alignment
  /\ i_tx' = i_tx + 1
  /\ i_rx' = 0
  /\ UNCHANGED <<phase, config, i_sym, buffers, sums, outputs>>

\* Between the loops: the mean time alignment.
AverageTa ==
  /\ phase = "accumulate"
  /\ i_tx = config.nof_tx
  /\ ta' = [ta EXCEPT !.time_alignment = MeanTa(@)]
  /\ phase' = "compensate"
  /\ i_rx' = 0 /\ i_tx' = 0
  /\ UNCHANGED <<config, i_sym, buffers, ta_sum, sums, outputs>>

\* Second loop, up to the sink: phase compensation of the LSE of (i_rx, i_tx).
CompensateLse ==
  /\ phase = "compensate"
  /\ i_rx # config.nof_rx /\ i_tx # config.nof_tx
  /\ temp_lse' = [temp_lse EXCEPT ![<<i_rx, i_tx>>] =
                    [@ EXCEPT !.comp = @ + 1, !.comp_ta = ta.time_alignment]]
  /\ phase' = "sink"
  /\ UNCHANGED <<config, indices, temp_noise, ta, ta_sum, sums, outputs>>

\* The sink finds no RNTI: `continue` ends the iteration here.
SkipCsi ==
  /\ phase = "sink"
  /\ SinkSkips
  /\ i_tx' = i_tx + 1
  /\ phase' = "compensate"
  /\ UNCHANGED <<config, i_rx, i_sym, buffers, ta, ta_sum, sums, outputs>>

\* The sink hands the per-tone estimate of (i_rx, i_tx) to the collector.
EmitCsi ==
  /\ phase = "sink"
  /\ HasRnti
  /\ csi_out' = Append(csi_out, [rnti |-> RntiOf(config.context),
                                 rx_port |-> i_rx, tx_port |-> i_tx,
                                 num_tones |-> config.seq_len])
  /\ phase' = "coefficient"
  /\ UNCHANGED <<config, indices, buffers, ta, ta_sum, sums, matrix, result>>

\* The first record of the call finds no initialised collector (it may, for
\* all the estimator knows of the map) and initialize() cannot create the
\* output directory: create_directories throws, nothing in estimate()
\* catches, and the call is left without a result.
SinkThrows ==
  /\ phase = "sink"
  /\ HasRnti
  /\ csi_out = <<>>
  /\ phase' = "thrown"
  /\ UNCHANGED <<config, indices, buffers, ta, ta_sum, sums, outputs>>

\* The rest of the iteration: wideband coefficient, RSRP, and the recovered
\* signal removed from the noise buffer.
Coefficient ==
  /\ phase = "coefficient"
  /\ matrix' = matrix \cup {<<i_rx, i_tx>>}
  /\ rsrp_terms' = rsrp_terms + 1
  /\ \E c \in (IF config.grid = "silent" THEN {"zero"} ELSE Power) :
       rsrp' = IF c = "pos" THEN "pos" ELSE rsrp
  /\ temp_noise' = [temp_noise EXCEPT ![<<Parity(i_tx), i_rx>>] =
                      [@ EXCEPT !.comp    = IF FeedsNoise(i_tx) THEN @ + 1 ELSE @,
                                !.early   = @ \/ (temp_noise[<<Parity(i_tx), i_rx>>].comp = 0
                                                  /\ ~FeedsNoise(i_tx)),
                                !.removed = Append(@, i_tx)]]
  /\ i_tx' = i_tx + 1
  /\ phase' = "compensate"
  /\ UNCHANGED <<config, i_rx, i_sym, temp_lse, ta, ta_sum, epre_terms,
                 noise_terms, noise_var, csi_out, result>>

\* After the transmit-port loop: the residual power of receive port i_rx.
AccumulateNoise ==
  /\ phase = "compensate"
  /\ i_rx # config.nof_rx /\ i_tx = config.nof_tx
  /\ noise_terms' = noise_terms + correction_factor
  \* A residual can only vanish if the grid is silent or a signal was removed.
  /\ \E n \in (IF config.grid = "silent" THEN {"zero"}
               ELSE IF rsrp = "zero" THEN {"pos"} ELSE Power) :
       noise_var' = IF n = "pos" THEN "pos" ELSE noise_var
  /\ i_rx' = i_rx + 1
  /\ i_tx' = 0
  /\ UNCHANGED <<phase, config, i_sym, buffers, ta, ta_sum, epre_terms,
                 rsrp_terms, rsrp, outputs>>

\* After the second loop: normalisation, flooring and the result.
Normalise ==
  /\ phase = "compensate"
  /\ i_rx = config.nof_rx
  /\ result' =
       [ready          |-> TRUE,
        time_alignment |-> ta,
        channel_matrix |-> matrix,
        noise_div      |-> (((config.nof_symbols * config.seq_len - nof_estimates)
                              % UnsignedModulus) * correction_factor * config.nof_rx)
                           % UnsignedModulus,
        nof_estimates  |-> nof_estimates,
        epre_div       |-> config.nof_symbols * correction_factor * config.nof_rx,
        rsrp_div       |-> config.nof_tx * config.nof_rx,
        noise_std      |-> IF noise_var = "zero" /\ rsrp = "zero"
                           THEN "zero" ELSE "pos"]
  /\ phase' = "done"
  /\ UNCHANGED <<config, indices, buffers, ta, ta_sum, sums, matrix, csi_out>>

\* The result is returned by value and the locals of the call go out of
\* scope: the instance keeps nothing from one call to the next.
Return ==
  /\ phase = "done"
  /\ phase' = "idle"
  /\ config' = NoConfig
  /\ FreshLocals(0)

\* The steps of a call in flight.
Run ==
  \/ AccumulateSymbol
  \/ ComputeLse
  \/ EstimateTa
  \/ AverageTa
  \/ CompensateLse
  \/ SkipCsi
  \/ EmitCsi
  \/ SinkThrows
  \/ Coefficient
  \/ AccumulateNoise
  \/ Normalise
  \/ Return

Next ==
  \/ \E c \in Configs : Estimate(c)
  \/ Run

Spec == Init /\ [][Next]_vars

-----------------------------------------------------------------------------
(* Properties *)

\* Every variable has its type; the symbol index handed to grid.get() in
\* estimate() is a symbol of the slot.
TypeOK ==
  /\ phase \in Phases
  /\ config \in Configs \cup {NoConfig}
  /\ i_tx \in 0 .. MaxTx /\ i_rx \in 0 .. MaxRx
  /\ i_sym \in 0 .. NofSymbolsPerSlot
  /\ \A pr \in RxIdx \X TxIdx :
       /\ temp_lse[pr].syms \in Seq(Nat)
       /\ temp_lse[pr].garbage \in BOOLEAN
       /\ temp_lse[pr].pilot \in TxIdx \cup {-1}
       /\ temp_lse[pr].comp \in Nat
  /\ \A qr \in (0 .. 1) \X RxIdx :
       /\ temp_noise[qr].comp \in Nat
       /\ temp_noise[qr].removed \in Seq(TxIdx)
  /\ ta.time_alignment \in Int /\ ta.resolution \in Nat
  /\ matrix \subseteq RxIdx \X TxIdx
  /\ epre_terms \in Nat /\ rsrp_terms \in Nat /\ noise_terms \in Nat
  /\ rsrp \in Power /\ noise_var \in Power
  /\ result.ready \in BOOLEAN

\* The symbols of the request, in the order the loop visits them.
RequestSymbols ==
  [k \in 1 .. config.nof_symbols |-> config.start_symbol + k - 1]

\* The transmit ports whose recovered signal belongs in noise buffer q.
PortsOfBuffer(q) == {p \in 0 .. config.nof_tx - 1 : Parity(p) = q}

\* The per-tone estimate that reaches the sink and the wideband average is
\* the sum of exactly the request's symbols, each once, never of memory the
\* call did not write (temp_lse is not zeroed: the first symbol must be a
\* copy), multiplied by the conjugate pilot of its own transmit port, scaled
\* iff more than one symbol was summed, and phase compensated exactly once
\* with the mean of all ports' time-alignment measurements.
LseWellFormed ==
  phase \in {"sink", "coefficient"} =>
    LET lse == temp_lse[<<i_rx, i_tx>>] IN
      /\ lse.syms = RequestSymbols
      /\ ~lse.garbage
      /\ lse.pilot = i_tx
      /\ lse.scaled = (config.nof_symbols > 1)
      /\ lse.comp = 1
      /\ lse.comp_ta * config.nof_tx = ta_sum

\* When estimate() returns for a request whose context carries an RNTI, each
\* noise buffer in use holds the received symbols of its feeding port, each
\* once, was phase compensated once, before anything was subtracted, and had
\* the recovered signal of every transmit port of its parity removed once:
\* what is left is noise.  This is the bookkeeping of the interleaved-pilot
\* case in both loops of estimate().
NoiseResidualPure ==
  (phase = "done" /\ HasRnti) =>
    \A r \in 0 .. config.nof_rx - 1, q \in 0 .. correction_factor - 1 :
      LET buf == temp_noise[<<q, r>>] IN
        /\ buf.syms = [k \in 1 .. config.nof_symbols |-> <<q, RequestSymbols[k]>>]
        /\ buf.comp = 1
        /\ ~buf.early
        /\ Len(buf.removed) = Cardinality(PortsOfBuffer(q))
        /\ {buf.removed[k] : k \in 1 .. Len(buf.removed)} = PortsOfBuffer(q)

\* The divisors of the normalisation in estimate() match what the loops
\* accumulated: epre is divided by the number of average powers summed into
\* it, rsrp by the number of coefficients, and the degrees of freedom taken
\* off the noise samples (nof_estimates) are the number of coefficients whose
\* recovered signal was removed from each residual buffer; the unsigned
\* subtraction does not wrap.
NormalisationMatchesAccumulation ==
  phase = "done" =>
    /\ result.epre_div = epre_terms
    /\ result.noise_div =
         (config.nof_symbols * config.seq_len - result.nof_estimates) * noise_terms
    /\ result.noise_div > 0
    /\ HasRnti =>
         /\ result.rsrp_div = rsrp_terms
         /\ \A r \in 0 .. config.nof_rx - 1, q \in 0 .. correction_factor - 1 :
              Len(temp_noise[<<q, r>>].removed) = result.nof_estimates

\* spec.md 7: a failure of the diagnostic sink is absorbed at the sink and is
\* never observable by the caller of estimate(); spec.md 4.1: a structurally
\* invalid request is the only error path.
SinkFailureAbsorbed == phase # "thrown"

\* spec.md 8: the returned channel matrix has one coefficient for every
\* (receive port, transmit port) pair of the request, and the diagnostic sink
\* does not influence the returned value.
ChannelMatrixComplete ==
  phase = "done" =>
    result.channel_matrix = (0 .. config.nof_rx - 1) \X (0 .. config.nof_tx - 1)

\* spec.md 8: after aggregation, min <= estimate <= max.
TaEstimateWithinBounds ==
  phase = "done" =>
    /\ result.time_alignment.min <= result.time_alignment.time_alignment
    /\ result.time_alignment.time_alignment <= result.time_alignment.max

\* spec.md 7 and 8: the flooring rule of estimate() yields a finite channel
\* matrix for any input: the noise standard deviation it divides by is not 0.
ResultFinite ==
  phase = "done" => result.noise_std # "zero"

=============================================================================

# SRS channel estimator: TLA+ models

Models of `src/lib/phy/upper/signal_processors/srs/srs_estimator_generic_impl.cpp`
(the SRS channel and noise estimator of the upper PHY and the per-RNTI CSI
collection built into it), checked with TLC. `spec.md` is the prose
specification of the estimator; `src/unnamed/part_000` and
`src/SRS_CSI_Log/MULTI_UE_CSI_COLLECTION_GUIDE.md` document the CSI log.

Run a model from this directory with, for example,
`tlc -workers 2 -config SrsEstimator.cfg MCSrsEstimator`.

## 1. Inventory

### 1.1 Estimator: `srs_estimator_generic_impl::estimate` (lines 215-524)

*State.* Everything is local to one call: `result` (time alignment record
and channel matrix), the scratch tensors `temp_lse` (one buffer per receive
and transmit port), `all_sequences`, `temp_noise` (two buffers per receive
port, only one used unless pilots are interleaved), the accumulators `epre`,
`rsrp`, `noise_var`, and the loop indices. The instance owns only the scratch
vectors `temp_phase` / `temp_cexp` and the read-only exponential table.

*Operations, in order.*

| lines | step |
|---|---|
| 218-231 | two assertions: the validator's verdict, `start_symbol + nof_symbols <= 14` |
| 247-271 | fresh result (`min` = `numeric_limits<double>::min()`), tensors, `temp_noise` zeroed, `temp_lse` not, interleaving condition |
| 273-340 | loop 1, per tx port: pilot; per rx port: per symbol read the grid, add to the noise buffer and `epre` if the port feeds one, copy (first symbol) or add into the LSE buffer; multiply by the conjugate pilot; scale if more than one symbol; then one TA measurement per tx port, combined into the result |
| 343 | mean time alignment |
| 348-500 | loop 2, per rx port, per tx port: phase compensation of the LSE; the CSI sink; wideband coefficient into the matrix and `rsrp`; compensation of the noise buffer if the port feeds one; recovered signal subtracted from the noise buffer; after the tx loop the residual power of one or two noise buffers |
| 505-523 | divisors, `noise_std` floor, matrix scaled by `1 / noise_std`, result filled and returned |

*Interactions.* Calls the validator, sequence generator, grid reader and TA
estimator (none under `src/`); hands one record per port pair to the CSI
sink, which shares `rnti_collectors` with every other estimator instance of
the process.

*What is hard.* The interleaved-pilot bookkeeping is spread over both loops
(lines 292, 305, 479, 481, 496, 505-507) and must agree with itself. The LSE
buffer is uninitialised memory until the first symbol is copied. The sink's
`continue` statements are in the body of the estimation loop. Three
floating-point edge cases: the initial lower bound, the unsigned divisor, the
floor of `noise_std`.

*What must hold.* The estimate of every pair is built from exactly the
request's symbols, its own pilot, one compensation with the mean TA; each
residual buffer holds noise only; the divisors equal the number of summed
terms; the matrix is complete and finite; `min <= estimate <= max`; the call
returns.

### 1.2 Phase-shift compensator: `compensate_phase_shift` (lines 192-213)

Stateless apart from the instance scratch `temp_phase` / `temp_cexp`, which
is sized for the longest sequence, never cleared, and used through a view of
the first `sequence_length` elements. Index
`round(table_size * (n * shift + offset) / 2 pi)` is cast to `int`, stored in
an `unsigned`, and looked up in the table. Hard: negative indices wrap modulo
2^32 before the table reduces them; the scratch holds the indices of earlier,
longer calls; and nothing protects it between the generation of the indices
and the lookup, so the contract of one call in flight per instance (spec.md 5)
is all that keeps two execution contexts apart.

### 1.3 CSI collector registry (lines 61-188 and 367-469)

*State.* `static std::map<uint16_t, SRSCSICollector> rnti_collectors`, shared
by all threads, no lock. Per collector: `rnti`, `packet_counter`,
`file_counter`, `current_file_size`, `current_filename`,
`session_start_time`, `initialized`. On disk: one append-only file per
(RNTI, session, counter) and `session_metadata.jsonl`.

*Operations.* `operator[]` (find or insert), `initialize` (session string,
`rotate_file`, metadata `session_start`), `rotate_file` (`file_counter++`,
new name, size 0, metadata `file_rotation` from the second file on),
`should_write` (rotate if the record would exceed 100 MB; always true),
open / write / close, `update_size`.

*What is hard.* Threads of the worker pool run `estimate()` on different
instances at the same time and meet in the map: insertion racing lookup,
check-then-act on `initialized` and on the size, lost updates of `+=` and
`++`, a file name that changes between `should_write` and the open. Files
survive a restart, the map does not.

*What must hold (from the guide).* One file set per RNTI, a file never above
the limit, the tracked size equal to the file's size, one `session_start`
per session, no data race on the map.

### 1.4 Record format

16-byte header (timestamp, RNTI, rx port, tx port, number of tones) and
12 bytes per tone (lines 425-460), written with nine separate `write` calls;
the size handed to `should_write` and `update_size` is a literal computed
before them (lines 410-412). The file has no framing: a reader finds a record
only by the header layout and the tone count of the record before it. The
guide documents the 16-byte header, `part_000` a 14-byte header without the
RNTI.

### 1.5 External collaborators

Validator, sequence generator, grid reader, TA estimator, exponential table,
`srsvec` kernels: not under `src/`, modelled only by what `estimate()`
observes of them.

## 2. Plan

| order | module | content | status |
|---|---|---|---|
| 1 | `SrsEstimator` | the whole control flow of `estimate()` | done |
| 2 | `CsiCollector` | worker threads, shared registry, files, rotation, restart | done |
| 3 | `PhaseIndex` | the index arithmetic of the compensator as operators, against a reference definition, over calls that follow one another on the scratch of one instance | done |
| 4 | `CsiRecordFormat` | the writer of lines 409-465 against the documented layout | done |
| 5 | `CsiLog` | what the sink promises, with `CsiCollector` shown to implement it | done |
| 6 | `CsiCollector!FairSpec` | liveness of the size tracker under fair threads | done |
| 7 | `CsiRecordFormat!Crash` | the process ending inside the writes of a record | done |
| 8 | `SinkThrows`, `InitializeEnter` | the exception of `create_directories` in the estimator and in the collector | done |
| 9 | `SrsPipeline` | several estimator instances composed with `CsiCollector` | dropped, see section 10 |
| 10 | `SrsEstimatorAbstract` | what a call promises (request in, complete result out), with `SrsEstimator` shown to implement it | dropped, see section 10 |

The estimator comes first because it is the functional contract; the
collector second because it holds all the concurrency of the file.

## 3. Module `SrsEstimator`

One call at a time on one instance (the contract of spec.md 5). The variable
`phase` is the program counter; each action is one loop iteration or one
straight-line block of the code:

| action | lines | what it does |
|---|---|---|
| `Estimate(c)` | 215-246 | assertions (abort if active and violated); `handle_validation` (52-59) is the validator's verdict |
| `FreshLocals` | 247-271 | the fresh result, the scratch tensors, the zeroed noise buffers: part of `Estimate` and of `Return` |
| `AccumulateSymbol` | 295-316 | one symbol of (rx, tx): noise buffer and `epre` if the port feeds one, copy or add into the LSE |
| `ComputeLse` | 318-327 | conjugate pilot, scaling |
| `EstimateTa` | 329-340 | one measurement (any the estimator may return), combined |
| `AverageTa` | 342-349 | mean |
| `CompensateLse` | 350-365 | phase compensation of the LSE with the mean TA |
| `SkipCsi` | 371-397 | the four `continue` paths: next tx port |
| `EmitCsi` | 399-468 | the record handed to the collector |
| `SinkThrows` | 402-405 | the first record of the call: `initialize()` cannot create the output directory, the exception leaves `estimate()` (phase `"thrown"`) |
| `Coefficient` | 472-492 | matrix entry, `rsrp`, noise buffer compensated and reduced |
| `AccumulateNoise` | 493-500 | residual power of the receive port |
| `Normalise` | 501-521 | divisors, floor, result |
| `Return` | 523 | locals go out of scope |

*Data abstraction.* A buffer is the record of what was done to it: the
symbols summed (`syms`), whether it still holds uninitialised memory
(`garbage`), the pilot it was multiplied by, whether it was scaled, how often
and with which TA it was compensated, which ports' recovered signals were
subtracted and whether one was subtracted before the compensation (`early`).
Powers are `"zero"` or `"pos"`. Accumulators are counted (`epre_terms`,
`rsrp_terms`, `noise_terms`) so that the divisors can be compared with them.
Time is an integer in units in which a mean over 1, 2 or 4 ports is exact.
The formatted context is a record: whether `"rnti=0x"` occurs and what
follows it; `RntiOf` does what `stoul` and the cast to `uint16_t` do.

## 4. Module `CsiCollector`

`Workers` are the threads of the pool; each is either outside the sink
(`"idle"`) or at one statement of lines 399-466 for the record in `rec[w]`.
`rnti_collectors` is a function whose domain grows by insertion; `files` maps
a file name (RNTI, session, counter) to the bytes appended; `metadata` is the
sequence of log lines. `loaded`, `ret` and `fname` are thread-local.

| action | lines | what it does |
|---|---|---|
| `Begin(w, r, bytes)` | 409-412 | the sink has an RNTI and a record size |
| `MapEnter`, `MapExit` | 400 | `operator[]`: insertion of a new collector for an absent key |
| `CheckInitialized` | 402-407 | first test of `initialized` (`packet_counter++` of line 407 is left out) |
| `InitializeEnter` | 96-111 | second test, `rnti`, session string; or `create_directories` throws after `rnti` was set and the thread leaves the sink |
| `RotateLoad`, `RotateStore` | 120-137 | `file_counter++` (read, then write), name, size 0, log line from the second file on |
| `InitializeDone` | 113-117 | `session_start` line, `initialized = true` |
| `ShouldWrite` | 167-174 | rotate if the record does not fit |
| `Open` | 416-419 | name read, file created; or the open fails and the record is dropped |
| `Write` | 420-462 | header and samples appended |
| `UpdateLoad`, `UpdateStore` | 176-178, 465 | `current_file_size += n` (read, then write) |
| `Restart` | guide, line 91 | map and threads gone, directory kept, clock advanced |

A statement that reads a shared field and writes it back is two steps, so
that another thread can come between. The log line of `write_metadata_entry`
is appended or, if the log cannot be opened, silently dropped (line 144).
`packet_counter` is incremented (line 407) and never read: the model has no
field and no step for it.

`std::filesystem::create_directories` (line 101) is called in the overload
that throws. Nothing in the file catches the exception; a thread it unwinds
is outside the sink again (`"idle"`), and the collector it leaves in the map
has its `rnti` and is not initialised. If the process ends with the
exception, that is `Restart`; if a caller catches it, the next record of the
RNTI runs `initialize()` again.

`SameRntiConcurrent` says whether the host may run two `estimate()` calls for
one UE at the same time. The guide calls that unlikely (the SRS period is far
longer than the processing time); the passing run excludes it, a violation
run allows it.

`FairSpec` is `Spec` with weak fairness of `Step(w)` for every thread
(section 9); `TrackerCatchesUp` is checked of it.

Threads that run into a C++ data race have undefined behaviour. The model
continues with the outcome in which the racing operations take effect one
after the other, and states the race itself as `NoMapDataRace`.

### 4.1 `CsiLog` and the refinement

`CsiLog` is the sink without its mechanism: for each RNTI a log that is
appended to in one step, kept in files of at most `MaxFileSize` bytes.

| action of `CsiLog` | what it allows |
|---|---|
| `NewFile(r, n)` | the log of `r` moves to `n`, a name that no file, no log and no closed file has, when it has no file yet or some record would not fit the current one |
| `Create(r)` | the current file of `r` comes into being, empty |
| `Append(r, b)` | `b` bytes are appended to the current file of `r`, which does not grow past the limit |
| `Restart` | every log ends, every file stays |

`CsiCollector` instantiates it with

    Log == INSTANCE CsiLog WITH current <- CurrentFile, closed <- retired

where `CurrentFile[r]` is `current_filename` of the collector of `r` (no name
if there is none), `files` is the directory itself and the constants are
those of `CsiCollector`. The property `ImplementsCsiLog == Log!Spec` says that
every step of every thread is a step of `CsiLog` or changes nothing of the
log: `RotateStore` is `NewFile`, the first `Open` of a name is `Create`,
`Write` is `Append`, `Restart` is `Restart`, and the lookup, the tests, the
counters, the log lines and `update_size` stutter. The abstract specification
has no fairness: the refinement is of safety.

## 5. Module `PhaseIndex`

`compensate_phase_shift()` on one estimator instance, call after call. A
phase is an integer number of `PhaseUnits`-th parts of a turn, so
`phase / TWOPI` is exact. `Round` is `std::round` (halves away from zero),
`ToUnsigned` the conversion of the generator's `int` to the `unsigned`
element it is stored in, `TableEntry` the lookup of the table (not under
`src/`; spec.md 4.2: modulo the table size). `Compensate` starts a call,
`GenerateIndex` is one step of `std::generate` with the captured counter `n`,
`Multiply` the lookup and the product over the first `sequence_length`
elements, `Return` the end of the call.

`temp_phase` is the scratch of the instance: an array of `max_seq_length`
elements that `Return` leaves as it is, so that a call finds what earlier
calls wrote. The module has one call in flight at a time: spec.md 5 gives
every concurrent execution context an instance of its own, the pool that
does so is not under `src/`, and nothing in `src/` runs two calls on one
instance.

`NearestTableEntry` compares the entry used for element k with a reference
that does not round: the distance on the circle between the entry's phase and
`k * shift + offset` of the call is at most half a table step. It holds
because the table size divides 2^w; with a table size that does not, a
negative index would select a wrong entry.

## 6. Module `CsiRecordFormat`

The bytes of a record and what a reader makes of them. A file is a sequence
of 16-bit words (every field is a whole number of them); the timestamp and
the two floats are one small value in the low word of their field.

| definition | lines | what it does |
|---|---|---|
| `header_size`, `sample_size`, `total_size` | 410-412 | the size computed before the writes |
| `Header(r)` | 425-437 | timestamp, RNTI, rx port, tx port, tone count, each cast to its width |
| `Sample(r, tone_idx)` | 443-460 | subcarrier `k0 + tone_idx * comb_size`, first symbol, real, imaginary |
| `WriteRecord(r)` | 409-465 | the record appended, its size added to the tracker |
| `Crash(r)` | 425-462 | the process ends between the first write and the close: a proper, non-empty prefix of the record stays in the file |
| `GuideLayout` | guide 177-185 | where the guide puts each header field; the guide calls words 6 and 7 `n_rx_ports` and `n_tx_ports`, the model names them `rx_port` and `tx_port` for what line 430-431 write there |
| `ReadmeLayout` | `part_000` 9-14 | where the README kept with the files puts them: a 14-byte header without the RNTI |
| `Parse(words, layout)` | `part_000` 7-20 | "sequential entries", each a header and `num_tones` samples: the entries a reader finds, going from each to the next by its tone count, under either layout |
| `Init` | 127-131 | a file that rotate_file() has just named: nothing in it, the size tracker at 0 |

`TypeOK` includes `tracked = 2 * Len(file)` while the process lives: the
literal size is the number of bytes the writes produce. `ReadsBackPerGuide`
says that the reader of the guide's layout finds the records
that were written, in order, and after them, if the process ended inside a
record, one entry that is cut short. A record has no length prefix and no
checksum; what tells the reader that the tail is a fragment is the tone count
of the header, or a header that is itself incomplete. Nothing is appended
after a torn record: the next session has another session string and so
another file (`ImplementsCsiLog`, under the bound on restarts of section 8).

## 7. Runs

| run | cfg | result | shows |
|---|---|---|---|
| `estimator` | `SrsEstimator.cfg` | pass, 87 925 states | `TypeOK`, `LseWellFormed`, `NoiseResidualPure`, `NormalisationMatchesAccumulation` |
| `sink_skips_coefficient` | `SrsEstimator_ChannelMatrixComplete.cfg` | violation | a request without a parseable RNTI returns an empty matrix |
| `ta_lower_bound` | `SrsEstimator_TaEstimateWithinBounds.cfg` | violation | a mean TA of 0 or less is below the returned `min` |
| `silent_grid` | `SrsEstimator_ResultFinite.cfg` | violation | an all-zero grid gives `noise_std = 0` |
| `sink_throws` | `SrsEstimator_SinkFailureAbsorbed.cfg` | violation | a directory that cannot be created ends the call with an exception |
| `collector` | `CsiCollector.cfg` | pass, 658 494 states | `TypeOK`, `FileSizeBounded`, `TrackedSizeMatchesFile`, `MetadataConsistent`, `ClosedFilesImmutable`, `ImplementsCsiLog` |
| `collector_map_race` | `CsiCollector_NoMapDataRace.cfg` | violation | two first records of two UEs race in `operator[]` |
| `collector_same_rnti` | `CsiCollector_SameRnti.cfg` | violation | two threads on one RNTI overfill a file |
| `collector_fair` | `CsiCollector_Fair.cfg` | pass, 145 725 states | `TrackerCatchesUp` under `FairSpec` |
| `phase_index` | `PhaseIndex.cfg` | pass, 2 230 746 states | `TypeOK`, `NearestTableEntry`: calls of 1, 4 and 6 elements one after the other on the same scratch |
| `record_format` | `CsiRecordFormat.cfg` | pass, 28 211 states | `TypeOK`, `ReadsBackPerGuide`, with the process ending inside any write of a record |
| `record_format_readme` | `CsiRecordFormat_ReadsBackPerReadme.cfg` | violation | a reader going by the 14-byte header of `part_000` misreads the first record |

*Properties of `estimator`.*

- `LseWellFormed`: what reaches the sink and the coefficient is the sum of the
  request's symbols, each once, no uninitialised memory, the port's own
  pilot, scaled iff needed, compensated once with the mean of all ports' TA.
- `NoiseResidualPure`: at return (with an RNTI) every noise buffer in use
  holds its feeding port's symbols, was compensated once before any
  subtraction, and had each port of its parity removed once.
- `NormalisationMatchesAccumulation`: the divisors of `epre`, `rsrp` and
  `noise_var` equal what the loops accumulated, and the unsigned difference
  is positive and did not wrap.

*Properties of `collector`.*

- `FileSizeBounded`: no file is larger than the limit.
- `TrackedSizeMatchesFile`: outside the window between a write and its
  `update_size`, `current_file_size` is the size of the current file,
  through rotations, dropped records and a restart.
- `MetadataConsistent`: the log names no file twice; first files are
  `session_start`, later ones `file_rotation`.
- `ClosedFilesImmutable` (action property): a file that a collector rotated
  away from, or whose collector a restart dropped, never changes again.
- `ImplementsCsiLog` (refinement, section 4.1): the threads implement the
  atomic per-RNTI log. It fails if `rotate_file` keeps the size tracker, if
  the name does not change with the counter, or if `should_write` compares
  without the record's size.

*Property of `collector_fair`.*

- `TrackerCatchesUp`: for every RNTI, again and again no thread is filing a
  record of it and `current_file_size` is the size of the current file. The
  invariant `TrackedSizeMatchesFile` allows a difference while a thread is
  between its write and `update_size`; this says the window closes, and that
  no rotation, dropped record or restart leaves a difference behind that the
  following records carry along. It fails if `rotate_file` keeps the size of
  the file it left.

*The violations.* Each is a statement of `spec.md`, of a comment or of the
guide that the code does not meet; `PROJECT.json` lists them under
`findings`. `collector_map_race` needs five steps: two threads, two
different RNTIs, both inside `operator[]`. `collector_same_rnti` needs two
threads to pass `should_write` against the same tracked size.

`sink_throws` needs a request with an RNTI and the first pass through the
sink: `SinkFailureAbsorbed` is what spec.md 7 says of sink failures, and the
code meets it for a file that cannot be opened but not for the directory.

`record_format_readme` needs one record: `part_000` documents a 14-byte
header without the RNTI, where the code writes 16 bytes with the RNTI after
the timestamp (lines 425-437), so that a reader going by `part_000` takes
the RNTI for the rx port, the rx port for the tx port and the tx port for
the tone count.

Disagreements between the documents and the code that are noted here and are
not a run: `part_000` names the files without the RNTI; the rotation limit
is 100 MB in the code (line 76) and in `part_000`, 50 MB in the guide; the guide names the header fields
`n_rx_ports` and `n_tx_ports` where the code writes the indices of the ports;
`part_000` calls an entry an SRS occasion where the code writes one entry
for every (rx, tx) pair of an occasion, each with a timestamp of its own.

## 8. Bounds

| constant | value | why it is enough |
|---|---|---|
| tx ports | 1, 2, 4 | every value of the standard; 4 is needed for interleaving |
| rx ports | 1, 2 | the second port shows that per-port state is reset |
| symbols | 1, 2 | the copy and the add branch, scaling on and off |
| start symbol | 12, 13 | 13 + 2 exceeds the slot: the second assertion fires |
| `n_cs` | 5, 6 with `n_cs_max` 12 | both sides of `n_cs_max / 2` |
| sequence length | 6 | the shortest; more than the 4 degrees of freedom |
| contexts | 5 | one per path through the sink's parsing |
| TA values | -4, 0, 4 | negative, zero, positive; sums of 4 divide by 1, 2, 4 |
| `UnsignedModulus` | 2^16 | TLC's integers are 32 bits; the model's products are far below 2^16 |
| `Workers` | 2 (symmetric) | every race of the collector is between two threads |
| `Rntis` | 2 | an insertion next to an existing key |
| `RecordSizes`, `MaxFileSize` | {1, 2}, 3 | a file fills exactly (1+1+1, 1+2), a record does not fit (2+2) |
| `MaxRecords` | 4 | three records fill a file, the fourth rotates; 2, 2, 2 rotates twice |
| `MaxRestarts`, `RestartSeconds` | 1, {1} | one restart, which takes at least a second |
| `MaxRecords` (`collector_fair`) | 3, `Workers` not symmetric | two records of two units rotate and a third follows the rotation; symmetry reduction is not sound for liveness |
| `Names` | sessions 0 .. 1, counters 1 .. 5 | every name a collector can format within `MaxRestarts` and `MaxRecords`; `TypeOK` checks that no other occurs |
| `TableSize`, `PhaseUnits` | 8, 32 | phases on, between and half way between two entries |
| `PhaseShifts`, `PhaseOffsets` | -5 .. 5 | both signs; with 6 elements a ramp passes the end of the table |
| `UnsignedModulus` (`PhaseIndex`) | 2^8 | a multiple of the table size, as 2^32 is of a table of a power of two |
| `SeqLengths` (`PhaseIndex`) | 1, 4, 6 | a short call after a long one finds the long one's indices in the scratch |
| `Records` | 2 RNTIs (one 65535), ports 0/1 and 0/3, 1 or 2 tones, `k0` 0/3, comb 2/4 | every header field takes two values, so a field read from the wrong offset is seen; two tone counts, so a wrong count loses the next record |
| `MaxRecords` (`CsiRecordFormat`) | 2 | the second record is found only through the first |

## 9. Fairness

`CsiCollector!FairSpec` has `WF_vars(Step(w))` for every thread `w`: between
lines 399 and 466 there is no lock, no condition variable and no loop on
shared state, and the file operations return (an open that fails is a
branch, not a wait), so a thread of the pool that is inside the sink block
takes its next statement. Weak fairness is enough because a step of a thread
inside the block is enabled until the thread takes it; no other thread can
disable it. `Begin` is not fair (a UE may stop sending SRS) and `Restart` is
not fair (nothing restarts the process); as a restart ends every thread, the
property holds of behaviours with and without one.

`SrsEstimator!Spec`, `CsiCollector!Spec`, `CsiLog!Spec`, `PhaseIndex!Spec`
and `CsiRecordFormat!Spec` have no fairness: only safety is checked of them,
and the refinement of `CsiLog` is a refinement of safety. That a call of
`estimate()` ends is not stated as a property: its loops are bounded `for`
loops without a wait, so the statement would hold of any body of the loops
and say nothing of this one.

The runs of the estimator, the collector and the record format have
`CHECK_DEADLOCK FALSE`. The estimator stops when an assertion fails (phase
`"aborted"`, the process ends) or the sink throws (phase `"thrown"`). The collector and the record writer stop when
the host hands over no more records (`MaxRecords`). The run of `PhaseIndex`
checks deadlock: a call can always go on, and the next call can always start.

## 10. Not modelled

- Floating-point values: sample values, the coefficient, dB conversion.
- The external collaborators (section 1.5) beyond what `estimate()` sees.
- Release builds without assertions (`AssertsActive = FALSE` is a constant of
  the module; no run uses it, as the request is then outside the contract).
- Two concurrent calls on one instance, and several instances side by side:
  the contract (spec.md 5) forbids the first, and instances share nothing of
  `compensate_phase_shift()`, so a second instance adds no behaviour. The
  pool that hands out the instances is not under `src/`.
- Two threads that both initialise the collector of one RNTI (the test of
  line 403 is check-then-act): the passing runs have one thread per RNTI at
  a time, and the guide accepts the outcome ("worst case: metadata race").
  `collector_same_rnti` shows what two threads on one RNTI do to the file
  size.
- `packet_counter` (line 407): incremented, never read.
- A restart within the second in which the previous session started, and
  local time set back (`std::localtime`, the end of daylight saving): the
  session string of an earlier session returns, `file_counter` starts at 1
  again, and the collector appends to a file of that session with a size
  tracker of 0. `RestartSeconds` excludes it.
- The race of two threads on the static buffer of `std::localtime` (lines
  104 and 149): the session string and the timestamp of a log line come from
  the one `clock` of the process run.
- What becomes of a call of `estimate()` after the exception of the sink:
  `"thrown"` is the end of the call, as `"aborted"` is.
- The outcomes of a data race other than the benign one (a corrupted tree, a
  torn string).
- A write that fails after the file was opened while the process goes on
  (a full disk): the code does not test the stream after the open, adds the
  whole `total_size` to the tracker and appends the next record behind the
  fragment. The model's `Write` appends the whole record; only the end of
  the process cuts one short (`Crash`).
- That every file has a line in `session_metadata.jsonl`: a line is dropped
  when the log cannot be opened (line 144), and the code promises no more.
- The values of the timestamp and of the floats in a record (one small value
  each), and byte order.
- The converter `srs_bin2csv.py` and its CSV output: the script is not in the
  repository; `Parse` is the reader the two documents describe.
- `SrsPipeline`, the composition of estimator instances with the collector.
  The two share no variable: the estimator hands a record over (`EmitCsi`)
  and reads nothing back, and the sink block has no wait, so the collector
  can neither change a result nor hold a call up. In the composition each
  thread files the records of its call one after the other, which
  `CsiCollector` has as `Begin` for any record at any time; every property
  of either module would hold of the composition for that reason alone.
- `SrsEstimatorAbstract`, a specification of what a call returns. The result
  is a function of the request, and a definition of that function would be
  `Normalise` written a second time; what the loops must get right on the
  way is stated as `LseWellFormed`, `NoiseResidualPure` and
  `NormalisationMatchesAccumulation`.

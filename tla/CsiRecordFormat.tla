-------------------------- MODULE CsiRecordFormat ---------------------------
(***************************************************************************)
(* The binary record the CSI sink of estimate() appends to a file, and the *)
(* layouts a reader of the file is told to go by: the one of               *)
(* MULTI_UE_CSI_COLLECTION_GUIDE.md and the one of the README that lies    *)
(* beside the files.                                                       *)
(*                                                                         *)
(* A file is a sequence of 16-bit words, as every field the code writes is *)
(* a whole number of them.  The timestamp and the two floats of a sample   *)
(* are one small value each, in the low word of the field.                 *)
(***************************************************************************)
EXTENDS Integers, Sequences, SequencesExt

CONSTANTS
  Records,     \* what the sink may be handed for one (rx, tx) pair
  MaxRecords   \* bound: records appended to the file

VARIABLES
  file,     \* the words of the file
  written,  \* history: the records appended, in order
  tracked,  \* current_file_size, in bytes
  torn      \* history: the process ended inside the writes of a record

vars == <<file, written, tracked, torn>>

-----------------------------------------------------------------------------
(* The writer *)

\* static_cast<uint16_t>.
U16(x) == x % 65536

\* A field of `words` 16-bit words holding the small value v.
Field(v, words) == <<v>> \o [k \in 1 .. words - 1 |-> 0]

header_size_WithoutRnti == 14

header_size == 16

sample_size(r) == r.seq_len * 12

total_size(r) == header_size + sample_size(r)

\* The five writes of the header.
Header(r) ==
  Field(r.ts, 4) \o <<U16(r.rnti), U16(r.rx_port), U16(r.tx_port), U16(r.seq_len)>>

Sample_ToneIndex(r, tone_idx) ==
  <<U16(tone_idx), U16(r.symbol)>> \o Field(r.re, 2) \o Field(r.im, 2)

\* The four writes of tone tone_idx: its subcarrier on the comb, the first
\* symbol of the resource, and the estimate.
Sample(r, tone_idx) ==
  <<U16(r.k0 + tone_idx * r.comb_size), U16(r.symbol)>>
    \o Field(r.re, 2) \o Field(r.im, 2)

Encode(r) == Header(r) \o FlattenSeq([t \in 1 .. r.seq_len |-> Sample(r, t - 1)])

-----------------------------------------------------------------------------
(* The reader *)

\* Where the guide has each field of the header, counted in words.  The
\* guide calls words 6 and 7 n_rx_ports and n_tx_ports; they are named here
\* for what the writer stores in them, as the README of the output
\* directory names them.
GuideLayout ==
  [words |-> 8, num_tones |-> 8,
   fields |-> [rnti |-> 5, rx_port |-> 6, tx_port |-> 7]]

\* Where the README of the output directory has them: a header of 14 bytes.
ReadmeLayout ==
  [words |-> 7, num_tones |-> 7, fields |-> [rx_port |-> 5, tx_port |-> 6]]

SampleWords == 6

Truncated == [truncated |-> TRUE]

\* The entry a reader going by `layout` takes from the head of `words`.
EntryAt(words, layout) ==
  [header  |-> [f \in DOMAIN layout.fields |-> words[layout.fields[f]]],
   samples |-> [t \in 1 .. words[layout.num_tones] |->
                  LET at == layout.words + (t - 1) * SampleWords
                  IN [subcarrier |-> words[at + 1], symbol |-> words[at + 2],
                      real |-> words[at + 3], imag |-> words[at + 5]]]]

\* The entries the reader finds in `words`; it gives up at an entry that is
\* cut short.
RECURSIVE Parse(_, _)
Parse(words, layout) ==
  LET fits(n) == n <= Len(words)
      size    == layout.words + words[layout.num_tones] * SampleWords
  IN IF words = <<>> THEN <<>>
     ELSE IF ~fits(layout.words) \/ ~fits(size) THEN <<Truncated>>
     ELSE <<EntryAt(words, layout)>>
            \o Parse(SubSeq(words, size + 1, Len(words)), layout)

\* What a reader going by `layout` is to find for record r.
Expected(r, layout) ==
  [header  |-> [f \in DOMAIN layout.fields |-> r[f]],
   samples |-> [t \in 1 .. r.seq_len |->
                  [subcarrier |-> r.k0 + (t - 1) * r.comb_size,
                   symbol |-> r.symbol, real |-> r.re, imag |-> r.im]]]

ReadsBack(layout) ==
  Parse(file, layout) =
    [i \in 1 .. Len(written) |-> Expected(written[i], layout)]
      \o (IF torn THEN <<Truncated>> ELSE <<>>)

-----------------------------------------------------------------------------
(* Actions *)

Init ==
  /\ file = <<>>
  /\ written = <<>>
  /\ tracked = 0
  /\ torn = FALSE

\* One pass through the sink block: the record is appended and its size is
\* added to the size tracker.
WriteRecord(r) ==
  /\ ~torn
  /\ Len(written) < MaxRecords
  /\ file' = file \o Encode(r)
  /\ written' = Append(written, r)
  /\ tracked' = tracked + total_size(r)
  /\ UNCHANGED torn

\* The process ends inside the writes of record r: the words written so far
\* stay in the file, the collector and its size tracker are gone, and the
\* next session appends to a file of another name.
Crash(r) ==
  /\ ~torn
  /\ Len(written) < MaxRecords
  /\ \E n \in 1 .. Len(Encode(r)) - 1 : file' = file \o SubSeq(Encode(r), 1, n)
  /\ torn' = TRUE
  /\ UNCHANGED <<written, tracked>>

Next == \E r \in Records : WriteRecord(r) \/ Crash(r)

Spec == Init /\ [][Next]_vars

-----------------------------------------------------------------------------
(* Properties *)

\* Every word of the file is 16 bits wide, and the size update_size() adds
\* for a record, computed before the writes from the header size and the
\* tone count, is the number of bytes the writes of the sink block put into
\* the file: the size should_write() decides on is the size of the file.
TypeOK ==
  /\ file \in Seq(0 .. 65535)
  /\ written \in Seq(Records)
  /\ torn \in BOOLEAN
  /\ ~torn => tracked = 2 * Len(file)

\* MULTI_UE_CSI_COLLECTION_GUIDE.md, Binary Data Format: a reader that goes
\* by the 16-byte header and the tone count of each entry finds every record
\* the sink block wrote, in the order written, each tone on the subcarrier of
\* the comb it was estimated on; of a record the process ended in the writes
\* of it finds that it is cut short, wherever the writes stopped, and takes
\* none of its words for an entry.
ReadsBackPerGuide == ReadsBack(GuideLayout)

\* README.md of the output directory, Binary File Format: each entry has a
\* 14-byte header (timestamp, rx_port, tx_port, num_tones) and num_tones
\* samples; a reader that goes by it finds the records the sink block wrote.
ReadsBackPerReadme == ReadsBack(ReadmeLayout)

=============================================================================

---------------------------- MODULE CsiCollector ----------------------------
(***************************************************************************)
(* The per-RNTI CSI collection of srs_estimator_generic_impl.cpp: the      *)
(* process-global map rnti_collectors, the SRSCSICollector kept for each   *)
(* RNTI, the files it rotates through and the metadata log.                *)
(*                                                                         *)
(* The map is shared, without a lock, by every thread of the pool that     *)
(* runs estimate().  A worker is one such thread inside the sink block of  *)
(* estimate(); pc[w] is the statement it is about to execute.  The steps   *)
(* are cut where a shared field is read and written back later: the        *)
(* lookup in the map, the two tests of `initialized`, `file_counter++`,    *)
(* the size test of should_write, the open, the write, `size += n`.        *)
(*                                                                         *)
(* A file name is the triple the code formats into it; a file is the       *)
(* number of bytes appended to it; a record is its RNTI and its size.      *)
(***************************************************************************)
EXTENDS Integers, Sequences, FiniteSets, FiniteSetsExt, TLC

CONSTANTS
  Workers,             \* the threads that run estimate()
  Rntis,               \* the RNTIs of the connected UEs
  RecordSizes,         \* values of total_size
  MaxFileSize,         \* SRS_CSI_MAX_FILE_SIZE
  SameRntiConcurrent,  \* TRUE iff two threads may file records of one RNTI
  RestartSeconds,      \* seconds the clock may advance over a restart
  MaxRecords,          \* bound: records handed to the sink
  MaxRestarts          \* bound: restarts of the process

ASSUME /\ Rntis \subseteq 1 .. 65535
       /\ RecordSizes \subseteq 1 .. MaxFileSize
       /\ SameRntiConcurrent \in BOOLEAN
       /\ RestartSeconds \subseteq Nat
       /\ MaxRecords \in Nat /\ MaxRestarts \in Nat

VARIABLES
  pc,               \* statement each worker is at
  rec,              \* record each worker is filing: rnti_value, total_size
  loaded,           \* value a worker read and has not yet written back
  ret,              \* where rotate_file() returns to
  fname,            \* name of the file a worker has open
  rnti_collectors,  \* the static map: RNTI -> SRSCSICollector
  files,            \* the output directory: file name -> bytes in the file
  metadata,         \* session_metadata.jsonl
  clock,            \* system time in seconds
  retired,          \* history: names a collector moved on from, or lost
  started,          \* history: records handed to the sink
  restarts          \* history: restarts so far

locals  == <<rec, loaded, ret, fname>>    \* of a thread, besides pc
disk    == <<files, metadata>>
outside == <<clock, started, restarts>>   \* what no statement of the sink changes

vars == <<pc, locals, rnti_collectors, disk, retired, outside>>

-----------------------------------------------------------------------------
(* Data *)

Labels == {"idle", "lookup", "in_map", "check_init", "init", "rotate_load",
           "rotate_store", "init_done", "should_write", "open",
           "write", "update_load", "update_store"}

NoRec == [rnti |-> 0, bytes |-> 0]

\* The empty std::string.
NoName == [rnti |-> 0, session |-> -1, counter |-> 0]

Name_NoCounter(rnti, session, counter) ==
  [rnti |-> rnti, session |-> session, counter |-> 1]

\* srs_csi_rnti_<rnti>_<session>_<counter>.bin
Name(rnti, session, counter) ==
  [rnti |-> rnti, session |-> session, counter |-> counter]

\* A value-initialised SRSCSICollector.
NewCollector ==
  [rnti |-> 0, file_counter |-> 0, current_file_size |-> 0,
   current_filename |-> NoName, session_start_time |-> -1,
   initialized |-> FALSE]

\* What a default-constructed std::map holds.
NoCollectors == [r \in {} |-> NewCollector]

\* The size of a file, 0 for one that does not exist.
FileSize(f) == IF f \in DOMAIN files THEN files[f] ELSE 0

Exceeds_Never(size, bytes) == FALSE

Exceeds_BeforeAdding(size, bytes) == size > MaxFileSize

\* The test of should_write.
Exceeds(size, bytes) == size + bytes > MaxFileSize

SizeAfterRotate_Kept(size) == size

\* rotate_file starts the new file's size tracker.
SizeAfterRotate(size) == 0

RotationLogged_FromFirst(counter) == counter >= 1

\* rotate_file logs every file but the first, which initialize() logs.
RotationLogged(counter) == counter > 1

\* The line write_metadata_entry appends for collector c.
LogEntry(c, event) ==
  [rnti |-> c.rnti, file |-> c.current_filename, event |-> event]

\* write_metadata_entry: the line is appended, or the log cannot be opened.
Logged(c, event) == {metadata, Append(metadata, LogEntry(c, event))}

Busy(r) == {w \in Workers : rec[w].rnti = r}

-----------------------------------------------------------------------------
(* Actions *)

Init ==
  /\ pc = [w \in Workers |-> "idle"]
  /\ rec = [w \in Workers |-> NoRec]
  /\ loaded = [w \in Workers |-> 0]
  /\ ret = [w \in Workers |-> "open"]
  /\ fname = [w \in Workers |-> NoName]
  /\ rnti_collectors = NoCollectors
  /\ files = [f \in {} |-> 0]
  /\ metadata = <<>>
  /\ clock = 0
  /\ retired = {}
  /\ started = 0
  /\ restarts = 0

\* The sink of estimate() has parsed a non-zero RNTI for a port pair.
Begin(w, r, bytes) ==
  /\ pc[w] = "idle"
  /\ started < MaxRecords
  /\ SameRntiConcurrent \/ Busy(r) = {}
  /\ rec' = [rec EXCEPT ![w] = [rnti |-> r, bytes |-> bytes]]
  /\ pc' = [pc EXCEPT ![w] = "lookup"]
  /\ started' = started + 1
  /\ UNCHANGED <<loaded, ret, fname, rnti_collectors, disk, retired, clock, restarts>>

\* rnti_collectors[rnti_value]: the thread enters std::map::operator[].
MapEnter(w) ==
  /\ pc[w] = "lookup"
  /\ pc' = [pc EXCEPT ![w] = "in_map"]
  /\ UNCHANGED <<locals, rnti_collectors, disk, retired, outside>>

\* operator[] returns the collector, inserting a new one for an absent key.
MapExit(w) ==
  /\ pc[w] = "in_map"
  /\ rnti_collectors' =
       IF rec[w].rnti \in DOMAIN rnti_collectors
       THEN rnti_collectors
       ELSE rnti_collectors @@ (rec[w].rnti :> NewCollector)
  /\ pc' = [pc EXCEPT ![w] = "check_init"]
  /\ UNCHANGED <<locals, disk, retired, outside>>

\* if (!collector.initialized) in estimate().
CheckInitialized(w) ==
  /\ pc[w] = "check_init"
  /\ pc' = [pc EXCEPT ![w] =
              IF rnti_collectors[rec[w].rnti].initialized
              THEN "should_write" ELSE "init"]
  /\ UNCHANGED <<locals, rnti_collectors, disk, retired, outside>>

\* initialize() up to its call of rotate_file(); or create_directories
\* throws after `rnti` was set and the thread leaves estimate(): the next
\* record of the RNTI finds the collector uninitialised and tries again.
InitializeEnter(w) ==
  /\ pc[w] = "init"
  /\ LET r == rec[w].rnti IN
       IF rnti_collectors[r].initialized
       THEN /\ pc' = [pc EXCEPT ![w] = "should_write"]
            /\ UNCHANGED <<rnti_collectors, ret, rec>>
       ELSE \E created \in BOOLEAN :
              IF created
              THEN /\ rnti_collectors' =
                        [rnti_collectors EXCEPT ![r] =
                           [@ EXCEPT !.rnti = r, !.session_start_time = clock]]
                   /\ ret' = [ret EXCEPT ![w] = "init_done"]
                   /\ pc' = [pc EXCEPT ![w] = "rotate_load"]
                   /\ UNCHANGED rec
              ELSE /\ rnti_collectors' = [rnti_collectors EXCEPT ![r].rnti = r]
                   /\ pc' = [pc EXCEPT ![w] = "idle"]
                   /\ rec' = [rec EXCEPT ![w] = NoRec]
                   /\ UNCHANGED ret
  /\ UNCHANGED <<loaded, fname, disk, retired, outside>>

\* rotate_file(): the read of file_counter++.
RotateLoad(w) ==
  /\ pc[w] = "rotate_load"
  /\ loaded' = [loaded EXCEPT ![w] = rnti_collectors[rec[w].rnti].file_counter]
  /\ pc' = [pc EXCEPT ![w] = "rotate_store"]
  /\ UNCHANGED <<rec, ret, fname, rnti_collectors, disk, retired, outside>>

\* rotate_file(): the write of file_counter++, the new name, the size
\* tracker, and the log line of every file but the first.
RotateStore(w) ==
  /\ pc[w] = "rotate_store"
  /\ LET old     == rnti_collectors[rec[w].rnti]
         counted == [old EXCEPT !.file_counter = loaded[w] + 1]
         rotated == [counted EXCEPT
                       !.current_filename =
                          Name(counted.rnti, counted.session_start_time,
                               counted.file_counter),
                       !.current_file_size = SizeAfterRotate(@)]
     IN /\ rnti_collectors' = [rnti_collectors EXCEPT ![rec[w].rnti] = rotated]
        /\ retired' = retired \cup ({old.current_filename} \ {NoName})
        /\ metadata' \in IF RotationLogged(rotated.file_counter)
                         THEN Logged(rotated, "file_rotation")
                         ELSE {metadata}
  /\ pc' = [pc EXCEPT ![w] = ret[w]]
  /\ ret' = [ret EXCEPT ![w] = "open"]
  /\ loaded' = [loaded EXCEPT ![w] = 0]
  /\ UNCHANGED <<rec, fname, files, outside>>

\* initialize() after rotate_file(): the session_start line and the flag.
InitializeDone(w) ==
  /\ pc[w] = "init_done"
  /\ metadata' \in Logged(rnti_collectors[rec[w].rnti], "session_start")
  /\ rnti_collectors' = [rnti_collectors EXCEPT ![rec[w].rnti].initialized = TRUE]
  /\ pc' = [pc EXCEPT ![w] = "should_write"]
  /\ UNCHANGED <<locals, files, retired, outside>>

\* should_write(total_size): rotate if the record does not fit.  (The
\* packet_counter++ before it counts for nobody: nothing reads the counter,
\* and the model leaves it out.)
ShouldWrite(w) ==
  /\ pc[w] = "should_write"
  /\ LET c == rnti_collectors[rec[w].rnti] IN
       IF c.initialized /\ Exceeds(c.current_file_size, rec[w].bytes)
       THEN /\ ret' = [ret EXCEPT ![w] = "open"]
            /\ pc' = [pc EXCEPT ![w] = "rotate_load"]
       ELSE /\ pc' = [pc EXCEPT ![w] = "open"]
            /\ UNCHANGED ret
  /\ UNCHANGED <<rec, loaded, fname, rnti_collectors, disk, retired, outside>>

\* std::ofstream(get_filename(), binary | app): the file is created if it is
\* not there; if it cannot be opened the record is dropped.
Open(w) ==
  /\ pc[w] = "open"
  /\ LET name == rnti_collectors[rec[w].rnti].current_filename IN
       \E is_open \in {name # NoName, FALSE} :
         IF is_open
         THEN /\ fname' = [fname EXCEPT ![w] = name]
              /\ files' = IF name \in DOMAIN files THEN files
                          ELSE files @@ (name :> 0)
              /\ pc' = [pc EXCEPT ![w] = "write"]
              /\ UNCHANGED rec
         ELSE /\ pc' = [pc EXCEPT ![w] = "idle"]
              /\ rec' = [rec EXCEPT ![w] = NoRec]
              /\ UNCHANGED <<fname, files>>
  /\ loaded' = [loaded EXCEPT ![w] = 0]
  /\ UNCHANGED <<ret, rnti_collectors, metadata, retired, outside>>

\* Header and samples are written and the file is closed.  (The locals of
\* the block are dead when it is left: the model clears them.)
Write(w) ==
  /\ pc[w] = "write"
  /\ files' = [files EXCEPT ![fname[w]] = @ + rec[w].bytes]
  /\ pc' = [pc EXCEPT ![w] = "update_load"]
  /\ UNCHANGED <<locals, rnti_collectors, metadata, retired, outside>>

\* update_size(total_size): the read of current_file_size += bytes_written.
UpdateLoad(w) ==
  /\ pc[w] = "update_load"
  /\ loaded' = [loaded EXCEPT ![w] = rnti_collectors[rec[w].rnti].current_file_size]
  /\ pc' = [pc EXCEPT ![w] = "update_store"]
  /\ UNCHANGED <<rec, ret, fname, rnti_collectors, disk, retired, outside>>

\* update_size(total_size): the write; the sink block is left.
UpdateStore(w) ==
  /\ pc[w] = "update_store"
  /\ rnti_collectors' = [rnti_collectors EXCEPT ![rec[w].rnti].current_file_size =
                           loaded[w] + rec[w].bytes]
  /\ pc' = [pc EXCEPT ![w] = "idle"]
  /\ rec' = [rec EXCEPT ![w] = NoRec]
  /\ loaded' = [loaded EXCEPT ![w] = 0]
  /\ fname' = [fname EXCEPT ![w] = NoName]
  /\ UNCHANGED <<ret, disk, retired, outside>>

\* The process ends, at any statement of any thread, and is started again:
\* the static map is empty, the output directory is as it was left.
Restart ==
  /\ restarts < MaxRestarts
  /\ restarts' = restarts + 1
  /\ \E seconds \in RestartSeconds : clock' = clock + seconds
  /\ rnti_collectors' = NoCollectors
  /\ retired' = retired \cup
                  ({rnti_collectors[r].current_filename : r \in DOMAIN rnti_collectors}
                     \ {NoName})
  /\ pc' = [w \in Workers |-> "idle"]
  /\ rec' = [w \in Workers |-> NoRec]
  /\ loaded' = [w \in Workers |-> 0]
  /\ ret' = [w \in Workers |-> "open"]
  /\ fname' = [w \in Workers |-> NoName]
  /\ UNCHANGED <<disk, started>>

\* One statement of the sink block by thread w.
Step(w) ==
  \/ MapEnter(w)
  \/ MapExit(w)
  \/ CheckInitialized(w)
  \/ InitializeEnter(w)
  \/ RotateLoad(w)
  \/ RotateStore(w)
  \/ InitializeDone(w)
  \/ ShouldWrite(w)
  \/ Open(w)
  \/ Write(w)
  \/ UpdateLoad(w)
  \/ UpdateStore(w)

Next ==
  \/ \E w \in Workers, r \in Rntis, bytes \in RecordSizes : Begin(w, r, bytes)
  \/ \E w \in Workers : Step(w)
  \/ Restart

Spec == Init /\ [][Next]_vars

\* A thread of the pool that has entered the sink block runs on: no statement
\* of the block waits for a lock, a condition or another thread.  Nothing
\* promises that another record arrives or that the process is restarted.
FairSpec == Spec /\ \A w \in Workers : WF_vars(Step(w))

-----------------------------------------------------------------------------
(* Properties *)

\* The names a collector can format within the bounds: a session starts at
\* the time of a restart, a file is counted for the session and each record.
Names == [rnti : Rntis, session : 0 .. MaxRestarts * Max(RestartSeconds),
          counter : 1 .. MaxRecords + 1]

\* Every variable has its type; the size tracker of a collector stays within
\* the limit should_write enforces.
TypeOK ==
  /\ pc \in [Workers -> Labels]
  /\ rec \in [Workers -> [rnti : Rntis, bytes : RecordSizes] \cup {NoRec}]
  /\ loaded \in [Workers -> Nat]
  /\ ret \in [Workers -> {"init_done", "open"}]
  /\ \A w \in Workers : fname[w] \in Names \cup {NoName}
  /\ DOMAIN rnti_collectors \subseteq Rntis
  /\ \A r \in DOMAIN rnti_collectors :
       LET c == rnti_collectors[r] IN
         /\ c.rnti \in {0, r}
         /\ c.file_counter \in Nat
         /\ c.current_file_size \in 0 .. MaxFileSize
         /\ c.current_filename \in Names \cup {NoName}
         /\ c.initialized \in BOOLEAN
  /\ DOMAIN files \subseteq Names
  /\ \A f \in DOMAIN files : files[f] \in Nat
  /\ clock \in Nat /\ started \in 0 .. MaxRecords /\ restarts \in 0 .. MaxRestarts

\* No file grows beyond SRS_CSI_MAX_FILE_SIZE: should_write() rotates before
\* the record that would not fit is written.
FileSizeBounded ==
  \A f \in DOMAIN files : files[f] <= MaxFileSize

\* current_file_size is the size of the current file whenever no thread is
\* between its write and its update_size(): what should_write() decides on is
\* what is on disk, across rotations, dropped records and restarts.
TrackedSizeMatchesFile ==
  \A r \in DOMAIN rnti_collectors :
    (\A w \in Busy(r) : pc[w] \notin {"update_load", "update_store"})
      => rnti_collectors[r].current_file_size =
           FileSize(rnti_collectors[r].current_filename)

\* session_metadata.jsonl names no file twice, and the first file of a
\* session is logged by initialize() as session_start, every later one by
\* rotate_file() as file_rotation.
MetadataConsistent ==
  /\ \A i, j \in 1 .. Len(metadata) :
       metadata[i].file = metadata[j].file => i = j
  /\ \A i \in 1 .. Len(metadata) :
       /\ metadata[i].file \in Names
       /\ metadata[i].rnti = metadata[i].file.rnti
       /\ (metadata[i].event = "session_start") = (metadata[i].file.counter = 1)

\* Once rotate_file() has moved a collector on from a file, or a restart has
\* dropped the collector, the file never changes again: a record is appended
\* only to the current file of a live collector.
ClosedFilesImmutable ==
  [][\A f \in retired : FileSize(f)' = FileSize(f)]_vars

\* Whatever the threads interleave, every RNTI comes back, again and again, to
\* a state in which no thread is filing a record of it and current_file_size
\* is the size of the current file: a thread that stopped between its write
\* and update_size(), or between the two halves of rotate_file(), leaves no
\* lasting error in what should_write() decides on for the next record.
TrackerCatchesUp ==
  \A r \in Rntis :
    []<>(/\ Busy(r) = {}
         /\ r \in DOMAIN rnti_collectors =>
              rnti_collectors[r].current_file_size =
                FileSize(rnti_collectors[r].current_filename))

\* The file the log of each RNTI is appended to.
CurrentFile ==
  [r \in Rntis |-> IF r \in DOMAIN rnti_collectors
                   THEN rnti_collectors[r].current_filename ELSE NoName]

Log == INSTANCE CsiLog WITH current <- CurrentFile, closed <- retired

\* The threads of the sink, each stopping between any two statements and
\* sharing rnti_collectors without a lock, implement the atomic per-RNTI log
\* of CsiLog: the write of a record is one append to the current file of its
\* RNTI and never overfills it, rotate_file() moves on only from a file the
\* next record does not fit and only to a name no file ever had, before and
\* after a restart, and every other statement changes nothing of the log.
ImplementsCsiLog == Log!Spec

\* MULTI_UE_CSI_COLLECTION_GUIDE.md, Thread Safety Analysis, and the comment
\* at the declaration of rnti_collectors: no locking is needed.  No thread
\* inserts into the map while another thread is inside operator[].
NoMapDataRace ==
  \A w, v \in Workers :
    (w # v /\ pc[w] = "in_map" /\ pc[v] = "in_map")
      => rec[w].rnti \in DOMAIN rnti_collectors

=============================================================================

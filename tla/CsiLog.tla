------------------------------- MODULE CsiLog -------------------------------
(***************************************************************************)
(* What the diagnostic CSI sink promises, with none of its mechanism: for  *)
(* each RNTI an append-only log kept in files of bounded size.  A record   *)
(* is appended to the current file of its RNTI in one step; the log moves  *)
(* to a file never used before when it starts and when a record does not   *)
(* fit; a restart of the process ends every log and loses no file.         *)
(*                                                                         *)
(* CsiCollector, with its threads and its unlocked map, is shown to        *)
(* implement this specification.                                           *)
(***************************************************************************)
EXTENDS Integers, TLC

CONSTANTS
  Rntis,        \* the RNTIs of the connected UEs
  RecordSizes,  \* sizes of a record
  MaxFileSize,  \* the rotation threshold
  Names,        \* the file names
  NoName        \* no file

VARIABLES
  files,    \* the files there are: name -> bytes
  current,  \* the file each RNTI's log is appended to
  closed    \* the files a log has moved on from

vars == <<files, current, closed>>

\* The bytes in file n, 0 for a file that is not there.
Size(n) == IF n \in DOMAIN files THEN files[n] ELSE 0

Init ==
  /\ files = <<>>
  /\ current = [r \in Rntis |-> NoName]
  /\ closed = {}

\* The log of r has no file, or a record that does not fit its file.
NeedsFile(r) ==
  \/ current[r] = NoName
  \/ \E b \in RecordSizes : Size(current[r]) + b > MaxFileSize

\* The log of r moves to the file n, which nothing was ever written to.
NewFile(r, n) ==
  /\ current' = [current EXCEPT ![r] = n]
  /\ NeedsFile(r)
  /\ n \notin closed \cup DOMAIN files \cup {current[q] : q \in Rntis}
  /\ closed' = closed \cup ({current[r]} \ {NoName})
  /\ UNCHANGED files

\* The current file of r comes into being, empty.
Create(r) ==
  /\ current[r] \notin DOMAIN files \cup {NoName}
  /\ files' = files @@ (current[r] :> 0)
  /\ UNCHANGED <<current, closed>>

\* A record of b bytes is appended to the log of r.
Append(r, b) ==
  /\ current[r] \in DOMAIN files
  /\ files[current[r]] + b <= MaxFileSize
  /\ files' = [files EXCEPT ![current[r]] = @ + b]
  /\ UNCHANGED <<current, closed>>

\* The process restarts: the logs end, the files stay.
Restart ==
  /\ current' = [r \in Rntis |-> NoName]
  /\ closed' = closed \cup ({current[r] : r \in Rntis} \ {NoName})
  /\ UNCHANGED files

Next ==
  \/ \E r \in Rntis, n \in Names : NewFile(r, n)
  \/ \E r \in Rntis : Create(r)
  \/ \E r \in Rntis, b \in RecordSizes : Append(r, b)
  \/ Restart

Spec == Init /\ [][Next]_vars

=============================================================================

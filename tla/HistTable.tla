------------------------------ MODULE HistTable ------------------------------
(***************************************************************************)
(* The file of historical timings: for each host a table with a row for    *)
(* every measurement, extended by chunks, and the attribute that counts    *)
(* the measurements.                                                       *)
(***************************************************************************)
EXTENDS Integers, Sequences

CONSTANTS
  Saves,      \* calls of SaveHistTiming, each of a process of its own
  Hosts,      \* machine names
  NoFile,     \* the file does not exist
  Unreadable, \* it exists and H5Fopen fails
  NoTable,    \* the host has no table yet
  Blank,      \* a row nobody wrote
  NoOne,      \* no process has the file open for writing
  CHUNKSIZE,  \* PERF_HIST_CHUNKSIZE
  MaxFaults   \* bound on the faults

Rows == Seq(Saves \cup {Blank})
Tables == [rows : Rows, num : Int]

\* What the file may hold.
Contents == [Hosts -> Tables \cup {NoTable}]

ASSUME HistAssumption ==
  /\ CHUNKSIZE \in Nat \ {0} /\ MaxFaults \in Nat
  /\ NoOne \notin Saves /\ Blank \notin Saves
  /\ NoTable \notin Tables /\ NoFile \notin Contents /\ Unreadable \notin Contents
  /\ NoFile # Unreadable
=============================================================================

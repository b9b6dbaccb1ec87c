------------------------------ MODULE HistLog ------------------------------
(***************************************************************************)
(* SaveHistTiming of grvy_timer.cpp: a process opens or creates the HDF5   *)
(* file of historical timings, opens or creates the table of its host,     *)
(* writes one row at the index num_measurements, increments that attribute *)
(* and makes room for the next rows.  Every operation on the file is a     *)
(* step, so that other processes run between them and a process may die    *)
(* between them.                                                           *)
(*                                                                         *)
(* Of the HDF5 library the model assumes: a file that one process has open *)
(* for writing is locked for all others, one that is open for reading is   *)
(* locked for writers; what a process writes is on disk once it has closed *)
(* the file; if the process dies before that, the file is as it was, or as *)
(* the calls so far made it, or unreadable.                                *)
(***************************************************************************)
EXTENDS HistTable

VARIABLES
  disk,    \* the file: for each host its table
  file,    \* the file as its writer has changed it, before it is on disk
  owner,   \* the save that has the file open for writing
  reading, \* SummarizeHistTiming of some process has it open
  pc,      \* pc[s]: what save s does next
  num,     \* num_measurements, the local variable of the owner
  host,    \* host[s]: the host of save s
  faults   \* number of faults so far

vars == <<disk, file, owner, reading, pc, num, host, faults>>

-----------------------------------------------------------------------------
\* num_measurements of a table whose attribute was not written yet.
NoCount == -1

EmptyFile == [h \in Hosts |-> NoTable]

NewTable == [rows |-> [i \in 1 .. CHUNKSIZE |-> Blank], num |-> NoCount]

\* H5Dset_extent, which cuts off rows or adds blank ones.
WithExtent(rows, n) == [i \in 1 .. n |-> IF i <= Len(rows) THEN rows[i] ELSE Blank]

Readable == disk \notin {NoFile, Unreadable}

\* Defect: the new row takes the place of the last one.
PlacePrevious(n) == IF n > 0 THEN n - 1 ELSE n

\* The row that a new measurement gets, counted from 0.
Place(n) == n

\* Defect: the chunk to add is forgotten.
NewExtentSame(n) == n

\* The number of rows after the extension.
NewExtent(n) == n + CHUNKSIZE

Table(s) == file[host[s]]

At(s, here, next) == pc[s] = here /\ pc' = [pc EXCEPT ![s] = next]

\* Save s is at step here, goes on at step next and leaves table t.
Writes(s, here, next, t) ==
  /\ At(s, here, next)
  /\ file' = [file EXCEPT ![host[s]] = t]
  /\ UNCHANGED <<disk, owner, reading, host>>

-----------------------------------------------------------------------------
\* Timings of the process itself are to be saved, and its timer was never
\* initialized: exit(1).
NotInitialized(s) ==
  /\ At(s, "exists", "failed")
  /\ UNCHANGED <<disk, file, owner, reading, num, host, faults>>

\* A file that cannot be opened for reading, because it is locked or
\* unreadable, counts as absent.
Exists(s) ==
  /\ At(s, "exists", IF Readable /\ owner = NoOne THEN "open" ELSE "create")
  /\ UNCHANGED <<disk, file, owner, reading, num, host, faults>>

\* The file cannot be opened or created: exit(1).
CannotOpen(s) ==
  /\ \/ At(s, "open", "failed") /\ ~ (Readable /\ owner = NoOne /\ ~ reading)
     \/ At(s, "create", "failed") /\ disk # NoFile
  /\ UNCHANGED <<disk, file, owner, reading, num, host, faults>>

Open(s) ==
  /\ At(s, "open", "table")
  /\ Readable /\ owner = NoOne /\ ~ reading
  /\ owner' = s /\ file' = disk
  /\ UNCHANGED <<disk, reading, num, host, faults>>

\* H5F_ACC_EXCL: the file must not exist.  It does from now on, but has no
\* contents yet.
Create(s) ==
  /\ At(s, "create", "table")
  /\ disk = NoFile
  /\ disk' = Unreadable /\ file' = EmptyFile /\ owner' = s
  /\ UNCHANGED <<reading, num, host, faults>>

OpenTable(s) ==
  /\ At(s, "table", "query") /\ Table(s) # NoTable
  /\ UNCHANGED <<disk, file, owner, reading, num, host, faults>>

CreateTable(s) ==
  /\ Writes(s, "table", "attributes", NewTable) /\ Table(s) = NoTable
  /\ UNCHANGED <<num, faults>>

\* The attributes of a new table; the last one is num_measurements.
WriteAttributes(s) ==
  /\ Writes(s, "attributes", "query", [Table(s) EXCEPT !.num = 0])
  /\ UNCHANGED <<num, faults>>

\* If the attribute is missing, AttributeRead returns an error nobody looks
\* at, and the variable keeps the undefined value it started with: before,
\* inside or after the rows.
QueryCount(s) ==
  /\ At(s, "query", "append")
  /\ num' \in IF Table(s).num # NoCount THEN {Table(s).num}
              ELSE -1 .. Len(Table(s).rows)
  /\ UNCHANGED <<disk, file, owner, reading, host, faults>>

InTable(s) == Place(num) \in 0 .. Len(Table(s).rows) - 1

AppendHistData(s) ==
  /\ pc[s] = "append" /\ InTable(s)
  /\ Writes(s, "append", "count", [Table(s) EXCEPT !.rows[Place(num) + 1] = s])
  /\ UNCHANGED <<num, faults>>

\* assert(H5Dwrite(...) >= 0) fails.  The file was opened and not changed.
AppendAborts(s) ==
  /\ At(s, "append", "aborted") /\ ~ InTable(s)
  /\ owner' = NoOne /\ file' = EmptyFile /\ num' = 0
  /\ UNCHANGED <<disk, reading, host, faults>>

WriteCount(s) ==
  /\ Writes(s, "count", "extend", [Table(s) EXCEPT !.num = num + 1])
  /\ num' = num + 1
  /\ UNCHANGED faults

\* H5Dset_extent at the end of a chunk; that it may fail is not looked at.
Extend(s) ==
  /\ num % CHUNKSIZE = 0
  /\ \/ /\ Writes(s, "extend", "close",
                  [Table(s) EXCEPT !.rows = WithExtent(@, NewExtent(num))])
        /\ UNCHANGED faults
     \/ /\ faults < MaxFaults /\ faults' = faults + 1
        /\ Writes(s, "extend", "close", Table(s))
  /\ UNCHANGED num

NoExtension(s) ==
  /\ num % CHUNKSIZE # 0
  /\ Writes(s, "extend", "close", Table(s))
  /\ UNCHANGED <<num, faults>>

\* Defect: an object is left open, so that H5Fclose does not close the file.
CloseLeaky(s) ==
  /\ At(s, "close", "done")
  /\ disk' = file
  /\ UNCHANGED <<file, owner, reading, num, host, faults>>

Close(s) ==
  /\ At(s, "close", "done")
  /\ disk' = file
  /\ owner' = NoOne /\ file' = EmptyFile /\ num' = 0
  /\ UNCHANGED <<reading, host, faults>>

\* The process dies while it has the file open.
Die(s) ==
  /\ owner = s /\ faults < MaxFaults
  /\ pc' = [pc EXCEPT ![s] = "dead"]
  /\ disk' \in {disk, file, Unreadable}
  /\ owner' = NoOne /\ file' = EmptyFile /\ num' = 0
  /\ faults' = faults + 1
  /\ UNCHANGED <<reading, host>>

\* SummarizeHistTiming opens the file read-only and closes it at its end.
Summarize ==
  /\ IF reading THEN reading' = FALSE
     ELSE Readable /\ owner = NoOne /\ reading' = TRUE
  /\ UNCHANGED <<disk, file, owner, pc, num, host, faults>>

Ended == \A s \in Saves : pc[s] \in {"done", "failed", "aborted", "dead"}

Init ==
  /\ disk = NoFile /\ file = EmptyFile
  /\ owner = NoOne /\ reading = FALSE
  /\ pc = [s \in Saves |-> "exists"]
  /\ num = 0 /\ host \in [Saves -> Hosts] /\ faults = 0

SaveHistTiming(s) ==
  \/ NotInitialized(s) \/ Exists(s) \/ CannotOpen(s) \/ Open(s) \/ Create(s)
  \/ OpenTable(s) \/ CreateTable(s) \/ WriteAttributes(s) \/ QueryCount(s)
  \/ AppendHistData(s) \/ AppendAborts(s) \/ WriteCount(s)
  \/ Extend(s) \/ NoExtension(s) \/ Close(s)

Next ==
  \/ \E s \in Saves : SaveHistTiming(s) \/ Die(s)
  \/ Summarize
  \/ Ended /\ UNCHANGED vars

Spec == Init /\ [][Next]_vars

-----------------------------------------------------------------------------
Holding == {"table", "attributes", "query", "append", "count", "extend", "close"}

\* Types, and one writer at a time: a save is inside the file exactly while it
\* is the owner, and no reader is.
TypeOK ==
  /\ disk \in {NoFile, Unreadable} \cup Contents /\ file \in Contents
  /\ owner \in Saves \cup {NoOne}
  /\ \A s \in Saves : pc[s] \in Holding <=> owner = s
  /\ reading => Readable /\ owner = NoOne
  /\ num \in Int /\ faults \in 0 .. MaxFaults

\* ReadAllHostData: the rows below num_measurements.  A table without the
\* attribute, or with a row in between that nobody wrote, is void.
Sound(t) ==
  t = NoTable \/ (t.num # NoCount /\ \A i \in 1 .. t.num : t.rows[i] # Blank)

Measurements(t) == IF t = NoTable THEN << >> ELSE SubSeq(t.rows, 1, t.num)

\* Whatever the interleaving of savers and readers and wherever processes die,
\* the file is an append-only log for each host: a save that returned is in it
\* once, in the order of the saves, and no later save or death changes it.
\* Only the first save for a host can void that host's table by dying, and
\* only a death can make the file unreadable.
HostLog == INSTANCE TimingLog
  WITH log <- [h \in Hosts |-> IF Readable /\ Sound(disk[h]) THEN Measurements(disk[h]) ELSE << >>],
       void <- {h \in Hosts : Readable /\ ~ Sound(disk[h])},
       lost <- disk = Unreadable /\ owner = NoOne,
       returned <- {s \in Saves : pc[s] = "done"}

LogSpec == HostLog!Spec

\* The assertion on H5Dwrite never fails in a process that nobody killed and
\* whose predecessors' operations all succeeded: the table always has room for
\* the next row.
AbortsNeedFault == \A s \in Saves : pc[s] = "aborted" => faults > 0
=============================================================================

---------------------------- MODULE HistLogProofs ----------------------------
(***************************************************************************)
(* One writer at a time, room for the next row, and the append-only log,   *)
(* for any number of saves and hosts, any chunk size and any faults.       *)
(***************************************************************************)
EXTENDS HistLog, SequenceTheorems, TLAPS

Stages == Holding \cup {"exists", "open", "create", "done", "failed", "aborted", "dead"}

(* What the owner found on disk, or made. *)
Base == IF Readable THEN disk ELSE EmptyFile

(* The count of a table is a number of its rows, if it was written. *)
Fit(t) == t = NoTable \/ (t.num \in -1 .. Len(t.rows))

(* A table made from b has the same measurements, or one more, if b has any
   meaning. *)
Keeps(b, t) == t # NoTable /\ (Sound(b) => Sound(t) /\ Measurements(t) = Measurements(b))

Adds(b, t, s) ==
  t # NoTable /\ (Sound(b) => Sound(t) /\ Measurements(t) = Append(Measurements(b), s))

Counts(t, n) == IF t.num # NoCount THEN n = t.num ELSE n \in -1 .. Len(t.rows)

(* What save s has made of table b at each stage: t, with n in num_measurements. *)
Work(s, b, t, stage, n) ==
  /\ stage = "table" => t = b
  /\ stage = "attributes" => b = NoTable /\ t = NewTable
  /\ stage \in {"query", "append", "count"} => Keeps(b, t)
  /\ stage \in {"query", "append"} /\ b = NoTable => Len(t.rows) > 0
  /\ stage \in {"append", "count"} => Counts(t, n)
  /\ stage = "count" => n \in 0 .. Len(t.rows) - 1 /\ t.rows[n + 1] = s
  /\ stage = "extend" => t.num = n /\ n \in 1 .. Len(t.rows)
  /\ stage \in {"extend", "close"} => Adds(b, t, s)

(* Room for at least one row and at most a chunk, in whole chunks. *)
Roomy(t) ==
  t = NoTable \/ /\ t.num \in 0 .. Len(t.rows) - 1 /\ Len(t.rows) <= t.num + CHUNKSIZE
                 /\ Len(t.rows) % CHUNKSIZE = 0

(* The same of the table under change, as long as nothing failed. *)
Room(t, stage, n) ==
  /\ stage \in {"table", "query", "append", "count", "close"} => Roomy(t)
  /\ stage \in {"append", "count"} => n = t.num
  /\ stage = "extend" => /\ Len(t.rows) % CHUNKSIZE = 0
                         /\ n \in 1 .. Len(t.rows) /\ Len(t.rows) < n + CHUNKSIZE

-----------------------------------------------------------------------------
Types ==
  /\ disk \in {NoFile, Unreadable} \cup Contents /\ file \in Contents
  /\ owner \in Saves \cup {NoOne} /\ reading \in BOOLEAN
  /\ pc \in [Saves -> Stages] /\ num \in Int
  /\ host \in [Saves -> Hosts] /\ faults \in 0 .. MaxFaults

OneWriter ==
  /\ \A s \in Saves : pc[s] \in Holding <=> owner = s
  /\ reading => Readable /\ owner = NoOne
  /\ owner # NoOne => disk # NoFile

Fits == (\A h \in Hosts : Fit(file[h])) /\ \A h \in Hosts : Fit(Base[h])

Working == \A s \in Saves : owner = s =>
  /\ \A h \in Hosts \ {host[s]} : file[h] = Base[h]
  /\ Work(s, Base[host[s]], file[host[s]], pc[s], num)

HasRoom == faults = 0 =>
  /\ \A h \in Hosts : Roomy(Base[h])
  /\ \A s \in Saves : owner = s => Room(file[host[s]], pc[s], num)

IInv == Types /\ OneWriter /\ Fits /\ Working /\ HasRoom /\ AbortsNeedFault

-----------------------------------------------------------------------------
(* Tables.                                                                  *)

LEMMA NewTableFits ==
  /\ NewTable \in Tables /\ NewTable # NoTable /\ NewTable.num = NoCount
  /\ Len(NewTable.rows) = CHUNKSIZE
  /\ \A i \in 1 .. CHUNKSIZE : NewTable.rows[i] = Blank
<1>1. CHUNKSIZE \in Nat /\ NoTable \notin Tables
  BY HistAssumption
<1>2. [i \in 1 .. CHUNKSIZE |-> Blank] \in [1 .. CHUNKSIZE -> Saves \cup {Blank}]
  OBVIOUS
<1>3. [i \in 1 .. CHUNKSIZE |-> Blank] \in Rows
  BY <1>1, <1>2, SeqDef DEF Rows
<1>4. Len([i \in 1 .. CHUNKSIZE |-> Blank]) = CHUNKSIZE
  BY <1>1
<1>5. NewTable \in Tables
  BY <1>3 DEF NewTable, Tables, NoCount
<1> QED BY <1>1, <1>4, <1>5 DEF NewTable

LEMMA ExtentFits ==
  ASSUME NEW rows \in Rows, NEW n \in Nat
  PROVE  /\ WithExtent(rows, n) \in Rows /\ Len(WithExtent(rows, n)) = n
         /\ \A i \in 1 .. n : i <= Len(rows) => WithExtent(rows, n)[i] = rows[i]
<1>1. \A i \in 1 .. n : i <= Len(rows) => rows[i] \in Saves \cup {Blank}
  BY LenProperties DEF Rows
<1>2. WithExtent(rows, n) \in [1 .. n -> Saves \cup {Blank}]
  BY <1>1 DEF WithExtent
<1>3. WithExtent(rows, n) \in Rows
  BY <1>2, SeqDef DEF Rows
<1>4. Len(WithExtent(rows, n)) = n
  BY DEF WithExtent
<1> QED BY <1>3, <1>4 DEF WithExtent

LEMMA RowWritten ==
  ASSUME NEW t \in Tables, NEW i \in 1 .. Len(t.rows), NEW s \in Saves
  PROVE  LET u == [t EXCEPT !.rows[i] = s]
         IN  /\ u \in Tables /\ u.num = t.num /\ Len(u.rows) = Len(t.rows)
             /\ u.rows[i] = s /\ \A j \in 1 .. Len(t.rows) : j # i => u.rows[j] = t.rows[j]
<1> DEFINE u == [t EXCEPT !.rows[i] = s]
<1>1. t.rows \in Rows /\ t.num \in Int
  BY DEF Tables
<1>2. u.rows = [t.rows EXCEPT ![i] = s] /\ u.num = t.num
  BY DEF Tables
<1>3. /\ [t.rows EXCEPT ![i] = s] \in Rows /\ Len([t.rows EXCEPT ![i] = s]) = Len(t.rows)
      /\ \A j \in 1 .. Len(t.rows) : [t.rows EXCEPT ![i] = s][j] = IF j = i THEN s ELSE t.rows[j]
  BY <1>1, ExceptSeq DEF Rows
<1>4. u = [rows |-> [t.rows EXCEPT ![i] = s], num |-> t.num]
  BY DEF Tables
<1>5. u \in Tables
  BY <1>1, <1>3, <1>4 DEF Tables
<1> HIDE DEF u
<1>6. u \in Tables /\ u.num = t.num /\ Len(u.rows) = Len(t.rows)
      /\ u.rows[i] = s /\ \A j \in 1 .. Len(t.rows) : j # i => u.rows[j] = t.rows[j]
  BY <1>2, <1>3, <1>5
<1> QED BY <1>6 DEF u

LEMMA CountWritten ==
  ASSUME NEW t \in Tables, NEW n \in Int
  PROVE  LET u == [t EXCEPT !.num = n] IN u \in Tables /\ u.num = n /\ u.rows = t.rows
BY DEF Tables

LEMMA RowsWritten ==
  ASSUME NEW t \in Tables, NEW rows \in Rows
  PROVE  LET u == [t EXCEPT !.rows = rows] IN u \in Tables /\ u.num = t.num /\ u.rows = rows
BY DEF Tables

(* The measurements are the rows below the count. *)
LEMMA MeasuredRows ==
  ASSUME NEW t \in Tables, t.num \in 0 .. Len(t.rows)
  PROVE  /\ Measurements(t) \in Rows /\ Len(Measurements(t)) = t.num
         /\ \A i \in 1 .. t.num : Measurements(t)[i] = t.rows[i]
<1>1. t.rows \in Rows /\ t # NoTable /\ Len(t.rows) \in Nat
  BY HistAssumption, LenProperties DEF Tables, Rows
<1>2. \A i \in 1 .. t.num : t.rows[i] \in Saves \cup {Blank}
  BY <1>1, LenProperties DEF Rows
<1>3. Measurements(t) = SubSeq(t.rows, 1, t.num)
  BY <1>1 DEF Measurements
<1>4. t.num \in Nat
  BY <1>1
<1>5. /\ SubSeq(t.rows, 1, t.num) \in Rows
      /\ Len(SubSeq(t.rows, 1, t.num)) = IF 1 <= t.num THEN t.num - 1 + 1 ELSE 0
      /\ \A i \in 1 .. t.num - 1 + 1 : SubSeq(t.rows, 1, t.num)[i] = t.rows[1 + i - 1]
  BY <1>2, <1>4, SubSeqProperties DEF Rows
<1> HIDE DEF Measurements
<1> QED BY <1>3, <1>4, <1>5

(* A table that agrees with another below its count means the same. *)
LEMMA SameRows ==
  ASSUME NEW t \in Tables, NEW u \in Tables, Fit(t), Sound(t), u.num = t.num,
         t.num <= Len(u.rows), \A i \in 1 .. t.num : u.rows[i] = t.rows[i]
  PROVE  Sound(u) /\ Measurements(u) = Measurements(t)
<1>1. t # NoTable /\ u # NoTable /\ t.num \in 0 .. Len(t.rows) /\ t.num \in 0 .. Len(u.rows)
  <2>1. t # NoTable /\ u # NoTable /\ t.num \in Int /\ Len(u.rows) \in Nat /\ Len(t.rows) \in Nat
    BY HistAssumption, LenProperties DEF Tables, Rows
  <2> QED BY <2>1 DEF Fit, Sound, NoCount
<1>2. Sound(u)
  BY <1>1 DEF Sound
<1>3. /\ Measurements(t) \in Rows /\ Len(Measurements(t)) = t.num
      /\ \A i \in 1 .. t.num : Measurements(t)[i] = t.rows[i]
  BY <1>1, MeasuredRows
<1>4. /\ Measurements(u) \in Rows /\ Len(Measurements(u)) = t.num
      /\ \A i \in 1 .. t.num : Measurements(u)[i] = u.rows[i]
  BY <1>1, MeasuredRows
<1>5. Measurements(u) = Measurements(t)
  BY <1>3, <1>4, SeqEqual DEF Rows
<1> QED BY <1>2, <1>5

(* Counting the row that was written after the last one adds it. *)
LEMMA CountAdds ==
  ASSUME NEW t \in Tables, NEW u \in Tables, NEW s \in Saves, Fit(t), Sound(t),
         u.num = t.num + 1, u.rows = t.rows, u.num <= Len(t.rows), t.rows[u.num] = s
  PROVE  Sound(u) /\ Measurements(u) = Append(Measurements(t), s)
<1>1. /\ t # NoTable /\ u # NoTable /\ t.num \in 0 .. Len(t.rows)
      /\ u.num \in 0 .. Len(u.rows) /\ t.num \in Nat /\ Len(t.rows) \in Nat
  <2>1. t # NoTable /\ u # NoTable /\ t.num \in Int /\ Len(t.rows) \in Nat
    BY HistAssumption, LenProperties DEF Tables, Rows
  <2> QED BY <2>1 DEF Fit, Sound, NoCount
<1>2. Sound(u)
  <2>1. \A i \in 1 .. u.num : i \in 1 .. t.num \/ i = u.num
    BY <1>1
  <2>2. s # Blank
    BY HistAssumption
  <2> QED BY <1>1, <2>1, <2>2 DEF Sound, NoCount
<1>3. /\ Measurements(t) \in Rows /\ Len(Measurements(t)) = t.num
      /\ \A i \in 1 .. t.num : Measurements(t)[i] = t.rows[i]
  BY <1>1, MeasuredRows
<1>4. /\ Measurements(u) \in Rows /\ Len(Measurements(u)) = t.num + 1
      /\ \A i \in 1 .. t.num + 1 : Measurements(u)[i] = t.rows[i]
  BY <1>1, MeasuredRows
<1>5. /\ Append(Measurements(t), s) \in Rows /\ Len(Append(Measurements(t), s)) = t.num + 1
      /\ \A i \in 1 .. t.num : Append(Measurements(t), s)[i] = Measurements(t)[i]
      /\ Append(Measurements(t), s)[t.num + 1] = s
  BY <1>3, AppendProperties DEF Rows
<1>6. \A i \in 1 .. t.num + 1 : Append(Measurements(t), s)[i] = Measurements(u)[i]
  <2> TAKE i \in 1 .. t.num + 1
  <2>1. CASE i \in 1 .. t.num
    BY <1>3, <1>4, <1>5, <2>1
  <2>2. CASE i = t.num + 1
    <3>1. Measurements(u)[i] = t.rows[t.num + 1] /\ t.rows[t.num + 1] = s
      BY <1>4, <2>2
    <3> QED BY <1>5, <2>2, <3>1
  <2>3. i \in 1 .. t.num \/ i = t.num + 1
    <3>1. t.num \in Nat
      BY <1>1
    <3> HIDE DEF Fit, Sound
    <3> QED BY <3>1
  <2> QED BY <2>1, <2>2, <2>3
<1>7. Measurements(u) = Append(Measurements(t), s)
  BY <1>4, <1>5, <1>6, SeqEqual DEF Rows
<1> QED BY <1>2, <1>7

(* Whole chunks. *)
LEMMA WholeChunks ==
  /\ CHUNKSIZE % CHUNKSIZE = 0
  /\ \A n \in Nat : n % CHUNKSIZE = 0 => (n + CHUNKSIZE) % CHUNKSIZE = 0
<1>1. \A c \in Nat \ {0}, q \in Nat : (c * q) % c = 0
  OBVIOUS
<1>2. \A c \in Nat \ {0}, n \in Nat : n % c = 0 => n = c * (n \div c) /\ n \div c \in Nat
  OBVIOUS
<1>3. \A c \in Nat \ {0}, q \in Nat : c * q + c = c * (q + 1) /\ q + 1 \in Nat
  OBVIOUS
<1>4. ASSUME NEW n \in Nat, n % CHUNKSIZE = 0
      PROVE  (n + CHUNKSIZE) % CHUNKSIZE = 0
  <2>1. PICK q \in Nat : n = CHUNKSIZE * q
    BY <1>2, <1>4, HistAssumption
  <2>2. n + CHUNKSIZE = CHUNKSIZE * (q + 1) /\ q + 1 \in Nat
    BY <1>3, <2>1, HistAssumption
  <2> QED BY <1>1, <2>2, HistAssumption
<1>5. CHUNKSIZE % CHUNKSIZE = 0
  BY HistAssumption
<1> QED BY <1>4, <1>5

-----------------------------------------------------------------------------
(* The invariant.                                                           *)

LEMMA EmptyFits ==
  /\ EmptyFile \in Contents /\ \A h \in Hosts : EmptyFile[h] = NoTable
  /\ Fit(NoTable) /\ Roomy(NoTable)
BY DEF EmptyFile, Contents, Fit, Roomy

LEMMA InitInvariant == Init => IInv
<1> SUFFICES ASSUME Init PROVE IInv
  OBVIOUS
<1>1. ~ Readable /\ Base = EmptyFile /\ owner = NoOne /\ \A s \in Saves : owner # s
  BY HistAssumption DEF Init, Readable, Base
<1>2. Types
  <2>1. pc \in [Saves -> Stages] /\ file \in Contents
    BY EmptyFits DEF Init, Stages
  <2>2. 0 \in 0 .. MaxFaults
    BY HistAssumption
  <2>3. /\ disk = NoFile /\ owner = NoOne /\ reading = FALSE /\ num = 0 /\ faults = 0
        /\ host \in [Saves -> Hosts]
    BY DEF Init
  <2>4. num \in Int
    BY <2>3
  <2>5. reading \in BOOLEAN
    BY <2>3, Zenon
  <2> QED BY <2>1, <2>2, <2>3, <2>4, <2>5 DEF Types
<1>3. OneWriter
  BY <1>1 DEF Init, OneWriter, Holding
<1>4. Fits
  BY <1>1, EmptyFits DEF Init, Fits
<1>5. Working /\ HasRoom
  BY <1>1, EmptyFits DEF Working, HasRoom
<1>6. AbortsNeedFault
  BY DEF Init, AbortsNeedFault
<1> QED BY <1>2, <1>3, <1>4, <1>5, <1>6 DEF IInv

LEMMA BaseIs ==
  ASSUME Types
  PROVE  /\ Base \in Contents
         /\ Readable <=> disk \in Contents
         /\ Readable => Base = disk
         /\ ~ Readable => Base = EmptyFile
BY EmptyFits, HistAssumption DEF Types, Base, Readable

(* Save s, the owner, goes on to another stage inside the file and leaves
   table t. *)
LEMMA OwnStep ==
  ASSUME IInv, NEW s \in Saves, owner = s, NEW next \in Holding, NEW t \in Tables,
         pc' = [pc EXCEPT ![s] = next], file' = [file EXCEPT ![host[s]] = t],
         UNCHANGED <<disk, owner, reading, host>>,
         num' \in Int, faults' \in faults .. MaxFaults,
         Fit(t), Work(s, Base[host[s]], t, next, num'),
         faults' = 0 => Room(t, next, num')
  PROVE  IInv'
<1> USE DEF IInv
<1>1. /\ pc \in [Saves -> Stages] /\ file \in Contents /\ host \in [Saves -> Hosts]
      /\ faults \in 0 .. MaxFaults /\ MaxFaults \in Nat /\ next \in Stages
  BY HistAssumption DEF Types, Stages
<1>2. Base' = Base /\ (Readable' <=> Readable)
  BY DEF Base, Readable
<1>3. host[s] \in Hosts /\ file'[host[s]] = t /\ \A h \in Hosts \ {host[s]} : file'[h] = file[h]
  BY <1>1 DEF Contents
<1>4. pc'[s] = next /\ \A q \in Saves \ {s} : pc'[q] = pc[q]
  BY <1>1
<1>5. Types'
  <2>1. file' \in Contents /\ pc' \in [Saves -> Stages]
    BY <1>1 DEF Contents
  <2>2. faults' \in 0 .. MaxFaults
    BY <1>1
  <2> QED BY <2>1, <2>2 DEF Types
<1>6. OneWriter'
  BY <1>2, <1>4 DEF OneWriter
<1>7. Fits'
  BY <1>2, <1>3 DEF Fits
<1>8. Working'
  BY <1>2, <1>3, <1>4 DEF Working
<1>9. HasRoom'
  <2>1. faults' = 0 => faults = 0
    BY <1>1
  <2> QED BY <1>2, <1>3, <1>4, <2>1 DEF HasRoom
<1>10. AbortsNeedFault'
  <2>1. faults > 0 => faults' > 0
    BY <1>1
  <2>2. next # "aborted"
    BY DEF Holding
  <2> QED BY <1>4, <2>1, <2>2 DEF AbortsNeedFault
<1> QED BY <1>5, <1>6, <1>7, <1>8, <1>9, <1>10

(* Save s leaves the file, with or without what it changed. *)
LEMMA LeaveStep ==
  ASSUME IInv, NEW s \in Saves, owner = s, NEW there \in {"done", "aborted", "dead"},
         pc' = [pc EXCEPT ![s] = there],
         owner' = NoOne, file' = EmptyFile, num' = 0, UNCHANGED <<reading, host>>,
         disk' \in {disk, file, Unreadable}, faults' \in faults .. MaxFaults,
         there = "aborted" => faults' > 0,
         faults' = 0 /\ disk' = file => Roomy(file[host[s]])
  PROVE  IInv'
<1> USE DEF IInv
<1>1. /\ pc \in [Saves -> Stages] /\ file \in Contents /\ host \in [Saves -> Hosts]
      /\ disk \in {NoFile, Unreadable} \cup Contents
      /\ faults \in 0 .. MaxFaults /\ MaxFaults \in Nat /\ there \in Stages \ Holding
      /\ NoOne \notin Saves /\ reading \in BOOLEAN
  BY HistAssumption DEF Types, Stages, Holding
<1>2. pc'[s] = there /\ \A q \in Saves \ {s} : pc'[q] = pc[q]
  BY <1>1
<1>3. Types'
  <2>1. faults' \in 0 .. MaxFaults /\ num' \in Int
    BY <1>1
  <2>2. pc' \in [Saves -> Stages] /\ file' \in Contents /\ disk' \in {NoFile, Unreadable} \cup Contents
    BY <1>1, EmptyFits
  <2> QED BY <1>1, <2>1, <2>2 DEF Types
<1>4. OneWriter'
  <2>1. reading' = FALSE
    BY <1>1 DEF OneWriter
  <2>2. \A q \in Saves : pc'[q] \notin Holding
    BY <1>1, <1>2 DEF OneWriter
  <2> QED BY <1>1, <2>1, <2>2 DEF OneWriter
<1>5. Base' \in {Base, file, EmptyFile} /\ (Base' = file => disk' = file \/ file = Base \/ file = EmptyFile)
  BY HistAssumption DEF Base, Readable
<1>6. Fits'
  BY <1>5, EmptyFits DEF Fits
<1>7. Working'
  BY <1>1 DEF Working
<1>8. HasRoom'
  <2> SUFFICES ASSUME faults' = 0, NEW h \in Hosts PROVE Roomy(Base'[h])
    BY <1>1 DEF HasRoom
  <2>1. faults = 0
    BY <1>1
  <2>2. Roomy(Base[h]) /\ Roomy(EmptyFile[h])
    BY <2>1, EmptyFits DEF HasRoom
  <2>3. ASSUME disk' = file PROVE Roomy(file[h])
    <3>1. h # host[s] => file[h] = Base[h]
      BY DEF Working
    <3> QED BY <2>2, <2>3, <3>1
  <2> QED BY <1>5, <2>2, <2>3
<1>9. AbortsNeedFault'
  <2>1. faults > 0 => faults' > 0
    BY <1>1
  <2> QED BY <1>2, <2>1 DEF AbortsNeedFault
<1> QED BY <1>3, <1>4, <1>6, <1>7, <1>8, <1>9

(* Save s moves without the file. *)
LEMMA OutsideStep ==
  ASSUME IInv, NEW s \in Saves, pc[s] \notin Holding, NEW there \in {"open", "create", "failed"},
         pc' = [pc EXCEPT ![s] = there],
         UNCHANGED <<disk, file, owner, reading, num, host, faults>>
  PROVE  IInv'
<1> USE DEF IInv
<1>1. /\ pc \in [Saves -> Stages] /\ pc' \in [Saves -> Stages] /\ owner # s
      /\ there \notin Holding
  BY DEF Types, OneWriter, Stages, Holding
<1>2. pc'[s] = there /\ \A q \in Saves \ {s} : pc'[q] = pc[q]
  BY <1>1
<1>3. Base' = Base /\ (Readable' <=> Readable)
  BY DEF Base, Readable
<1>4. Types' /\ Fits'
  BY <1>1, <1>3 DEF Types, Fits
<1>5. OneWriter'
  BY <1>1, <1>2, <1>3 DEF OneWriter
<1>6. \A q \in Saves : owner = q => pc'[q] = pc[q]
  BY <1>1, <1>2
<1>7. Working' /\ HasRoom'
  BY <1>3, <1>6 DEF Working, HasRoom
<1>8. AbortsNeedFault'
  BY <1>2 DEF AbortsNeedFault
<1> QED BY <1>4, <1>5, <1>7, <1>8

(* Save s gets the file, which is then as on disk, or new. *)
LEMMA EnterStep ==
  ASSUME IInv, NEW s \in Saves, Open(s) \/ Create(s)
  PROVE  IInv'
<1> USE DEF IInv
<1>1. /\ pc \in [Saves -> Stages] /\ host \in [Saves -> Hosts] /\ file \in Contents
      /\ disk \in {NoFile, Unreadable} \cup Contents /\ NoOne \notin Saves
  BY HistAssumption DEF Types
<1>2. /\ pc' = [pc EXCEPT ![s] = "table"] /\ pc[s] \in {"open", "create"}
      /\ owner' = s /\ UNCHANGED <<reading, num, host, faults>>
  BY DEF Open, Create, At
<1>3. /\ Base' = Base /\ file' = Base
      /\ disk' \in {Unreadable} \cup Contents /\ disk' # NoFile
  <2>1. CASE Open(s)
    BY <1>1, <2>1, HistAssumption DEF Open, Base, Readable
  <2>2. CASE Create(s)
    BY <2>2, HistAssumption DEF Create, Base, Readable
  <2> QED BY <2>1, <2>2
<1>4. owner = NoOne /\ reading = FALSE
  <2>1. CASE Open(s)
    BY <2>1 DEF Open, Types
  <2>2. CASE Create(s)
    BY <2>2 DEF Create, Types, OneWriter, Readable
  <2> QED BY <2>1, <2>2
<1>5. pc'[s] = "table" /\ \A q \in Saves \ {s} : pc'[q] = pc[q]
  BY <1>1, <1>2
<1>6. Types'
  <2>1. pc' \in [Saves -> Stages] /\ file' \in Contents
    BY <1>1, <1>2, <1>3, BaseIs DEF Stages, Holding
  <2> QED BY <1>2, <1>3, <2>1 DEF Types
<1>7. OneWriter'
  <2>1. \A q \in Saves : pc[q] \notin Holding
    BY <1>1, <1>4 DEF OneWriter
  <2>2. "table" \in Holding
    BY DEF Holding
  <2> QED BY <1>1, <1>2, <1>3, <1>4, <1>5, <2>1, <2>2 DEF OneWriter
<1>8. Fits'
  BY <1>3 DEF Fits
<1>9. Working'
  <2> SUFFICES ASSUME NEW q \in Saves, owner' = q
               PROVE  /\ \A h \in Hosts \ {host'[q]} : file'[h] = Base'[h]
                      /\ Work(q, Base'[host'[q]], file'[host'[q]], pc'[q], num')
    BY DEF Working
  <2>1. q = s /\ pc'[q] = "table" /\ file' = Base'
    BY <1>2, <1>3, <1>5
  <2> QED BY <2>1 DEF Work
<1>10. HasRoom'
  <2> SUFFICES ASSUME faults' = 0
               PROVE  /\ \A h \in Hosts : Roomy(Base'[h])
                      /\ \A q \in Saves : owner' = q => Room(file'[host'[q]], pc'[q], num')
    BY DEF HasRoom
  <2>1. \A h \in Hosts : Roomy(Base[h])
    BY <1>2 DEF HasRoom
  <2>2. host[s] \in Hosts
    BY <1>1
  <2> QED BY <1>2, <1>3, <1>5, <2>1, <2>2 DEF Room
<1>11. AbortsNeedFault'
  BY <1>2, <1>5 DEF AbortsNeedFault
<1> QED BY <1>6, <1>7, <1>8, <1>9, <1>10, <1>11

(* What the owner knows of its table. *)
LEMMA Owned ==
  ASSUME IInv, NEW s \in Saves, pc[s] \in Holding
  PROVE  /\ owner = s /\ host[s] \in Hosts /\ Table(s) \in Tables \cup {NoTable}
         /\ Base[host[s]] \in Tables \cup {NoTable}
         /\ Fit(Table(s)) /\ Fit(Base[host[s]]) /\ num \in Int /\ faults \in 0 .. MaxFaults
         /\ Work(s, Base[host[s]], Table(s), pc[s], num)
         /\ faults = 0 => Room(Table(s), pc[s], num) /\ Roomy(Base[host[s]])
<1>1. owner = s /\ host[s] \in Hosts
  BY DEF IInv, Types, OneWriter
<1>2. file \in Contents /\ Base \in Contents
  BY BaseIs DEF IInv, Types
<1> QED BY <1>1, <1>2 DEF IInv, Types, Fits, Working, HasRoom, Contents, Table

LEMMA RowsCounted ==
  ASSUME NEW t \in Tables
  PROVE  t # NoTable /\ t.rows \in Rows /\ Len(t.rows) \in Nat /\ t.num \in Int
BY HistAssumption, LenProperties DEF Tables, Rows

LEMMA OpenTableStep ==
  ASSUME IInv, NEW s \in Saves, OpenTable(s)
  PROVE  IInv'
<1>1. /\ pc[s] = "table" /\ pc' = [pc EXCEPT ![s] = "query"] /\ Table(s) # NoTable
      /\ UNCHANGED <<disk, file, owner, reading, num, host, faults>>
  BY DEF OpenTable, At
<1>2. pc[s] \in Holding /\ "query" \in Holding
  BY <1>1 DEF Holding
<1>3. file' = [file EXCEPT ![host[s]] = Table(s)]
  BY <1>1 DEF IInv, Types, Contents, Table
<1>4. Table(s) = Base[host[s]] /\ Table(s) \in Tables
  BY <1>1, <1>2, Owned DEF Work
<1>5. Work(s, Base[host[s]], Table(s), "query", num)
  BY <1>1, <1>4 DEF Work, Keeps
<1>6. faults = 0 => Room(Table(s), "query", num)
  BY <1>2, <1>4, Owned DEF Room
<1>7. faults \in faults .. MaxFaults
  BY <1>2, Owned, HistAssumption
<1> QED BY <1>1, <1>2, <1>3, <1>4, <1>5, <1>6, <1>7, Owned, OwnStep

LEMMA CreateTableStep ==
  ASSUME IInv, NEW s \in Saves, CreateTable(s)
  PROVE  IInv'
<1>1. /\ pc[s] = "table" /\ pc' = [pc EXCEPT ![s] = "attributes"] /\ Table(s) = NoTable
      /\ file' = [file EXCEPT ![host[s]] = NewTable]
      /\ UNCHANGED <<disk, owner, reading, num, host, faults>>
  BY DEF CreateTable, Writes, At
<1>2. pc[s] \in Holding /\ "attributes" \in Holding
  BY <1>1 DEF Holding
<1>3. Work(s, Base[host[s]], NewTable, "attributes", num)
  BY <1>1, <1>2, Owned DEF Work
<1>4. Fit(NewTable) /\ Room(NewTable, "attributes", num)
  <2>1. -1 \in -1 .. CHUNKSIZE
    BY HistAssumption
  <2> QED BY <2>1, NewTableFits DEF Fit, NoCount, Room
<1>5. faults \in faults .. MaxFaults
  BY <1>2, Owned, HistAssumption
<1> QED BY <1>1, <1>2, <1>3, <1>4, <1>5, NewTableFits, Owned, OwnStep

LEMMA WriteAttributesStep ==
  ASSUME IInv, NEW s \in Saves, WriteAttributes(s)
  PROVE  IInv'
<1> DEFINE t == [Table(s) EXCEPT !.num = 0]
<1>1. /\ pc[s] = "attributes" /\ pc' = [pc EXCEPT ![s] = "query"]
      /\ file' = [file EXCEPT ![host[s]] = t]
      /\ UNCHANGED <<disk, owner, reading, num, host, faults>>
  BY DEF WriteAttributes, Writes, At
<1>2. pc[s] \in Holding /\ "query" \in Holding
  BY <1>1 DEF Holding
<1>3. Table(s) = NewTable /\ Base[host[s]] = NoTable
  BY <1>1, <1>2, Owned DEF Work
<1>4. t \in Tables /\ t.num = 0 /\ Len(t.rows) = CHUNKSIZE /\ CHUNKSIZE \in Nat \ {0} /\ t # NoTable
  BY <1>3, NewTableFits, CountWritten, HistAssumption
<1> HIDE DEF t
<1>5. Sound(t) /\ Measurements(t) = << >>
  <2>1. Sound(t)
    BY <1>4 DEF Sound, NoCount
  <2>2. Measurements(t) = SubSeq(t.rows, 1, 0)
    BY <1>4 DEF Measurements
  <2>3. SubSeq(t.rows, 1, 0) = << >>
    BY SubSeqEmpty
  <2> QED BY <2>1, <2>2, <2>3
<1>6. Work(s, Base[host[s]], t, "query", num)
  <2>1. CHUNKSIZE > 0
    BY <1>4
  <2> QED BY <1>3, <1>4, <1>5, <2>1 DEF Work, Keeps, Measurements
<1>7. Fit(t) /\ Room(t, "query", num)
  <2>1. Fit(t)
    BY <1>4 DEF Fit
  <2>2. Roomy(t)
    BY <1>4, WholeChunks DEF Roomy
  <2> QED BY <2>1, <2>2 DEF Room
<1>8. faults \in faults .. MaxFaults
  BY <1>2, Owned, HistAssumption
<1> QED BY <1>1, <1>2, <1>4, <1>6, <1>7, <1>8, Owned, OwnStep

LEMMA QueryCountStep ==
  ASSUME IInv, NEW s \in Saves, QueryCount(s)
  PROVE  IInv'
<1>1. /\ pc[s] = "query" /\ pc' = [pc EXCEPT ![s] = "append"]
      /\ Table(s).num # NoCount => num' = Table(s).num
      /\ Table(s).num = NoCount => num' \in -1 .. Len(Table(s).rows)
      /\ UNCHANGED <<disk, file, owner, reading, host, faults>>
  BY DEF QueryCount, At
<1>2. pc[s] \in Holding /\ "append" \in Holding
  BY <1>1 DEF Holding
<1>3. Table(s) \in Tables /\ Keeps(Base[host[s]], Table(s))
  BY <1>1, <1>2, Owned DEF Work, Keeps
<1>4. file' = [file EXCEPT ![host[s]] = Table(s)]
  BY <1>1 DEF IInv, Types, Contents, Table
<1>5. num' \in Int
  BY <1>1, <1>3, RowsCounted
<1>6. Work(s, Base[host[s]], Table(s), "append", num')
  BY <1>1, <1>2, <1>3, Owned DEF Work, Counts
<1>7. ASSUME faults = 0 PROVE Room(Table(s), "append", num')
  <2>1. Roomy(Table(s))
    BY <1>1, <1>2, <1>7, Owned DEF Room
  <2>2. Table(s).num # NoCount
    BY <1>3, <2>1, RowsCounted DEF Roomy, NoCount
  <2> QED BY <1>1, <2>1, <2>2 DEF Room
<1>8. faults \in faults .. MaxFaults
  BY <1>2, Owned, HistAssumption
<1> QED BY <1>1, <1>2, <1>3, <1>4, <1>5, <1>6, <1>7, <1>8, Owned, OwnStep

LEMMA AppendStep ==
  ASSUME IInv, NEW s \in Saves, AppendHistData(s)
  PROVE  IInv'
<1> DEFINE b == Base[host[s]]
           u == [Table(s) EXCEPT !.rows[num + 1] = s]
<1>1. /\ pc[s] = "append" /\ pc' = [pc EXCEPT ![s] = "count"]
      /\ num \in 0 .. Len(Table(s).rows) - 1
      /\ file' = [file EXCEPT ![host[s]] = u]
      /\ UNCHANGED <<disk, owner, reading, num, host, faults>>
  BY DEF AppendHistData, Writes, At, InTable, Place
<1>2. pc[s] \in Holding /\ "count" \in Holding
  BY <1>1 DEF Holding
<1>3. PICK t \in Tables : t = Table(s)
  BY <1>1, <1>2, Owned DEF Work, Keeps
<1>4. Keeps(b, t) /\ Counts(t, num) /\ Fit(t) /\ (faults = 0 => Roomy(t) /\ num = t.num)
  BY <1>1, <1>2, <1>3, Owned DEF Work, Room
<1>5. t # NoTable /\ Len(t.rows) \in Nat /\ t.num \in Int /\ num \in Int
  BY <1>3, RowsCounted, <1>2, Owned
<1>6. num + 1 \in 1 .. Len(t.rows)
  BY <1>1, <1>3, <1>5
<1>7. /\ u \in Tables /\ u.num = t.num /\ Len(u.rows) = Len(t.rows) /\ u.rows[num + 1] = s
      /\ \A j \in 1 .. Len(t.rows) : j # num + 1 => u.rows[j] = t.rows[j]
  BY <1>3, <1>6, RowWritten
<1> HIDE DEF u, b
<1>8. u # NoTable
  BY <1>7, RowsCounted
<1>9. Keeps(b, u)
  <2> SUFFICES ASSUME Sound(b) PROVE Sound(u) /\ Measurements(u) = Measurements(b)
    BY <1>8 DEF Keeps
  <2>1. Sound(t) /\ Measurements(t) = Measurements(b)
    BY <1>4 DEF Keeps
  <2>2. num = t.num
    BY <1>4, <1>5, <2>1 DEF Sound, Counts
  <2>3. t.num <= Len(u.rows) /\ \A i \in 1 .. t.num : u.rows[i] = t.rows[i]
    BY <1>1, <1>3, <1>5, <1>7, <2>2
  <2> QED BY <1>4, <1>7, <2>1, <2>3, SameRows
<1>10. Fit(u) /\ Counts(u, num)
  BY <1>4, <1>5, <1>7 DEF Fit, Counts
<1>11. Work(s, b, u, "count", num)
  BY <1>1, <1>3, <1>7, <1>9, <1>10 DEF Work
<1>12. faults = 0 => Room(u, "count", num)
  BY <1>4, <1>5, <1>7 DEF Room, Roomy
<1>13. faults \in faults .. MaxFaults
  BY <1>2, Owned, HistAssumption
<1> QED BY <1>1, <1>2, <1>5, <1>7, <1>10, <1>11, <1>12, <1>13, Owned, OwnStep DEF b

LEMMA WriteCountStep ==
  ASSUME IInv, NEW s \in Saves, WriteCount(s)
  PROVE  IInv'
<1> DEFINE b == Base[host[s]]
           u == [Table(s) EXCEPT !.num = num + 1]
<1>1. /\ pc[s] = "count" /\ pc' = [pc EXCEPT ![s] = "extend"]
      /\ file' = [file EXCEPT ![host[s]] = u]
      /\ num' = num + 1 /\ UNCHANGED <<disk, owner, reading, host, faults>>
  BY DEF WriteCount, Writes, At
<1>2. pc[s] \in Holding /\ "extend" \in Holding
  BY <1>1 DEF Holding
<1>3. PICK t \in Tables : t = Table(s)
  BY <1>1, <1>2, Owned DEF Work, Keeps
<1>4. /\ Keeps(b, t) /\ Counts(t, num) /\ Fit(t) /\ (faults = 0 => Roomy(t) /\ num = t.num)
      /\ num \in 0 .. Len(t.rows) - 1 /\ t.rows[num + 1] = s
  BY <1>1, <1>2, <1>3, Owned DEF Work, Room
<1>5. t # NoTable /\ Len(t.rows) \in Nat /\ t.num \in Int /\ num \in Int /\ num + 1 \in Int
  BY <1>3, RowsCounted, <1>2, Owned
<1>6. u \in Tables /\ u.num = num + 1 /\ u.rows = t.rows
  BY <1>3, <1>5, CountWritten
<1> HIDE DEF u, b
<1>7. u # NoTable
  BY <1>6, RowsCounted
<1>8. Adds(b, u, s)
  <2> SUFFICES ASSUME Sound(b) PROVE Sound(u) /\ Measurements(u) = Append(Measurements(b), s)
    BY <1>7 DEF Adds
  <2>1. Sound(t) /\ Measurements(t) = Measurements(b)
    BY <1>4 DEF Keeps
  <2>2. num = t.num
    BY <1>4, <1>5, <2>1 DEF Sound, Counts
  <2>3. u.num = t.num + 1 /\ u.num <= Len(t.rows) /\ t.rows[u.num] = s
    BY <1>4, <1>5, <1>6, <2>2
  <2> QED BY <1>4, <1>6, <2>1, <2>3, CountAdds
<1>9. num + 1 \in 1 .. Len(u.rows) /\ Fit(u)
  BY <1>4, <1>5, <1>6 DEF Fit
<1>10. Work(s, b, u, "extend", num')
  BY <1>1, <1>6, <1>8, <1>9 DEF Work
<1>11. ASSUME faults = 0 PROVE Room(u, "extend", num')
  <2>1. Roomy(t) /\ num = t.num /\ CHUNKSIZE \in Nat
    BY <1>4, <1>11, HistAssumption
  <2>2. Len(t.rows) % CHUNKSIZE = 0 /\ Len(t.rows) <= num + CHUNKSIZE
    BY <1>5, <2>1 DEF Roomy
  <2>3. Len(t.rows) < num + 1 + CHUNKSIZE
    BY <1>5, <2>1, <2>2
  <2> QED BY <1>1, <1>6, <1>9, <2>2, <2>3 DEF Room
<1>12. faults \in faults .. MaxFaults
  BY <1>2, Owned, HistAssumption
<1> QED BY <1>1, <1>2, <1>5, <1>6, <1>9, <1>10, <1>11, <1>12, Owned, OwnStep DEF b

LEMMA ExtendStep ==
  ASSUME IInv, NEW s \in Saves, Extend(s) \/ NoExtension(s)
  PROVE  IInv'
<1> DEFINE b == Base[host[s]]
<1>1. /\ pc[s] = "extend" /\ pc' = [pc EXCEPT ![s] = "close"] /\ num' = num
      /\ UNCHANGED <<disk, owner, reading, host>>
  BY DEF Extend, NoExtension, Writes, At
<1>2. pc[s] \in Holding /\ "close" \in Holding
  BY <1>1 DEF Holding
<1>3. PICK t \in Tables : t = Table(s)
  BY <1>1, <1>2, Owned DEF Work, Adds
<1>4. /\ Adds(b, t, s) /\ Fit(t) /\ t.num = num /\ num \in 1 .. Len(t.rows)
      /\ faults = 0 => Room(t, "extend", num)
  BY <1>1, <1>2, <1>3, Owned DEF Work
<1>5. /\ t # NoTable /\ t.rows \in Rows /\ Len(t.rows) \in Nat /\ num \in Nat
      /\ CHUNKSIZE \in Nat \ {0} /\ faults \in 0 .. MaxFaults /\ MaxFaults \in Nat
  BY <1>2, <1>3, <1>4, RowsCounted, Owned, HistAssumption
<1> HIDE DEF b
<1>6. CASE /\ num % CHUNKSIZE = 0 /\ faults' = faults
           /\ file' = [file EXCEPT ![host[s]] = [t EXCEPT !.rows = WithExtent(t.rows, num + CHUNKSIZE)]]
  <2> DEFINE u == [t EXCEPT !.rows = WithExtent(t.rows, num + CHUNKSIZE)]
  <2> num + CHUNKSIZE \in Nat
    BY <1>5
  <2>1. /\ WithExtent(t.rows, num + CHUNKSIZE) \in Rows
        /\ Len(WithExtent(t.rows, num + CHUNKSIZE)) = num + CHUNKSIZE
        /\ \A i \in 1 .. num + CHUNKSIZE :
             i <= Len(t.rows) => WithExtent(t.rows, num + CHUNKSIZE)[i] = t.rows[i]
    BY <1>5, ExtentFits
  <2>2. u \in Tables /\ u.num = num /\ u.rows = WithExtent(t.rows, num + CHUNKSIZE)
    BY <1>4, <2>1, RowsWritten
  <2> HIDE DEF u
  <2>3. u # NoTable /\ Len(u.rows) = num + CHUNKSIZE /\ num <= Len(u.rows) /\ Fit(u)
    BY <1>5, <2>1, <2>2, RowsCounted DEF Fit
  <2>4. \A i \in 1 .. num : u.rows[i] = t.rows[i]
    BY <1>4, <1>5, <2>1, <2>2
  <2>5. Adds(b, u, s)
    BY <1>4, <2>2, <2>3, <2>4, SameRows DEF Adds
  <2>6. Work(s, b, u, "close", num')
    BY <2>5 DEF Work
  <2>7. Roomy(u)
    <3>1. (num + CHUNKSIZE) % CHUNKSIZE = 0
      BY <1>5, <1>6, WholeChunks
    <3>2. num \in 0 .. num + CHUNKSIZE - 1
      BY <1>5
    <3> QED BY <1>5, <2>2, <2>3, <3>1, <3>2 DEF Roomy
  <2>8. Room(u, "close", num')
    BY <2>7 DEF Room
  <2>9. num' \in Int /\ faults' \in faults .. MaxFaults
    BY <1>1, <1>5, <1>6
  <2>10. file' = [file EXCEPT ![host[s]] = u]
    BY <1>6 DEF u
  <2> QED BY <1>1, <1>2, <2>2, <2>3, <2>6, <2>8, <2>9, <2>10, Owned, OwnStep DEF b
<1>7. CASE /\ file' = [file EXCEPT ![host[s]] = t]
           /\ faults' \in faults .. MaxFaults
           /\ faults' > 0 \/ (num % CHUNKSIZE # 0 /\ faults' = faults)
  <2>1. Work(s, b, t, "close", num')
    BY <1>4 DEF Work
  <2>2. ASSUME faults' = 0 PROVE Room(t, "close", num')
    <3>1. num % CHUNKSIZE # 0 /\ faults = 0
      BY <1>5, <1>7, <2>2
    <3>2. Len(t.rows) % CHUNKSIZE = 0 /\ Len(t.rows) < num + CHUNKSIZE
      BY <1>4, <3>1 DEF Room
    <3>3. Len(t.rows) # num
      BY <3>1, <3>2
    <3>4. num \in 0 .. Len(t.rows) - 1 /\ Len(t.rows) <= num + CHUNKSIZE
      BY <1>4, <1>5, <3>2, <3>3
    <3>5. Roomy(t)
      BY <1>4, <3>2, <3>4 DEF Roomy
    <3> QED BY <3>5 DEF Room
  <2>3. num' \in Int
    BY <1>1, <1>5
  <2> QED BY <1>1, <1>2, <1>4, <1>7, <2>1, <2>2, <2>3, Owned, OwnStep DEF b
<1>8. CASE Extend(s)
  <2>1. CASE /\ Writes(s, "extend", "close", [Table(s) EXCEPT !.rows = WithExtent(@, NewExtent(num))])
             /\ UNCHANGED faults
    BY <1>3, <1>6, <1>8, <2>1 DEF Extend, Writes, NewExtent
  <2>2. CASE /\ faults < MaxFaults /\ faults' = faults + 1
             /\ Writes(s, "extend", "close", Table(s))
    <3>1. faults' \in faults .. MaxFaults /\ faults' > 0
      BY <1>5, <2>2
    <3> QED BY <1>3, <1>7, <2>2, <3>1 DEF Writes
  <2> QED BY <1>8, <2>1, <2>2 DEF Extend
<1>9. CASE NoExtension(s)
  <2>1. faults' = faults /\ faults' \in faults .. MaxFaults
    BY <1>5, <1>9 DEF NoExtension
  <2> QED BY <1>3, <1>7, <1>9, <2>1 DEF NoExtension, Writes
<1> QED BY <1>8, <1>9

LEMMA CloseStep ==
  ASSUME IInv, NEW s \in Saves, Close(s)
  PROVE  IInv'
<1>1. /\ pc[s] = "close" /\ pc' = [pc EXCEPT ![s] = "done"] /\ disk' = file
      /\ owner' = NoOne /\ file' = EmptyFile /\ num' = 0
      /\ UNCHANGED <<reading, host, faults>>
  BY DEF Close, At
<1>2. pc[s] \in Holding
  BY <1>1 DEF Holding
<1>3. faults = 0 => Roomy(file[host[s]])
  BY <1>1, <1>2, Owned DEF Room, Table
<1>4. faults' \in faults .. MaxFaults
  BY <1>1, <1>2, Owned, HistAssumption
<1> QED BY <1>1, <1>2, <1>3, <1>4, Owned, LeaveStep

LEMMA AbortStep ==
  ASSUME IInv, NEW s \in Saves, AppendAborts(s)
  PROVE  IInv'
<1>1. /\ pc[s] = "append" /\ pc' = [pc EXCEPT ![s] = "aborted"] /\ ~ InTable(s)
      /\ owner' = NoOne /\ file' = EmptyFile /\ num' = 0
      /\ UNCHANGED <<disk, reading, host, faults>>
  BY DEF AppendAborts, At
<1>2. pc[s] \in Holding
  BY <1>1 DEF Holding
<1>3. faults \in 0 .. MaxFaults /\ faults' \in faults .. MaxFaults
  BY <1>1, <1>2, Owned, HistAssumption
<1>4. faults > 0
  <2> SUFFICES ASSUME faults = 0 PROVE InTable(s)
    BY <1>1, <1>3, HistAssumption
  <2>1. Roomy(Table(s)) /\ num = Table(s).num /\ Table(s) # NoTable
    BY <1>1, <1>2, Owned DEF Room, Work, Keeps
  <2> QED BY <2>1 DEF Roomy, InTable, Place
<1>5. faults' = 0 /\ disk' = file => Roomy(file[host[s]])
  BY <1>1, <1>4
<1> QED BY <1>1, <1>2, <1>3, <1>4, <1>5, Owned, LeaveStep

LEMMA DieStep ==
  ASSUME IInv, NEW s \in Saves, Die(s)
  PROVE  IInv'
<1>1. faults' \in faults .. MaxFaults /\ faults' > 0
  BY HistAssumption DEF Die, IInv, Types
<1>2. /\ owner = s /\ pc' = [pc EXCEPT ![s] = "dead"] /\ disk' \in {disk, file, Unreadable}
      /\ owner' = NoOne /\ file' = EmptyFile /\ num' = 0 /\ UNCHANGED <<reading, host>>
  BY DEF Die
<1>3. faults' # 0
  BY <1>1
<1>4. PICK there \in {"done", "aborted", "dead"} : there = "dead"
  OBVIOUS
<1>5. pc' = [pc EXCEPT ![s] = there]
  BY <1>2, <1>4
<1> QED BY <1>1, <1>2, <1>3, <1>5, LeaveStep

LEMMA ReadStep ==
  ASSUME IInv, Summarize
  PROVE  IInv'
<1> USE DEF IInv
<1>1. /\ UNCHANGED <<disk, file, owner, pc, num, host, faults>>
      /\ IF reading THEN reading' = FALSE ELSE Readable /\ owner = NoOne /\ reading' = TRUE
  BY DEF Summarize
<1>2. Base' = Base /\ (Readable' <=> Readable)
  BY <1>1 DEF Base, Readable
<1>3. reading' \in BOOLEAN
  BY <1>1, Zenon
<1>4. Types'
  BY <1>1, <1>3 DEF Types
<1>5. OneWriter'
  BY <1>1, <1>2 DEF OneWriter, Types
<1>6. Fits' /\ Working' /\ HasRoom' /\ AbortsNeedFault'
  BY <1>1, <1>2 DEF Fits, Working, HasRoom, AbortsNeedFault
<1> QED BY <1>4, <1>5, <1>6

LEMMA NextInvariant ==
  ASSUME IInv, [Next]_vars
  PROVE  IInv'
<1>1. CASE UNCHANGED vars
  <2>1. Base' = Base /\ (Readable' <=> Readable)
    BY <1>1 DEF vars, Base, Readable
  <2>2. /\ UNCHANGED <<disk, file, owner, pc, num, host, faults>> /\ reading' = reading
    BY <1>1 DEF vars
  <2>3. Types' /\ OneWriter'
    BY <2>1, <2>2 DEF IInv, Types, OneWriter
  <2>4. Fits' /\ Working' /\ HasRoom' /\ AbortsNeedFault'
    BY <2>1, <2>2 DEF IInv, Fits, Working, HasRoom, AbortsNeedFault
  <2> QED BY <2>3, <2>4 DEF IInv
<1>2. ASSUME NEW s \in Saves, SaveHistTiming(s) PROVE IInv'
  <2>1. CASE NotInitialized(s) \/ Exists(s) \/ CannotOpen(s)
    <3>1. /\ pc[s] \in {"exists", "open", "create"}
          /\ \E there \in {"open", "create", "failed"} : pc' = [pc EXCEPT ![s] = there]
          /\ UNCHANGED <<disk, file, owner, reading, num, host, faults>>
      BY <2>1 DEF NotInitialized, Exists, CannotOpen, At
    <3>2. pc[s] \notin Holding
      BY <3>1 DEF Holding
    <3> QED BY <3>1, <3>2, OutsideStep
  <2> QED BY <1>2, <2>1, EnterStep, OpenTableStep, CreateTableStep, WriteAttributesStep,
             QueryCountStep, AppendStep, AbortStep, WriteCountStep, ExtendStep, CloseStep
          DEF SaveHistTiming
<1> QED BY <1>1, <1>2, DieStep, ReadStep DEF Next

THEOREM Invariance == Spec => []IInv
BY InitInvariant, NextInvariant, PTL DEF Spec

(* The types of the variables, and one writer at a time. *)
THEOREM TypeCorrect == Spec => []TypeOK
<1>1. IInv => TypeOK
  BY DEF IInv, Types, OneWriter, TypeOK
<1> QED BY <1>1, Invariance, PTL

(* Without a fault there is room for the next row in every table at every
   append (AppendHistData, H5Dset_extent in SaveHistTiming). *)
THEOREM RoomForRow == Spec => []AbortsNeedFault
<1>1. IInv => AbortsNeedFault
  BY DEF IInv
<1> QED BY <1>1, Invariance, PTL

-----------------------------------------------------------------------------
(* The log: every step of a save is a step of the log or changes nothing.   *)

log == [h \in Hosts |-> IF Readable /\ Sound(disk[h]) THEN Measurements(disk[h]) ELSE << >>]
void == {h \in Hosts : Readable /\ ~ Sound(disk[h])}
lost == disk = Unreadable /\ owner = NoOne
returned == {s \in Saves : pc[s] = "done"}

LogOf(t) == IF Sound(t) THEN Measurements(t) ELSE << >>

LEMMA LogOfFile ==
  ASSUME NEW d, NEW found,
         IF d \notin {NoFile, Unreadable} THEN found = d ELSE found = EmptyFile
  PROVE  /\ [h \in Hosts |-> IF d \notin {NoFile, Unreadable} /\ Sound(d[h])
                             THEN Measurements(d[h]) ELSE << >>]
            = [h \in Hosts |-> LogOf(found[h])]
         /\ {h \in Hosts : d \notin {NoFile, Unreadable} /\ ~ Sound(d[h])}
            = {h \in Hosts : ~ Sound(found[h])}
<1>1. CASE d \notin {NoFile, Unreadable}
  BY <1>1 DEF LogOf
<1>2. CASE d \in {NoFile, Unreadable}
  <2>1. \A h \in Hosts : found[h] = NoTable
    BY <1>2, EmptyFits
  <2>2. LogOf(NoTable) = << >> /\ Sound(NoTable)
    BY DEF LogOf, Sound, Measurements
  <2> QED BY <1>2, <2>1, <2>2
<1> QED BY <1>1, <1>2

LEMMA LogIs ==
  /\ log = [h \in Hosts |-> LogOf(Base[h])] /\ void = {h \in Hosts : ~ Sound(Base[h])}
  /\ log' = [h \in Hosts |-> LogOf(Base'[h])] /\ void' = {h \in Hosts : ~ Sound(Base'[h])}
<1>1. IF disk \notin {NoFile, Unreadable} THEN Base = disk ELSE Base = EmptyFile
  BY DEF Base, Readable
<1>2. IF disk' \notin {NoFile, Unreadable} THEN Base' = disk' ELSE Base' = EmptyFile
  BY DEF Base, Readable
<1>3. log = [h \in Hosts |-> LogOf(Base[h])] /\ void = {h \in Hosts : ~ Sound(Base[h])}
  BY <1>1, LogOfFile DEF log, void, Readable
<1>4. log' = [h \in Hosts |-> LogOf(Base'[h])] /\ void' = {h \in Hosts : ~ Sound(Base'[h])}
  BY <1>2, LogOfFile DEF log, void, Readable
<1> QED BY <1>3, <1>4

(* Tables that mean the same to a reader. *)
LEMMA SameLog ==
  ASSUME \A h \in Hosts : Base'[h] = Base[h]
  PROVE  log' = log /\ void' = void
BY LogIs

LEMMA InitRefines == Init => HostLog!Init
<1> SUFFICES ASSUME Init PROVE HostLog!Init
  OBVIOUS
<1>1. ~ Readable
  BY DEF Init, Readable
<1>2. log = [h \in Hosts |-> << >>] /\ void = {}
  BY <1>1 DEF log, void
<1>3. lost = FALSE /\ returned = {}
  BY HistAssumption DEF Init, lost, returned
<1> QED BY <1>2, <1>3 DEF HostLog!Init, Init, log, void, lost, returned

LEMMA QuietStep ==
  ASSUME IInv, IInv', \A h \in Hosts : Base'[h] = Base[h], lost' <=> lost,
         \A s \in Saves : pc'[s] = "done" <=> pc[s] = "done", UNCHANGED <<host, faults>>
  PROVE  UNCHANGED HostLog!vars
<1>1. log' = log /\ void' = void
  BY SameLog
<1>2. lost' = lost
  BY Zenon DEF lost
<1>3. returned' = returned
  BY DEF returned
<1> QED BY <1>1, <1>2, <1>3 DEF HostLog!vars, log, void, lost, returned

(* The owner leaves what it changed on disk. *)
LEMMA Written ==
  ASSUME IInv, IInv', NEW s \in Saves, owner = s, disk' = file
  PROVE  /\ Base' = file /\ ~ lost /\ ~ lost'
         /\ \A g \in Hosts \ {host[s]} : log'[g] = log[g] /\ (g \in void' <=> g \in void)
         /\ log'[host[s]] = LogOf(Table(s)) /\ log[host[s]] = LogOf(Base[host[s]])
         /\ host[s] \in void' <=> ~ Sound(Table(s))
         /\ host[s] \in void <=> ~ Sound(Base[host[s]])
<1>1. file \in Contents /\ host[s] \in Hosts /\ Types /\ Types' /\ NoOne \notin Saves
  BY HistAssumption DEF IInv, Types
<1>2. Base' = file
  BY <1>1, HistAssumption DEF Base, Readable
<1>3. ~ lost /\ ~ lost'
  BY <1>1, HistAssumption DEF lost
<1>4. \A g \in Hosts \ {host[s]} : file[g] = Base[g]
  BY DEF IInv, Working
<1>5. log' = [h \in Hosts |-> LogOf(file[h])] /\ void' = {h \in Hosts : ~ Sound(file[h])}
  BY <1>1, <1>2, LogIs
<1>6. log = [h \in Hosts |-> LogOf(Base[h])] /\ void = {h \in Hosts : ~ Sound(Base[h])}
  BY <1>1, LogIs
<1> QED BY <1>1, <1>2, <1>3, <1>4, <1>5, <1>6 DEF Table

LEMMA LogType == DOMAIN log = Hosts /\ void \subseteq Hosts /\ log = [h \in Hosts |-> log[h]]
BY DEF log, void

LEMMA RecordStep ==
  ASSUME IInv, IInv', NEW s \in Saves, owner = s, disk' = file,
         Sound(Base[host[s]]) => Adds(Base[host[s]], Table(s), s)
  PROVE  HostLog!Record(s)
<1>1. HostLog!Only(host[s])
  BY Written DEF HostLog!Only, log, void, lost
<1>2. ASSUME host[s] \notin void
      PROVE  log' = [log EXCEPT ![host[s]] = Append(@, s)] /\ void' = void
  <2>1. /\ Sound(Base[host[s]]) /\ Sound(Table(s)) /\ host[s] \in Hosts
        /\ Measurements(Table(s)) = Append(Measurements(Base[host[s]]), s)
    BY <1>2, Written DEF Adds, IInv, Types
  <2>2. log'[host[s]] = Append(log[host[s]], s) /\ host[s] \notin void'
    BY <2>1, Written DEF LogOf
  <2>3. \A g \in Hosts \ {host[s]} : log'[g] = log[g] /\ (g \in void' <=> g \in void)
    BY Written
  <2>4. void' = void
    <3>1. void' \subseteq Hosts /\ void \subseteq Hosts
      BY DEF void
    <3>2. \A g \in Hosts : g \in void' <=> g \in void
      BY <1>2, <2>2, <2>3
    <3> DEFINE v == void'
               w == void
    <3>3. v \subseteq Hosts /\ w \subseteq Hosts /\ \A g \in Hosts : g \in v <=> g \in w
      BY <3>1, <3>2
    <3> HIDE DEF v, w
    <3>4. v = w
      BY <3>3
    <3> QED BY <3>4 DEF v, w
  <2>5. log' = [h \in Hosts |-> log'[h]]
    BY DEF log
  <2> QED BY <2>1, <2>2, <2>3, <2>4, <2>5, LogType
<1> QED BY <1>1, <1>2 DEF HostLog!Record, log, void

LEMMA CloseRefines ==
  ASSUME IInv, IInv', NEW s \in Saves, Close(s)
  PROVE  HostLog!Next
<1>1. /\ pc[s] = "close" /\ pc' = [pc EXCEPT ![s] = "done"] /\ disk' = file
      /\ UNCHANGED <<host, faults>>
  BY DEF Close, At
<1>2. pc[s] \in Holding
  BY <1>1 DEF Holding
<1>3. owner = s /\ Adds(Base[host[s]], Table(s), s)
  BY <1>1, <1>2, Owned DEF Work
<1>4. HostLog!Record(s) /\ ~ lost
  BY <1>1, <1>3, RecordStep, Written
<1>5. s \notin returned /\ returned' = returned \cup {s}
  BY <1>1 DEF returned, IInv, Types
<1>6. HostLog!Save(s)
  BY <1>1, <1>4, <1>5 DEF HostLog!Save, lost, returned
<1> QED BY <1>6 DEF HostLog!Next

LEMMA DieRefines ==
  ASSUME IInv, IInv', NEW s \in Saves, Die(s)
  PROVE  HostLog!Next
<1> DEFINE b == Base[host[s]]
           t == Table(s)
<1>1. /\ owner = s /\ pc' = [pc EXCEPT ![s] = "dead"] /\ disk' \in {disk, file, Unreadable}
      /\ owner' = NoOne /\ faults' = faults + 1 /\ UNCHANGED host
  BY DEF Die
<1>2. pc[s] \in Holding /\ Types /\ Types'
  BY <1>1 DEF IInv, OneWriter
<1>3. s \notin returned /\ returned' = returned
  <2>1. pc[s] # "done"
    BY <1>2 DEF Holding
  <2> QED BY <1>1, <1>2, <2>1 DEF returned, Types
<1>4. ~ lost
  BY <1>1, HistAssumption DEF lost
<1> SUFFICES \/ log' = log /\ void' = void /\ lost' = lost
             \/ ~ lost /\ HostLog!Record(s)
             \/ /\ log[host[s]] = << >> /\ void' = void \cup {host[s]}
                /\ log' = log /\ lost' = lost
             \/ lost' = TRUE /\ log' = [h \in Hosts |-> << >>] /\ void' = {}
  <2>1. HostLog!Fault(s)
    BY <1>1, <1>3 DEF HostLog!Fault, log, void, lost, returned
  <2> QED BY <2>1 DEF HostLog!Next
<1>5. CASE disk' = Unreadable
  <2>1. lost' = TRUE /\ ~ Readable'
    BY <1>1, <1>5 DEF lost, Readable
  <2> QED BY <2>1 DEF log, void
<1>6. CASE disk' = disk /\ disk # Unreadable
  <2>1. Base' = Base /\ lost' = lost
    BY <1>1, <1>4, <1>6 DEF Base, Readable, lost
  <2> QED BY <1>2, <2>1, SameLog
<1>7. CASE disk' = file
  <2>0. Work(s, b, t, pc[s], num) /\ ~ lost'
    BY <1>1, <1>2, <1>7, Owned, Written
  <2>1. Work(s, b, t, pc[s], num) /\ lost' = lost
    BY <1>4, <2>0, Zenon DEF lost
  <2>2. CASE pc[s] = "table" \/ (pc[s] \in {"query", "append", "count"} /\ Sound(b))
    <3>1. LogOf(t) = LogOf(b) /\ (Sound(t) <=> Sound(b))
      BY <2>1, <2>2 DEF Work, Keeps, LogOf
    <3>2. /\ \A g \in Hosts : log'[g] = log[g] /\ (g \in void' <=> g \in void)
      BY <1>1, <1>7, <3>1, Written
    <3>3. log' = [h \in Hosts |-> log'[h]] /\ void' \subseteq Hosts
      BY DEF log, void
    <3> QED BY <2>1, <3>2, <3>3, LogType
  <2>3. CASE pc[s] = "attributes"
    <3>1. b = NoTable /\ t = NewTable
      BY <2>1, <2>3 DEF Work
    <3>2. ~ Sound(t) /\ Sound(b) /\ LogOf(t) = << >> /\ LogOf(b) = << >>
      BY <3>1, NewTableFits DEF Sound, LogOf, Measurements
    <3>3. /\ \A g \in Hosts : log'[g] = log[g]
          /\ \A g \in Hosts \ {host[s]} : g \in void' <=> g \in void
          /\ host[s] \in void' /\ log[host[s]] = << >>
      BY <1>1, <1>7, <3>2, Written
    <3>4. log' = [h \in Hosts |-> log'[h]] /\ void' \subseteq Hosts /\ host[s] \in Hosts
      BY <1>2 DEF log, void, Types
    <3> QED BY <2>1, <3>3, <3>4, LogType
  <2>4. CASE \/ pc[s] \in {"query", "append", "count"} /\ ~ Sound(b)
             \/ pc[s] \in {"extend", "close"}
    <3>1. Sound(b) => Adds(b, t, s)
      BY <2>1, <2>4 DEF Work
    <3> QED BY <1>1, <1>4, <1>7, <3>1, RecordStep
  <2> QED BY <1>2, <2>2, <2>3, <2>4 DEF Holding
<1> QED BY <1>1, <1>5, <1>6, <1>7

(* A new file always has room for its first row. *)
LEMMA AbortRefines ==
  ASSUME IInv, IInv', NEW s \in Saves, AppendAborts(s)
  PROVE  UNCHANGED HostLog!vars
<1> DEFINE b == Base[host[s]]
           t == Table(s)
<1>1. /\ pc[s] = "append" /\ pc' = [pc EXCEPT ![s] = "aborted"] /\ ~ InTable(s)
      /\ owner' = NoOne /\ UNCHANGED <<disk, host, faults>>
  BY DEF AppendAborts, At
<1>2. pc[s] \in Holding
  BY <1>1 DEF Holding
<1>3. owner = s /\ Keeps(b, t) /\ Counts(t, num) /\ (b = NoTable => Len(t.rows) > 0) /\ Fit(t)
  BY <1>1, <1>2, Owned DEF Work
<1>4. t \in Tables /\ host[s] \in Hosts
  BY <1>2, <1>3, Owned DEF Keeps
<1>5. b # NoTable
  <2> SUFFICES ASSUME b = NoTable PROVE InTable(s)
    BY <1>1
  <2>1. Sound(t) /\ Measurements(t) = << >> /\ t # NoTable
    BY <1>3 DEF Keeps, Sound, Measurements
  <2>2. t.num \in 0 .. Len(t.rows) /\ num = t.num
    BY <1>3, <1>4, <2>1, RowsCounted DEF Fit, Sound, Counts, NoCount
  <2>3. Len(Measurements(t)) = t.num
    BY <1>4, <2>2, MeasuredRows
  <2>4. num = 0
    BY <2>1, <2>2, <2>3
  <2>5. Len(t.rows) > 0 /\ Len(t.rows) \in Nat
    BY <1>3, <1>4, RowsCounted
  <2> HIDE DEF t
  <2>6. 0 \in 0 .. Len(t.rows) - 1
    BY <2>5
  <2> QED BY <2>4, <2>6 DEF InTable, Place, t
<1>6. Readable
  BY <1>4, <1>5, EmptyFits DEF Base
<1>7. lost' <=> lost
  BY <1>1, <1>6 DEF lost, Readable
<1>8. Base' = Base
  BY <1>1 DEF Base, Readable
<1>9. \A q \in Saves : pc'[q] = "done" <=> pc[q] = "done"
  BY <1>1 DEF IInv, Types
<1> QED BY <1>1, <1>7, <1>8, <1>9, QuietStep

LEMMA StepRefines ==
  ASSUME IInv, IInv', [Next]_vars
  PROVE  [HostLog!Next]_(HostLog!vars)
<1>1. CASE UNCHANGED vars
  BY <1>1 DEF vars, HostLog!vars, Readable
<1>2. CASE Summarize
  <2>1. UNCHANGED <<disk, owner, pc, host, faults>>
    BY <1>2 DEF Summarize
  <2> QED BY <2>1 DEF HostLog!vars, Readable
<1>3. ASSUME NEW s \in Saves, SaveHistTiming(s) PROVE [HostLog!Next]_(HostLog!vars)
  <2>1. CASE Close(s)
    BY <2>1, CloseRefines
  <2>2. CASE AppendAborts(s)
    BY <2>2, AbortRefines
  <2>3. CASE \/ NotInitialized(s) \/ Exists(s) \/ CannotOpen(s) \/ OpenTable(s) \/ CreateTable(s)
             \/ WriteAttributes(s) \/ QueryCount(s) \/ AppendHistData(s) \/ WriteCount(s)
             \/ NoExtension(s)
    <3>1. /\ UNCHANGED <<disk, owner, host, faults>> /\ pc[s] # "done"
          /\ \E there \in Stages \ {"done"} : pc' = [pc EXCEPT ![s] = there]
      BY <2>3 DEF NotInitialized, Exists, CannotOpen, OpenTable, CreateTable, WriteAttributes,
                  QueryCount, AppendHistData, WriteCount, NoExtension, Writes, At, Stages, Holding
    <3>2. Base' = Base /\ (lost' <=> lost)
      BY <3>1 DEF Base, Readable, lost
    <3>3. \A q \in Saves : pc'[q] = "done" <=> pc[q] = "done"
      BY <3>1 DEF IInv, Types
    <3> QED BY <3>1, <3>2, <3>3, QuietStep
  <2>4. CASE Open(s) \/ Create(s)
    <3>1. /\ UNCHANGED <<host, faults>> /\ pc[s] # "done" /\ owner' = s
          /\ pc' = [pc EXCEPT ![s] = "table"]
          /\ \/ disk' = disk /\ Readable
             \/ disk = NoFile /\ disk' = Unreadable
      BY <2>4 DEF Open, Create, At
    <3>2. Base' = Base /\ ~ lost /\ ~ lost'
      BY <3>1, HistAssumption DEF Base, Readable, lost
    <3>3. \A q \in Saves : pc'[q] = "done" <=> pc[q] = "done"
      BY <3>1 DEF IInv, Types
    <3> QED BY <3>1, <3>2, <3>3, QuietStep
  <2>5. CASE Extend(s)
    <3>1. /\ UNCHANGED <<disk, owner, host>> /\ pc[s] = "extend"
          /\ pc' = [pc EXCEPT ![s] = "close"]
          /\ faults' = faults \/ faults' = faults + 1
      BY <2>5 DEF Extend, Writes, At
    <3>2. Base' = Base /\ (lost' <=> lost)
      BY <3>1 DEF Base, Readable, lost
    <3>3. \A q \in Saves : pc'[q] = "done" <=> pc[q] = "done"
      BY <3>1 DEF IInv, Types
    <3>4. CASE faults' = faults
      BY <3>1, <3>2, <3>3, <3>4, QuietStep
    <3>5. CASE faults' = faults + 1
      <4>1. log' = log /\ void' = void
        BY <3>2, SameLog
      <4>2. lost' = lost
        BY <3>2, Zenon DEF lost
      <4>3. returned' = returned /\ s \notin returned
        BY <3>1, <3>3 DEF returned
      <4>4. HostLog!Fault(s)
        BY <3>1, <3>5, <4>1, <4>2, <4>3 DEF HostLog!Fault, log, void, lost, returned
      <4> QED BY <4>4 DEF HostLog!Next
    <3> QED BY <3>1, <3>4, <3>5
  <2> QED BY <1>3, <2>1, <2>2, <2>3, <2>4, <2>5 DEF SaveHistTiming
<1> QED BY <1>1, <1>2, <1>3, DieRefines DEF Next

(* Whatever the interleaving of savers and readers and wherever processes
   die, the file is an append-only log for each host (SaveHistTiming). *)
THEOREM LogRefines == Spec => LogSpec
BY InitRefines, StepRefines, Invariance, PTL DEF Spec, LogSpec, HostLog!Spec

=============================================================================

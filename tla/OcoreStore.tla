------------------------------ MODULE OcoreStore ------------------------------
(***************************************************************************)
(* The record store of ONE Ocore task (src/src/grvy_ramdisk.cpp): a map    *)
(* smap from sparse keys to datagrams, a ramdisk pool of MaxRecords slots, *)
(* a stack of freed slots and an overflow file.  The task is single        *)
(* threaded, so StoreData and PullData run to their end before the next    *)
(* request is looked at: each is one action, with the calls it makes       *)
(* (GetFreeRecord, DumptoDisk) inside it.                                  *)
(*                                                                         *)
(* A key is the pair (sending rank, header offset) of PollForWork; here it *)
(* is an opaque value.  A data block is an opaque value.                   *)
(*                                                                         *)
(* Operators whose comment starts with "Defect:" are never used by the     *)
(* specification; each is a plausible slip in the code it stands next to,  *)
(* kept to confirm that a property notices it.                             *)
(***************************************************************************)
EXTENDS Integers, Sequences, FiniteSets, Functions

CONSTANTS
  Keys,             \* sparse keys the work tasks use
  Data,             \* contents of a data block
  NoReply,          \* "nothing sent back yet", not a data block
  Zero,             \* the zero block every pool slot starts with
  MaxRecords,       \* max_num_records: slots of the ramdisk pool
  Watermarks,       \* ratios <<numerator, denominator>> the input may set
  MaxReads,         \* bound on read_count of a datagram
  MaxWrites         \* bound on write_count of a datagram

ASSUME StoreAssumption ==
  /\ MaxRecords \in Nat
  /\ Watermarks \subseteq Nat \X Nat
  /\ \A r \in Watermarks : 0 < r[1] /\ r[1] < r[2]
  /\ MaxReads \in Nat /\ MaxWrites \in Nat

VARIABLES
  smap,                     \* key -> datagram, for every key ever written
  pool,                     \* ramdisk slot -> block
  disk,                     \* overflow file: written file slot -> block
  free_records,             \* stack of freed ramdisk slots, top is last
  num_active_records,
  num_active_disk_records,
  overflow_triggered,
  reply,                    \* block most recently sent to a work task
  up,                       \* FALSE once MPI_Abort has been called
  dump_watermark_ratio      \* <<numerator, denominator>>, set once

vars == <<smap, pool, disk, free_records, num_active_records,
          num_active_disk_records, overflow_triggered, reply, up,
          dump_watermark_ratio>>

\* The master reads use_disk_overflow but does not broadcast it: an Ocore
\* task keeps the constructor's TRUE, whatever the input says (OcoreSession).
use_disk_overflow == TRUE

Slots == 0 .. MaxRecords - 1
Block == Data \cup {Zero}

Datagram == [in_mem : BOOLEAN, index : Nat, read_count : Nat, write_count : Nat]

InMem  == {k \in DOMAIN smap : smap[k].in_mem}
OnDisk == {k \in DOMAIN smap : ~ smap[k].in_mem}

-----------------------------------------------------------------------------
(* DumptoDisk: which records leave the ramdisk, and what that changes.      *)

\* Defect: the cast binds the ratio, so the share is truncated to 0.
NumToDumpCastEarly ==
  (dump_watermark_ratio[1] \div dump_watermark_ratio[2]) * Cardinality(InMem)

\* The watermark share of n records, truncated.
Share(n) == (dump_watermark_ratio[1] * n) \div dump_watermark_ratio[2]

\* How many records one dump moves.
NumToDump == Share(Cardinality(InMem))

\* Defect: ComparePriority reversed, the most read records leave first.
DumpOrdersReversed ==
  {q \in [1 .. NumToDump -> InMem] :
     /\ IsInjective(q)
     /\ \A k \in InMem \ Range(q), i \in 1 .. NumToDump :
          smap[q[i]].read_count >= smap[k].read_count}

\* The orders in which the priority queue can yield its first NumToDump
\* records: by ascending read_count, ties in any order.
DumpOrders ==
  {q \in [1 .. NumToDump -> InMem] :
     /\ IsInjective(q)
     /\ \A i, j \in 1 .. NumToDump :
          i < j => smap[q[i]].read_count <= smap[q[j]].read_count
     /\ \A k \in InMem \ Range(q), i \in 1 .. NumToDump :
          smap[q[i]].read_count <= smap[k].read_count}

Place(q, k) == CHOOSE i \in DOMAIN q : q[i] = k

\* Defect: the file slot is not advanced within one dump.
DumpedMapSameSlot(q) ==
  [k \in DOMAIN smap |->
     IF k \in Range(q)
     THEN [smap[k] EXCEPT !.in_mem = FALSE, !.index = num_active_disk_records]
     ELSE smap[k]]

\* smap after the records q (in this order) were written to the file.
DumpedMap(q) ==
  [k \in DOMAIN smap |->
     IF k \in Range(q)
     THEN [smap[k] EXCEPT !.in_mem = FALSE,
                          !.index  = num_active_disk_records + Place(q, k) - 1]
     ELSE smap[k]]

\* Defect: blocks written in the opposite order to the recorded file slots.
DumpedDiskReversed(q) ==
  [i \in DOMAIN disk \cup
         num_active_disk_records .. num_active_disk_records + Len(q) - 1 |->
     IF i >= num_active_disk_records
     THEN pool[smap[q[Len(q) - (i - num_active_disk_records)]].index]
     ELSE disk[i]]

\* The overflow file after the blocks of q were appended.
DumpedDisk(q) ==
  [i \in DOMAIN disk \cup
         num_active_disk_records .. num_active_disk_records + Len(q) - 1 |->
     IF i >= num_active_disk_records
     THEN pool[smap[q[i - num_active_disk_records + 1]].index]
     ELSE disk[i]]

\* Defect: the stack is rebuilt, slots already free are forgotten.
FreedByForgetful(q) == [i \in 1 .. Len(q) |-> smap[q[i]].index]

\* free_records after the slots of q were pushed.
FreedBy(q) == free_records \o [i \in 1 .. Len(q) |-> smap[q[i]].index]

\* Defects: top() reads the other end; pop() is missing.
TopAtBottom(stack) == stack[1]
PoppedNot(stack) == stack

Top(stack) == stack[Len(stack)]
Popped(stack) == SubSeq(stack, 1, Len(stack) - 1)

\* Defect: the record stored after a dump is not counted at all.
CountAfterDumpUncounted(q) == num_active_records - Len(q)

\* num_active_records once DumptoDisk has run and the new record has been
\* stored: GetFreeRecord counts the record (line 1646), StoreData counts it
\* again (line 1427).
CountAfterDump(q) == num_active_records - Len(q) + 2

-----------------------------------------------------------------------------
(* StoreData for a new key, by the three ways GetFreeRecord ends.           *)

\* Defects: the capacity test off by one, either way.
HasRoomOneMore == num_active_records <= MaxRecords
HasRoomOneLess == num_active_records + 1 < MaxRecords

HasRoom == num_active_records < MaxRecords

NewDatagram(slot) ==
  [in_mem |-> TRUE, index |-> slot, read_count |-> 0, write_count |-> 1]

\* The rest of StoreData once GetFreeRecord has returned slot: map is smap
\* as GetFreeRecord left it.
Install(map, key, slot, d) ==
  /\ smap' = [k \in DOMAIN map \cup {key} |->
                IF k = key THEN NewDatagram(slot) ELSE map[k]]
  /\ pool' = [pool EXCEPT ![slot] = d]

\* No slot has been freed: hand out the next never-used slot.
StoreFresh(key, d) ==
  /\ up /\ key \notin DOMAIN smap
  /\ HasRoom /\ free_records = << >>
  /\ Install(smap, key, num_active_records, d)
  /\ num_active_records' = num_active_records + 1
  /\ UNCHANGED <<disk, free_records, num_active_disk_records,
                 overflow_triggered, reply, up,
                 dump_watermark_ratio>>

\* Reuse the most recently freed slot.
StoreReuse(key, d) ==
  /\ up /\ key \notin DOMAIN smap
  /\ HasRoom /\ free_records # << >>
  /\ Install(smap, key, Top(free_records), d)
  /\ free_records' = Popped(free_records)
  /\ num_active_records' = num_active_records + 1
  /\ UNCHANGED <<disk, num_active_disk_records, overflow_triggered, reply, up,
                 dump_watermark_ratio>>

\* The counter says the ramdisk is full: dump, then take a freed slot.
StoreOverflow(key, d) ==
  /\ up /\ key \notin DOMAIN smap
  /\ ~ HasRoom /\ use_disk_overflow
  /\ \E q \in DumpOrders :
       /\ FreedBy(q) # << >>
       /\ disk' = DumpedDisk(q)
       /\ num_active_disk_records' = num_active_disk_records + Len(q)
       /\ free_records' = Popped(FreedBy(q))
       /\ num_active_records' = CountAfterDump(q)
       /\ Install(DumpedMap(q), key, Top(FreedBy(q)), d)
  /\ overflow_triggered' = TRUE
  /\ UNCHANGED <<reply, up, dump_watermark_ratio>>

\* The ramdisk is full and overflow is disabled, or the dump moved nothing
\* and the assertion of GetFreeRecord fails: the job is aborted.
StoreRefused(key) ==
  /\ up /\ key \notin DOMAIN smap
  /\ ~ HasRoom
  /\ use_disk_overflow => free_records = << >> /\ NumToDump = 0
  /\ up' = FALSE
  /\ overflow_triggered' = (overflow_triggered \/ use_disk_overflow)
  /\ UNCHANGED <<smap, pool, disk, free_records, num_active_records,
                 num_active_disk_records, reply, dump_watermark_ratio>>

\* StoreData for a key the task already holds: overwrite it where it lives.
StoreUpdate(key, d) ==
  /\ up /\ key \in DOMAIN smap
  /\ smap[key].write_count < MaxWrites
  /\ smap' = [smap EXCEPT ![key].write_count = @ + 1]
  /\ IF smap[key].in_mem
     THEN pool' = [pool EXCEPT ![smap[key].index] = d] /\ UNCHANGED disk
     ELSE disk' = [disk EXCEPT ![smap[key].index] = d] /\ UNCHANGED pool
  /\ UNCHANGED <<free_records, num_active_records, num_active_disk_records,
                 overflow_triggered, reply, up,
                 dump_watermark_ratio>>

StoreData(key, d) ==
  \/ StoreFresh(key, d)
  \/ StoreReuse(key, d)
  \/ StoreOverflow(key, d)
  \/ StoreRefused(key)
  \/ StoreUpdate(key, d)

\* The block held for a key, wherever it lives.
ValueOf(key) ==
  IF smap[key].in_mem THEN pool[smap[key].index] ELSE disk[smap[key].index]

\* PullData asserts that the key is known; OcoreProtocol shows that a work
\* task never asks for another.
PullData(key) ==
  /\ up /\ key \in DOMAIN smap
  /\ smap[key].read_count < MaxReads
  /\ smap' = [smap EXCEPT ![key].read_count = @ + 1]
  /\ reply' = ValueOf(key)
  /\ UNCHANGED <<pool, disk, free_records, num_active_records,
                 num_active_disk_records, overflow_triggered, up,
                 dump_watermark_ratio>>

-----------------------------------------------------------------------------
Init ==
  /\ smap = [k \in {} |-> NewDatagram(0)]
  /\ pool = [i \in Slots |-> Zero]
  /\ disk = [i \in {} |-> Zero]
  /\ free_records = << >>
  /\ num_active_records = 0
  /\ num_active_disk_records = 0
  /\ overflow_triggered = FALSE
  /\ reply = NoReply
  /\ up = TRUE
  /\ dump_watermark_ratio \in Watermarks

Next == \E key \in Keys : PullData(key) \/ \E d \in Data : StoreData(key, d)

Spec == Init /\ [][Next]_vars

-----------------------------------------------------------------------------
(* Properties.                                                              *)

\* Every variable has its type: a resident datagram names a pool slot, a
\* dumped one a written slot of the overflow file.
TypeOK ==
  /\ DOMAIN smap \subseteq Keys
  /\ smap \in [DOMAIN smap -> Datagram]
  /\ pool \in [Slots -> Block]
  /\ \A k \in InMem : smap[k].index \in Slots
  /\ DOMAIN disk = 0 .. num_active_disk_records - 1
  /\ \A i \in DOMAIN disk : disk[i] \in Block
  /\ \A k \in OnDisk : smap[k].index \in DOMAIN disk
  /\ free_records \in Seq(Slots)
  /\ num_active_records \in Int
  /\ num_active_disk_records \in Nat
  /\ overflow_triggered \in BOOLEAN
  /\ reply \in Block \cup {NoReply}
  /\ up \in BOOLEAN
  /\ dump_watermark_ratio \in Watermarks

\* No ramdisk slot serves two purposes: two resident records never share a
\* slot, no slot is twice on the stack of free_records, and no slot on the
\* stack still holds a resident record.  GetFreeRecord hands out slots from
\* two sources (the counter and the stack), so either could collide.
SlotsExclusive ==
  /\ \A j, k \in InMem : smap[j].index = smap[k].index => j = k
  /\ IsInjective(free_records)
  /\ \A k \in InMem : smap[k].index \notin Range(free_records)

\* No ramdisk slot is lost: until the first dump exactly the slots below
\* num_active_records are occupied, and from then on every slot is occupied
\* or on the stack, whatever the counter says.
SlotsAccounted ==
  LET occupied == {smap[k].index : k \in InMem}
  IN  IF overflow_triggered
      THEN occupied \cup Range(free_records) = Slots
      ELSE occupied = 0 .. num_active_records - 1 /\ free_records = << >>

\* The overflow file has no hole and no slot shared by two keys: the dumped
\* records are in one-to-one correspondence with the file slots below
\* num_active_disk_records.
FileDense ==
  /\ {smap[k].index : k \in OnDisk} = 0 .. num_active_disk_records - 1
  /\ \A j, k \in OnDisk : smap[j].index = smap[k].index => j = k

\* Why GetFreeRecord never hands out a slot twice: until the first dump the
\* counter is within the pool, and from then on counter and stack together
\* exceed the pool, so a counter below max_num_records means that a freed slot
\* is on the stack and the counter itself is not used as a slot.
SlotSupply ==
  IF overflow_triggered
  THEN up => num_active_records + Len(free_records) > MaxRecords
  ELSE num_active_records \in 0 .. MaxRecords

\* num_active_records never understates the ramdisk: when GetFreeRecord
\* finds it below max_num_records, fewer than max_num_records records are
\* resident.
RoomIsReal == HasRoom => Cardinality(InMem) < MaxRecords

\* A new record is refused only when the ramdisk really is full, however far
\* num_active_records has drifted from the number of resident records.
RefusesOnlyWhenFull ==
  [][up /\ ~ up' => Cardinality(InMem) = MaxRecords]_vars

\* With overflow enabled and a watermark share of the whole pool that is at
\* least one record, no sequence of writes and reads makes the assertion
\* !free_records.empty() of GetFreeRecord fail.
OverflowNeverAborts ==
  use_disk_overflow /\ Share(MaxRecords) >= 1 => up

\* A record leaves the ramdisk only if every record that was resident and
\* stays has been read at least as often; and no record ever comes back.
EvictsLeastRead ==
  [][/\ \A k \in InMem \ InMem', j \in InMem \cap InMem' :
          smap[k].read_count <= smap[j].read_count
     /\ \A k \in OnDisk : k \in OnDisk' /\ smap'[k].index = smap[k].index]_vars

\* The task implements the map it promises: through dumps, slot reuse and
\* updates in memory or on disk, a read returns the block last written under
\* its key, and storing one record changes no other.
Store == INSTANCE RecordStore
           WITH records <- [k \in DOMAIN smap |-> ValueOf(k)]

StoreSpec == Store!Spec
=============================================================================

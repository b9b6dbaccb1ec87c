--------------------------- MODULE OcoreStoreProofs ---------------------------
(***************************************************************************)
(* Proofs about OcoreStore, for every set of keys and blocks, every pool   *)
(* size and every watermark ratio.                                         *)
(***************************************************************************)
EXTENDS OcoreStore, FunctionTheorems, FiniteSetTheorems, SequenceTheorems, TLAPS

-----------------------------------------------------------------------------
(* Stacks of slots.                                                         *)

\* Popping a stack without duplicates removes exactly its top.
LEMMA PopStack ==
  ASSUME NEW S, NEW stack \in Seq(S), stack # << >>, IsInjective(stack)
  PROVE  /\ Popped(stack) \in Seq(S)
         /\ Len(Popped(stack)) = Len(stack) - 1
         /\ IsInjective(Popped(stack))
         /\ Top(stack) \in S
         /\ Range(Popped(stack)) = Range(stack) \ {Top(stack)}
<1>1. Len(stack) \in Nat /\ Len(stack) >= 1 /\ DOMAIN stack = 1 .. Len(stack)
  BY EmptySeq, LenProperties
<1>2. \A i \in 1 .. Len(stack) : stack[i] \in S
  BY ElementOfSeq
<1>3. /\ Popped(stack) \in Seq(S)
      /\ Len(Popped(stack)) = Len(stack) - 1
      /\ \A i \in 1 .. Len(stack) - 1 : Popped(stack)[i] = stack[i]
  BY <1>1, <1>2, SubSeqProperties DEF Popped
<1>4. DOMAIN Popped(stack) = 1 .. Len(stack) - 1
  BY <1>3, LenProperties
<1>5. IsInjective(Popped(stack))
  BY <1>1, <1>3, <1>4 DEF IsInjective
<1>6. Range(Popped(stack)) = Range(stack) \ {Top(stack)}
  BY <1>1, <1>3, <1>4 DEF IsInjective, Range, Top
<1> QED
  BY <1>1, <1>2, <1>3, <1>5, <1>6 DEF Top

\* Pushing the distinct slots of a sequence, none of which is on the stack.
LEMMA PushAll ==
  ASSUME NEW S, NEW stack \in Seq(S), NEW new \in Seq(S),
         IsInjective(stack), IsInjective(new), Range(stack) \cap Range(new) = {}
  PROVE  /\ stack \o new \in Seq(S)
         /\ Len(stack \o new) = Len(stack) + Len(new)
         /\ IsInjective(stack \o new)
         /\ Range(stack \o new) = Range(stack) \cup Range(new)
<1>1. /\ stack \o new \in Seq(S)
      /\ Len(stack \o new) = Len(stack) + Len(new)
      /\ \A i \in 1 .. Len(stack) + Len(new) :
           (stack \o new)[i] = IF i <= Len(stack) THEN stack[i] ELSE new[i - Len(stack)]
  BY ConcatProperties
<1>2. /\ Len(stack) \in Nat /\ DOMAIN stack = 1 .. Len(stack)
      /\ Len(new) \in Nat /\ DOMAIN new = 1 .. Len(new)
      /\ DOMAIN (stack \o new) = 1 .. Len(stack) + Len(new)
  BY <1>1, LenProperties
<1>3. Range(stack \o new) = Range(stack) \cup Range(new)
  BY RangeConcatenation
<1>4. ASSUME NEW i \in DOMAIN (stack \o new), NEW j \in DOMAIN (stack \o new),
             (stack \o new)[i] = (stack \o new)[j]
      PROVE  i = j
  <2>1. CASE i <= Len(stack) /\ j <= Len(stack)
    BY <1>1, <1>2, <1>4, <2>1 DEF IsInjective
  <2>2. CASE i > Len(stack) /\ j > Len(stack)
    <3>1. i - Len(stack) \in DOMAIN new /\ j - Len(stack) \in DOMAIN new
      BY <1>2, <2>2
    <3>2. new[i - Len(stack)] = new[j - Len(stack)]
      BY <1>1, <1>2, <1>4, <2>2
    <3>3. i - Len(stack) = j - Len(stack)
      BY <3>1, <3>2 DEF IsInjective
    <3> QED BY <1>2, <3>3
  <2>3. CASE i <= Len(stack) /\ j > Len(stack)
    <3>1. stack[i] = new[j - Len(stack)] /\ i \in DOMAIN stack /\ j - Len(stack) \in DOMAIN new
      BY <1>1, <1>2, <1>4, <2>3
    <3> QED BY <3>1 DEF Range
  <2>4. CASE i > Len(stack) /\ j <= Len(stack)
    <3>1. stack[j] = new[i - Len(stack)] /\ j \in DOMAIN stack /\ i - Len(stack) \in DOMAIN new
      BY <1>1, <1>2, <1>4, <2>4
    <3> QED BY <3>1 DEF Range
  <2> QED BY <1>2, <2>1, <2>2, <2>3, <2>4
<1> QED BY <1>1, <1>3, <1>4 DEF IsInjective

-----------------------------------------------------------------------------
(* The inductive invariant.                                                 *)

IInv == TypeOK /\ SlotsExclusive /\ SlotsAccounted /\ FileDense /\ SlotSupply

\* The resident keys inject into the slots: they are finitely many, at most
\* max_num_records.
LEMMA ResidentBound ==
  ASSUME TypeOK, SlotsExclusive
  PROVE  /\ IsFiniteSet(InMem)
         /\ Cardinality(InMem) \in Nat
         /\ Cardinality(InMem) <= MaxRecords
<1> DEFINE f == [k \in InMem |-> smap[k].index]
<1>1. f \in Injection(InMem, Slots)
  BY DEF TypeOK, SlotsExclusive, Injection, IsInjective
<1>2. IsFiniteSet(Slots) /\ Cardinality(Slots) = MaxRecords
  <2>1. 0 \in Int /\ MaxRecords - 1 \in Int /\ MaxRecords \in Nat
    BY StoreAssumption
  <2> QED BY <2>1, FS_Interval DEF Slots
<1>3. IsFiniteSet(InMem) /\ Cardinality(InMem) <= Cardinality(Slots)
  BY <1>1, <1>2, FS_Injection
<1> QED BY <1>2, <1>3, FS_CardinalityType

\* A dump moves a natural number of records.
LEMMA NumToDumpType ==
  ASSUME TypeOK, SlotsExclusive
  PROVE  NumToDump \in Nat
<1>1. /\ dump_watermark_ratio[1] \in Nat
      /\ dump_watermark_ratio[2] \in Nat
      /\ 0 < dump_watermark_ratio[2]
  BY StoreAssumption DEF TypeOK
<1>2. Cardinality(InMem) \in Nat
  BY ResidentBound
<1>3. dump_watermark_ratio[1] * Cardinality(InMem) \in Nat
  BY <1>1, <1>2
<1> QED
  BY <1>1, <1>3 DEF NumToDump, Share

Resident(map) == {k \in DOMAIN map : map[k].in_mem}
Filed(map)    == {k \in DOMAIN map : ~ map[k].in_mem}

\* The records one dump moves: distinct resident records in a sequence, each
\* with its place.
LEMMA DumpOrder ==
  ASSUME TypeOK, SlotsExclusive, NEW q \in DumpOrders
  PROVE  /\ Len(q) \in Nat /\ DOMAIN q = 1 .. Len(q)
         /\ IsInjective(q)
         /\ \A i \in 1 .. Len(q) : q[i] \in InMem
         /\ Range(q) \subseteq InMem
         /\ \A k \in Range(q) : Place(q, k) \in 1 .. Len(q) /\ q[Place(q, k)] = k
         /\ \A i \in 1 .. Len(q) : Place(q, q[i]) = i
<1>1. /\ q \in Seq(InMem) /\ Len(q) = NumToDump /\ Len(q) \in Nat
      /\ DOMAIN q = 1 .. Len(q) /\ IsInjective(q)
  <2>1. NumToDump \in Nat
    BY NumToDumpType
  <2>2. q \in [1 .. NumToDump -> InMem] /\ IsInjective(q)
    BY DEF DumpOrders
  <2> QED BY <2>1, <2>2
<1>2. \A i \in 1 .. Len(q) : q[i] \in InMem
  BY <1>1
<1>3. Range(q) \subseteq InMem
  BY <1>1, <1>2 DEF Range
<1>4. \A k \in Range(q) : Place(q, k) \in 1 .. Len(q) /\ q[Place(q, k)] = k
  BY <1>1 DEF Range, Place
<1>5. ASSUME NEW i \in 1 .. Len(q) PROVE Place(q, q[i]) = i
  <2>1. q[i] \in Range(q)
    BY <1>1 DEF Range
  <2>2. Place(q, q[i]) \in DOMAIN q /\ q[Place(q, q[i])] = q[i]
    BY <1>1, <1>4, <2>1
  <2> QED BY <1>1, <2>2 DEF IsInjective
<1> QED BY <1>1, <1>2, <1>3, <1>4, <1>5

\* What DumptoDisk does to the map.
LEMMA DumpMap ==
  ASSUME TypeOK, SlotsExclusive, NEW q \in DumpOrders
  PROVE  /\ DumpedMap(q) \in [DOMAIN smap -> Datagram]
         /\ DOMAIN DumpedMap(q) = DOMAIN smap
         /\ Resident(DumpedMap(q)) = InMem \ Range(q)
         /\ \A k \in DOMAIN smap \ Range(q) : DumpedMap(q)[k] = smap[k]
         /\ \A k \in Range(q) :
              /\ DumpedMap(q)[k].in_mem = FALSE
              /\ DumpedMap(q)[k].index = num_active_disk_records + Place(q, k) - 1
<1>1. /\ Len(q) \in Nat /\ Range(q) \subseteq InMem
      /\ \A k \in Range(q) : Place(q, k) \in 1 .. Len(q)
  BY DumpOrder
<1>2. \A k \in Range(q) :
        DumpedMap(q)[k] = [in_mem      |-> FALSE,
                           index       |-> num_active_disk_records + Place(q, k) - 1,
                           read_count  |-> smap[k].read_count,
                           write_count |-> smap[k].write_count]
  BY <1>1 DEF DumpedMap, TypeOK, Datagram, InMem
<1>3. /\ DOMAIN DumpedMap(q) = DOMAIN smap
      /\ \A k \in DOMAIN smap \ Range(q) : DumpedMap(q)[k] = smap[k]
  BY DEF DumpedMap
<1>4. \A k \in Range(q) :
        /\ DumpedMap(q)[k].in_mem = FALSE
        /\ DumpedMap(q)[k].index = num_active_disk_records + Place(q, k) - 1
  <2> SUFFICES ASSUME NEW k \in Range(q)
               PROVE  /\ DumpedMap(q)[k].in_mem = FALSE
                      /\ DumpedMap(q)[k].index = num_active_disk_records + Place(q, k) - 1
    OBVIOUS
  <2> DEFINE ix == num_active_disk_records + Place(q, k) - 1
             rc == smap[k].read_count
             wc == smap[k].write_count
  <2>1. DumpedMap(q)[k] = [in_mem |-> FALSE, index |-> ix,
                           read_count |-> rc, write_count |-> wc]
    BY <1>2
  <2> HIDE DEF ix, rc, wc
  <2>2. DumpedMap(q)[k].in_mem = FALSE /\ DumpedMap(q)[k].index = ix
    BY <2>1
  <2> QED BY <2>2 DEF ix
<1>5. DumpedMap(q) \in [DOMAIN smap -> Datagram]
  <2>1. ASSUME NEW k \in Range(q) PROVE DumpedMap(q)[k] \in Datagram
    <3> DEFINE ix == num_active_disk_records + Place(q, k) - 1
               rc == smap[k].read_count
               wc == smap[k].write_count
    <3>1. smap[k] \in Datagram
      BY <1>1 DEF TypeOK, InMem
    <3>2. Place(q, k) \in 1 .. Len(q) /\ num_active_disk_records \in Nat
      BY <1>1 DEF TypeOK
    <3>3. ix \in Nat /\ rc \in Nat /\ wc \in Nat
      BY <1>1, <3>1, <3>2 DEF Datagram
    <3>4. DumpedMap(q)[k] = [in_mem |-> FALSE, index |-> ix,
                             read_count |-> rc, write_count |-> wc]
      BY <1>2
    <3> HIDE DEF ix, rc, wc
    <3> QED BY <3>3, <3>4 DEF Datagram
  <2>2. \A k \in DOMAIN smap \ Range(q) : DumpedMap(q)[k] \in Datagram
    BY <1>3 DEF TypeOK
  <2>3. DumpedMap(q) = [k \in DOMAIN smap |-> DumpedMap(q)[k]]
    BY DEF DumpedMap
  <2> QED BY <2>1, <2>2, <2>3
<1>6. \A k : k \in Resident(DumpedMap(q)) <=> k \in InMem \ Range(q)
  <2>1. ASSUME NEW k \in Resident(DumpedMap(q)) PROVE k \in InMem \ Range(q)
    <3>1. k \in DOMAIN smap /\ DumpedMap(q)[k].in_mem
      BY <1>3 DEF Resident
    <3>2. k \notin Range(q)
      BY <1>4, <3>1
    <3> QED BY <1>3, <3>1, <3>2 DEF InMem
  <2>2. ASSUME NEW k \in InMem \ Range(q) PROVE k \in Resident(DumpedMap(q))
    <3>1. k \in DOMAIN smap \ Range(q) /\ smap[k].in_mem
      BY DEF InMem
    <3>2. k \in DOMAIN DumpedMap(q) /\ DumpedMap(q)[k].in_mem
      BY <1>3, <3>1
    <3> QED BY <3>2 DEF Resident
  <2> QED BY <2>1, <2>2
<1>7. Resident(DumpedMap(q)) = InMem \ Range(q)
  BY <1>6
<1> QED BY <1>3, <1>4, <1>5, <1>7

\* What DumptoDisk does to the stack of freed slots.
LEMMA DumpStack ==
  ASSUME TypeOK, SlotsExclusive, NEW q \in DumpOrders
  PROVE  /\ FreedBy(q) \in Seq(Slots)
         /\ Len(FreedBy(q)) = Len(free_records) + Len(q)
         /\ IsInjective(FreedBy(q))
         /\ Range(FreedBy(q)) = Range(free_records) \cup {smap[k].index : k \in Range(q)}
<1> DEFINE new == [i \in 1 .. Len(q) |-> smap[q[i]].index]
<1>1. /\ Len(q) \in Nat /\ DOMAIN q = 1 .. Len(q) /\ IsInjective(q)
      /\ \A i \in 1 .. Len(q) : q[i] \in InMem
      /\ Range(q) \subseteq InMem
  BY DumpOrder
<1>2. new \in Seq(Slots) /\ Len(new) = Len(q) /\ DOMAIN new = 1 .. Len(q)
  BY <1>1 DEF TypeOK
<1>3. IsInjective(new)
  BY <1>1 DEF SlotsExclusive, IsInjective
<1>4. Range(new) = {smap[k].index : k \in Range(q)}
  BY <1>1 DEF Range
<1>5. Range(free_records) \cap Range(new) = {}
  BY <1>1, <1>4 DEF SlotsExclusive
<1>6. free_records \in Seq(Slots) /\ IsInjective(free_records)
  BY DEF TypeOK, SlotsExclusive
<1> HIDE DEF new
<1>7. /\ free_records \o new \in Seq(Slots)
      /\ Len(free_records \o new) = Len(free_records) + Len(new)
      /\ IsInjective(free_records \o new)
      /\ Range(free_records \o new) = Range(free_records) \cup Range(new)
  BY <1>2, <1>3, <1>5, <1>6, PushAll
<1>8. FreedBy(q) = free_records \o new
  BY DEF FreedBy, new
<1> QED BY <1>2, <1>4, <1>7, <1>8

-----------------------------------------------------------------------------
(* Steps of StoreData that install a new record.                            *)

\* The map, the pool and the resident keys after a record was installed.
LEMMA InstallEffect ==
  ASSUME NEW map, DOMAIN map \subseteq Keys, map \in [DOMAIN map -> Datagram],
         NEW key \in Keys, key \notin DOMAIN map,
         NEW slot \in Slots, NEW d \in Data,
         pool \in [Slots -> Block],
         Install(map, key, slot, d)
  PROVE  /\ DOMAIN smap' = DOMAIN map \cup {key}
         /\ DOMAIN smap' \subseteq Keys
         /\ smap' \in [DOMAIN smap' -> Datagram]
         /\ smap'[key].in_mem = TRUE /\ smap'[key].index = slot
         /\ \A k \in DOMAIN map : smap'[k] = map[k]
         /\ InMem' = Resident(map) \cup {key}
         /\ OnDisk' = Filed(map)
         /\ pool' \in [Slots -> Block]
<1>1. slot \in Nat
  BY StoreAssumption DEF Slots
<1>2. /\ smap' = [k \in DOMAIN map \cup {key} |->
                   IF k = key THEN NewDatagram(slot) ELSE map[k]]
      /\ pool' = [pool EXCEPT ![slot] = d]
  BY DEF Install
<1>3. /\ NewDatagram(slot) \in Datagram
      /\ NewDatagram(slot).in_mem = TRUE /\ NewDatagram(slot).index = slot
  BY <1>1 DEF NewDatagram, Datagram
<1>4. /\ DOMAIN smap' = DOMAIN map \cup {key}
      /\ smap'[key] = NewDatagram(slot)
      /\ \A k \in DOMAIN map : smap'[k] = map[k]
  BY <1>2
<1>5. smap' \in [DOMAIN smap' -> Datagram]
  BY <1>2, <1>3, <1>4
<1>6. \A k : k \in InMem' <=> k \in Resident(map) \cup {key}
  BY <1>3, <1>4 DEF InMem, Resident
<1>7. \A k : k \in OnDisk' <=> k \in Filed(map)
  BY <1>3, <1>4 DEF OnDisk, Filed
<1>8. pool' \in [Slots -> Block]
  BY <1>2 DEF Block
<1>9. InMem' = Resident(map) \cup {key} /\ OnDisk' = Filed(map)
  BY <1>6, <1>7
<1> QED BY <1>3, <1>4, <1>5, <1>8, <1>9

\* Installing a record in a slot that neither a resident record of map nor
\* the remaining stack uses leaves every slot with one purpose.
LEMMA InstallExclusive ==
  ASSUME NEW map, DOMAIN map \subseteq Keys, map \in [DOMAIN map -> Datagram],
         NEW key \in Keys, key \notin DOMAIN map,
         NEW slot \in Slots, NEW d \in Data,
         pool \in [Slots -> Block],
         Install(map, key, slot, d),
         \A j, k \in Resident(map) : map[j].index = map[k].index => j = k,
         \A k \in Resident(map) :
            /\ map[k].index \in Slots
            /\ map[k].index # slot
            /\ map[k].index \notin Range(free_records)',
         slot \notin Range(free_records)',
         IsInjective(free_records)'
  PROVE  /\ SlotsExclusive'
         /\ \A k \in InMem' : smap'[k].index \in Slots
         /\ {smap'[k].index : k \in InMem'} = {map[k].index : k \in Resident(map)} \cup {slot}
<1>1. /\ smap'[key].index = slot
      /\ \A k \in DOMAIN map : smap'[k] = map[k]
      /\ InMem' = Resident(map) \cup {key}
  BY InstallEffect
<1>2. \A k \in Resident(map) : k \in DOMAIN map /\ k # key /\ smap'[k] = map[k]
  BY <1>1 DEF Resident
<1>3. \A k \in InMem' : smap'[k].index \in Slots
  BY <1>1, <1>2
<1>4. \A k \in InMem' : smap'[k].index \notin Range(free_records)'
  BY <1>1, <1>2
<1>5. \A j, k \in InMem' : smap'[j].index = smap'[k].index => j = k
  BY <1>1, <1>2
<1>6. {smap'[k].index : k \in InMem'} = {map[k].index : k \in Resident(map)} \cup {slot}
  BY <1>1, <1>2
<1> QED BY <1>3, <1>4, <1>5, <1>6 DEF SlotsExclusive

\* A never-used slot is handed out only before the first dump.
LEMMA FreshStep ==
  ASSUME IInv, NEW key \in Keys, NEW d \in Data, StoreFresh(key, d)
  PROVE  IInv'
<1> USE DEF IInv
<1>1. /\ up /\ key \notin DOMAIN smap /\ num_active_records < MaxRecords
      /\ free_records = << >> /\ free_records' = free_records
      /\ Install(smap, key, num_active_records, d)
      /\ num_active_records' = num_active_records + 1
      /\ UNCHANGED <<disk, num_active_disk_records, overflow_triggered, reply, up,
                     dump_watermark_ratio>>
  BY DEF StoreFresh, HasRoom
<1>2. ~ overflow_triggered /\ num_active_records \in 0 .. MaxRecords
  <2>1. Len(free_records) = 0
    BY <1>1
  <2>2. num_active_records \in Int /\ MaxRecords \in Nat
    BY StoreAssumption DEF TypeOK
  <2> QED BY <1>1, <2>1, <2>2 DEF SlotSupply
<1>3. num_active_records \in Slots
  BY <1>1, <1>2, StoreAssumption DEF Slots
<1>4. {smap[k].index : k \in InMem} = 0 .. num_active_records - 1
  BY <1>2 DEF SlotsAccounted
<1>5. InMem = Resident(smap) /\ OnDisk = Filed(smap)
  BY DEF InMem, OnDisk, Resident, Filed
<1>6. Range(free_records)' = {} /\ IsInjective(free_records)'
  BY <1>1 DEF Range, IsInjective
<1>7. \A k \in Resident(smap) : smap[k].index \in Slots /\ smap[k].index # num_active_records
  <2>1. \A k \in InMem : smap[k].index \in 0 .. num_active_records - 1
    BY <1>4
  <2> QED BY <1>2, <1>5, <2>1 DEF TypeOK
<1>8. /\ DOMAIN smap \subseteq Keys /\ smap \in [DOMAIN smap -> Datagram]
      /\ pool \in [Slots -> Block]
  BY DEF TypeOK
<1>9. /\ DOMAIN smap' \subseteq Keys /\ smap' \in [DOMAIN smap' -> Datagram]
      /\ \A k \in DOMAIN smap : smap'[k] = smap[k]
      /\ InMem' = InMem \cup {key} /\ OnDisk' = OnDisk
      /\ pool' \in [Slots -> Block]
  BY <1>1, <1>3, <1>5, <1>8, InstallEffect
<1>10. /\ SlotsExclusive'
       /\ \A k \in InMem' : smap'[k].index \in Slots
       /\ {smap'[k].index : k \in InMem'}
             = {smap[k].index : k \in InMem} \cup {num_active_records}
  <2>1. \A j, k \in Resident(smap) : smap[j].index = smap[k].index => j = k
    BY <1>5 DEF SlotsExclusive
  <2>2. \A k \in Resident(smap) :
          /\ smap[k].index \in Slots
          /\ smap[k].index # num_active_records
          /\ smap[k].index \notin Range(free_records)'
    BY <1>6, <1>7
  <2>3. num_active_records \notin Range(free_records)'
    BY <1>6
  <2>4. Install(smap, key, num_active_records, d) /\ key \notin DOMAIN smap
    BY <1>1
  <2> HIDE DEF IInv
  <2> QED BY <1>3, <1>5, <1>6, <1>8, <2>1, <2>2, <2>3, <2>4, InstallExclusive
<1>11. \A k \in OnDisk : k \in DOMAIN smap /\ smap'[k] = smap[k]
  BY <1>9 DEF OnDisk
<1>12. TypeOK'
  BY <1>1, <1>9, <1>10, <1>11 DEF TypeOK
<1>13. SlotsAccounted'
  <2>1. {smap'[k].index : k \in InMem'} = 0 .. num_active_records' - 1
    BY <1>1, <1>2, <1>4, <1>10
  <2> QED BY <1>1, <1>2, <2>1 DEF SlotsAccounted
<1>14. FileDense'
  BY <1>1, <1>9, <1>11 DEF FileDense
<1>15. SlotSupply'
  BY <1>1, <1>2, StoreAssumption DEF SlotSupply
<1> QED BY <1>10, <1>12, <1>13, <1>14, <1>15

\* The most recently freed slot is reused.
LEMMA ReuseStep ==
  ASSUME IInv, NEW key \in Keys, NEW d \in Data, StoreReuse(key, d)
  PROVE  IInv'
<1> USE DEF IInv
<1> DEFINE slot == Top(free_records)
<1>1. /\ up /\ key \notin DOMAIN smap /\ free_records # << >>
      /\ free_records' = Popped(free_records)
      /\ Install(smap, key, slot, d)
      /\ num_active_records' = num_active_records + 1
      /\ UNCHANGED <<disk, num_active_disk_records, overflow_triggered, reply, up,
                     dump_watermark_ratio>>
  BY DEF StoreReuse
<1>2. overflow_triggered
  BY <1>1 DEF SlotsAccounted
<1>3. free_records \in Seq(Slots) /\ IsInjective(free_records)
  BY DEF TypeOK, SlotsExclusive
<1>4. /\ free_records' \in Seq(Slots) /\ Len(free_records') = Len(free_records) - 1
      /\ IsInjective(free_records') /\ slot \in Slots
      /\ Range(free_records') = Range(free_records) \ {slot}
  BY <1>1, <1>3, PopStack
<1>5. Len(free_records) \in Nat /\ slot \in Range(free_records)
  <2>1. Len(free_records) \in Nat /\ Len(free_records) >= 1
        /\ DOMAIN free_records = 1 .. Len(free_records)
    BY <1>1, <1>3, EmptySeq, LenProperties
  <2> QED BY <2>1 DEF Top, Range
<1> HIDE DEF slot
<1>6. InMem = Resident(smap) /\ OnDisk = Filed(smap)
  BY DEF InMem, OnDisk, Resident, Filed
<1>7. /\ DOMAIN smap \subseteq Keys /\ smap \in [DOMAIN smap -> Datagram]
      /\ pool \in [Slots -> Block]
  BY DEF TypeOK
<1>8. /\ DOMAIN smap' \subseteq Keys /\ smap' \in [DOMAIN smap' -> Datagram]
      /\ \A k \in DOMAIN smap : smap'[k] = smap[k]
      /\ InMem' = InMem \cup {key} /\ OnDisk' = OnDisk
      /\ pool' \in [Slots -> Block]
  BY <1>1, <1>4, <1>6, <1>7, InstallEffect
<1>9. /\ SlotsExclusive'
      /\ \A k \in InMem' : smap'[k].index \in Slots
      /\ {smap'[k].index : k \in InMem'} = {smap[k].index : k \in InMem} \cup {slot}
  <2>1. \A j, k \in Resident(smap) : smap[j].index = smap[k].index => j = k
    BY <1>6 DEF SlotsExclusive
  <2>2. \A k \in InMem : smap[k].index \in Slots /\ smap[k].index \notin Range(free_records)
    BY DEF TypeOK, SlotsExclusive
  <2>3. \A k \in Resident(smap) :
          /\ smap[k].index \in Slots
          /\ smap[k].index # slot
          /\ smap[k].index \notin Range(free_records)'
    BY <1>4, <1>5, <1>6, <2>2
  <2>4. slot \notin Range(free_records)' /\ IsInjective(free_records)'
    BY <1>4
  <2>5. Install(smap, key, slot, d) /\ key \notin DOMAIN smap
    BY <1>1
  <2> HIDE DEF IInv
  <2> QED BY <1>4, <1>6, <1>7, <2>1, <2>3, <2>4, <2>5, InstallExclusive
<1>10. \A k \in OnDisk : k \in DOMAIN smap /\ smap'[k] = smap[k]
  BY <1>8 DEF OnDisk
<1>11. TypeOK'
  BY <1>1, <1>4, <1>8, <1>9, <1>10 DEF TypeOK
<1>12. SlotsAccounted'
  <2>1. {smap[k].index : k \in InMem} \cup Range(free_records) = Slots
    BY <1>2 DEF SlotsAccounted
  <2>2. {smap'[k].index : k \in InMem'} \cup Range(free_records') = Slots
    BY <1>4, <1>5, <1>9, <2>1
  <2> QED BY <1>1, <1>2, <2>2 DEF SlotsAccounted
<1>13. FileDense'
  BY <1>1, <1>8, <1>10 DEF FileDense
<1>14. SlotSupply'
  <2>1. num_active_records + Len(free_records) > MaxRecords
    BY <1>1, <1>2 DEF SlotSupply
  <2>2. num_active_records \in Int /\ MaxRecords \in Nat
    BY StoreAssumption DEF TypeOK
  <2>3. num_active_records' + Len(free_records') = num_active_records + Len(free_records)
    BY <1>1, <1>4, <1>5, <2>2
  <2> QED BY <1>1, <1>2, <2>1, <2>3 DEF SlotSupply
<1> QED BY <1>9, <1>11, <1>12, <1>13, <1>14

\* What DumptoDisk does to the overflow file: the moved records take the next
\* file slots, one each.
LEMMA DumpFile ==
  ASSUME TypeOK, SlotsExclusive, FileDense, NEW q \in DumpOrders
  PROVE  LET n == num_active_disk_records
         IN  /\ Filed(DumpedMap(q)) = OnDisk \cup Range(q)
             /\ {DumpedMap(q)[k].index : k \in Filed(DumpedMap(q))} = 0 .. n + Len(q) - 1
             /\ \A j, k \in Filed(DumpedMap(q)) :
                  DumpedMap(q)[j].index = DumpedMap(q)[k].index => j = k
             /\ DOMAIN DumpedDisk(q) = 0 .. n + Len(q) - 1
             /\ \A i \in DOMAIN DumpedDisk(q) : DumpedDisk(q)[i] \in Block
<1> DEFINE n == num_active_disk_records
           map == DumpedMap(q)
<1>1. /\ Len(q) \in Nat /\ DOMAIN q = 1 .. Len(q)
      /\ \A i \in 1 .. Len(q) : q[i] \in InMem
      /\ Range(q) \subseteq InMem
      /\ \A k \in Range(q) : Place(q, k) \in 1 .. Len(q) /\ q[Place(q, k)] = k
      /\ \A i \in 1 .. Len(q) : Place(q, q[i]) = i
  BY DumpOrder
<1>2. /\ DOMAIN map = DOMAIN smap
      /\ \A k \in DOMAIN smap \ Range(q) : map[k] = smap[k]
      /\ \A k \in Range(q) : map[k].in_mem = FALSE /\ map[k].index = n + Place(q, k) - 1
  BY DumpMap
<1>3. n \in Nat /\ DOMAIN disk = 0 .. n - 1
  BY DEF TypeOK
<1>4. /\ {smap[k].index : k \in OnDisk} = 0 .. n - 1
      /\ \A j, k \in OnDisk : smap[j].index = smap[k].index => j = k
  BY DEF FileDense
<1>5. OnDisk \cap Range(q) = {} /\ OnDisk \subseteq DOMAIN smap /\ Range(q) \subseteq DOMAIN smap
  BY <1>1 DEF InMem, OnDisk
<1> HIDE DEF map
<1>6. \A k : k \in Filed(map) <=> k \in OnDisk \cup Range(q)
  BY <1>2, <1>5 DEF Filed, OnDisk
<1>7. Filed(map) = OnDisk \cup Range(q)
  BY <1>6
<1>8. \A k \in OnDisk : map[k] = smap[k] /\ smap[k].index \in 0 .. n - 1
  BY <1>2, <1>4, <1>5
<1>9. {map[k].index : k \in Filed(map)} = 0 .. n + Len(q) - 1
  <2>1. ASSUME NEW k \in Filed(map) PROVE map[k].index \in 0 .. n + Len(q) - 1
    BY <1>1, <1>2, <1>3, <1>7, <1>8
  <2>2. ASSUME NEW i \in 0 .. n + Len(q) - 1
        PROVE  \E k \in Filed(map) : map[k].index = i
    <3>1. CASE i < n
      <4>1. i \in 0 .. n - 1
        BY <1>1, <1>3, <3>1
      <4>2. PICK k \in OnDisk : smap[k].index = i
        BY <1>4, <4>1
      <4> QED BY <1>7, <1>8, <4>2
    <3>2. CASE i >= n
      <4>1. i - n + 1 \in 1 .. Len(q)
        BY <1>1, <1>3, <3>2
      <4>2. q[i - n + 1] \in Range(q) /\ Place(q, q[i - n + 1]) = i - n + 1
        BY <1>1, <4>1 DEF Range
      <4>3. map[q[i - n + 1]].index = i
        BY <1>2, <1>3, <4>1, <4>2
      <4> QED BY <1>7, <4>2, <4>3
    <3> QED BY <1>1, <1>3, <3>1, <3>2
  <2> QED BY <2>1, <2>2
<1>10. ASSUME NEW j \in Filed(map), NEW k \in Filed(map), map[j].index = map[k].index
       PROVE  j = k
  <2>1. CASE j \in OnDisk /\ k \in OnDisk
    BY <1>4, <1>8, <1>10, <2>1
  <2>2. CASE j \in Range(q) /\ k \in Range(q)
    <3>1. Place(q, j) = Place(q, k)
      BY <1>1, <1>2, <1>3, <1>10, <2>2
    <3> QED BY <1>1, <2>2, <3>1
  <2>3. CASE j \in OnDisk /\ k \in Range(q)
    BY <1>1, <1>2, <1>3, <1>8, <1>10, <2>3
  <2>4. CASE j \in Range(q) /\ k \in OnDisk
    BY <1>1, <1>2, <1>3, <1>8, <1>10, <2>4
  <2> QED BY <1>7, <2>1, <2>2, <2>3, <2>4
<1>11. DOMAIN DumpedDisk(q) = 0 .. n + Len(q) - 1
  BY <1>1, <1>3 DEF DumpedDisk
<1>12. ASSUME NEW i \in DOMAIN DumpedDisk(q) PROVE DumpedDisk(q)[i] \in Block
  <2>1. CASE i >= n
    <3>1. i - n + 1 \in 1 .. Len(q)
      BY <1>1, <1>3, <1>11, <2>1
    <3>2. smap[q[i - n + 1]].index \in Slots
      BY <1>1, <3>1 DEF TypeOK
    <3>3. pool[smap[q[i - n + 1]].index] \in Block
      BY <3>2 DEF TypeOK
    <3>4. DumpedDisk(q)[i] = pool[smap[q[i - n + 1]].index]
      BY <2>1 DEF DumpedDisk
    <3> QED BY <3>3, <3>4
  <2>2. CASE i < n
    <3>1. i \in DOMAIN disk
      BY <1>1, <1>3, <1>11, <2>2
    <3>2. DumpedDisk(q)[i] = disk[i]
      BY <1>1, <1>3, <1>11, <2>2 DEF DumpedDisk
    <3> QED BY <3>1, <3>2 DEF TypeOK
  <2> QED BY <1>1, <1>3, <1>11, <2>1, <2>2
<1> QED BY <1>7, <1>9, <1>10, <1>11, <1>12 DEF map

\* Records are dumped and one of the freed slots is taken.
LEMMA OverflowStep ==
  ASSUME IInv, NEW key \in Keys, NEW d \in Data, StoreOverflow(key, d)
  PROVE  IInv'
<1> USE DEF IInv
<1>1. PICK q \in DumpOrders :
        /\ FreedBy(q) # << >>
        /\ disk' = DumpedDisk(q)
        /\ num_active_disk_records' = num_active_disk_records + Len(q)
        /\ free_records' = Popped(FreedBy(q))
        /\ num_active_records' = CountAfterDump(q)
        /\ Install(DumpedMap(q), key, Top(FreedBy(q)), d)
  BY DEF StoreOverflow
<1>2. /\ up /\ key \notin DOMAIN smap /\ ~ HasRoom
      /\ overflow_triggered' = TRUE
      /\ reply' = reply /\ up' = up /\ dump_watermark_ratio' = dump_watermark_ratio
  BY DEF StoreOverflow
<1> DEFINE map == DumpedMap(q)
           stack == FreedBy(q)
           slot == Top(FreedBy(q))
<1>3. /\ Len(q) \in Nat /\ Range(q) \subseteq InMem
  BY DumpOrder
<1>4. /\ map \in [DOMAIN smap -> Datagram] /\ DOMAIN map = DOMAIN smap
      /\ Resident(map) = InMem \ Range(q)
      /\ \A k \in DOMAIN smap \ Range(q) : map[k] = smap[k]
  BY DumpMap
<1>5. /\ stack \in Seq(Slots) /\ Len(stack) = Len(free_records) + Len(q)
      /\ IsInjective(stack)
      /\ Range(stack) = Range(free_records) \cup {smap[k].index : k \in Range(q)}
  BY DumpStack
<1>6. /\ Filed(map) = OnDisk \cup Range(q)
      /\ {map[k].index : k \in Filed(map)} = 0 .. num_active_disk_records + Len(q) - 1
      /\ \A j, k \in Filed(map) : map[j].index = map[k].index => j = k
      /\ DOMAIN DumpedDisk(q) = 0 .. num_active_disk_records + Len(q) - 1
      /\ \A i \in DOMAIN DumpedDisk(q) : DumpedDisk(q)[i] \in Block
  BY DumpFile
<1>7. /\ stack # << >> /\ free_records' = Popped(stack) /\ Install(map, key, slot, d)
  BY <1>1
<1>8. slot = Top(stack)
  OBVIOUS
<1>9. DOMAIN map \subseteq Keys /\ map \in [DOMAIN map -> Datagram] /\ key \notin DOMAIN map
  BY <1>2, <1>4 DEF TypeOK
<1> HIDE DEF map, stack, slot
<1>10. /\ free_records' \in Seq(Slots) /\ Len(free_records') = Len(stack) - 1
       /\ IsInjective(free_records') /\ slot \in Slots
       /\ Range(free_records') = Range(stack) \ {slot}
  BY <1>5, <1>7, <1>8, PopStack
<1>11. slot \in Range(stack)
  <2>1. Len(stack) \in Nat /\ Len(stack) >= 1 /\ DOMAIN stack = 1 .. Len(stack)
    BY <1>5, <1>7, EmptySeq, LenProperties
  <2> QED BY <1>8, <2>1 DEF Top, Range
<1>12. pool \in [Slots -> Block]
  BY DEF TypeOK
<1>13. /\ DOMAIN smap' \subseteq Keys /\ smap' \in [DOMAIN smap' -> Datagram]
       /\ DOMAIN smap' = DOMAIN map \cup {key}
       /\ \A k \in DOMAIN map : smap'[k] = map[k]
       /\ OnDisk' = Filed(map)
       /\ pool' \in [Slots -> Block]
  BY <1>7, <1>9, <1>10, <1>12, InstallEffect
<1>14. \A k \in Resident(map) :
         /\ k \in InMem /\ k \notin Range(q) /\ map[k] = smap[k]
         /\ smap[k].index \in Slots
         /\ smap[k].index \notin Range(stack)
  <2>1. \A k \in Resident(map) : k \in InMem /\ k \notin Range(q) /\ map[k] = smap[k]
    BY <1>4 DEF InMem
  <2>2. \A k \in InMem : smap[k].index \in Slots /\ smap[k].index \notin Range(free_records)
    BY DEF TypeOK, SlotsExclusive
  <2>3. \A k \in InMem, j \in Range(q) : smap[k].index = smap[j].index => k = j
    BY <1>3 DEF SlotsExclusive
  <2> QED BY <1>5, <2>1, <2>2, <2>3
<1>15. /\ SlotsExclusive'
       /\ \A k \in InMem' : smap'[k].index \in Slots
       /\ {smap'[k].index : k \in InMem'} = {map[k].index : k \in Resident(map)} \cup {slot}
  <2>1. \A j, k \in Resident(map) : map[j].index = map[k].index => j = k
    BY <1>14 DEF SlotsExclusive
  <2>2. \A k \in Resident(map) :
          /\ map[k].index \in Slots
          /\ map[k].index # slot
          /\ map[k].index \notin Range(free_records)'
    BY <1>10, <1>11, <1>14
  <2>3. slot \notin Range(free_records)' /\ IsInjective(free_records)'
    BY <1>10
  <2> HIDE DEF IInv
  <2> QED BY <1>7, <1>9, <1>10, <1>12, <2>1, <2>2, <2>3, InstallExclusive
<1>16. num_active_records' = num_active_records - Len(q) + 2 /\ num_active_records >= MaxRecords
       /\ num_active_records \in Int /\ MaxRecords \in Nat /\ num_active_disk_records \in Nat
       /\ Len(free_records) \in Nat
  BY <1>1, <1>2, StoreAssumption, LenProperties DEF CountAfterDump, HasRoom, TypeOK
<1>17. \A k \in OnDisk' : smap'[k].index = map[k].index
  <2>1. Filed(map) \subseteq DOMAIN map
    BY DEF Filed
  <2> QED BY <1>13, <2>1
<1>18. TypeOK'
  <2>1. DOMAIN disk' = 0 .. num_active_disk_records' - 1 /\ \A i \in DOMAIN disk' : disk'[i] \in Block
    <3>1. disk' = DumpedDisk(q) /\ num_active_disk_records' = num_active_disk_records + Len(q)
      BY <1>1
    <3>2. DOMAIN DumpedDisk(q) = 0 .. num_active_disk_records' - 1
      BY <1>3, <1>6, <1>16, <3>1
    <3> HIDE DEF IInv
    <3> QED BY <1>6, <3>1, <3>2
  <2>2. \A k \in OnDisk' : smap'[k].index \in DOMAIN disk'
    BY <1>1, <1>6, <1>13, <1>17
  <2>3. num_active_records' \in Int /\ num_active_disk_records' \in Nat
    BY <1>1, <1>3, <1>16
  <2> QED BY <1>2, <1>10, <1>13, <1>15, <2>1, <2>2, <2>3 DEF TypeOK
<1>19. SlotsAccounted'
  <2>1. {smap[k].index : k \in InMem} \cup Range(free_records) = Slots
    <3>1. CASE overflow_triggered
      BY <3>1 DEF SlotsAccounted
    <3>2. CASE ~ overflow_triggered
      <4>1. num_active_records = MaxRecords
        BY <1>16, <3>2 DEF SlotSupply
      <4>2. {smap[k].index : k \in InMem} = Slots
        BY <3>2, <4>1 DEF SlotsAccounted, Slots
      <4>3. Range(free_records) = {}
        BY <3>2 DEF SlotsAccounted, Range
      <4> QED BY <4>2, <4>3
    <3> QED BY <3>1, <3>2
  <2>2. {smap[k].index : k \in InMem}
          = {map[k].index : k \in Resident(map)} \cup {smap[k].index : k \in Range(q)}
    <3>1. Resident(map) = InMem \ Range(q) /\ \A k \in Resident(map) : map[k] = smap[k]
      BY <1>4, <1>14
    <3> QED BY <1>3, <3>1
  <2>3. {smap'[k].index : k \in InMem'} \cup Range(free_records')
          = {smap[k].index : k \in InMem} \cup Range(free_records)
    BY <1>5, <1>10, <1>11, <1>15, <2>2
  <2> QED BY <1>2, <2>1, <2>3 DEF SlotsAccounted
<1>20. FileDense'
  <2>1. {smap'[k].index : k \in OnDisk'} = {map[k].index : k \in Filed(map)}
    BY <1>13, <1>17
  <2>2. num_active_disk_records' = num_active_disk_records + Len(q)
    BY <1>1
  <2>3. {smap'[k].index : k \in OnDisk'} = 0 .. num_active_disk_records' - 1
    <3>1. {map[k].index : k \in Filed(map)} = 0 .. num_active_disk_records' - 1
      BY <1>3, <1>6, <1>16, <2>2
    <3> HIDE DEF IInv
    <3> QED BY <2>1, <3>1
  <2>4. \A j, k \in OnDisk' : smap'[j].index = smap'[k].index => j = k
    BY <1>6, <1>13, <1>17
  <2> HIDE DEF IInv
  <2> QED BY <2>3, <2>4 DEF FileDense
<1>21. SlotSupply'
  <2>1. num_active_records' + Len(free_records') = num_active_records + Len(free_records) + 1
    BY <1>3, <1>5, <1>10, <1>16
  <2> QED BY <1>2, <1>16, <2>1 DEF SlotSupply
<1> QED BY <1>15, <1>18, <1>19, <1>20, <1>21

-----------------------------------------------------------------------------
(* The other steps.                                                         *)

\* Aborting leaves the store as it is.
LEMMA RefusedStep ==
  ASSUME IInv, NEW key \in Keys, StoreRefused(key)
  PROVE  IInv'
<1> USE DEF IInv
<1>1. /\ ~ HasRoom /\ up' = FALSE /\ overflow_triggered' = TRUE
      /\ UNCHANGED <<smap, pool, disk, free_records, num_active_records,
                     num_active_disk_records, reply, dump_watermark_ratio>>
  BY DEF StoreRefused, use_disk_overflow
<1>2. InMem' = InMem /\ OnDisk' = OnDisk
  BY <1>1 DEF InMem, OnDisk
<1>3. TypeOK' /\ SlotsExclusive' /\ FileDense' /\ SlotSupply'
  <2>1. TypeOK'
    BY <1>1, <1>2 DEF TypeOK
  <2>2. SlotsExclusive' /\ FileDense'
    BY <1>1, <1>2 DEF SlotsExclusive, FileDense
  <2>3. SlotSupply'
    BY <1>1 DEF SlotSupply
  <2> QED BY <2>1, <2>2, <2>3
<1>4. SlotsAccounted'
  <2>1. CASE overflow_triggered
    BY <1>1, <1>2, <2>1 DEF SlotsAccounted
  <2>2. CASE ~ overflow_triggered
    <3>1. num_active_records = MaxRecords
      BY <1>1, <2>2, StoreAssumption DEF SlotSupply, HasRoom
    <3>2. {smap[k].index : k \in InMem} = Slots
      BY <2>2, <3>1 DEF SlotsAccounted, Slots
    <3>3. Range(free_records) = {}
      BY <2>2 DEF SlotsAccounted, Range
    <3> QED BY <1>1, <1>2, <3>2, <3>3 DEF SlotsAccounted
  <2> QED BY <2>1, <2>2
<1> QED BY <1>3, <1>4

\* A step that changes only counts of the datagrams, and blocks where they
\* are, preserves the invariant.
LEMMA TouchStep ==
  ASSUME IInv,
         DOMAIN smap' = DOMAIN smap, smap' \in [DOMAIN smap -> Datagram],
         \A k \in DOMAIN smap :
            smap'[k].in_mem = smap[k].in_mem /\ smap'[k].index = smap[k].index,
         pool' \in [Slots -> Block],
         DOMAIN disk' = DOMAIN disk, \A i \in DOMAIN disk : disk'[i] \in Block,
         reply' \in Block \cup {NoReply},
         UNCHANGED <<free_records, num_active_records, num_active_disk_records,
                     overflow_triggered, up, dump_watermark_ratio>>
  PROVE  IInv'
<1> USE DEF IInv
<1>1. \A k : (k \in InMem' <=> k \in InMem) /\ (k \in OnDisk' <=> k \in OnDisk)
  BY DEF InMem, OnDisk
<1>2. InMem' = InMem /\ OnDisk' = OnDisk
  BY <1>1
<1>3. \A k \in InMem \cup OnDisk : smap'[k].index = smap[k].index
  BY DEF InMem, OnDisk
<1>4. TypeOK'
  BY <1>2, <1>3 DEF TypeOK
<1>5. SlotsExclusive' /\ FileDense' /\ SlotSupply' /\ SlotsAccounted'
  BY <1>2, <1>3 DEF SlotsExclusive, FileDense, SlotSupply, SlotsAccounted
<1> QED BY <1>4, <1>5

\* The block of a known key is a block.
LEMMA ValueType ==
  ASSUME TypeOK, NEW k \in DOMAIN smap
  PROVE  ValueOf(k) \in Block
BY DEF TypeOK, ValueOf, InMem, OnDisk

LEMMA UpdateStep ==
  ASSUME IInv, NEW key \in Keys, NEW d \in Data, StoreUpdate(key, d)
  PROVE  IInv'
<1> USE DEF IInv
<1>1. /\ key \in DOMAIN smap
      /\ smap' = [smap EXCEPT ![key].write_count = @ + 1]
      /\ UNCHANGED <<free_records, num_active_records, num_active_disk_records,
                     overflow_triggered, reply, up, dump_watermark_ratio>>
  BY DEF StoreUpdate
<1>2. smap \in [DOMAIN smap -> Datagram]
  BY DEF TypeOK
<1>3. /\ DOMAIN smap' = DOMAIN smap /\ smap' \in [DOMAIN smap -> Datagram]
      /\ \A k \in DOMAIN smap :
            smap'[k].in_mem = smap[k].in_mem /\ smap'[k].index = smap[k].index
  BY <1>1, <1>2 DEF Datagram
<1>4. /\ pool' \in [Slots -> Block]
      /\ DOMAIN disk' = DOMAIN disk /\ \A i \in DOMAIN disk : disk'[i] \in Block
  <2>1. pool \in [Slots -> Block] /\ \A i \in DOMAIN disk : disk[i] \in Block
    BY DEF TypeOK
  <2>2. d \in Block
    BY DEF Block
  <2> QED BY <2>1, <2>2 DEF StoreUpdate
<1>5. reply' \in Block \cup {NoReply}
  BY <1>1 DEF TypeOK
<1> HIDE DEF IInv
<1> QED BY <1>1, <1>3, <1>4, <1>5, TouchStep

LEMMA PullStep ==
  ASSUME IInv, NEW key \in Keys, PullData(key)
  PROVE  IInv'
<1> USE DEF IInv
<1>1. /\ key \in DOMAIN smap
      /\ smap' = [smap EXCEPT ![key].read_count = @ + 1]
      /\ reply' = ValueOf(key)
      /\ UNCHANGED <<pool, disk, free_records, num_active_records,
                     num_active_disk_records, overflow_triggered, up, dump_watermark_ratio>>
  BY DEF PullData
<1>2. smap \in [DOMAIN smap -> Datagram]
  BY DEF TypeOK
<1>3. /\ DOMAIN smap' = DOMAIN smap /\ smap' \in [DOMAIN smap -> Datagram]
      /\ \A k \in DOMAIN smap :
            smap'[k].in_mem = smap[k].in_mem /\ smap'[k].index = smap[k].index
  BY <1>1, <1>2 DEF Datagram
<1>4. /\ pool' \in [Slots -> Block]
      /\ DOMAIN disk' = DOMAIN disk /\ \A i \in DOMAIN disk : disk'[i] \in Block
  BY <1>1 DEF TypeOK
<1>5. reply' \in Block \cup {NoReply}
  BY <1>1, ValueType
<1> HIDE DEF IInv
<1> QED BY <1>1, <1>3, <1>4, <1>5, TouchStep

-----------------------------------------------------------------------------
(* Theorems.                                                                *)

LEMMA InitInvariant == Init => IInv
<1> SUFFICES ASSUME Init PROVE IInv
  OBVIOUS
<1>1. InMem = {} /\ OnDisk = {}
  BY DEF Init, InMem, OnDisk
<1>2. TypeOK
  <2>1. DOMAIN smap = {} /\ smap \in [DOMAIN smap -> Datagram]
    BY DEF Init
  <2>2. pool \in [Slots -> Block]
    BY DEF Init, Block
  <2>3. DOMAIN disk = {} /\ 0 .. num_active_disk_records - 1 = {}
    BY DEF Init
  <2>4. /\ free_records \in Seq(Slots) /\ num_active_records \in Int
        /\ num_active_disk_records \in Nat /\ overflow_triggered \in BOOLEAN
        /\ reply \in Block \cup {NoReply} /\ up \in BOOLEAN
        /\ dump_watermark_ratio \in Watermarks
    <3>1. << >> \in Seq(Slots)
      OBVIOUS
    <3>2. /\ free_records = << >> /\ num_active_records = 0
          /\ num_active_disk_records = 0 /\ overflow_triggered = FALSE
          /\ reply = NoReply /\ up = TRUE /\ dump_watermark_ratio \in Watermarks
      BY DEF Init
    <3>3. overflow_triggered \in BOOLEAN /\ up \in BOOLEAN
      BY <3>2
    <3>4. num_active_records \in Int /\ num_active_disk_records \in Nat
      BY <3>2
    <3>5. free_records \in Seq(Slots) /\ reply \in Block \cup {NoReply}
      BY <3>1, <3>2
    <3> QED BY <3>2, <3>3, <3>4, <3>5
  <2>5. /\ DOMAIN smap \subseteq Keys
        /\ DOMAIN disk = 0 .. num_active_disk_records - 1
        /\ \A k \in InMem : smap[k].index \in Slots
        /\ \A i \in DOMAIN disk : disk[i] \in Block
        /\ \A k \in OnDisk : smap[k].index \in DOMAIN disk
    BY <1>1, <2>1, <2>3
  <2> QED BY <2>1, <2>2, <2>4, <2>5 DEF TypeOK
<1>3. SlotsExclusive /\ FileDense
  BY <1>1 DEF Init, SlotsExclusive, FileDense, IsInjective
<1>4. SlotsAccounted /\ SlotSupply
  BY <1>1, StoreAssumption DEF Init, SlotsAccounted, SlotSupply
<1> QED BY <1>2, <1>3, <1>4 DEF IInv

LEMMA NextInvariant == IInv /\ [Next]_vars => IInv'
<1> SUFFICES ASSUME IInv, [Next]_vars PROVE IInv'
  OBVIOUS
<1>1. CASE UNCHANGED vars
  BY <1>1 DEF vars, IInv, TypeOK, SlotsExclusive, SlotsAccounted, FileDense, SlotSupply,
              InMem, OnDisk
<1>2. ASSUME NEW key \in Keys, PullData(key) PROVE IInv'
  BY <1>2, PullStep
<1>3. ASSUME NEW key \in Keys, NEW d \in Data, StoreData(key, d) PROVE IInv'
  <2>1. CASE StoreFresh(key, d)
    BY <2>1, FreshStep
  <2>2. CASE StoreReuse(key, d)
    BY <2>2, ReuseStep
  <2>3. CASE StoreOverflow(key, d)
    BY <2>3, OverflowStep
  <2>4. CASE StoreRefused(key)
    BY <2>4, RefusedStep
  <2>5. CASE StoreUpdate(key, d)
    BY <2>5, UpdateStep
  <2> QED BY <1>3, <2>1, <2>2, <2>3, <2>4, <2>5 DEF StoreData
<1> QED BY <1>1, <1>2, <1>3 DEF Next

\* The inductive invariant holds in every reachable state.
THEOREM Invariance == Spec => []IInv
BY InitInvariant, NextInvariant, PTL DEF Spec

\* Every variable keeps its type, whatever is written and read: no resident
\* datagram names a slot outside the pool, no dumped one a file slot that was
\* never written.
THEOREM TypeCorrect == Spec => []TypeOK
BY Invariance, PTL DEF IInv

\* No ramdisk slot ever serves two records, and none is handed out while it
\* is occupied (GetFreeRecord, StoreData, DumptoDisk).
THEOREM SlotsNeverShared == Spec => []SlotsExclusive
BY Invariance, PTL DEF IInv

\* No ramdisk slot is lost, in spite of the drift of num_active_records.
THEOREM SlotsNeverLost == Spec => []SlotsAccounted
BY Invariance, PTL DEF IInv

\* The dumped records and the slots of the overflow file below
\* num_active_disk_records correspond one to one.
THEOREM FileAlwaysDense == Spec => []FileDense
BY Invariance, PTL DEF IInv

(***************************************************************************)
(* What follows from the invariant: the drifting counter is harmless,      *)
(* records leave in order, and the store implements the map of             *)
(* RecordStore.                                                            *)
(***************************************************************************)
-----------------------------------------------------------------------------
(* How many records are resident.                                           *)

Occupied == {smap[k].index : k \in InMem}

\* Resident keys inject into any finite set that holds their slots.
LEMMA ResidentWithin ==
  ASSUME SlotsExclusive, NEW T, IsFiniteSet(T), Occupied \subseteq T
  PROVE  IsFiniteSet(InMem) /\ Cardinality(InMem) <= Cardinality(T)
<1> DEFINE f == [k \in InMem |-> smap[k].index]
<1>1. f \in Injection(InMem, T)
  BY DEF SlotsExclusive, Injection, IsInjective, Occupied
<1> HIDE DEF f
<1> QED BY <1>1, FS_Injection

\* Slots is finite, with max_num_records members.
LEMMA SlotsFinite == IsFiniteSet(Slots) /\ Cardinality(Slots) = MaxRecords
<1>1. 0 \in Int /\ MaxRecords - 1 \in Int /\ MaxRecords \in Nat
  BY StoreAssumption
<1> QED BY <1>1, FS_Interval DEF Slots

\* If no slot is free, max_num_records records are resident.
LEMMA ResidentAll ==
  ASSUME TypeOK, SlotsExclusive, Occupied = Slots
  PROVE  Cardinality(InMem) = MaxRecords
<1> DEFINE f == [k \in InMem |-> smap[k].index]
<1>1. f \in Surjection(InMem, Slots)
  BY DEF Surjection, Occupied
<1>2. IsFiniteSet(InMem) /\ Cardinality(InMem) \in Nat /\ Cardinality(InMem) <= MaxRecords
  BY ResidentBound
<1> HIDE DEF f
<1>3. Cardinality(Slots) <= Cardinality(InMem)
  BY <1>1, <1>2, FS_Surjection
<1> QED BY <1>2, <1>3, SlotsFinite, StoreAssumption

\* With the counter at its limit and no freed slot, the ramdisk is full.
LEMMA FullWhenStuck ==
  ASSUME IInv, ~ HasRoom, free_records = << >>
  PROVE  Cardinality(InMem) = MaxRecords
<1> USE DEF IInv
<1>1. Range(free_records) = {}
  BY DEF Range
<1>2. Occupied = Slots
  <2>1. CASE overflow_triggered
    BY <1>1, <2>1 DEF SlotsAccounted, Occupied
  <2>2. CASE ~ overflow_triggered
    <3>1. num_active_records = MaxRecords
      BY <2>2, StoreAssumption DEF SlotSupply, HasRoom
    <3> QED BY <2>2, <3>1 DEF SlotsAccounted, Occupied, Slots
  <2> QED BY <2>1, <2>2
<1> HIDE DEF IInv
<1>3. TypeOK /\ SlotsExclusive
  BY DEF IInv
<1> QED BY <1>2, <1>3, ResidentAll

\* A counter below its limit means that a slot is free.
LEMMA RoomWhenUp ==
  ASSUME IInv, up, HasRoom
  PROVE  Cardinality(InMem) < MaxRecords
<1> USE DEF IInv
<1>1. /\ num_active_records \in Int /\ MaxRecords \in Nat
      /\ num_active_records < MaxRecords
  BY StoreAssumption DEF TypeOK, HasRoom
<1>2. CASE overflow_triggered
  <2>1. free_records \in Seq(Slots) /\ free_records # << >>
    BY <1>1, <1>2 DEF SlotSupply, TypeOK
  <2> DEFINE slot == free_records[1]
  <2>2. slot \in Slots /\ slot \in Range(free_records)
    <3>1. Len(free_records) \in Nat /\ Len(free_records) >= 1
          /\ DOMAIN free_records = 1 .. Len(free_records)
      BY <2>1, EmptySeq, LenProperties
    <3> QED BY <2>1, <3>1, ElementOfSeq DEF Range
  <2> HIDE DEF slot
  <2>3. Occupied \subseteq Slots \ {slot}
    BY <2>2 DEF Occupied, TypeOK, SlotsExclusive
  <2>4. IsFiniteSet(Slots \ {slot}) /\ Cardinality(Slots \ {slot}) = MaxRecords - 1
    BY <2>2, SlotsFinite, FS_RemoveElement
  <2>5. IsFiniteSet(InMem) /\ Cardinality(InMem) <= MaxRecords - 1
    <3> HIDE DEF IInv
    <3>1. SlotsExclusive BY DEF IInv
    <3> QED BY <2>3, <2>4, <3>1, ResidentWithin
  <2> QED BY <1>1, <2>5, FS_CardinalityType
<1>3. CASE ~ overflow_triggered
  <2>1. Occupied = 0 .. num_active_records - 1 /\ num_active_records \in Nat
    BY <1>3 DEF SlotsAccounted, SlotSupply, Occupied
  <2>2. /\ IsFiniteSet(0 .. num_active_records - 1)
        /\ Cardinality(0 .. num_active_records - 1) = num_active_records
    <3>1. 0 \in Int /\ num_active_records - 1 \in Int
      BY <2>1
    <3> QED BY <2>1, <3>1, FS_Interval
  <2>3. IsFiniteSet(InMem) /\ Cardinality(InMem) <= num_active_records
    <3> HIDE DEF IInv
    <3>1. SlotsExclusive BY DEF IInv
    <3> QED BY <2>1, <2>2, <3>1, ResidentWithin
  <2> QED BY <1>1, <2>3, FS_CardinalityType
<1> QED BY <1>2, <1>3

-----------------------------------------------------------------------------
(* Why a task aborts.                                                       *)

\* Once aborted, the counter stands at its limit and the share of the whole
\* pool is not one record.
AbortedFull == ~ up => ~ HasRoom /\ ~ (Share(MaxRecords) >= 1)

\* A task aborts with a full ramdisk, and only if a dump moves nothing.
LEMMA RefusalFull ==
  ASSUME IInv, NEW key \in Keys, StoreRefused(key)
  PROVE  Cardinality(InMem) = MaxRecords /\ Share(MaxRecords) = 0
<1>1. ~ HasRoom /\ free_records = << >> /\ NumToDump = 0
  BY DEF StoreRefused, use_disk_overflow
<1>2. Cardinality(InMem) = MaxRecords
  BY <1>1, FullWhenStuck
<1> QED BY <1>1, <1>2 DEF NumToDump

LEMMA AbortedInvariant == IInv /\ AbortedFull /\ [Next]_vars => AbortedFull'
<1> SUFFICES ASSUME IInv, AbortedFull, [Next]_vars PROVE AbortedFull'
  OBVIOUS
<1>1. CASE UNCHANGED vars
  BY <1>1 DEF vars, AbortedFull, HasRoom, Share
<1>2. ASSUME NEW key \in Keys, NEW d \in Data, PullData(key) \/ StoreData(key, d)
      PROVE  AbortedFull'
  <2>1. CASE StoreRefused(key)
    <3>1. Share(MaxRecords) = 0 /\ ~ HasRoom
      BY <2>1, RefusalFull DEF StoreRefused
    <3>2. num_active_records' = num_active_records
          /\ dump_watermark_ratio' = dump_watermark_ratio
      BY <2>1 DEF StoreRefused
    <3>3. HasRoom' = HasRoom /\ Share(MaxRecords)' = Share(MaxRecords)
      BY <3>2 DEF HasRoom, Share
    <3> QED BY <3>1, <3>3 DEF AbortedFull
  <2>2. CASE ~ StoreRefused(key)
    <3>1. up'
      BY <1>2, <2>2 DEF PullData, StoreData, StoreFresh, StoreReuse, StoreOverflow, StoreUpdate
    <3> QED BY <3>1 DEF AbortedFull
  <2> QED BY <2>1, <2>2
<1>3. ASSUME NEW key \in Keys, PullData(key) PROVE AbortedFull'
  BY <1>3 DEF PullData, AbortedFull
<1> QED BY <1>1, <1>2, <1>3 DEF Next

THEOREM AbortInvariance == Spec => [](IInv /\ AbortedFull)
<1>1. Init => AbortedFull
  BY DEF Init, AbortedFull
<1> QED BY <1>1, InitInvariant, NextInvariant, AbortedInvariant, PTL DEF Spec

\* Counter and stack together exceed the pool after the first dump, which is
\* what keeps GetFreeRecord from handing out a slot twice.
THEOREM SupplyHolds == Spec => []SlotSupply
BY Invariance, PTL DEF IInv

\* However often num_active_records was incremented twice for one record, it
\* never understates the ramdisk (GetFreeRecord's capacity test).
THEOREM RoomNeverFeigned == Spec => []RoomIsReal
<1>1. IInv /\ AbortedFull => RoomIsReal
  BY RoomWhenUp DEF AbortedFull, RoomIsReal
<1> QED BY <1>1, AbortInvariance, PTL

\* With a share of at least one record of the whole pool, the assertion of
\* GetFreeRecord never fails.
THEOREM DumpAlwaysFrees == Spec => []OverflowNeverAborts
<1>1. AbortedFull => OverflowNeverAborts
  BY DEF AbortedFull, OverflowNeverAborts
<1> QED BY <1>1, AbortInvariance, PTL

\* A task gives up only over a full ramdisk.
THEOREM RefusalMeansFull == Spec => RefusesOnlyWhenFull
<1>1. IInv /\ [Next]_vars => [up /\ ~ up' => Cardinality(InMem) = MaxRecords]_vars
  <2> SUFFICES ASSUME IInv, [Next]_vars, up, ~ up'
               PROVE  Cardinality(InMem) = MaxRecords
    OBVIOUS
  <2>1. PICK key \in Keys, d \in Data : PullData(key) \/ StoreData(key, d)
    <3>1. Next
      BY DEF vars
    <3>2. \A key \in Keys : ~ PullData(key)
      BY DEF PullData
    <3> QED BY <3>1, <3>2 DEF Next
  <2>2. StoreRefused(key)
    BY <2>1 DEF PullData, StoreData, StoreFresh, StoreReuse, StoreOverflow, StoreUpdate
  <2> QED BY <2>2, RefusalFull
<1> QED BY <1>1, Invariance, PTL DEF Spec, RefusesOnlyWhenFull

-----------------------------------------------------------------------------
(* What a step does to the values held for the keys.                        *)

\* Installing a record in a slot no resident record of map uses.  Where map
\* moved a record to the file, the file holds its block.
LEMMA InstallValues ==
  ASSUME TypeOK, NEW map, map \in [DOMAIN smap -> Datagram], DOMAIN map = DOMAIN smap,
         NEW key \in Keys, key \notin DOMAIN smap,
         NEW slot \in Slots, NEW d \in Data,
         Install(map, key, slot, d),
         \A k \in DOMAIN smap :
            IF map[k].in_mem
            THEN map[k] = smap[k] /\ map[k].index # slot
            ELSE disk'[map[k].index] = ValueOf(k)
  PROVE  /\ ValueOf(key)' = d
         /\ \A k \in DOMAIN smap : ValueOf(k)' = ValueOf(k)
<1>1. /\ DOMAIN map \subseteq Keys /\ pool \in [Slots -> Block]
      /\ map \in [DOMAIN map -> Datagram] /\ key \notin DOMAIN map
  BY DEF TypeOK
<1>2. /\ smap'[key].in_mem = TRUE /\ smap'[key].index = slot
      /\ \A k \in DOMAIN map : smap'[k] = map[k]
  BY DEF Install, NewDatagram
<1>3. pool' = [pool EXCEPT ![slot] = d]
  BY DEF Install
<1>4. ValueOf(key)' = d
  BY <1>1, <1>2, <1>3 DEF ValueOf
<1>5. ASSUME NEW k \in DOMAIN smap PROVE ValueOf(k)' = ValueOf(k)
  <2>1. smap'[k] = map[k]
    BY <1>2
  <2>2. CASE map[k].in_mem
    <3>1. map[k] = smap[k] /\ map[k].index # slot /\ smap[k].index \in Slots
      BY <2>2 DEF TypeOK, InMem
    <3>2. pool'[smap[k].index] = pool[smap[k].index]
      BY <1>1, <1>3, <3>1
    <3> QED BY <2>1, <2>2, <3>1, <3>2 DEF ValueOf
  <2>3. CASE ~ map[k].in_mem
    BY <2>1, <2>3 DEF ValueOf
  <2> QED BY <2>2, <2>3
<1> QED BY <1>4, <1>5

\* The slot a dump leaves on top belongs to no record that stays.
LEMMA DumpSlot ==
  ASSUME IInv, NEW q \in DumpOrders, FreedBy(q) # << >>
  PROVE  /\ Top(FreedBy(q)) \in Slots
         /\ \A k \in InMem \ Range(q) : smap[k].index # Top(FreedBy(q))
<1> USE DEF IInv
<1>1. /\ FreedBy(q) \in Seq(Slots)
      /\ Range(FreedBy(q)) = Range(free_records) \cup {smap[k].index : k \in Range(q)}
  BY DumpStack
<1>2. Top(FreedBy(q)) \in Slots /\ Top(FreedBy(q)) \in Range(FreedBy(q))
  <2> DEFINE stack == FreedBy(q)
  <2>1. Len(stack) \in Nat /\ Len(stack) >= 1 /\ DOMAIN stack = 1 .. Len(stack)
    BY <1>1, EmptySeq, LenProperties
  <2> HIDE DEF stack
  <2>2. stack \in Seq(Slots)
    BY <1>1 DEF stack
  <2>3. Top(stack) \in Slots /\ Top(stack) \in Range(stack)
    BY <2>1, <2>2, ElementOfSeq DEF Top, Range
  <2> QED BY <2>3 DEF stack
<1>3. Range(q) \subseteq InMem
  BY DumpOrder
<1>4. \A k \in InMem \ Range(q) : smap[k].index \notin Range(FreedBy(q))
  <2>1. \A k \in InMem : smap[k].index \notin Range(free_records)
    BY DEF SlotsExclusive
  <2>2. \A k \in InMem, j \in Range(q) : smap[k].index = smap[j].index => k = j
    BY <1>3 DEF SlotsExclusive
  <2> QED BY <1>1, <2>1, <2>2
<1> QED BY <1>2, <1>4

\* A dump writes every block to the file slot the map records for it.
LEMMA DumpValues ==
  ASSUME IInv, NEW q \in DumpOrders, NEW k \in DOMAIN smap, ~ DumpedMap(q)[k].in_mem
  PROVE  DumpedDisk(q)[DumpedMap(q)[k].index] = ValueOf(k)
<1> USE DEF IInv
<1> DEFINE n == num_active_disk_records
<1>1. /\ Len(q) \in Nat /\ Range(q) \subseteq InMem
      /\ \A j \in Range(q) : Place(q, j) \in 1 .. Len(q) /\ q[Place(q, j)] = j
  BY DumpOrder
<1>2. /\ \A j \in DOMAIN smap \ Range(q) : DumpedMap(q)[j] = smap[j]
      /\ \A j \in Range(q) : DumpedMap(q)[j].index = n + Place(q, j) - 1
  BY DumpMap
<1>3. n \in Nat /\ DOMAIN disk = 0 .. n - 1
  BY DEF TypeOK
<1>4. DOMAIN DumpedDisk(q) = 0 .. n + Len(q) - 1
  BY DumpFile
<1>5. CASE k \in Range(q)
  <2> DEFINE i == n + Place(q, k) - 1
  <2>1. i \in DOMAIN DumpedDisk(q) /\ i >= n /\ i - n + 1 = Place(q, k)
    BY <1>1, <1>3, <1>4, <1>5
  <2>2. DumpedDisk(q)[i] = pool[smap[q[i - n + 1]].index]
    BY <2>1, <1>3 DEF DumpedDisk
  <2>3. DumpedDisk(q)[i] = pool[smap[k].index]
    BY <1>1, <1>5, <2>1, <2>2
  <2>4. smap[k].in_mem
    BY <1>1, <1>5 DEF InMem
  <2> QED BY <1>2, <1>5, <2>3, <2>4 DEF ValueOf
<1>6. CASE k \notin Range(q)
  <2>1. DumpedMap(q)[k] = smap[k] /\ ~ smap[k].in_mem
    BY <1>2, <1>6
  <2>2. smap[k].index \in 0 .. n - 1
    BY <1>3, <2>1 DEF TypeOK, OnDisk
  <2>3. DumpedDisk(q)[smap[k].index] = disk[smap[k].index]
    BY <1>1, <1>3, <1>4, <2>2 DEF DumpedDisk
  <2> QED BY <2>1, <2>3 DEF ValueOf
<1> QED BY <1>5, <1>6

\* Storing a record under a new key sets its block and moves no other.
LEMMA StoreNewValues ==
  ASSUME IInv, NEW key \in Keys, NEW d \in Data,
         StoreFresh(key, d) \/ StoreReuse(key, d) \/ StoreOverflow(key, d)
  PROVE  /\ DOMAIN smap' = DOMAIN smap \cup {key} /\ key \notin DOMAIN smap
         /\ ValueOf(key)' = d
         /\ \A k \in DOMAIN smap : ValueOf(k)' = ValueOf(k)
         /\ up /\ up' = up /\ reply' = reply
<1>1. TypeOK /\ SlotsExclusive /\ SlotsAccounted /\ SlotSupply
  BY DEF IInv
<1>2. smap \in [DOMAIN smap -> Datagram]
  BY <1>1 DEF TypeOK
<1>3. key \notin DOMAIN smap /\ up /\ up' = up /\ reply' = reply
  BY DEF StoreFresh, StoreReuse, StoreOverflow
<1>4. CASE StoreFresh(key, d)
  <2>1. /\ num_active_records < MaxRecords /\ free_records = << >>
        /\ Install(smap, key, num_active_records, d) /\ disk' = disk
    BY <1>4 DEF StoreFresh, HasRoom
  <2>2. ~ overflow_triggered /\ num_active_records \in Nat
    <3>1. num_active_records \in Int /\ MaxRecords \in Nat /\ Len(free_records) = 0
      BY <1>1, <2>1, StoreAssumption DEF TypeOK
    <3> QED BY <1>1, <1>3, <2>1, <3>1 DEF SlotSupply
  <2>3. num_active_records \in Slots
    BY <2>1, <2>2, StoreAssumption DEF Slots
  <2>4. \A k \in InMem : smap[k].index # num_active_records
    <3>1. \A k \in InMem : smap[k].index \in 0 .. num_active_records - 1
      BY <1>1, <2>2 DEF SlotsAccounted
    <3> QED BY <2>2, <3>1
  <2>5. \A k \in DOMAIN smap :
          IF smap[k].in_mem
          THEN smap[k] = smap[k] /\ smap[k].index # num_active_records
          ELSE disk'[smap[k].index] = ValueOf(k)
    BY <2>1, <2>4 DEF InMem, ValueOf
  <2>6. /\ ValueOf(key)' = d
        /\ \A k \in DOMAIN smap : ValueOf(k)' = ValueOf(k)
    BY <1>1, <1>2, <1>3, <2>1, <2>3, <2>5, InstallValues
  <2>7. DOMAIN smap' = DOMAIN smap \cup {key}
    BY <2>1 DEF Install
  <2> QED BY <1>3, <2>6, <2>7
<1>5. CASE StoreReuse(key, d)
  <2> DEFINE slot == Top(free_records)
  <2>1. /\ free_records # << >> /\ Install(smap, key, slot, d) /\ disk' = disk
    BY <1>5 DEF StoreReuse
  <2>2. slot \in Slots /\ slot \in Range(free_records)
    <3>1. free_records \in Seq(Slots)
      BY <1>1 DEF TypeOK
    <3>2. Len(free_records) \in Nat /\ Len(free_records) >= 1
          /\ DOMAIN free_records = 1 .. Len(free_records)
      BY <2>1, <3>1, EmptySeq, LenProperties
    <3> QED BY <3>1, <3>2, ElementOfSeq DEF Top, Range
  <2> HIDE DEF slot
  <2>3. \A k \in DOMAIN smap :
          IF smap[k].in_mem
          THEN smap[k] = smap[k] /\ smap[k].index # slot
          ELSE disk'[smap[k].index] = ValueOf(k)
    BY <1>1, <2>1, <2>2 DEF InMem, ValueOf, SlotsExclusive
  <2>4. /\ ValueOf(key)' = d
        /\ \A k \in DOMAIN smap : ValueOf(k)' = ValueOf(k)
    BY <1>1, <1>2, <1>3, <2>1, <2>2, <2>3, InstallValues
  <2>5. DOMAIN smap' = DOMAIN smap \cup {key}
    BY <2>1 DEF Install
  <2> QED BY <1>3, <2>4, <2>5
<1>6. CASE StoreOverflow(key, d)
  <2>1. PICK q \in DumpOrders :
          /\ FreedBy(q) # << >> /\ disk' = DumpedDisk(q)
          /\ Install(DumpedMap(q), key, Top(FreedBy(q)), d)
    BY <1>6 DEF StoreOverflow
  <2> DEFINE map == DumpedMap(q)
             slot == Top(FreedBy(q))
  <2>2. slot \in Slots /\ \A k \in InMem \ Range(q) : smap[k].index # slot
    BY <2>1, DumpSlot
  <2>3. /\ map \in [DOMAIN smap -> Datagram] /\ DOMAIN map = DOMAIN smap
        /\ Resident(map) = InMem \ Range(q)
        /\ \A k \in DOMAIN smap \ Range(q) : map[k] = smap[k]
    BY <1>1, DumpMap
  <2>4. \A k \in DOMAIN smap : ~ map[k].in_mem => disk'[map[k].index] = ValueOf(k)
    BY <2>1, DumpValues
  <2>5. Install(map, key, slot, d)
    BY <2>1
  <2> HIDE DEF map, slot
  <2>6. \A k \in DOMAIN smap :
          IF map[k].in_mem
          THEN map[k] = smap[k] /\ map[k].index # slot
          ELSE disk'[map[k].index] = ValueOf(k)
    <3> SUFFICES ASSUME NEW k \in DOMAIN smap, map[k].in_mem
                 PROVE  map[k] = smap[k] /\ map[k].index # slot
      BY <2>4
    <3>1. k \in InMem \ Range(q)
      BY <2>3 DEF Resident
    <3> QED BY <2>2, <2>3, <3>1
  <2>7. /\ ValueOf(key)' = d
        /\ \A k \in DOMAIN smap : ValueOf(k)' = ValueOf(k)
    BY <1>1, <1>2, <1>3, <2>2, <2>3, <2>5, <2>6, InstallValues
  <2>8. DOMAIN smap' = DOMAIN smap \cup {key}
    BY <2>3, <2>5 DEF Install
  <2> QED BY <1>3, <2>7, <2>8
<1> QED BY <1>4, <1>5, <1>6

\* Updating a record sets its block, in memory or in the file, and no other:
\* no two records share a slot.
LEMMA UpdateValues ==
  ASSUME IInv, NEW key \in Keys, NEW d \in Data, StoreUpdate(key, d)
  PROVE  /\ DOMAIN smap' = DOMAIN smap /\ key \in DOMAIN smap
         /\ ValueOf(key)' = d
         /\ \A k \in DOMAIN smap \ {key} : ValueOf(k)' = ValueOf(k)
         /\ up /\ up' = up /\ reply' = reply
<1>1. TypeOK /\ SlotsExclusive /\ FileDense
  BY DEF IInv
<1>2. /\ key \in DOMAIN smap /\ up /\ up' = up /\ reply' = reply
      /\ smap' = [smap EXCEPT ![key].write_count = @ + 1]
      /\ IF smap[key].in_mem
         THEN pool' = [pool EXCEPT ![smap[key].index] = d] /\ disk' = disk
         ELSE disk' = [disk EXCEPT ![smap[key].index] = d] /\ pool' = pool
  BY DEF StoreUpdate
<1>3. /\ DOMAIN smap' = DOMAIN smap
      /\ \A k \in DOMAIN smap :
            smap'[k].in_mem = smap[k].in_mem /\ smap'[k].index = smap[k].index
  BY <1>1, <1>2 DEF TypeOK, Datagram
<1>4. /\ \A k \in InMem : smap[k].index \in DOMAIN pool
      /\ \A k \in OnDisk : smap[k].index \in DOMAIN disk
  BY <1>1 DEF TypeOK
<1>5. CASE smap[key].in_mem
  <2>1. key \in InMem /\ pool' = [pool EXCEPT ![smap[key].index] = d] /\ disk' = disk
    BY <1>2, <1>5 DEF InMem
  <2>2. ValueOf(key)' = d
    BY <1>2, <1>3, <1>4, <1>5, <2>1 DEF ValueOf
  <2>3. ASSUME NEW k \in DOMAIN smap, k # key PROVE ValueOf(k)' = ValueOf(k)
    <3>1. CASE k \in InMem
      <4>1. smap[k].index # smap[key].index
        BY <1>1, <2>1, <2>3, <3>1 DEF SlotsExclusive
      <4>2. pool'[smap[k].index] = pool[smap[k].index]
        BY <1>4, <2>1, <3>1, <4>1
      <4> QED BY <1>3, <3>1, <4>2 DEF ValueOf, InMem
    <3>2. CASE k \notin InMem
      BY <1>3, <2>1, <3>2 DEF ValueOf, InMem
    <3> QED BY <3>1, <3>2
  <2> QED BY <1>2, <1>3, <2>2, <2>3
<1>6. CASE ~ smap[key].in_mem
  <2>1. key \in OnDisk /\ disk' = [disk EXCEPT ![smap[key].index] = d] /\ pool' = pool
    BY <1>2, <1>6 DEF OnDisk
  <2>2. ValueOf(key)' = d
    BY <1>2, <1>3, <1>4, <1>6, <2>1 DEF ValueOf
  <2>3. ASSUME NEW k \in DOMAIN smap, k # key PROVE ValueOf(k)' = ValueOf(k)
    <3>1. CASE k \in OnDisk
      <4>1. smap[k].index # smap[key].index
        BY <1>1, <2>1, <2>3, <3>1 DEF FileDense
      <4>2. disk'[smap[k].index] = disk[smap[k].index]
        BY <1>4, <2>1, <3>1, <4>1
      <4> QED BY <1>3, <3>1, <4>2 DEF ValueOf, OnDisk
    <3>2. CASE k \notin OnDisk
      BY <1>3, <2>1, <3>2 DEF ValueOf, OnDisk
    <3> QED BY <3>1, <3>2
  <2> QED BY <1>2, <1>3, <2>2, <2>3
<1> QED BY <1>5, <1>6

-----------------------------------------------------------------------------
(* Which records leave the ramdisk.                                         *)

\* A step that moves no record evicts none.
LEMMA NothingMoves ==
  ASSUME DOMAIN smap \subseteq DOMAIN smap',
         \A k \in DOMAIN smap :
            smap'[k].in_mem = smap[k].in_mem /\ smap'[k].index = smap[k].index
  PROVE  /\ InMem \ InMem' = {}
         /\ \A k \in OnDisk : k \in OnDisk' /\ smap'[k].index = smap[k].index
BY DEF InMem, OnDisk

\* The records of one dump leave, least read first, and the others stay.
LEMMA OverflowEvicts ==
  ASSUME IInv, NEW key \in Keys, NEW d \in Data, StoreOverflow(key, d)
  PROVE  /\ \A k \in InMem \ InMem', j \in InMem \cap InMem' :
               smap[k].read_count <= smap[j].read_count
         /\ \A k \in OnDisk : k \in OnDisk' /\ smap'[k].index = smap[k].index
<1>1. TypeOK /\ SlotsExclusive
  BY DEF IInv
<1>2. PICK q \in DumpOrders : Install(DumpedMap(q), key, Top(FreedBy(q)), d)
  BY DEF StoreOverflow
<1>3. key \notin DOMAIN smap
  BY DEF StoreOverflow
<1>4. /\ Range(q) \subseteq InMem
      /\ \A k \in Range(q) : Place(q, k) \in 1 .. NumToDump /\ q[Place(q, k)] = k
  <2>1. /\ Len(q) \in Nat /\ DOMAIN q = 1 .. Len(q) /\ Range(q) \subseteq InMem
        /\ \A k \in Range(q) : Place(q, k) \in 1 .. Len(q) /\ q[Place(q, k)] = k
    BY <1>1, DumpOrder
  <2>2. DOMAIN q = 1 .. NumToDump
    BY DEF DumpOrders
  <2> QED BY <2>1, <2>2
<1>5. /\ DOMAIN DumpedMap(q) = DOMAIN smap
      /\ \A k \in DOMAIN smap \ Range(q) : DumpedMap(q)[k] = smap[k]
      /\ \A k \in Range(q) : DumpedMap(q)[k].in_mem = FALSE
  BY <1>1, DumpMap
<1>6. /\ DOMAIN smap \subseteq DOMAIN smap'
      /\ \A k \in DOMAIN smap : smap'[k] = DumpedMap(q)[k]
  BY <1>2, <1>3, <1>5 DEF Install
<1>7. \A k \in InMem : k \in InMem' <=> k \notin Range(q)
  BY <1>5, <1>6 DEF InMem
<1>8. \A j \in InMem \ Range(q), i \in 1 .. NumToDump :
         smap[q[i]].read_count <= smap[j].read_count
  BY DEF DumpOrders
<1>9. \A k \in InMem \ InMem', j \in InMem \cap InMem' :
         smap[k].read_count <= smap[j].read_count
  BY <1>4, <1>7, <1>8
<1>10. \A k \in OnDisk : k \in OnDisk' /\ smap'[k].index = smap[k].index
  BY <1>4, <1>5, <1>6 DEF OnDisk, InMem
<1> QED BY <1>9, <1>10

\* A record leaves the ramdisk only for want of readers, and never returns
\* (the priority queue of DumptoDisk, and PullData which reads in place).
THEOREM LeastReadLeave == Spec => EvictsLeastRead
<1> DEFINE Evicts ==
      /\ \A k \in InMem \ InMem', j \in InMem \cap InMem' :
            smap[k].read_count <= smap[j].read_count
      /\ \A k \in OnDisk : k \in OnDisk' /\ smap'[k].index = smap[k].index
<1>1. ASSUME IInv, [Next]_vars PROVE Evicts
  <2>1. CASE UNCHANGED vars
    BY <2>1, NothingMoves DEF vars
  <2>2. ASSUME NEW key \in Keys, PullData(key) PROVE Evicts
    <3>1. smap \in [DOMAIN smap -> Datagram]
      BY <1>1 DEF IInv, TypeOK
    <3>2. smap' = [smap EXCEPT ![key].read_count = @ + 1] /\ key \in DOMAIN smap
      BY <2>2 DEF PullData
    <3> QED BY <3>1, <3>2, NothingMoves DEF Datagram
  <2>3. ASSUME NEW key \in Keys, NEW d \in Data, StoreData(key, d) PROVE Evicts
    <3>1. CASE StoreFresh(key, d)
      <4>1. key \notin DOMAIN smap /\ Install(smap, key, num_active_records, d)
        BY <3>1 DEF StoreFresh
      <4>2. DOMAIN smap \subseteq DOMAIN smap' /\ \A k \in DOMAIN smap : smap'[k] = smap[k]
        BY <4>1 DEF Install
      <4> QED BY <4>2, NothingMoves
    <3>2. CASE StoreReuse(key, d)
      <4>1. key \notin DOMAIN smap /\ Install(smap, key, Top(free_records), d)
        BY <3>2 DEF StoreReuse
      <4>2. DOMAIN smap \subseteq DOMAIN smap' /\ \A k \in DOMAIN smap : smap'[k] = smap[k]
        BY <4>1 DEF Install
      <4> QED BY <4>2, NothingMoves
    <3>3. CASE StoreOverflow(key, d)
      BY <1>1, <3>3, OverflowEvicts
    <3>4. CASE StoreRefused(key)
      BY <3>4, NothingMoves DEF StoreRefused
    <3>5. CASE StoreUpdate(key, d)
      <4>1. smap \in [DOMAIN smap -> Datagram]
        BY <1>1 DEF IInv, TypeOK
      <4>2. smap' = [smap EXCEPT ![key].write_count = @ + 1] /\ key \in DOMAIN smap
        BY <3>5 DEF StoreUpdate
      <4> QED BY <4>1, <4>2, NothingMoves DEF Datagram
    <3> QED BY <2>3, <3>1, <3>2, <3>3, <3>4, <3>5 DEF StoreData
  <2> HIDE DEF Evicts
  <2> QED BY <1>1, <2>1, <2>2, <2>3 DEF Next
<1> QED BY <1>1, Invariance, PTL DEF Spec, EvictsLeastRead

-----------------------------------------------------------------------------
(* The refinement.                                                          *)

Records == [k \in DOMAIN smap |-> ValueOf(k)]

\* The write of one block.
LEMMA PutRefines ==
  ASSUME NEW key \in Keys, NEW d \in Data,
         DOMAIN smap' = DOMAIN smap \cup {key},
         ValueOf(key)' = d,
         \A k \in DOMAIN smap \ {key} : ValueOf(k)' = ValueOf(k),
         up, up' = up, reply' = reply
  PROVE  Store!Put(key, d)
<1>1. Records' = [k \in DOMAIN smap' |-> ValueOf(k)']
  BY DEF Records
<1>2. Records' = [x \in DOMAIN Records \cup {key} |-> IF x = key THEN d ELSE Records[x]]
  BY <1>1 DEF Records
<1> QED BY <1>2 DEF Store!Put, Records

\* Each step of the task is a step, or a stutter, of the map it promises.
LEMMA StepRefines == IInv /\ [Next]_vars => [Store!Next]_Store!vars
<1> SUFFICES ASSUME IInv, [Next]_vars PROVE [Store!Next]_Store!vars
  OBVIOUS
<1>1. CASE UNCHANGED vars
  BY <1>1 DEF vars, Store!vars, ValueOf
<1>2. ASSUME NEW key \in Keys, PullData(key) PROVE Store!Next
  <2>1. /\ up /\ up' = up /\ key \in DOMAIN smap /\ reply' = ValueOf(key)
        /\ smap' = [smap EXCEPT ![key].read_count = @ + 1]
        /\ pool' = pool /\ disk' = disk
    BY <1>2 DEF PullData
  <2>2. smap \in [DOMAIN smap -> Datagram]
    BY DEF IInv, TypeOK
  <2>3. /\ DOMAIN smap' = DOMAIN smap
        /\ \A k \in DOMAIN smap :
              smap'[k].in_mem = smap[k].in_mem /\ smap'[k].index = smap[k].index
    BY <2>1, <2>2 DEF Datagram
  <2>4. \A k \in DOMAIN smap : ValueOf(k)' = ValueOf(k)
    BY <2>1, <2>3 DEF ValueOf
  <2>5. Records' = Records
    <3>1. Records' = [k \in DOMAIN smap' |-> ValueOf(k)']
      BY DEF Records
    <3> QED BY <2>3, <2>4, <3>1 DEF Records
  <2>6. Store!Get(key)
    BY <2>1, <2>5 DEF Store!Get, Records
  <2> QED BY <2>6 DEF Store!Next
<1>3. ASSUME NEW key \in Keys, NEW d \in Data, StoreData(key, d) PROVE Store!Next
  <2>1. CASE StoreFresh(key, d) \/ StoreReuse(key, d) \/ StoreOverflow(key, d)
    <3>1. Store!Put(key, d)
      BY <2>1, StoreNewValues, PutRefines
    <3> QED BY <3>1 DEF Store!Next
  <2>2. CASE StoreRefused(key)
    <3>1. Store!Refuse(key)
      BY <2>2 DEF StoreRefused, Store!Refuse, ValueOf
    <3> QED BY <3>1 DEF Store!Next
  <2>3. CASE StoreUpdate(key, d)
    <3>1. DOMAIN smap' = DOMAIN smap \cup {key}
      BY <2>3, UpdateValues
    <3>2. Store!Put(key, d)
      BY <2>3, <3>1, UpdateValues, PutRefines
    <3> QED BY <3>2 DEF Store!Next
  <2> QED BY <1>3, <2>1, <2>2, <2>3 DEF StoreData
<1> QED BY <1>1, <1>2, <1>3 DEF Next

\* Through dumps, slot reuse and updates wherever a record lives, a read
\* returns the block last written under its key.
THEOREM StoreRefines == Spec => StoreSpec
<1>1. Init => Store!Init
  <2> SUFFICES ASSUME Init PROVE Store!Init
    OBVIOUS
  <2>1. DOMAIN smap = {} /\ reply = NoReply /\ up = TRUE
    BY DEF Init
  <2> QED BY <2>1 DEF Store!Init
<1> QED BY <1>1, StepRefines, Invariance, PTL DEF Spec, StoreSpec, Store!Spec
=============================================================================

---------------------------- MODULE LibraryProofs ----------------------------
(***************************************************************************)
(* Proofs about the service libraries, for every set of names and of       *)
(* processes and for every bound:                                          *)
(*   H  the HDF5 wrapper: the error handler, and the groups of a file that *)
(*      is closed;                                                         *)
(*   S  scratch directories: which are taken early, and which are left;    *)
(*   P  parent directories: each is made, and callers cannot all lose;      *)
(*   I  the input parser implements the promise of InputQueries.           *)
(* A step of one library leaves the variables of the others unchanged, so  *)
(* each has an inductive invariant of its own.                             *)
(***************************************************************************)
EXTENDS Libraries, FiniteSetTheorems, SequenceTheorems, WellFoundedInduction, TLAPS

-----------------------------------------------------------------------------
(* Counting handles.                                                        *)

GroupsOpen(ids, f) == {g \in Groups : ids[g] = f}
DataOpen(ids, f) == {d \in Datasets : ids[d] # NoEntry /\ ids[d].file = f}
AttributesOpen(ids, f) ==
    {a \in Attributes : ids[a] # NoEntry /\ ids[a].file = f /\ ids[a].live}
TablesOf(t, f) == {x \in {t} : x = f}

\* Objects of f that the caches and the table keep open.
Held(gs, ds, bs, t, f) ==
    Cardinality(GroupsOpen(gs, f)) + Cardinality(DataOpen(ds, f))
    + Cardinality(AttributesOpen(bs, f)) + Cardinality(TablesOf(t, f))

\* A count in file f, when one object more, or less, is open in file f0.
Plus(n, f, f0) == IF f = f0 THEN n + 1 ELSE n
Minus(n, f, f0) == IF f = f0 THEN n - 1 ELSE n
Grown(n, f0) == [n EXCEPT ![f0] = @ + 1]
Shrunk(n, f0) == [n EXCEPT ![f0] = @ - 1]

GroupCache == [Groups -> Files \cup {NoEntry, Zero}]
DataCache == [Datasets -> [file : Files, group : Groups] \cup {NoEntry}]
AttributeCache == [Attributes -> H!AttributeHandles \cup {NoEntry}]

\* The constants' part of LibraryAssumption that the lemmas need.
LEMMA HandleFacts ==
  /\ IsFiniteSet(Groups) /\ IsFiniteSet(Attributes) /\ IsFiniteSet(Datasets)
  /\ None \notin Files /\ NoEntry \notin Files /\ Zero \notin Files
  /\ NoEntry \notin [file : Files, group : Groups] /\ NoEntry \notin H!AttributeHandles
<1>0. \A T : H!IsFiniteSet(T) <=> IsFiniteSet(T)
  BY DEF H!IsFiniteSet, IsFiniteSet
<1>1. H!HandleConstants
  BY LibraryAssumption
<1>2. /\ IsFiniteSet(Groups) /\ IsFiniteSet(Attributes) /\ IsFiniteSet(Datasets)
      /\ NoEntry \notin [file : Files, group : Groups] \cup H!AttributeHandles
      /\ {None, NoEntry, Zero} \cap Files = {}
  BY <1>0, <1>1 DEF H!HandleConstants
<1>3. None \notin Files /\ NoEntry \notin Files /\ Zero \notin Files
  BY <1>2
<1> QED BY <1>2, <1>3

LEMMA GroupCount ==
  ASSUME NEW gs, NEW f
  PROVE  IsFiniteSet(GroupsOpen(gs, f)) /\ Cardinality(GroupsOpen(gs, f)) \in Nat
<1>1. GroupsOpen(gs, f) \subseteq Groups
  BY DEF GroupsOpen
<1> QED BY <1>1, HandleFacts, FS_Subset, FS_CardinalityType

LEMMA DataCount ==
  ASSUME NEW ds, NEW f
  PROVE  IsFiniteSet(DataOpen(ds, f)) /\ Cardinality(DataOpen(ds, f)) \in Nat
<1>1. DataOpen(ds, f) \subseteq Datasets
  BY DEF DataOpen
<1> QED BY <1>1, HandleFacts, FS_Subset, FS_CardinalityType

LEMMA AttributeCount ==
  ASSUME NEW bs, NEW f
  PROVE  /\ IsFiniteSet(AttributesOpen(bs, f))
         /\ Cardinality(AttributesOpen(bs, f)) \in Nat
<1>1. AttributesOpen(bs, f) \subseteq Attributes
  BY DEF AttributesOpen
<1> QED BY <1>1, HandleFacts, FS_Subset, FS_CardinalityType

LEMMA TableCount ==
  ASSUME NEW t, NEW f
  PROVE  Cardinality(TablesOf(t, f)) \in Nat
<1>1. TablesOf(t, f) \subseteq {t}
  BY DEF TablesOf
<1> QED BY <1>1, FS_Singleton, FS_Subset, FS_CardinalityType

LEMMA HeldParts ==
  ASSUME NEW gs, NEW ds, NEW bs, NEW t, NEW f
  PROVE  /\ Cardinality(GroupsOpen(gs, f)) \in Nat /\ Cardinality(DataOpen(ds, f)) \in Nat
         /\ Cardinality(AttributesOpen(bs, f)) \in Nat /\ Cardinality(TablesOf(t, f)) \in Nat
         /\ Held(gs, ds, bs, t, f) \in Nat
<1>1. Cardinality(GroupsOpen(gs, f)) \in Nat
  BY GroupCount
<1>2. Cardinality(DataOpen(ds, f)) \in Nat
  BY DataCount
<1>3. Cardinality(AttributesOpen(bs, f)) \in Nat
  BY AttributeCount
<1>4. Cardinality(TablesOf(t, f)) \in Nat
  BY TableCount
<1> QED BY <1>1, <1>2, <1>3, <1>4 DEF Held

\* A group is opened.
LEMMA GroupMore ==
  ASSUME groupIds \in GroupCache, NEW g \in Groups, groupIds[g] \notin Files,
         NEW f0 \in Files, NEW f \in Files, NEW more, more = [groupIds EXCEPT ![g] = f0]
  PROVE  Held(more, datasetIds, attributeIds, table, f)
           = Plus(Held(groupIds, datasetIds, attributeIds, table, f), f, f0)
<1>1. GroupsOpen(more, f)
        = IF f = f0 THEN GroupsOpen(groupIds, f) \cup {g} ELSE GroupsOpen(groupIds, f)
  BY DEF GroupsOpen, GroupCache
<1>2. g \notin GroupsOpen(groupIds, f)
  BY DEF GroupsOpen
<1>3. IsFiniteSet(GroupsOpen(groupIds, f))
  BY GroupCount
<1>4. /\ Cardinality(GroupsOpen(groupIds, f)) \in Nat
      /\ Cardinality(DataOpen(datasetIds, f)) \in Nat
      /\ Cardinality(AttributesOpen(attributeIds, f)) \in Nat
      /\ Cardinality(TablesOf(table, f)) \in Nat
  BY HeldParts
<1>5. CASE f = f0
  <2>1. GroupsOpen(more, f) = GroupsOpen(groupIds, f) \cup {g}
    BY <1>1, <1>5
  <2>2. Cardinality(GroupsOpen(more, f)) = Cardinality(GroupsOpen(groupIds, f)) + 1
    BY <1>2, <1>3, <2>1, FS_AddElement
  <2>3. Held(more, datasetIds, attributeIds, table, f)
          = Held(groupIds, datasetIds, attributeIds, table, f) + 1
    BY <1>4, <2>2 DEF Held
  <2> QED BY <1>5, <2>3 DEF Plus
<1>6. CASE f # f0
  <2>1. GroupsOpen(more, f) = GroupsOpen(groupIds, f)
    BY <1>1, <1>6
  <2>2. Held(more, datasetIds, attributeIds, table, f)
          = Held(groupIds, datasetIds, attributeIds, table, f)
    BY <2>1 DEF Held
  <2> QED BY <1>6, <2>2 DEF Plus
<1> QED BY <1>5, <1>6

\* Names without a group are not counted, nor is the id 0.
LEMMA GroupEntered ==
  ASSUME groupIds \in GroupCache, NEW hs \in GroupCache,
         \A g \in Groups : hs[g] = groupIds[g] \/ (groupIds[g] = NoEntry /\ hs[g] = Zero),
         NEW f \in Files
  PROVE  Held(hs, datasetIds, attributeIds, table, f)
           = Held(groupIds, datasetIds, attributeIds, table, f)
<1>1. GroupsOpen(hs, f) = GroupsOpen(groupIds, f)
  BY HandleFacts DEF GroupsOpen
<1> QED BY <1>1 DEF Held

\* All groups are closed.
LEMMA GroupsNone ==
  ASSUME NEW f \in Files
  PROVE  Held([g \in Groups |-> NoEntry], datasetIds, attributeIds, table, f)
           = Held(groupIds, datasetIds, attributeIds, table, f)
             - Cardinality(GroupsOpen(groupIds, f))
<1>1. GroupsOpen([g \in Groups |-> NoEntry], f) = {}
  BY HandleFacts DEF GroupsOpen
<1>2. Cardinality(GroupsOpen([g \in Groups |-> NoEntry], f)) = 0
  BY <1>1, FS_EmptySet
<1>3. /\ Cardinality(GroupsOpen(groupIds, f)) \in Nat
      /\ Cardinality(DataOpen(datasetIds, f)) \in Nat
      /\ Cardinality(AttributesOpen(attributeIds, f)) \in Nat
      /\ Cardinality(TablesOf(table, f)) \in Nat
  BY HeldParts
<1> QED BY <1>2, <1>3 DEF Held

\* A data set is opened.
LEMMA DataMore ==
  ASSUME datasetIds \in DataCache, NEW d \in Datasets, datasetIds[d] = NoEntry,
         NEW h \in [file : Files, group : Groups], NEW f \in Files,
         NEW more, more = [datasetIds EXCEPT ![d] = h]
  PROVE  Held(groupIds, more, attributeIds, table, f)
           = Plus(Held(groupIds, datasetIds, attributeIds, table, f), f, h.file)
<1>1. DataOpen(more, f)
        = IF f = h.file THEN DataOpen(datasetIds, f) \cup {d} ELSE DataOpen(datasetIds, f)
  BY HandleFacts DEF DataOpen, DataCache
<1>2. d \notin DataOpen(datasetIds, f)
  BY DEF DataOpen
<1>3. IsFiniteSet(DataOpen(datasetIds, f))
  BY DataCount
<1>4. /\ Cardinality(GroupsOpen(groupIds, f)) \in Nat
      /\ Cardinality(DataOpen(datasetIds, f)) \in Nat
      /\ Cardinality(AttributesOpen(attributeIds, f)) \in Nat
      /\ Cardinality(TablesOf(table, f)) \in Nat
  BY HeldParts
<1>5. CASE f = h.file
  <2>1. DataOpen(more, f) = DataOpen(datasetIds, f) \cup {d}
    BY <1>1, <1>5
  <2>2. Cardinality(DataOpen(more, f)) = Cardinality(DataOpen(datasetIds, f)) + 1
    BY <1>2, <1>3, <2>1, FS_AddElement
  <2>3. Held(groupIds, more, attributeIds, table, f)
          = Held(groupIds, datasetIds, attributeIds, table, f) + 1
    BY <1>4, <2>2 DEF Held
  <2> QED BY <1>5, <2>3 DEF Plus
<1>6. CASE f # h.file
  <2>1. DataOpen(more, f) = DataOpen(datasetIds, f)
    BY <1>1, <1>6
  <2>2. Held(groupIds, more, attributeIds, table, f)
          = Held(groupIds, datasetIds, attributeIds, table, f)
    BY <2>1 DEF Held
  <2> QED BY <1>6, <2>2 DEF Plus
<1> QED BY <1>5, <1>6

\* An attribute is opened.
LEMMA AttributeMore ==
  ASSUME attributeIds \in AttributeCache, NEW a \in Attributes,
         attributeIds[a] = NoEntry, NEW h \in H!AttributeHandles, h.live, NEW f \in Files,
         NEW more, more = [attributeIds EXCEPT ![a] = h]
  PROVE  Held(groupIds, datasetIds, more, table, f)
           = Plus(Held(groupIds, datasetIds, attributeIds, table, f), f, h.file)
<1>1. AttributesOpen(more, f)
        = IF f = h.file THEN AttributesOpen(attributeIds, f) \cup {a}
          ELSE AttributesOpen(attributeIds, f)
  BY HandleFacts DEF AttributesOpen, AttributeCache
<1>2. a \notin AttributesOpen(attributeIds, f)
  BY DEF AttributesOpen
<1>3. IsFiniteSet(AttributesOpen(attributeIds, f))
  BY AttributeCount
<1>4. /\ Cardinality(GroupsOpen(groupIds, f)) \in Nat
      /\ Cardinality(DataOpen(datasetIds, f)) \in Nat
      /\ Cardinality(AttributesOpen(attributeIds, f)) \in Nat
      /\ Cardinality(TablesOf(table, f)) \in Nat
  BY HeldParts
<1>5. CASE f = h.file
  <2>1. AttributesOpen(more, f) = AttributesOpen(attributeIds, f) \cup {a}
    BY <1>1, <1>5
  <2>2. Cardinality(AttributesOpen(more, f)) = Cardinality(AttributesOpen(attributeIds, f)) + 1
    BY <1>2, <1>3, <2>1, FS_AddElement
  <2>3. Held(groupIds, datasetIds, more, table, f)
          = Held(groupIds, datasetIds, attributeIds, table, f) + 1
    BY <1>4, <2>2 DEF Held
  <2> QED BY <1>5, <2>3 DEF Plus
<1>6. CASE f # h.file
  <2>1. AttributesOpen(more, f) = AttributesOpen(attributeIds, f)
    BY <1>1, <1>6
  <2>2. Held(groupIds, datasetIds, more, table, f)
          = Held(groupIds, datasetIds, attributeIds, table, f)
    BY <2>1 DEF Held
  <2> QED BY <1>6, <2>2 DEF Plus
<1> QED BY <1>5, <1>6

\* A live attribute handle, or none, is replaced by a closed one.
LEMMA AttributeClosed ==
  ASSUME attributeIds \in AttributeCache, NEW a \in Attributes,
         NEW h \in H!AttributeHandles, ~ h.live, NEW f \in Files,
         NEW less, less = [attributeIds EXCEPT ![a] = h]
  PROVE  Held(groupIds, datasetIds, less, table, f)
           = IF attributeIds[a] # NoEntry /\ attributeIds[a].live
             THEN Minus(Held(groupIds, datasetIds, attributeIds, table, f), f, attributeIds[a].file)
             ELSE Held(groupIds, datasetIds, attributeIds, table, f)
<1> DEFINE before == AttributesOpen(attributeIds, f)
           live == attributeIds[a] # NoEntry /\ attributeIds[a].live
<1>1. AttributesOpen(less, f) = before \ {a}
  BY DEF AttributesOpen, AttributeCache
<1>2. a \in before <=> live /\ f = attributeIds[a].file
  BY DEF AttributesOpen
<1>3. IsFiniteSet(before) /\ Cardinality(before) \in Nat
  BY AttributeCount
<1>4. /\ Cardinality(GroupsOpen(groupIds, f)) \in Nat
      /\ Cardinality(DataOpen(datasetIds, f)) \in Nat
      /\ Cardinality(TablesOf(table, f)) \in Nat
  BY HeldParts
<1> HIDE DEF live
<1>5. CASE live /\ f = attributeIds[a].file
  <2>1. Cardinality(AttributesOpen(less, f)) = Cardinality(before) - 1
    BY <1>1, <1>2, <1>3, <1>5, FS_RemoveElement
  <2>2. Held(groupIds, datasetIds, less, table, f)
          = Held(groupIds, datasetIds, attributeIds, table, f) - 1
    BY <1>3, <1>4, <2>1 DEF Held
  <2> QED BY <1>5, <2>2 DEF Minus, live
<1>6. CASE ~ (live /\ f = attributeIds[a].file)
  <2>1. AttributesOpen(less, f) = before
    BY <1>1, <1>2, <1>6
  <2>2. Held(groupIds, datasetIds, less, table, f)
          = Held(groupIds, datasetIds, attributeIds, table, f)
    BY <2>1 DEF Held
  <2> QED BY <1>6, <2>2 DEF Minus, live
<1> QED BY <1>5, <1>6

\* The packet table is opened, or closed.
LEMMA TableChange ==
  ASSUME NEW f0 \in Files, NEW f \in Files
  PROVE  Held(groupIds, datasetIds, attributeIds, f0, f)
           = Plus(Held(groupIds, datasetIds, attributeIds, None, f), f, f0)
<1>1. Cardinality(TablesOf(None, f)) = 0
  <2>1. TablesOf(None, f) = {}
    BY HandleFacts DEF TablesOf
  <2> QED BY <2>1, FS_EmptySet
<1>2. /\ Cardinality(GroupsOpen(groupIds, f)) \in Nat
      /\ Cardinality(DataOpen(datasetIds, f)) \in Nat
      /\ Cardinality(AttributesOpen(attributeIds, f)) \in Nat
  BY HeldParts
<1>3. CASE f = f0
  <2>1. TablesOf(f0, f) = {f0}
    BY <1>3 DEF TablesOf
  <2>2. Cardinality(TablesOf(f0, f)) = 1
    BY <2>1, FS_Singleton
  <2> QED BY <1>1, <1>2, <1>3, <2>2 DEF Held, Plus
<1>4. CASE f # f0
  <2>1. TablesOf(f0, f) = {}
    BY <1>4 DEF TablesOf
  <2>2. Cardinality(TablesOf(f0, f)) = 0
    BY <2>1, FS_EmptySet
  <2> QED BY <1>1, <1>2, <1>4, <2>2 DEF Held, Plus
<1> QED BY <1>3, <1>4

-----------------------------------------------------------------------------
(* The inductive invariant of the wrapper.                                  *)

HandleTypes ==
    /\ file \in Files \cup {None} /\ table \in Files \cup {None}
    /\ groupIds \in GroupCache /\ datasetIds \in DataCache /\ attributeIds \in AttributeCache
    /\ open \in [Files -> Nat] /\ badReads \in [Files -> Nat]

\* A cached group is one of the open file.
OfOpenFile == \A g \in Groups : groupIds[g] \in Files => groupIds[g] = file

Balanced ==
    \A f \in Files :
        open[f] = Held(groupIds, datasetIds, attributeIds, table, f) + badReads[f]

HInv == HandleTypes /\ handler = "user" /\ OfOpenFile /\ Balanced

\* Of a closed file, or one that is not the open one, no group is counted.
LEMMA HInvSuffices == HInv => H!HandlerRestored /\ H!GroupsClosed
<1> SUFFICES ASSUME HInv PROVE H!HandlerRestored /\ H!GroupsClosed
  OBVIOUS
<1>1. \A g \in Groups : groupIds[g] \in Files => groupIds[g] = file
  BY DEF HInv, OfOpenFile
<1>2. ASSUME NEW f \in Files, f # file, ~ H!KeptOpen(f)
      PROVE  open[f] = 0
  <2>1. GroupsOpen(groupIds, f) = {}
    BY <1>1, <1>2 DEF GroupsOpen
  <2>2. /\ DataOpen(datasetIds, f) = {} /\ AttributesOpen(attributeIds, f) = {}
        /\ TablesOf(table, f) = {} /\ badReads[f] = 0
    BY <1>2 DEF H!KeptOpen, DataOpen, AttributesOpen, TablesOf
  <2>3. Held(groupIds, datasetIds, attributeIds, table, f) = 0
    BY <2>1, <2>2, FS_EmptySet DEF Held
  <2> QED BY <2>2, <2>3 DEF HInv, Balanced
<1> QED BY <1>1, <1>2 DEF HInv, H!HandlerRestored, H!GroupsClosed

\* One object more in one file, and counted.
LEMMA GrownAt ==
  ASSUME NEW n \in [Files -> Nat], NEW f0 \in Files
  PROVE  /\ Grown(n, f0) \in [Files -> Nat]
         /\ \A f \in Files : Grown(n, f0)[f] = Plus(n[f], f, f0)
<1>1. n[f0] + 1 \in Nat
  OBVIOUS
<1> QED BY <1>1 DEF Plus, Grown

LEMMA PlusAdds ==
  ASSUME NEW n \in Nat, NEW b \in Nat, NEW f, NEW f0
  PROVE  Plus(n + b, f, f0) = Plus(n, f, f0) + b
BY DEF Plus

LEMMA MoreBalanced ==
  ASSUME HInv, NEW f0 \in Files, NEW gs, NEW ds, NEW bs, NEW t,
         \A f \in Files : Held(gs, ds, bs, t, f)
             = Plus(Held(groupIds, datasetIds, attributeIds, table, f), f, f0)
  PROVE  /\ Grown(open, f0) \in [Files -> Nat]
         /\ \A f \in Files : Grown(open, f0)[f] = Held(gs, ds, bs, t, f) + badReads[f]
<1>1. /\ open \in [Files -> Nat] /\ badReads \in [Files -> Nat]
      /\ \A f \in Files :
            open[f] = Held(groupIds, datasetIds, attributeIds, table, f) + badReads[f]
  BY DEF HInv, HandleTypes, Balanced
<1>3. /\ Grown(open, f0) \in [Files -> Nat]
      /\ \A f \in Files : Grown(open, f0)[f] = Plus(open[f], f, f0)
  BY <1>1, GrownAt
<1>4. ASSUME NEW f \in Files PROVE Grown(open, f0)[f] = Held(gs, ds, bs, t, f) + badReads[f]
  <2>1. Held(groupIds, datasetIds, attributeIds, table, f) \in Nat /\ badReads[f] \in Nat
    BY <1>1, HeldParts
  <2> QED BY <1>1, <1>3, <2>1, PlusAdds
<1> QED BY <1>3, <1>4

LEMMA LessBalanced ==
  ASSUME HInv, NEW f0 \in Files, NEW gs, NEW ds, NEW bs, NEW t,
         \A f \in Files : Held(gs, ds, bs, t, f)
             = Minus(Held(groupIds, datasetIds, attributeIds, table, f), f, f0)
  PROVE  /\ Shrunk(open, f0) \in [Files -> Nat]
         /\ \A f \in Files : Shrunk(open, f0)[f] = Held(gs, ds, bs, t, f) + badReads[f]
<1>1. /\ open \in [Files -> Nat] /\ badReads \in [Files -> Nat]
      /\ \A f \in Files :
            open[f] = Held(groupIds, datasetIds, attributeIds, table, f) + badReads[f]
  BY DEF HInv, HandleTypes, Balanced
<1>2. /\ Shrunk(open, f0) = [f \in Files |-> Minus(open[f], f, f0)]
  BY <1>1 DEF Shrunk, Minus
<1>3. ASSUME NEW f \in Files
      PROVE  /\ Shrunk(open, f0)[f] = Held(gs, ds, bs, t, f) + badReads[f]
             /\ Shrunk(open, f0)[f] \in Nat
  <2>1. Held(groupIds, datasetIds, attributeIds, table, f) \in Nat /\ badReads[f] \in Nat
    BY <1>1, HeldParts
  <2>2. Held(gs, ds, bs, t, f) \in Nat
    BY HeldParts
  <2>3. Shrunk(open, f0)[f] = Minus(open[f], f, f0)
    BY <1>2
  <2>4. Shrunk(open, f0)[f] = Held(gs, ds, bs, t, f) + badReads[f]
    BY <1>1, <2>1, <2>3 DEF Minus
  <2> QED BY <1>1, <2>2, <2>4
<1> QED BY <1>2, <1>3

\* GroupOpen's effect, here and inside PTableOpen and AttributeRead.
LEMMA GroupOpenedKeeps ==
  ASSUME HInv, NEW g \in Groups, H!GroupOpens(g), NEW h, NEW after, after = H!GroupOpened(g, h)
  PROVE  /\ file \in Files
         /\ after.ids \in GroupCache /\ after.open \in [Files -> Nat]
         /\ \A x \in Groups : after.ids[x] \in Files => after.ids[x] = file
         /\ \A f \in Files : after.open[f]
              = Held(after.ids, datasetIds, attributeIds, table, f) + badReads[f]
         /\ after.errors[1] = h[1]
<1>0. file \in Files
  BY DEF HInv, HandleTypes, H!GroupOpens
<1>1. CASE groupIds[g] # NoEntry
  <2>1. after = [ids |-> groupIds, open |-> open, errors |-> h]
    BY <1>1 DEF H!GroupOpened
  <2> QED BY <1>0, <2>1 DEF HInv, HandleTypes, OfOpenFile, Balanced
<1>2. CASE groupIds[g] = NoEntry
  <2>1. after = [ids |-> [groupIds EXCEPT ![g] = file], open |-> [open EXCEPT ![file] = @ + 1],
                 errors |-> H!Quietly(h)]
    BY <1>2 DEF H!GroupOpened
  <2>2. /\ after.ids = [groupIds EXCEPT ![g] = file] /\ after.open = [open EXCEPT ![file] = @ + 1]
        /\ after.errors = H!Quietly(h)
    BY <2>1
  <2>3. groupIds \in GroupCache /\ open \in [Files -> Nat]
    BY DEF HInv, HandleTypes
  <2>4. groupIds[g] \notin Files
    BY <1>2, HandleFacts
  <2>5. after.ids \in GroupCache
    BY <1>0, <2>2, <2>3 DEF GroupCache
  <2>6. \A x \in Groups : after.ids[x] \in Files => after.ids[x] = file
    BY <2>2, <2>3 DEF HInv, OfOpenFile, GroupCache
  <2>7. /\ after.open \in [Files -> Nat]
        /\ \A f \in Files : after.open[f]
              = Held(after.ids, datasetIds, attributeIds, table, f) + badReads[f]
    <3>1. \A f \in Files : Held(after.ids, datasetIds, attributeIds, table, f)
              = Plus(Held(groupIds, datasetIds, attributeIds, table, f), f, file)
      BY <1>0, <2>2, <2>3, <2>4, GroupMore
    <3>2. after.open = Grown(open, file)
      BY <2>2 DEF Grown
    <3> QED BY <1>0, <3>1, <3>2, MoreBalanced
  <2>8. after.errors[1] = h[1]
    BY <2>2 DEF H!Quietly, H!Restore, H!Silence
  <2> QED BY <1>0, <2>5, <2>6, <2>7, <2>8
<1> QED BY <1>1, <1>2

\* The functions' effect on the error handler between two calls.
LEMMA QuietFirst == ASSUME NEW h PROVE H!Quietly(h)[1] = h[1]
BY DEF H!Quietly, H!Restore, H!Silence

LEMMA QuietKept ==
  ASSUME H!Handled(H!Quietly(<<handler, saved>>))
  PROVE  handler' = handler
BY DEF H!Handled, H!Quietly, H!Restore, H!Silence

LEMMA CreateKept ==
  ASSUME HInv, NEW f \in Files, NEW overwrite \in BOOLEAN, H!Create(f, overwrite)
  PROVE  HInv'
<1>1. CASE H!Exit
  BY <1>1 DEF H!Exit, H!cache, H!errors, H!library, HInv, HandleTypes, OfOpenFile, Balanced
<1>2. CASE /\ file = None /\ file' = f
           /\ H!Handled(H!Quietly(<<handler, saved>>))
           /\ UNCHANGED <<job, groupIds, datasetIds, attributeIds, open, badReads, table>>
  <2>1. handler' = "user"
    BY <1>2, QuietKept DEF HInv
  <2>2. OfOpenFile'
    BY <1>2, HandleFacts DEF HInv, OfOpenFile
  <2> QED BY <1>2, <2>1, <2>2 DEF HInv, HandleTypes, Balanced
<1> QED BY <1>1, <1>2 DEF H!Create

LEMMA OpenKept ==
  ASSUME HInv, NEW f \in Files, NEW forReading \in BOOLEAN, H!Open(f, forReading)
  PROVE  HInv'
<1>1. CASE H!Exit
  BY <1>1 DEF H!Exit, H!cache, H!errors, H!library, HInv, HandleTypes, OfOpenFile, Balanced
<1>2. CASE /\ file = None /\ file' = f
           /\ H!Handled(H!Quietly(<<handler, saved>>))
           /\ UNCHANGED <<job, groupIds, datasetIds, attributeIds, open, badReads, table>>
  <2>1. handler' = "user"
    BY <1>2, QuietKept DEF HInv
  <2>2. OfOpenFile'
    BY <1>2, HandleFacts DEF HInv, OfOpenFile
  <2> QED BY <1>2, <2>1, <2>2 DEF HInv, HandleTypes, Balanced
<1> QED BY <1>1, <1>2 DEF H!Open, H!library

LEMMA LookKept ==
  ASSUME HInv, H!Look
  PROVE  HInv'
BY QuietKept DEF H!Look, H!cache, H!library, HInv, HandleTypes, OfOpenFile, Balanced

\* Every cached group is one of the file that is closed.
LEMMA CloseKept ==
  ASSUME HInv, H!Close
  PROVE  HInv'
<1>0. /\ groupIds \in GroupCache /\ open \in [Files -> Nat] /\ badReads \in [Files -> Nat]
      /\ \A f \in Files :
            open[f] = Held(groupIds, datasetIds, attributeIds, table, f) + badReads[f]
  BY DEF HInv, HandleTypes, Balanced
<1>1. CASE file = None
  BY <1>1 DEF H!Close, H!errors, HInv, HandleTypes, OfOpenFile, Balanced
<1>2. CASE file # None
  <2>1. \A T : H!Cardinality(T) = Cardinality(T)
    BY DEF H!Cardinality, Cardinality
  <2>2. /\ file' = None /\ groupIds' = [g \in Groups |-> NoEntry]
        /\ UNCHANGED <<datasetIds, attributeIds, handler, badReads, table>>
        /\ open' = [f \in Files |-> open[f] - Cardinality(GroupsOpen(groupIds, f))]
    BY <1>2, <2>1 DEF H!Close, H!errors, GroupsOpen
  <2>3. groupIds' \in GroupCache
    BY <2>2 DEF GroupCache
  <2>4. OfOpenFile'
    BY <2>2, HandleFacts DEF OfOpenFile
  <2>5. ASSUME NEW f \in Files
        PROVE  /\ open'[f] \in Nat
               /\ open'[f] = Held(groupIds', datasetIds', attributeIds', table', f) + badReads'[f]
    <3>1. Held(groupIds', datasetIds', attributeIds', table', f)
            = Held(groupIds, datasetIds, attributeIds, table, f)
              - Cardinality(GroupsOpen(groupIds, f))
      BY <2>2, GroupsNone
    <3>2. /\ Held(groupIds, datasetIds, attributeIds, table, f) \in Nat
          /\ Held(groupIds', datasetIds', attributeIds', table', f) \in Nat
          /\ Cardinality(GroupsOpen(groupIds, f)) \in Nat /\ badReads[f] \in Nat
      BY <1>0, HeldParts
    <3>3. open[f] = Held(groupIds, datasetIds, attributeIds, table, f) + badReads[f]
      BY <1>0
    <3>4. open'[f] = open[f] - Cardinality(GroupsOpen(groupIds, f)) /\ badReads'[f] = badReads[f]
      BY <2>2
    <3> QED BY <3>1, <3>2, <3>3, <3>4
  <2>6. open' \in [Files -> Nat]
    BY <2>2, <2>5
  <2> QED BY <2>2, <2>3, <2>4, <2>5, <2>6 DEF HInv, HandleTypes, Balanced
<1> QED BY <1>1, <1>2

LEMMA GroupCreateKept ==
  ASSUME HInv, NEW g \in Groups, H!GroupCreate(g)
  PROVE  HInv'
<1>1. CASE H!Exit \/ UNCHANGED H!vars
  BY <1>1 DEF H!Exit, H!cache, H!errors, H!library, H!vars, HInv, HandleTypes, OfOpenFile,
              Balanced
<1>2. CASE /\ groupIds[g] = NoEntry /\ file # None
           /\ groupIds' = [groupIds EXCEPT ![g] = file]
           /\ open' = [open EXCEPT ![file] = @ + 1]
           /\ UNCHANGED <<file, datasetIds, attributeIds, handler, badReads, table>>
  <2>1. groupIds \in GroupCache /\ file \in Files /\ groupIds[g] \notin Files
    BY <1>2, HandleFacts DEF HInv, HandleTypes
  <2>2. groupIds' \in GroupCache /\ OfOpenFile'
    BY <1>2, <2>1 DEF GroupCache, HInv, OfOpenFile
  <2>3. \A f \in Files : Held(groupIds', datasetIds, attributeIds, table, f)
            = Plus(Held(groupIds, datasetIds, attributeIds, table, f), f, file)
    BY <1>2, <2>1, GroupMore
  <2>4. /\ open' \in [Files -> Nat]
        /\ \A f \in Files : open'[f]
              = Held(groupIds', datasetIds, attributeIds, table, f) + badReads[f]
    <3>1. open' = Grown(open, file)
      BY <1>2 DEF Grown
    <3> QED BY <2>1, <2>3, <3>1, MoreBalanced
  <2> QED BY <1>2, <2>2, <2>4 DEF HInv, HandleTypes, Balanced
<1> QED BY <1>1, <1>2 DEF H!GroupCreate, H!CanCreateGroup, H!Opened, H!errors

LEMMA GroupOpenKept ==
  ASSUME HInv, NEW g \in Groups, H!GroupOpen(g)
  PROVE  HInv'
<1>1. CASE H!Exit
  BY <1>1 DEF H!Exit, H!cache, H!errors, H!library, HInv, HandleTypes, OfOpenFile, Balanced
<1> DEFINE after == H!GroupOpened(g, <<handler, saved>>)
<1>2. CASE /\ H!GroupOpens(g)
           /\ groupIds' = after.ids /\ open' = after.open /\ H!Handled(after.errors)
           /\ UNCHANGED <<file, datasetIds, attributeIds, badReads, table>>
  <2>1. /\ after.ids \in GroupCache /\ after.open \in [Files -> Nat]
        /\ \A x \in Groups : after.ids[x] \in Files => after.ids[x] = file
        /\ \A f \in Files : after.open[f]
              = Held(after.ids, datasetIds, attributeIds, table, f) + badReads[f]
        /\ after.errors[1] = handler
    BY <1>2, GroupOpenedKeeps
  <2> HIDE DEF after
  <2>2. handler' = "user"
    BY <1>2, <2>1 DEF H!Handled, HInv
  <2> QED BY <1>2, <2>1, <2>2 DEF HInv, HandleTypes, OfOpenFile, Balanced
<1> QED BY <1>1, <1>2 DEF H!GroupOpen

LEMMA DatasetExistsKept ==
  ASSUME HInv, NEW g \in Groups, H!DatasetExists(g)
  PROVE  HInv'
<1>1. /\ groupIds' = H!Entered(g)
      /\ UNCHANGED <<file, datasetIds, attributeIds, open, badReads, table>>
      /\ H!Handled(H!Quietly(<<handler, saved>>))
  BY DEF H!DatasetExists, H!library
<1>2. groupIds \in GroupCache
  BY DEF HInv, HandleTypes
<1>3. /\ groupIds' \in GroupCache
      /\ \A x \in Groups : groupIds'[x] = groupIds[x]
                           \/ (groupIds[x] = NoEntry /\ groupIds'[x] = Zero)
  BY <1>1, <1>2 DEF GroupCache, H!Entered
<1>4. ASSUME NEW f \in Files
      PROVE  Held(groupIds', datasetIds, attributeIds, table, f)
               = Held(groupIds, datasetIds, attributeIds, table, f)
  BY <1>2, <1>3, GroupEntered
<1>5. OfOpenFile'
  BY <1>1, <1>3, HandleFacts DEF HInv, OfOpenFile
<1>6. handler' = "user"
  BY <1>1, QuietKept DEF HInv
<1> QED BY <1>1, <1>3, <1>4, <1>5, <1>6 DEF HInv, HandleTypes, Balanced

LEMMA DatasetOpenKept ==
  ASSUME HInv, NEW g \in Groups, NEW d \in Datasets, H!DatasetOpen(g, d)
  PROVE  HInv'
<1>1. CASE H!Exit \/ UNCHANGED H!vars
  BY <1>1 DEF H!Exit, H!cache, H!errors, H!library, H!vars, HInv, HandleTypes, OfOpenFile,
              Balanced
<1> DEFINE handle == [file |-> groupIds[g], group |-> g]
<1>2. CASE /\ datasetIds[d] = NoEntry /\ groupIds[g] \in Files
           /\ datasetIds' = [datasetIds EXCEPT ![d] = handle]
           /\ open' = [open EXCEPT ![groupIds[g]] = @ + 1]
           /\ H!Handled(H!Quietly(<<handler, saved>>))
           /\ UNCHANGED <<file, groupIds, attributeIds, badReads, table>>
  <2>1. /\ datasetIds \in DataCache /\ handle \in [file : Files, group : Groups]
        /\ handle.file = groupIds[g]
    BY <1>2 DEF HInv, HandleTypes
  <2>2. datasetIds' \in DataCache
    BY <1>2, <2>1 DEF DataCache
  <2> HIDE DEF handle
  <2>3. \A f \in Files : Held(groupIds, datasetIds', attributeIds, table, f)
            = Plus(Held(groupIds, datasetIds, attributeIds, table, f), f, handle.file)
    BY <1>2, <2>1, DataMore
  <2>4. /\ open' \in [Files -> Nat]
        /\ \A f \in Files : open'[f]
              = Held(groupIds, datasetIds', attributeIds, table, f) + badReads[f]
    <3>1. open' = Grown(open, handle.file)
      BY <1>2, <2>1 DEF Grown
    <3>2. handle.file \in Files
      BY <1>2, <2>1
    <3> QED BY <2>3, <3>1, <3>2, MoreBalanced
  <2>5. handler' = "user"
    BY <1>2, QuietKept DEF HInv
  <2> QED BY <1>2, <2>2, <2>4, <2>5 DEF HInv, HandleTypes, OfOpenFile, Balanced
<1> QED BY <1>1, <1>2 DEF H!DatasetOpen, H!Opened, H!Below

LEMMA PTableOpenKept ==
  ASSUME HInv, NEW g \in Groups, NEW d \in Datasets, H!PTableOpen(g, d)
  PROVE  HInv'
<1>1. CASE H!Exit
  BY <1>1 DEF H!Exit, H!cache, H!errors, H!library, HInv, HandleTypes, OfOpenFile, Balanced
<1> DEFINE after == H!GroupOpened(g, H!Silence(<<handler, saved>>))
<1>2. CASE /\ groupIds[g] \in Files /\ table = None /\ table' = groupIds[g]
           /\ open' = [open EXCEPT ![groupIds[g]] = @ + 1]
           /\ H!Handled(H!Restore(after.errors))
           /\ UNCHANGED <<file, groupIds, datasetIds, attributeIds, badReads>>
  <2>1. after.errors = H!Silence(<<handler, saved>>)
    BY <1>2, HandleFacts DEF H!GroupOpened
  <2>2. handler' = "user"
    BY <1>2, <2>1 DEF H!Handled, H!Restore, H!Silence, HInv
  <2>3. \A f \in Files : Held(groupIds, datasetIds, attributeIds, table', f)
            = Plus(Held(groupIds, datasetIds, attributeIds, table, f), f, groupIds[g])
    BY <1>2, TableChange
  <2>4. /\ open' \in [Files -> Nat]
        /\ \A f \in Files : open'[f]
              = Held(groupIds, datasetIds, attributeIds, table', f) + badReads[f]
    <3>1. open' = Grown(open, groupIds[g])
      BY <1>2 DEF Grown
    <3>2. groupIds[g] \in Files
      BY <1>2
    <3> QED BY <2>3, <3>1, <3>2, MoreBalanced
  <2> QED BY <1>2, <2>2, <2>4 DEF HInv, HandleTypes, OfOpenFile, Balanced
<1> QED BY <1>1, <1>2 DEF H!PTableOpen, H!Opened, H!Below, H!cache

LEMMA PTableCloseKept ==
  ASSUME HInv, H!PTableClose
  PROVE  HInv'
<1>1. /\ table \in Files /\ table' = None
      /\ UNCHANGED <<file, groupIds, datasetIds, attributeIds, handler, badReads>>
  BY DEF H!PTableClose, H!cache, H!errors, HInv, HandleTypes
<1>2. ASSUME NEW f \in Files
      PROVE  Held(groupIds, datasetIds, attributeIds, table', f)
               = Minus(Held(groupIds, datasetIds, attributeIds, table, f), f, table)
  <2>1. Held(groupIds, datasetIds, attributeIds, table, f)
          = Plus(Held(groupIds, datasetIds, attributeIds, None, f), f, table)
    BY <1>1, TableChange
  <2>2. Held(groupIds, datasetIds, attributeIds, None, f) \in Nat
    BY HeldParts
  <2>3. Held(groupIds, datasetIds, attributeIds, None, f)
          = Minus(Held(groupIds, datasetIds, attributeIds, table, f), f, table)
    BY <2>1, <2>2 DEF Plus, Minus
  <2> QED BY <1>1, <2>3
<1>3. open' = Shrunk(open, table)
  BY DEF H!PTableClose, Shrunk
<1>4. /\ open' \in [Files -> Nat]
      /\ \A f \in Files : open'[f]
            = Held(groupIds, datasetIds, attributeIds, table', f) + badReads[f]
  BY <1>1, <1>2, <1>3, LessBalanced
<1> QED BY <1>1, <1>4 DEF HInv, HandleTypes, OfOpenFile, Balanced

LEMMA AttributeOpenKept ==
  ASSUME HInv, NEW g \in Groups, NEW a \in Attributes, H!AttributeOpen(g, a)
  PROVE  HInv'
<1>1. CASE H!Exit \/ UNCHANGED H!vars
  BY <1>1 DEF H!Exit, H!cache, H!errors, H!library, H!vars, HInv, HandleTypes, OfOpenFile,
              Balanced
<1> DEFINE handle == [file |-> groupIds[g], group |-> g, live |-> TRUE]
<1>2. CASE /\ attributeIds[a] = NoEntry /\ groupIds[g] \in Files
           /\ attributeIds' = [attributeIds EXCEPT ![a] = handle]
           /\ open' = [open EXCEPT ![groupIds[g]] = @ + 1]
           /\ H!Handled(H!Quietly(<<handler, saved>>))
           /\ UNCHANGED <<file, groupIds, datasetIds, badReads, table>>
  <2>1. /\ attributeIds \in AttributeCache /\ handle \in H!AttributeHandles
        /\ handle.file = groupIds[g] /\ handle.live
    BY <1>2 DEF HInv, HandleTypes, H!AttributeHandles
  <2>2. attributeIds' \in AttributeCache
    BY <1>2, <2>1 DEF AttributeCache
  <2> HIDE DEF handle
  <2>3. \A f \in Files : Held(groupIds, datasetIds, attributeIds', table, f)
            = Plus(Held(groupIds, datasetIds, attributeIds, table, f), f, handle.file)
    BY <1>2, <2>1, AttributeMore
  <2>4. /\ open' \in [Files -> Nat]
        /\ \A f \in Files : open'[f]
              = Held(groupIds, datasetIds, attributeIds', table, f) + badReads[f]
    <3>1. open' = Grown(open, handle.file)
      BY <1>2, <2>1 DEF Grown
    <3>2. handle.file \in Files
      BY <1>2, <2>1
    <3> QED BY <2>3, <3>1, <3>2, MoreBalanced
  <2>5. handler' = "user"
    BY <1>2, QuietKept DEF HInv
  <2> QED BY <1>2, <2>2, <2>4, <2>5 DEF HInv, HandleTypes, OfOpenFile, Balanced
<1> QED BY <1>1, <1>2 DEF H!AttributeOpen, H!Opened, H!Has, H!Below

\* Writing an existing attribute closes the handle it was written through.
LEMMA RewriteKept ==
  ASSUME HInv, NEW g \in Groups, NEW a \in Attributes, NEW v,
         groupIds[g] \in Files, H!Rewrite(g, a, v), handler' = "user",
         UNCHANGED <<file, groupIds, datasetIds, badReads, table>>
  PROVE  HInv'
<1> DEFINE handle == H!WriteHandle(g, a)
           closed == [handle EXCEPT !.live = FALSE]
           live == attributeIds[a] # NoEntry /\ attributeIds[a].live
<1>1. attributeIds \in AttributeCache
  BY DEF HInv, HandleTypes
<1>2. /\ handle \in H!AttributeHandles
      /\ attributeIds[a] # NoEntry => handle = attributeIds[a]
  BY <1>1 DEF H!WriteHandle, AttributeCache, H!AttributeHandles
<1>3. closed \in H!AttributeHandles /\ ~ closed.live
  BY <1>2 DEF H!AttributeHandles
<1>4. /\ attributeIds' = [attributeIds EXCEPT ![a] = closed]
      /\ open' = IF handle.live /\ attributeIds[a] # NoEntry
                 THEN Shrunk(open, handle.file) ELSE open
  BY DEF H!Rewrite, Shrunk
<1>5. open' = IF live THEN Shrunk(open, attributeIds[a].file) ELSE open
  BY <1>2, <1>4
<1> HIDE DEF closed, handle
<1>6. attributeIds' \in AttributeCache
  BY <1>1, <1>3, <1>4 DEF AttributeCache
<1>7. ASSUME NEW f \in Files
      PROVE  Held(groupIds, datasetIds, attributeIds', table, f)
               = IF live
                 THEN Minus(Held(groupIds, datasetIds, attributeIds, table, f), f,
                            attributeIds[a].file)
                 ELSE Held(groupIds, datasetIds, attributeIds, table, f)
  BY <1>1, <1>3, <1>4, AttributeClosed
<1>8. /\ open' \in [Files -> Nat]
      /\ \A f \in Files : open'[f]
            = Held(groupIds, datasetIds, attributeIds', table, f) + badReads[f]
  <2>1. CASE live
    <3>1. attributeIds[a].file \in Files
      BY <1>1, <2>1 DEF AttributeCache, H!AttributeHandles
    <3>2. \A f \in Files : Held(groupIds, datasetIds, attributeIds', table, f)
            = Minus(Held(groupIds, datasetIds, attributeIds, table, f), f, attributeIds[a].file)
      BY <1>7, <2>1
    <3>3. open' = Shrunk(open, attributeIds[a].file)
      BY <1>5, <2>1
    <3> HIDE DEF live
    <3> QED BY <3>1, <3>2, <3>3, LessBalanced
  <2>2. CASE ~ live
    BY <1>5, <1>7, <2>2 DEF HInv, HandleTypes, Balanced
  <2> QED BY <2>1, <2>2
<1> QED BY <1>6, <1>8 DEF HInv, HandleTypes, OfOpenFile, Balanced

LEMMA AttributeWriteKept ==
  ASSUME HInv, NEW g \in Groups, NEW a \in Attributes, NEW v, H!AttributeWrite(g, a, v)
  PROVE  HInv'
<1>1. CASE H!Exit
  BY <1>1 DEF H!Exit, H!cache, H!errors, H!library, HInv, HandleTypes, OfOpenFile, Balanced
<1> DEFINE quiet == H!Quietly(<<handler, saved>>)
<1>2. CASE /\ H!Has(g, a) /\ H!Rewrite(g, a, v)
           /\ H!Handled(IF attributeIds[a] = NoEntry THEN H!Quietly(quiet) ELSE quiet)
           /\ UNCHANGED <<file, groupIds, datasetIds, badReads, table>>
  <2>1. quiet[1] = handler /\ H!Quietly(quiet)[1] = handler
    BY QuietFirst
  <2>2. handler' = "user"
    BY <1>2, <2>1 DEF H!Handled, HInv
  <2>3. groupIds[g] \in Files
    BY <1>2 DEF H!Has, H!Below
  <2> QED BY <1>2, <2>2, <2>3, RewriteKept
<1>3. CASE /\ H!Handled(quiet)
           /\ UNCHANGED <<file, groupIds, datasetIds, attributeIds, open, badReads, table>>
  BY <1>3, QuietKept DEF HInv, HandleTypes, OfOpenFile, Balanced
<1> QED BY <1>1, <1>2, <1>3 DEF H!AttributeWrite, H!cache

LEMMA AttributeWriteTextKept ==
  ASSUME HInv, NEW g \in Groups, NEW a \in Attributes, H!AttributeWriteText(g, a)
  PROVE  HInv'
BY DEF H!AttributeWriteText, H!Exit, H!cache, H!errors, H!library, HInv, HandleTypes, OfOpenFile,
       Balanced

\* A read that fails leaves one object more open in the group's file, and is
\* one bad read more.
LEMMA AttributeReadKept ==
  ASSUME HInv, NEW g \in Groups, NEW a \in Attributes, NEW text, H!AttributeRead(g, a, text)
  PROVE  HInv'
<1>1. CASE H!Exit
  BY <1>1 DEF H!Exit, H!cache, H!errors, H!library, HInv, HandleTypes, OfOpenFile, Balanced
<1> DEFINE after == H!GroupOpened(g, <<handler, saved>>)
           held == IF after.ids[g] \in Files THEN disk[after.ids[g]].attrs[<<g, a>>] ELSE None
           fails == held # None /\ (held = Text) # text
<1>2. CASE /\ H!GroupOpens(g) /\ groupIds' = after.ids
           /\ H!Handled(IF held = None THEN after.errors ELSE H!Quietly(after.errors))
           /\ open' = IF fails THEN Grown(after.open, after.ids[g]) ELSE after.open
           /\ badReads' = IF fails THEN Grown(badReads, after.ids[g]) ELSE badReads
           /\ UNCHANGED <<file, datasetIds, attributeIds, table>>
  <2>1. /\ after.ids \in GroupCache /\ after.open \in [Files -> Nat]
        /\ \A x \in Groups : after.ids[x] \in Files => after.ids[x] = file
        /\ \A f \in Files : after.open[f]
              = Held(after.ids, datasetIds, attributeIds, table, f) + badReads[f]
        /\ after.errors[1] = handler
    BY <1>2, GroupOpenedKeeps
  <2>2. fails => after.ids[g] \in Files
    OBVIOUS
  <2>3. badReads \in [Files -> Nat]
    BY DEF HInv, HandleTypes
  <2> HIDE DEF after, held, fails
  <2>4. handler' = "user"
    <3>1. H!Quietly(after.errors)[1] = handler
      BY <2>1, QuietFirst
    <3> QED BY <1>2, <2>1, <3>1 DEF H!Handled, HInv
  <2>5. CASE ~ fails
    BY <1>2, <2>1, <2>4, <2>5 DEF HInv, HandleTypes, OfOpenFile, Balanced
  <2>6. CASE fails
    <3> DEFINE f0 == after.ids[g]
    <3>1. f0 \in Files
      BY <2>2, <2>6
    <3>2. open' = Grown(after.open, f0) /\ badReads' = Grown(badReads, f0)
      BY <1>2, <2>6
    <3> HIDE DEF f0
    <3>3. /\ open' \in [Files -> Nat]
          /\ \A f \in Files : open'[f] = Plus(after.open[f], f, f0)
      BY <2>1, <3>1, <3>2, GrownAt
    <3>4. /\ badReads' \in [Files -> Nat]
          /\ \A f \in Files : badReads'[f] = Plus(badReads[f], f, f0)
      BY <2>3, <3>1, <3>2, GrownAt
    <3>5. ASSUME NEW f \in Files
          PROVE  open'[f] = Held(groupIds', datasetIds', attributeIds', table', f) + badReads'[f]
      <4>1. Held(after.ids, datasetIds, attributeIds, table, f) \in Nat /\ badReads[f] \in Nat
        BY <2>3, HeldParts
      <4>2. Held(groupIds', datasetIds', attributeIds', table', f)
              = Held(after.ids, datasetIds, attributeIds, table, f)
        BY <1>2
      <4>3. after.open[f] = Held(after.ids, datasetIds, attributeIds, table, f) + badReads[f]
        BY <2>1
      <4>4. open'[f] = Plus(after.open[f], f, f0) /\ badReads'[f] = Plus(badReads[f], f, f0)
        BY <3>3, <3>4
      <4> QED BY <4>1, <4>2, <4>3, <4>4 DEF Plus
    <3> QED BY <1>2, <2>1, <2>4, <3>3, <3>4, <3>5 DEF HInv, HandleTypes, OfOpenFile, Balanced
  <2> QED BY <2>5, <2>6
<1> QED BY <1>1, <1>2 DEF H!AttributeRead, Grown

LEMMA InitHInv == Init => HInv
<1> SUFFICES ASSUME Init PROVE HInv
  OBVIOUS
<1>1. H!Init
  BY DEF Init
<1>2. HandleTypes /\ handler = "user" /\ OfOpenFile
  BY <1>1, HandleFacts DEF H!Init, HandleTypes, OfOpenFile, GroupCache, DataCache, AttributeCache
<1>3. ASSUME NEW f \in Files
      PROVE  open[f] = Held(groupIds, datasetIds, attributeIds, table, f) + badReads[f]
  <2>1. /\ GroupsOpen(groupIds, f) = {} /\ DataOpen(datasetIds, f) = {}
        /\ AttributesOpen(attributeIds, f) = {} /\ TablesOf(table, f) = {}
    BY <1>1, HandleFacts DEF H!Init, GroupsOpen, DataOpen, AttributesOpen, TablesOf
  <2>2. Held(groupIds, datasetIds, attributeIds, table, f) = 0
    BY <2>1, FS_EmptySet DEF Held
  <2> QED BY <1>1, <2>2 DEF H!Init
<1> QED BY <1>2, <1>3 DEF HInv, Balanced

LEMMA NextHInv == HInv /\ [Next]_vars => HInv'
<1> SUFFICES ASSUME HInv, [Next]_vars PROVE HInv'
  OBVIOUS
<1>1. CASE UNCHANGED hdf5Vars
  BY <1>1 DEF hdf5Vars, HInv, HandleTypes, OfOpenFile, Balanced
<1>2. CASE H!Next
  <2>1. ASSUME NEW f \in Files, NEW flag \in BOOLEAN, H!Open(f, flag) PROVE HInv'
    BY <2>1, OpenKept
  <2>2. ASSUME NEW f \in Files, NEW overwrite \in BOOLEAN, H!Create(f, overwrite) PROVE HInv'
    BY <2>2, CreateKept
  <2>3. CASE H!Look \/ H!Close \/ H!PTableClose
    BY <2>3, LookKept, CloseKept, PTableCloseKept
  <2>4. ASSUME NEW g \in Groups, H!GroupCreate(g) \/ H!GroupOpen(g) \/ H!ListSubGroups(g)
        PROVE  HInv'
    BY <2>4, GroupCreateKept, GroupOpenKept DEF H!ListSubGroups
  <2>5. ASSUME NEW g \in Groups, H!DatasetExists(g) \/ H!AttributeExists(g) PROVE HInv'
    BY <2>5, DatasetExistsKept DEF H!AttributeExists
  <2>6. ASSUME NEW g \in Groups, NEW d \in Datasets, H!DatasetOpen(g, d) \/ H!PTableOpen(g, d)
        PROVE  HInv'
    BY <2>6, DatasetOpenKept, PTableOpenKept
  <2>7. ASSUME NEW g \in Groups, NEW a \in Attributes,
               H!AttributeOpen(g, a) \/ H!AttributeWriteText(g, a)
        PROVE  HInv'
    BY <2>7, AttributeOpenKept, AttributeWriteTextKept
  <2>8. ASSUME NEW g \in Groups, NEW a \in Attributes, NEW v \in AttributeNumbers,
               H!AttributeWrite(g, a, v)
        PROVE  HInv'
    BY <2>8, AttributeWriteKept
  <2>9. ASSUME NEW g \in Groups, NEW a \in Attributes, NEW text \in BOOLEAN,
               H!AttributeRead(g, a, text)
        PROVE  HInv'
    BY <2>9, AttributeReadKept
  <2> QED BY <1>2, <2>1, <2>2, <2>3, <2>4, <2>5, <2>6, <2>7, <2>8, <2>9 DEF H!Next
<1> QED BY <1>1, <1>2 DEF Next, vars

LEMMA HandleInvariant == Spec => []HInv
BY InitHInv, NextHInv, PTL DEF Spec

-----------------------------------------------------------------------------
(* Theorems about the wrapper.                                              *)

\* Between two calls the application's error handler is installed.
THEOREM UsersHandlerBack == Spec => []HandlerRestored
<1>1. HInv => HandlerRestored
  BY HInvSuffices DEF HandlerRestored
<1> QED BY <1>1, HandleInvariant, PTL

\* Close closes every group of the file, once: a cached group handle is one
\* of the open file, and a file without other handles is not kept open.
THEOREM NoGroupStaysOpen == Spec => []GroupsClosed
<1>1. HInv => GroupsClosed
  BY HInvSuffices DEF GroupsClosed
<1> QED BY <1>1, HandleInvariant, PTL

-----------------------------------------------------------------------------
(* The inductive invariant of the scratch directories.                      *)

ScratchTypes ==
    /\ state \in [S!Procs -> {"unborn", "running", "exiting", "gone", "killed"}]
    /\ stack \in [S!Procs -> Seq(S!Dirs)]
    /\ handlers \in [S!Procs -> Nat] /\ emptied \in [S!Procs -> BOOLEAN]
    /\ made \in 0 .. MaxDirs /\ creator \in [S!Dirs -> S!Procs]
    /\ form \in [S!Dirs -> {"absolute", "relative", "unlisted"}]
    /\ cwd \in [S!Procs -> Places] /\ place \in [S!Dirs -> Places]

Listed(p, d) == \E i \in DOMAIN stack[p] : stack[p][i] = d

\* On a list are the process's own directories and those of its parent that
\* were on its parent's list when it was forked.
OwnOrInherited ==
    \A p \in S!Procs, d \in S!Dirs : Listed(p, d) =>
        d <= made /\ (creator[d] = p \/ (p = Child /\ creator[d] = Parent /\ d \in inherited))

\* A directory with a promise is on its creator's list. If it has left that
\* list, it is gone or reported, or not to be found from where its creator
\* was when it exited.
Ended == {"exiting", "gone", "killed"}

Misplaced(d) ==
    /\ state[creator[d]] \in Ended
    /\ form[d] = "relative" /\ place[d] # cwd[creator[d]]

Tracked ==
    \A d \in S!Promised : d \in exists =>
        Listed(creator[d], d) \/ d \in reported \/ Misplaced(d)

\* The handler is between the contents of a directory and the directory.
HalfRemoved ==
    \A p \in S!Procs : emptied[p] => stack[p] # <<>> /\ state[p] \in {"exiting", "killed"}

\* A process with directories on its list has the handler registered.
Registered == \A p \in S!Procs : handlers[p] = 0 => stack[p] = <<>>

WorkedOff == \A p \in S!Procs : state[p] = "gone" => stack[p] = <<>>

\* Before the fork, the parent has made every directory.
AllParents == state[Child] = "unborn" => \A d \in S!Dirs : d <= made => creator[d] = Parent

SInv == /\ ScratchTypes /\ OwnOrInherited /\ Tracked /\ HalfRemoved /\ Registered /\ WorkedOff
        /\ AllParents /\ S!NotTakenEarly

LEMMA ScratchFacts == Parent \in S!Procs /\ Child \in S!Procs /\ Parent # Child /\ MaxDirs \in Nat
                      /\ S!Procs = {Parent, Child} /\ S!Dirs = 1 .. MaxDirs
BY LibraryAssumption DEF S!ScratchConstants, S!Procs, S!Dirs

LEMMA PromisedIs ==
  ASSUME ScratchTypes, NEW d
  PROVE  d \in S!Promised <=> /\ d \in S!Dirs /\ d <= made
                              /\ form[d] # "unlisted" /\ d \notin removed
BY ScratchFacts DEF S!Promised, ScratchTypes

\* The top of a list, and the list without it.
LEMMA Popped ==
  ASSUME NEW T, NEW s \in Seq(T), s # <<>>
  PROVE  /\ S!Last(s) = s[Len(s)] /\ Len(s) \in 1 .. Len(s) /\ S!Last(s) \in T
         /\ S!Front(s) \in Seq(T) /\ Len(S!Front(s)) = Len(s) - 1
         /\ \A i \in 1 .. Len(s) - 1 : S!Front(s)[i] = s[i]
<1>1. Len(s) \in Nat /\ Len(s) > 0
  OBVIOUS
<1>2. S!Last(s) = s[Len(s)] /\ S!Front(s) = SubSeq(s, 1, Len(s) - 1)
  BY DEF S!Last, S!Front
<1>3. Len(s) \in 1 .. Len(s) /\ s[Len(s)] \in T
  BY <1>1
<1>4. /\ SubSeq(s, 1, Len(s) - 1) \in Seq(T) /\ Len(SubSeq(s, 1, Len(s) - 1)) = Len(s) - 1
      /\ \A i \in 1 .. Len(s) - 1 : SubSeq(s, 1, Len(s) - 1)[i] = s[i]
  <2> DEFINE n == Len(s) - 1
  <2>1. /\ n \in Nat /\ 1 \in Int /\ n \in Int /\ n - 1 + 1 = n
        /\ \A i \in 1 .. n : s[i] \in T /\ 1 + i - 1 = i
    BY <1>1
  <2>2. (IF 1 <= n THEN n - 1 + 1 ELSE 0) = n
    BY <2>1
  <2> HIDE DEF n
  <2>3. /\ SubSeq(s, 1, n) \in Seq(T) /\ Len(SubSeq(s, 1, n)) = IF 1 <= n THEN n - 1 + 1 ELSE 0
        /\ \A i \in 1 .. n - 1 + 1 : SubSeq(s, 1, n)[i] = s[1 + i - 1]
    BY <2>1, SubSeqProperties
  <2>4. /\ SubSeq(s, 1, n) \in Seq(T) /\ Len(SubSeq(s, 1, n)) = n
        /\ \A i \in 1 .. n : SubSeq(s, 1, n)[i] = s[i]
    BY <2>1, <2>2, <2>3
  <2> QED BY <2>4 DEF n
<1> QED BY <1>2, <1>3, <1>4

\* What is on a list without its top was on the list.
LEMMA ListedBefore ==
  ASSUME NEW T, NEW s \in Seq(T), s # <<>>, NEW i \in DOMAIN S!Front(s)
  PROVE  i \in DOMAIN s /\ S!Front(s)[i] = s[i]
<1>1. Len(s) \in Nat /\ Len(s) > 0 /\ Len(S!Front(s)) = Len(s) - 1
  BY Popped
<1>2. DOMAIN s = 1 .. Len(s) /\ DOMAIN S!Front(s) = 1 .. Len(s) - 1
  BY <1>1, Popped
<1>3. i \in 1 .. Len(s) - 1 /\ i \in 1 .. Len(s)
  BY <1>1, <1>2
<1> QED BY <1>2, <1>3, Popped

\* What has left the list was its top.
LEMMA OnlyTopLeaves ==
  ASSUME NEW T, NEW s \in Seq(T), s # <<>>, NEW i \in DOMAIN s,
         \A j \in DOMAIN S!Front(s) : S!Front(s)[j] # s[i]
  PROVE  s[i] = S!Last(s)
<1>1. Len(s) \in Nat /\ Len(s) > 0 /\ Len(S!Front(s)) = Len(s) - 1
  BY Popped
<1>2. DOMAIN s = 1 .. Len(s) /\ DOMAIN S!Front(s) = 1 .. Len(s) - 1
  BY <1>1, Popped
<1>3. CASE i = Len(s)
  BY <1>3, Popped
<1>4. CASE i # Len(s)
  <2>1. i \in 1 .. Len(s) - 1
    BY <1>1, <1>2, <1>4
  <2>2. S!Front(s)[i] = s[i]
    BY <2>1, Popped
  <2> QED BY <1>2, <2>1, <2>2
<1> QED BY <1>3, <1>4

\* Directories stay on record, and are only taken away or reported.
LEMMA TrackedKept ==
  ASSUME ScratchTypes, Tracked, UNCHANGED <<made, creator, form, place>>,
         removed \subseteq removed', reported \subseteq reported', exists' \subseteq exists,
         \A p \in S!Procs : state[p] \in Ended => state'[p] \in Ended /\ cwd'[p] = cwd[p],
         \A d \in S!Dirs : d \in exists' /\ Listed(creator[d], d)
                => Listed(creator[d], d)' \/ d \in reported' \/ Misplaced(d)'
  PROVE  Tracked'
<1> SUFFICES ASSUME NEW d \in S!Promised', d \in exists'
             PROVE  Listed(creator[d], d)' \/ d \in reported' \/ Misplaced(d)'
  BY DEF Tracked
<1>1. d \in S!Promised
  BY DEF S!Promised
<1>2. d \in S!Dirs /\ creator[d] \in S!Procs
  BY <1>1, PromisedIs DEF ScratchTypes
<1>3. Listed(creator[d], d) \/ d \in reported \/ Misplaced(d)
  BY <1>1 DEF Tracked
<1>4. Misplaced(d) => Misplaced(d)'
  BY <1>2 DEF Misplaced
<1> QED BY <1>2, <1>3, <1>4

LEMMA EarlyKept ==
  ASSUME ScratchTypes, S!NotTakenEarly, UNCHANGED <<made, creator, form, inherited>>,
         removed \subseteq removed',
         \A p \in S!Procs : state'[p] = "running" => state[p] = "running",
         state[Child] \in Ended => state'[Child] \in Ended,
         \A d \in S!Dirs : d \in exists /\ d \notin exists' /\ d \notin removed'
                             /\ state'[creator[d]] = "running"
                => d \in inherited /\ state'[Child] \in Ended
  PROVE  S!NotTakenEarly'
<1> SUFFICES ASSUME NEW d \in S!Promised', state'[creator[d]] = "running", d \notin exists'
             PROVE  d \in inherited /\ state'[Child] \in Ended
  BY DEF S!NotTakenEarly, Ended
<1>1. d \in S!Promised /\ d \notin removed'
  BY DEF S!Promised
<1>2. d \in S!Dirs /\ creator[d] \in S!Procs
  BY <1>1, PromisedIs DEF ScratchTypes
<1>3. d \notin exists => d \in inherited /\ state[Child] \in Ended
  BY <1>1, <1>2 DEF S!NotTakenEarly, Ended
<1> QED BY <1>1, <1>2, <1>3

LEMMA InitScratch == Init => SInv
<1> SUFFICES ASSUME Init PROVE SInv
  OBVIOUS
<1>1. S!Init
  BY DEF Init
<1>2. ScratchTypes
  BY <1>1, ScratchFacts DEF S!Init, ScratchTypes
<1>3. OwnOrInherited
  BY <1>1 DEF S!Init, OwnOrInherited, Listed
<1>4. HalfRemoved /\ Registered /\ WorkedOff
  BY <1>1 DEF S!Init, HalfRemoved, Registered, WorkedOff
<1>5. S!NotTakenEarly /\ Tracked
  BY <1>1 DEF S!Init, S!NotTakenEarly, Tracked, S!Promised
<1>6. AllParents
  BY <1>1, ScratchFacts DEF S!Init, AllParents
<1> QED BY <1>2, <1>3, <1>4, <1>5, <1>6 DEF SInv

LEMMA CreateDirKept ==
  ASSUME SInv, NEW p \in S!Procs, NEW name \in {"absolute", "relative"},
         S!CreateScratchDir(p, name)
  PROVE  SInv'
<1> DEFINE d == made + 1
<1>0. ScratchTypes /\ MaxDirs \in Nat
  BY ScratchFacts DEF SInv
<1>1. /\ state[p] = "running" /\ d \in S!Dirs /\ made' = d /\ exists' = exists \cup {d}
      /\ creator' = [creator EXCEPT ![d] = p] /\ place' = [place EXCEPT ![d] = cwd[p]]
      /\ UNCHANGED <<state, cwd, emptied, inherited, removed, reported>>
      /\ \/ /\ handlers' = [handlers EXCEPT ![p] = IF stack[p] = <<>> THEN @ + 1 ELSE @]
            /\ form' = [form EXCEPT ![d] = name]
            /\ stack' = [stack EXCEPT ![p] = Append(@, d)]
         \/ form' = [form EXCEPT ![d] = "unlisted"] /\ UNCHANGED <<handlers, stack>>
  BY DEF S!CreateScratchDir, S!Pushed
<1>2. d \in 1 .. MaxDirs /\ made \in Nat /\ d \notin 1 .. made
  BY <1>0, <1>1, ScratchFacts DEF ScratchTypes
<1>3. /\ stack \in [S!Procs -> Seq(S!Dirs)] /\ handlers \in [S!Procs -> Nat]
      /\ stack[p] \in Seq(S!Dirs) /\ creator \in [S!Dirs -> S!Procs]
      /\ form \in [S!Dirs -> {"absolute", "relative", "unlisted"}]
      /\ cwd \in [S!Procs -> Places] /\ place \in [S!Dirs -> Places]
  BY <1>0, <1>1 DEF ScratchTypes
<1> HIDE DEF d
<1>4. Append(stack[p], d) \in Seq(S!Dirs)
  BY <1>1, <1>3
<1>5. ScratchTypes'
  <2>1. made' \in 0 .. MaxDirs
    BY <1>1, <1>2
  <2>2. stack' \in [S!Procs -> Seq(S!Dirs)]
    BY <1>1, <1>3, <1>4
  <2>3. handlers' \in [S!Procs -> Nat]
    <3>1. handlers[p] \in Nat /\ handlers[p] + 1 \in Nat
      BY <1>3
    <3> QED BY <1>1, <1>3, <3>1
  <2>4. form' \in [S!Dirs -> {"absolute", "relative", "unlisted"}]
    BY <1>1, <1>3
  <2>5. place' \in [S!Dirs -> Places]
    BY <1>1, <1>3
  <2> QED BY <1>0, <1>1, <1>3, <2>1, <2>2, <2>3, <2>4, <2>5 DEF ScratchTypes
<1>6. \A q \in S!Procs, e \in S!Dirs : Listed(q, e) => Listed(q, e)'
  <2> SUFFICES ASSUME NEW q \in S!Procs, NEW e \in S!Dirs, Listed(q, e) PROVE Listed(q, e)'
    OBVIOUS
  <2>1. PICK i \in DOMAIN stack[q] : stack[q][i] = e
    BY DEF Listed
  <2>2. CASE q = p /\ stack' = [stack EXCEPT ![p] = Append(@, d)]
    <3>1. stack'[q] = Append(stack[p], d)
      BY <1>3, <2>2
    <3>2. i \in DOMAIN stack'[q] /\ stack'[q][i] = stack[p][i]
      BY <1>3, <2>1, <2>2, <3>1
    <3> QED BY <2>1, <2>2, <3>2 DEF Listed
  <2>3. CASE stack'[q] = stack[q]
    BY <2>1, <2>3 DEF Listed
  <2> QED BY <1>1, <1>3, <2>2, <2>3
<1>7. \A q \in S!Procs, e \in S!Dirs : Listed(q, e)' => Listed(q, e) \/ (q = p /\ e = d)
  <2> SUFFICES ASSUME NEW q \in S!Procs, NEW e \in S!Dirs, Listed(q, e)'
               PROVE  Listed(q, e) \/ (q = p /\ e = d)
    OBVIOUS
  <2>1. CASE q = p /\ stack' = [stack EXCEPT ![p] = Append(@, d)]
    <3>1. stack'[q] = Append(stack[p], d)
      BY <1>3, <2>1
    <3>2. PICK i \in DOMAIN stack'[q] : stack'[q][i] = e
      BY DEF Listed
    <3>3. CASE i \in DOMAIN stack[p]
      <4>1. stack'[q][i] = stack[p][i]
        BY <1>3, <3>1, <3>3
      <4> QED BY <2>1, <3>2, <3>3, <4>1 DEF Listed
    <3>4. CASE i \notin DOMAIN stack[p]
      <4>1. stack'[q][i] = d
        BY <1>3, <3>1, <3>2, <3>4
      <4> QED BY <2>1, <3>2, <4>1
    <3> QED BY <3>3, <3>4
  <2>2. CASE stack'[q] = stack[q]
    BY <2>2 DEF Listed
  <2> QED BY <1>1, <1>3, <2>1, <2>2
<1>8. OwnOrInherited'
  <2> SUFFICES ASSUME NEW q \in S!Procs, NEW e \in S!Dirs, Listed(q, e)'
               PROVE  e <= made' /\ (creator'[e] = q \/ (q = Child /\ creator'[e] = Parent
                                                         /\ e \in inherited'))
    BY DEF OwnOrInherited
  <2>1. CASE Listed(q, e)
    <3>1. e <= made /\ (creator[e] = q \/ (q = Child /\ creator[e] = Parent /\ e \in inherited))
      BY <2>1 DEF SInv, OwnOrInherited
    <3>2. e # d /\ e <= made'
      BY <1>1, <1>2, <3>1, ScratchFacts DEF d
    <3> QED BY <1>1, <1>3, <3>1, <3>2
  <2>2. CASE q = p /\ e = d
    <3>1. e <= made'
      BY <1>1, <1>2, <2>2
    <3> QED BY <1>1, <1>3, <2>2, <3>1
  <2> QED BY <1>7, <2>1, <2>2
<1>9. HalfRemoved'
  <2>1. ~ emptied[p]
    BY <1>1 DEF SInv, HalfRemoved
  <2> QED BY <1>1, <1>3, <2>1 DEF SInv, HalfRemoved
<1>10. Registered'
  <2> SUFFICES ASSUME NEW q \in S!Procs, handlers'[q] = 0 PROVE stack'[q] = <<>>
    BY DEF Registered
  <2>1. CASE UNCHANGED <<handlers, stack>>
    BY <2>1 DEF SInv, Registered
  <2>2. CASE /\ handlers' = [handlers EXCEPT ![p] = IF stack[p] = <<>> THEN @ + 1 ELSE @]
             /\ stack' = [stack EXCEPT ![p] = Append(@, d)]
    <3>1. handlers'[p] # 0
      <4>1. handlers[p] \in Nat /\ (handlers[p] = 0 => stack[p] = <<>>)
        BY <1>3 DEF SInv, Registered
      <4> QED BY <1>3, <2>2, <4>1
    <3>2. q # p
      BY <3>1
    <3> QED BY <1>3, <2>2, <3>2 DEF SInv, Registered
  <2> QED BY <1>1, <2>1, <2>2
<1>11. WorkedOff'
  BY <1>1, <1>3 DEF SInv, WorkedOff
<1>12. AllParents'
  <2> SUFFICES ASSUME state[Child] = "unborn", NEW e \in S!Dirs, e <= made'
               PROVE  creator'[e] = Parent
    BY <1>1 DEF AllParents
  <2>1. p = Parent
    BY <1>1, ScratchFacts
  <2>2. e <= made \/ e = d
    BY <1>1, <1>2, ScratchFacts DEF d
  <2> QED BY <1>1, <1>3, <2>1, <2>2 DEF SInv, AllParents
\* A directory with a promise is the new one, or had it before.
<1>13. ASSUME NEW e \in S!Promised', e # d
       PROVE  /\ e \in S!Promised /\ e \in S!Dirs /\ creator[e] \in S!Procs
              /\ creator'[e] = creator[e] /\ place'[e] = place[e] /\ form'[e] = form[e]
  <2>1. e \in S!Dirs /\ e <= made' /\ form'[e] # "unlisted" /\ e \notin removed
    <3>1. \A x : x \in S!Promised' <=> x \in (1 .. made') /\ form'[x] # "unlisted" /\ x \notin removed'
      BY DEF S!Promised
    <3> QED BY <1>1, <1>2, <1>13, <3>1, ScratchFacts
  <2>2. creator'[e] = creator[e] /\ form'[e] = form[e] /\ place'[e] = place[e]
    BY <1>1, <1>3, <1>13, <2>1
  <2>3. e <= made
    BY <1>1, <1>2, <1>13, <2>1, ScratchFacts DEF d
  <2> QED BY <1>0, <1>3, <2>1, <2>2, <2>3, PromisedIs
<1>14. Tracked'
  <2> SUFFICES ASSUME NEW e \in S!Promised', e \in exists'
               PROVE  (Listed(creator[e], e) \/ e \in reported \/ Misplaced(e))'
    BY DEF Tracked
  <2>1. CASE e = d
    <3>1. form'[d] # "unlisted"
      BY <2>1 DEF S!Promised
    <3>2. stack' = [stack EXCEPT ![p] = Append(@, d)]
      BY <1>1, <1>3, <3>1
    <3>3. stack'[p] = Append(stack[p], d)
      BY <1>3, <3>2
    <3>4. Len(stack[p]) + 1 \in DOMAIN stack'[p] /\ stack'[p][Len(stack[p]) + 1] = d
      BY <1>3, <3>3
    <3>5. creator'[e] = p
      BY <1>1, <1>3, <2>1
    <3> QED BY <2>1, <3>4, <3>5 DEF Listed
  <2>2. CASE e # d
    <3>1. /\ e \in S!Promised /\ e \in S!Dirs /\ creator[e] \in S!Procs
          /\ creator'[e] = creator[e] /\ place'[e] = place[e] /\ form'[e] = form[e]
          /\ e \in exists
      BY <1>1, <1>13, <2>2
    <3>2. Listed(creator[e], e) \/ e \in reported \/ Misplaced(e)
      BY <3>1 DEF SInv, Tracked
    <3>3. Misplaced(e) => Misplaced(e)'
      BY <1>1, <3>1 DEF Misplaced
    <3> QED BY <1>1, <1>6, <3>1, <3>2, <3>3
  <2> QED BY <2>1, <2>2
<1>15. S!NotTakenEarly'
  <2> SUFFICES ASSUME NEW e \in S!Promised', state'[creator'[e]] = "running", e \notin exists'
               PROVE  e \in inherited' /\ state'[Child] \in {"exiting", "gone", "killed"}
    BY DEF S!NotTakenEarly
  <2>1. e # d
    BY <1>1
  <2>2. e \in S!Promised /\ creator'[e] = creator[e] /\ e \notin exists
    BY <1>1, <1>13, <2>1
  <2> QED BY <1>1, <2>2 DEF SInv, S!NotTakenEarly
<1> QED BY <1>5, <1>8, <1>9, <1>10, <1>11, <1>12, <1>14, <1>15 DEF SInv

\* Filling and removing directories, and moving, leave the lists alone.
LEMMA ProgramKept ==
  ASSUME SInv, NEW p \in S!Procs,
         \/ \E d \in S!Dirs : S!Fill(p, d) \/ S!RemoveDir(p, d)
         \/ \E w \in Places : S!ChangeDir(p, w)
  PROVE  SInv'
<1>0. ScratchTypes /\ Tracked /\ S!NotTakenEarly
  BY DEF SInv
<1>1. /\ UNCHANGED <<state, stack, handlers, emptied, made, creator, place, form, inherited, reported>>
      /\ removed \subseteq removed' /\ exists' \subseteq exists
      /\ \A d \in S!Dirs : d \in exists /\ d \notin exists' => d \in removed'
  BY DEF S!Fill, S!RemoveDir, S!ChangeDir, S!process, S!directories
<1>2. /\ cwd' \in [S!Procs -> Places]
      /\ \A q \in S!Procs : cwd'[q] = cwd[q] \/ state[q] = "running"
  <2>1. CASE UNCHANGED cwd
    BY <1>0, <2>1 DEF ScratchTypes
  <2>2. ASSUME NEW w \in Places, S!ChangeDir(p, w)
        PROVE  /\ cwd' \in [S!Procs -> Places]
               /\ \A q \in S!Procs : cwd'[q] = cwd[q] \/ state[q] = "running"
    BY <1>0, <2>2 DEF ScratchTypes, S!ChangeDir
  <2> QED BY <2>1, <2>2 DEF S!Fill, S!RemoveDir, S!process
<1>3. /\ ScratchTypes' /\ OwnOrInherited' /\ HalfRemoved' /\ Registered' /\ WorkedOff'
      /\ AllParents'
  BY <1>1, <1>2 DEF SInv, ScratchTypes, OwnOrInherited, HalfRemoved, Registered, WorkedOff,
                    AllParents, Listed
<1>4. Tracked'
  <2>1. \A q \in S!Procs : state[q] \in Ended => state'[q] \in Ended /\ cwd'[q] = cwd[q]
    BY <1>1, <1>2 DEF Ended
  <2>2. \A d \in S!Dirs : Listed(creator[d], d) => Listed(creator[d], d)'
    BY <1>1 DEF Listed
  <2> QED BY <1>0, <1>1, <2>1, <2>2, TrackedKept
<1>5. S!NotTakenEarly'
  BY <1>0, <1>1, EarlyKept
<1> QED BY <1>3, <1>4, <1>5 DEF SInv

\* What the child inherits is its parent's.
LEMMA ForkKept ==
  ASSUME SInv, S!Fork
  PROVE  SInv'
<1>0. /\ ScratchTypes /\ Parent \in S!Procs /\ Child \in S!Procs /\ Parent # Child
  BY ScratchFacts DEF SInv
<1>1. /\ state[Parent] = "running" /\ state[Child] = "unborn"
      /\ state' = [state EXCEPT ![Child] = "running"]
      /\ cwd' = [cwd EXCEPT ![Child] = cwd[Parent]]
      /\ stack' = [stack EXCEPT ![Child] = stack[Parent]]
      /\ handlers' = [handlers EXCEPT ![Child] = handlers[Parent]]
      /\ inherited' = {stack[Parent][i] : i \in DOMAIN stack[Parent]}
      /\ UNCHANGED <<emptied, made, creator, place, form, exists, removed, reported>>
  BY DEF S!Fork, S!directories, S!ToSet
<1>2. ScratchTypes'
  BY <1>0, <1>1 DEF ScratchTypes
<1>3. OwnOrInherited'
  <2> SUFFICES ASSUME NEW q \in S!Procs, NEW d \in S!Dirs, Listed(q, d)'
               PROVE  d <= made /\ (creator[d] = q \/ (q = Child /\ creator[d] = Parent
                                                       /\ d \in inherited'))
    BY <1>1 DEF OwnOrInherited
  <2>1. stack'[Child] = stack[Parent] /\ stack'[Parent] = stack[Parent]
    BY <1>0, <1>1 DEF ScratchTypes
  <2>2. Listed(Parent, d) /\ (q = Child => d \in inherited')
    BY <1>1, <2>1, ScratchFacts DEF Listed
  <2>3. d <= made /\ creator[d] = Parent
    BY <1>0, <2>2 DEF SInv, OwnOrInherited
  <2> QED BY <2>2, <2>3, ScratchFacts
\* Until now every directory is the parent's, whose list and state stay.
<1>4. \A d \in S!Promised : creator[d] = Parent /\ d \in S!Dirs
  BY <1>0, <1>1, PromisedIs DEF SInv, AllParents
<1>5. /\ state'[Parent] = state[Parent] /\ cwd'[Parent] = cwd[Parent]
      /\ stack'[Parent] = stack[Parent] /\ S!Promised' = S!Promised
  BY <1>0, <1>1 DEF ScratchTypes, S!Promised
<1>6. Tracked'
  BY <1>1, <1>4, <1>5 DEF SInv, Tracked, Listed, Misplaced
<1>7. S!NotTakenEarly'
  <2>1. \A d \in S!Promised : d \in exists
    BY <1>1, <1>4 DEF SInv, S!NotTakenEarly
  <2> QED BY <1>1, <1>5, <2>1 DEF S!NotTakenEarly
<1>8. HalfRemoved'
  <2>1. ~ emptied[Child]
    BY <1>0, <1>1 DEF SInv, HalfRemoved
  <2> QED BY <1>0, <1>1, <2>1 DEF SInv, HalfRemoved, ScratchTypes
<1>9. Registered' /\ WorkedOff'
  BY <1>0, <1>1 DEF SInv, Registered, WorkedOff, ScratchTypes
<1>10. AllParents'
  BY <1>0, <1>1 DEF AllParents, ScratchTypes
<1> QED BY <1>2, <1>3, <1>6, <1>7, <1>8, <1>9, <1>10 DEF SInv

\* A process dies, exits, or its handler is done.
LEMMA EndKept ==
  ASSUME SInv, NEW p \in S!Procs, S!Kill(p) \/ S!Exit(p) \/ S!HandlerDone(p)
  PROVE  SInv'
<1>0. ScratchTypes /\ Tracked /\ S!NotTakenEarly
  BY DEF SInv
<1>1. /\ state[p] \in {"running", "exiting"}
      /\ state' = [state EXCEPT ![p] = state'[p]] /\ state'[p] \in Ended
      /\ emptied[p] => state'[p] \in {"exiting", "killed"}
      /\ state'[p] = "gone" => stack[p] = <<>>
      /\ UNCHANGED <<cwd, stack, handlers, emptied, made, creator, place, form, inherited, exists,
                     removed, reported>>
  <2>1. emptied[p] => stack[p] # <<>> /\ state[p] \in {"exiting", "killed"}
    BY DEF SInv, HalfRemoved
  <2>2. handlers[p] \in Nat /\ (handlers[p] = 0 => stack[p] = <<>>)
    BY <1>0 DEF SInv, Registered, ScratchTypes
  <2>3. CASE S!Kill(p)
    BY <1>0, <2>3 DEF S!Kill, S!directories, ScratchTypes, Ended
  <2>4. CASE S!Exit(p)
    BY <1>0, <2>1, <2>2, <2>4 DEF S!Exit, S!directories, ScratchTypes, Ended
  <2>5. CASE S!HandlerDone(p)
    BY <1>0, <2>1, <2>5 DEF S!HandlerDone, S!directories, ScratchTypes, Ended
  <2> QED BY <2>3, <2>4, <2>5
<1>2. /\ ScratchTypes' /\ OwnOrInherited' /\ Registered'
  BY <1>0, <1>1 DEF SInv, ScratchTypes, OwnOrInherited, Registered, Listed, Ended
<1>3. \A q \in S!Procs : q # p => state'[q] = state[q]
  BY <1>0, <1>1 DEF ScratchTypes
<1>4. HalfRemoved' /\ WorkedOff'
  BY <1>1, <1>3 DEF SInv, HalfRemoved, WorkedOff
<1>5. Tracked'
  <2>1. \A q \in S!Procs : state[q] \in Ended => state'[q] \in Ended
    BY <1>1, <1>3
  <2>2. \A d \in S!Dirs : Listed(creator[d], d) => Listed(creator[d], d)'
    BY <1>1 DEF Listed
  <2> QED BY <1>0, <1>1, <2>1, <2>2, TrackedKept
<1>6. S!NotTakenEarly'
  <2>1. \A q \in S!Procs : state'[q] = "running" => state[q] = "running"
    BY <1>1, <1>3 DEF Ended
  <2>2. state[Child] \in Ended => state'[Child] \in Ended
    BY <1>1, <1>3, ScratchFacts
  <2> QED BY <1>0, <1>1, <2>1, <2>2, EarlyKept
<1>7. AllParents'
  BY <1>1, <1>3, ScratchFacts DEF SInv, AllParents, Ended
<1> QED BY <1>2, <1>4, <1>5, <1>6, <1>7 DEF SInv

\* The handler pops the top of a list, after removing the directory or not.
LEMMA PopKept ==
  ASSUME SInv, NEW p \in S!Procs, S!SkipTop(p) \/ S!RemoveTop(p)
  PROVE  SInv'
<1>0. /\ ScratchTypes /\ Tracked /\ S!NotTakenEarly
      /\ stack[p] \in Seq(S!Dirs) /\ stack[p] # <<>> /\ state[p] = "exiting"
  BY DEF SInv, ScratchTypes, HalfRemoved, S!SkipTop, S!RemoveTop
<1> DEFINE top == S!Top(p)
<1>1. /\ stack' = [stack EXCEPT ![p] = S!Front(@)] /\ emptied' = [emptied EXCEPT ![p] = FALSE]
      /\ UNCHANGED <<state, cwd, handlers, made, creator, place, form, inherited, removed>>
      /\ exists' = exists \/ exists' = exists \ {top}
      /\ reported \subseteq reported'
  BY DEF S!SkipTop, S!RemoveTop, S!Pop, S!directories
<1>2. \/ top \notin exists' \/ top \in reported'
      \/ form[top] = "relative" /\ place[top] # cwd[p]
  BY DEF S!SkipTop, S!RemoveTop, S!Found
<1>3. S!Front(stack[p]) \in Seq(S!Dirs)
  BY <1>0, Popped
<1>4. top \in S!Dirs /\ Listed(p, top)
  <2>1. /\ S!Last(stack[p]) = stack[p][Len(stack[p])] /\ Len(stack[p]) \in 1 .. Len(stack[p])
        /\ S!Last(stack[p]) \in S!Dirs
    BY <1>0, Popped
  <2> QED BY <1>0, <2>1 DEF S!Top, Listed
<1> HIDE DEF top
<1>5. ScratchTypes'
  BY <1>0, <1>1, <1>3 DEF ScratchTypes
<1>6. stack'[p] = S!Front(stack[p]) /\ \A q \in S!Procs : q # p => stack'[q] = stack[q]
  BY <1>0, <1>1 DEF ScratchTypes
<1>7. \A q \in S!Procs, d \in S!Dirs : Listed(q, d)' => Listed(q, d)
  <2> SUFFICES ASSUME NEW q \in S!Procs, NEW d \in S!Dirs, Listed(q, d)' PROVE Listed(q, d)
    OBVIOUS
  <2>1. CASE q # p
    BY <1>6, <2>1 DEF Listed
  <2>2. CASE q = p
    <3>1. PICK i \in DOMAIN S!Front(stack[p]) : S!Front(stack[p])[i] = d
      BY <1>6, <2>2 DEF Listed
    <3>2. i \in DOMAIN stack[p] /\ S!Front(stack[p])[i] = stack[p][i]
      BY <1>0, ListedBefore
    <3> QED BY <2>2, <3>1, <3>2 DEF Listed
  <2> QED BY <2>1, <2>2
\* What leaves the list was on its top.
<1>8. ASSUME NEW q \in S!Procs, NEW d \in S!Dirs, Listed(q, d), ~ Listed(q, d)'
      PROVE  q = p /\ d = top
  <2>1. q = p
    BY <1>6, <1>8 DEF Listed
  <2>2. PICK i \in DOMAIN stack[p] : stack[p][i] = d
    BY <1>8, <2>1 DEF Listed
  <2>3. \A j \in DOMAIN S!Front(stack[p]) : S!Front(stack[p])[j] # stack[p][i]
    BY <1>6, <1>8, <2>1, <2>2 DEF Listed
  <2> QED BY <1>0, <2>1, <2>2, <2>3, OnlyTopLeaves DEF S!Top, top
<1>9. OwnOrInherited'
  BY <1>1, <1>7 DEF SInv, OwnOrInherited
<1>10. Tracked'
  <2>1. \A d \in S!Dirs : d \in exists' /\ Listed(creator[d], d)
            => Listed(creator[d], d)' \/ d \in reported' \/ Misplaced(d)'
    <3> SUFFICES ASSUME NEW d \in S!Dirs, d \in exists', Listed(creator[d], d),
                        ~ Listed(creator[d], d)', d \notin reported'
                 PROVE  Misplaced(d)'
      OBVIOUS
    <3>1. creator[d] \in S!Procs /\ creator'[d] = creator[d]
      BY <1>0, <1>1 DEF ScratchTypes
    <3>2. creator[d] = p /\ d = top
      BY <1>8, <3>1
    <3> QED BY <1>0, <1>1, <1>2, <3>2 DEF Misplaced, Ended
  <2> QED BY <1>0, <1>1, <2>1, TrackedKept
<1>11. S!NotTakenEarly'
  \* A directory that is removed is on the list of p, who is exiting: if its
  \* creator runs, p inherited it.
  <2>1. ASSUME NEW d \in S!Dirs, d \in exists, d \notin exists', state[creator[d]] = "running"
        PROVE  d \in inherited /\ state[Child] \in Ended
    <3>1. d = top /\ creator[d] # p
      BY <1>0, <1>1, <2>1
    <3>2. p = Child /\ d \in inherited
      BY <1>4, <3>1 DEF SInv, OwnOrInherited
    <3> QED BY <1>0, <3>2 DEF Ended
  <2> QED BY <1>0, <1>1, <2>1, EarlyKept
<1>12. HalfRemoved'
  BY <1>0, <1>1 DEF SInv, HalfRemoved, ScratchTypes
<1>13. Registered' /\ WorkedOff'
  <2>1. handlers[p] # 0 /\ state[p] # "gone"
    BY <1>0 DEF SInv, Registered
  <2> QED BY <1>1, <1>6, <2>1 DEF SInv, Registered, WorkedOff
<1>14. AllParents'
  BY <1>1 DEF SInv, AllParents
<1> QED BY <1>5, <1>9, <1>10, <1>11, <1>12, <1>13, <1>14 DEF SInv

LEMMA EmptyTopKept ==
  ASSUME SInv, NEW p \in S!Procs, S!EmptyTop(p)
  PROVE  SInv'
<1>1. /\ state[p] = "exiting" /\ stack[p] # <<>> /\ emptied' = [emptied EXCEPT ![p] = TRUE]
      /\ UNCHANGED <<state, cwd, stack, handlers, made, creator, place, form, inherited, exists,
                     removed, reported>>
  BY DEF S!EmptyTop, S!directories
<1>2. HalfRemoved'
  BY <1>1 DEF SInv, ScratchTypes, HalfRemoved
<1>3. ScratchTypes' /\ OwnOrInherited' /\ Registered' /\ WorkedOff' /\ AllParents'
  BY <1>1 DEF SInv, ScratchTypes, OwnOrInherited, Registered, WorkedOff, AllParents, Listed
<1>4. S!NotTakenEarly' /\ Tracked'
  BY <1>1 DEF SInv, S!NotTakenEarly, Tracked, S!Promised, Listed, Misplaced
<1> QED BY <1>2, <1>3, <1>4 DEF SInv

LEMMA NextScratch == SInv /\ [Next]_vars => SInv'
<1> SUFFICES ASSUME SInv, [Next]_vars PROVE SInv'
  OBVIOUS
<1>1. CASE UNCHANGED scratchVars
  BY <1>1 DEF scratchVars, SInv, ScratchTypes, OwnOrInherited, HalfRemoved, Registered, WorkedOff,
              AllParents, Listed, S!NotTakenEarly, Tracked, Misplaced, S!Promised
<1>2. CASE S!Next
  <2>1. CASE S!Fork
    BY <2>1, ForkKept
  <2>2. ASSUME NEW p \in S!Procs, NEW name \in {"absolute", "relative"}, S!CreateScratchDir(p, name)
        PROVE  SInv'
    BY <2>2, CreateDirKept
  <2>3. ASSUME NEW p \in S!Procs,
               \/ \E d \in S!Dirs : S!Fill(p, d) \/ S!RemoveDir(p, d)
               \/ \E w \in Places : S!ChangeDir(p, w)
        PROVE  SInv'
    BY <2>3, ProgramKept
  <2>4. ASSUME NEW p \in S!Procs, S!Kill(p) \/ S!Exit(p) \/ S!HandlerDone(p) PROVE SInv'
    BY <2>4, EndKept
  <2>5. ASSUME NEW p \in S!Procs, S!SkipTop(p) \/ S!RemoveTop(p) PROVE SInv'
    BY <2>5, PopKept
  <2>6. ASSUME NEW p \in S!Procs, S!EmptyTop(p) PROVE SInv'
    BY <2>6, EmptyTopKept
  <2> QED BY <1>2, <2>1, <2>2, <2>3, <2>4, <2>5, <2>6 DEF S!Next
<1> QED BY <1>1, <1>2 DEF Next, vars

LEMMA ScratchInvariant == Spec => []SInv
BY InitScratch, NextScratch, PTL DEF Spec

-----------------------------------------------------------------------------
(* Theorems about the scratch directories.                                  *)

\* A directory is taken from under its running creator only by the exit of a
\* process forked with the directory on its list: none made after the fork,
\* by either process, is ever taken early.
THEOREM OnlyInheritedTaken == Spec => []NotTakenEarly
<1>1. SInv => NotTakenEarly
  BY DEF SInv, NotTakenEarly
<1> QED BY <1>1, ScratchInvariant, PTL

\* Whatever happened to the directories, a process that has exited has left
\* none of its own behind, but those it reported, and those with a relative
\* name it can no longer find.
THEOREM NoneLeftSilently == Spec => []ScratchGone
<1>1. SInv => S!ScratchGone
  <2> SUFFICES ASSUME SInv, NEW d \in S!Promised, state[creator[d]] = "gone", d \in exists
               PROVE  d \in reported \/ (form[d] = "relative" /\ place[d] # cwd[creator[d]])
    BY DEF S!ScratchGone
  <2>1. creator[d] \in S!Procs
    BY PromisedIs DEF SInv, ScratchTypes
  <2>2. stack[creator[d]] = <<>>
    BY <2>1 DEF SInv, WorkedOff
  <2>3. ~ Listed(creator[d], d)
    BY <2>2 DEF Listed
  <2> QED BY <2>3 DEF SInv, Tracked, Misplaced
<1> QED BY <1>1, ScratchInvariant, PTL DEF ScratchGone

-----------------------------------------------------------------------------
(* The directories above a file, for any number of processes, any depth and *)
(* any limit.                                                               *)

OtherCallers(p) == Callers \ {p}

(* A process is on a level of its path, and those above it are made. *)
OnPath ==
    \A p \in Callers :
        /\ wants[p] > 0 => level[p] \in 1 .. wants[p]
        /\ wants[p] = 0 => pc[p] # "mkdir" /\ ret[p] = 0
        /\ \A k \in P!Levels : k < level[p] => entry[k] = "directory"

(* A made level is a directory, and its maker has gone on from it: deeper,
   or out of the function. *)
MakersMoveOn ==
    \A k \in P!Levels : maker[k] \in Callers =>
        /\ entry[k] = "directory"
        /\ \/ level[maker[k]] > k
           \/ pc[maker[k]] = "returned"
              /\ (ret[maker[k]] = 0 \/ wants[maker[k]] > MAX_DEPTH)

(* Between stat and mkdir, only another process can make the level. *)
MkdirRace ==
    \A p \in Callers : pc[p] = "mkdir" =>
        entry[level[p]] = "none" \/ maker[level[p]] \in OtherCallers(p)

(* What a return value means. *)
PathResults ==
    \A p \in Callers : pc[p] = "returned" =>
        IF ret[p] = 0
        THEN wants[p] > 0 => level[p] = wants[p] /\ entry[wants[p]] = "directory"
        ELSE P!Obstructed(p) \/ maker[level[p]] \in OtherCallers(p)

PInv == P!TypeOK /\ OnPath /\ MakersMoveOn /\ MkdirRace /\ PathResults

LEMMA PathInit ==
  ASSUME P!PathConstants, P!Init
  PROVE  PInv
<1>1. P!TypeOK
  BY DEF P!PathConstants, P!Init, P!TypeOK
<1>2. OnPath
  <2> SUFFICES ASSUME NEW p \in Callers
               PROVE  /\ wants[p] > 0 => level[p] \in 1 .. wants[p]
                      /\ wants[p] = 0 => pc[p] # "mkdir" /\ ret[p] = 0
                      /\ \A k \in P!Levels : k < level[p] => entry[k] = "directory"
    BY DEF OnPath
  <2>1. MaxLevels \in Nat /\ wants[p] \in 0 .. MaxLevels
    BY DEF P!PathConstants, P!Init
  <2>2. level[p] = 1 /\ pc[p] = "stat" /\ ret[p] = 0
    BY DEF P!Init
  <2>3. \A k \in P!Levels : ~ (k < 1)
    BY <2>1 DEF P!Levels
  <2> QED BY <2>1, <2>2, <2>3
<1>3. MakersMoveOn
  BY DEF P!PathConstants, P!Init, MakersMoveOn
<1>4. MkdirRace /\ PathResults
  BY DEF P!Init, MkdirRace, PathResults
<1> QED BY <1>1, <1>2, <1>3, <1>4 DEF PInv

(* The level a process with directories to check is on. *)
LEMMA PathLevel ==
  ASSUME P!PathConstants, PInv, NEW p \in Callers, wants[p] > 0
  PROVE  /\ level[p] \in P!Levels /\ level[p] \in 1 .. wants[p]
         /\ wants[p] \in Nat /\ wants[p] <= MaxLevels
BY DEF P!PathConstants, PInv, P!TypeOK, OnPath, P!Levels

(* A process that leaves its level, which is a directory. *)
LEMMA PathAdvance ==
  ASSUME P!PathConstants, PInv, NEW p \in Callers, pc[p] # "returned", wants[p] > 0,
         P!Advance(p), UNCHANGED <<denied, wants>>,
         entry' \in [P!Levels -> {"none", "file", "directory"}],
         maker' \in [P!Levels -> Callers \cup {Nobody}],
         entry'[level[p]] = "directory",
         \A k \in P!Levels \ {level[p]} : entry'[k] = entry[k] /\ maker'[k] = maker[k],
         \/ entry' = entry /\ maker' = maker
         \/ entry[level[p]] = "none" /\ maker'[level[p]] = p /\ ~ denied
  PROVE  PInv'
<1> DEFINE here == level[p]
<1>1. here \in P!Levels /\ here \in 1 .. wants[p] /\ wants[p] \in Nat /\ wants[p] <= MaxLevels
  BY PathLevel
<1>2. MAX_DEPTH \in Nat \ {0} /\ Nobody \notin Callers /\ MaxLevels \in Nat
  BY DEF P!PathConstants
<1>3. /\ entry \in [P!Levels -> {"none", "file", "directory"}]
      /\ maker \in [P!Levels -> Callers \cup {Nobody}]
      /\ level \in [Callers -> Nat] /\ wants \in [Callers -> 0 .. MaxLevels]
      /\ pc \in [Callers -> {"stat", "mkdir", "returned"}] /\ ret \in [Callers -> {0, -1}]
  BY DEF PInv, P!TypeOK
<1>4. \A q \in Callers \ {p} : level'[q] = level[q] /\ pc'[q] = pc[q] /\ ret'[q] = ret[q]
  BY <1>3 DEF P!Advance, P!Return
<1>5. /\ level' \in [Callers -> Nat] /\ ret' \in [Callers -> {0, -1}]
      /\ pc' \in [Callers -> {"stat", "mkdir", "returned"}]
  BY <1>3 DEF P!Advance, P!Return
<1>6. \/ /\ here < wants[p] /\ level'[p] = here + 1 /\ pc'[p] = "stat" /\ ret'[p] = ret[p]
      \/ /\ level'[p] = here /\ pc'[p] = "returned" /\ ret'[p] = -1 /\ wants[p] > MAX_DEPTH
      \/ /\ level'[p] = here /\ pc'[p] = "returned" /\ ret'[p] = 0 /\ here = wants[p]
  <2>1. CASE here = wants[p] \/ P!TooDeep(here - 1)
    <3>1. P!Return(p, IF P!TooDeep(here - 1) THEN -1 ELSE 0)
      BY <2>1 DEF P!Advance
    <3>2. level'[p] = here /\ pc'[p] = "returned"
          /\ ret'[p] = (IF P!TooDeep(here - 1) THEN -1 ELSE 0)
      BY <1>3, <3>1 DEF P!Return
    <3>3. P!TooDeep(here - 1) => wants[p] > MAX_DEPTH
      BY <1>1, <1>2 DEF P!TooDeep
    <3> QED BY <2>1, <3>2, <3>3
  <2>2. CASE ~ (here = wants[p] \/ P!TooDeep(here - 1))
    <3>1. level' = [level EXCEPT ![p] = @ + 1] /\ pc' = [pc EXCEPT ![p] = "stat"] /\ ret' = ret
      BY <2>2 DEF P!Advance
    <3> QED BY <1>1, <1>3, <2>2, <3>1
  <2> QED BY <2>1, <2>2
<1> HIDE DEF here
<1>7. \A k \in P!Levels : entry[k] # "none" => entry'[k] = entry[k]
  BY <1>1 DEF here
<1>8. \A k \in P!Levels : maker[k] \in Callers => maker'[k] = maker[k]
  BY <1>1 DEF PInv, MakersMoveOn, here
<1>9. P!TypeOK'
  BY <1>3, <1>5 DEF P!TypeOK
<1>10. OnPath'
  <2>1. ASSUME NEW q \in Callers, q # p
        PROVE  /\ wants[q] > 0 => level'[q] \in 1 .. wants[q]
               /\ wants[q] = 0 => pc'[q] # "mkdir" /\ ret'[q] = 0
               /\ \A k \in P!Levels : k < level'[q] => entry'[k] = "directory"
    BY <1>4, <1>7, <2>1 DEF PInv, OnPath
  <2>2. level'[p] \in 1 .. wants[p]
    BY <1>1, <1>6
  <2>3. \A k \in P!Levels : k < level'[p] => entry'[k] = "directory"
    <3>1. \A k \in P!Levels : k < here => entry'[k] = "directory"
      BY <1>7 DEF PInv, OnPath, here
    <3>2. entry'[here] = "directory"
      BY DEF here
    <3> QED BY <1>1, <1>6, <3>1, <3>2 DEF P!Levels
  <2> QED BY <2>1, <2>2, <2>3 DEF OnPath
<1>11. MakersMoveOn'
  <2> SUFFICES ASSUME NEW k \in P!Levels, maker'[k] \in Callers
               PROVE  /\ entry'[k] = "directory"
                      /\ \/ level'[maker'[k]] > k
                         \/ pc'[maker'[k]] = "returned"
                            /\ (ret'[maker'[k]] = 0 \/ wants[maker'[k]] > MAX_DEPTH)
    BY DEF MakersMoveOn
  <2>1. CASE maker[k] \in Callers
    <3>1. /\ maker'[k] = maker[k] /\ entry[k] = "directory"
          /\ \/ level[maker[k]] > k
             \/ pc[maker[k]] = "returned" /\ (ret[maker[k]] = 0 \/ wants[maker[k]] > MAX_DEPTH)
      BY <1>8, <2>1 DEF PInv, MakersMoveOn
    <3>2. CASE maker[k] = p
      <4>1. here > k
        BY <3>1, <3>2 DEF here
      <4> QED BY <1>1, <1>6, <1>7, <3>1, <3>2, <4>1 DEF P!Levels
    <3>3. CASE maker[k] # p
      BY <1>4, <1>7, <2>1, <3>1, <3>3
    <3> QED BY <3>2, <3>3
  <2>2. CASE maker[k] \notin Callers
    <3>1. k = here /\ maker'[k] = p
      BY <2>2 DEF here
    <3>2. entry'[k] = "directory"
      BY <3>1 DEF here
    <3> QED BY <1>1, <1>6, <3>1, <3>2
  <2> QED BY <2>1, <2>2
<1>12. MkdirRace'
  <2> SUFFICES ASSUME NEW q \in Callers, pc'[q] = "mkdir"
               PROVE  entry'[level'[q]] = "none" \/ maker'[level'[q]] \in OtherCallers(q)
    BY DEF MkdirRace
  <2>1. q # p
    BY <1>6
  <2>2. pc[q] = "mkdir" /\ level'[q] = level[q]
    BY <1>4, <2>1
  <2>3. wants[q] > 0
    BY <1>2, <1>3, <2>2 DEF PInv, OnPath
  <2>4. level[q] \in P!Levels
    BY <2>3, PathLevel
  <2>5. entry[level[q]] = "none" \/ maker[level[q]] \in OtherCallers(q)
    BY <2>2 DEF PInv, MkdirRace
  <2>6. CASE maker[level[q]] \in OtherCallers(q)
    BY <1>8, <2>2, <2>4, <2>6 DEF OtherCallers
  <2>7. CASE entry[level[q]] = "none"
    <3>1. CASE level[q] = here
      <4>1. maker'[level[q]] = p
        BY <2>7, <3>1 DEF here
      <4> QED BY <2>1, <2>2, <4>1 DEF OtherCallers
    <3>2. CASE level[q] # here
      BY <2>2, <2>4, <2>7, <3>2 DEF here
    <3> QED BY <3>1, <3>2
  <2> QED BY <2>5, <2>6, <2>7
<1>13. PathResults'
  <2> SUFFICES ASSUME NEW q \in Callers, pc'[q] = "returned"
               PROVE  IF ret'[q] = 0
                      THEN wants[q] > 0 => level'[q] = wants[q] /\ entry'[wants[q]] = "directory"
                      ELSE P!Obstructed(q)' \/ maker'[level'[q]] \in OtherCallers(q)
    BY DEF PathResults
  <2>1. CASE q = p
    <3>1. CASE ret'[p] = 0
      <4>1. level'[p] = here /\ here = wants[p]
        BY <1>6, <2>1, <3>1
      <4> QED BY <2>1, <3>1, <4>1 DEF here
    <3>2. CASE ret'[p] # 0
      <4>1. wants[p] > MAX_DEPTH
        BY <1>6, <2>1, <3>2
      <4> QED BY <2>1, <3>2, <4>1 DEF P!Obstructed
    <3> QED BY <3>1, <3>2
  <2>2. CASE q # p
    <3>1. pc[q] = "returned" /\ ret'[q] = ret[q] /\ level'[q] = level[q]
      BY <1>4, <2>2
    <3>2. CASE ret[q] = 0
      <4>1. wants[q] > 0 => wants[q] \in P!Levels
        BY <1>2, <1>3 DEF P!Levels
      <4> QED BY <1>7, <3>1, <3>2, <4>1 DEF PInv, PathResults
    <3>3. CASE ret[q] # 0 /\ P!Obstructed(q)
      <4>1. 1 .. wants[q] \subseteq P!Levels
        BY <1>2, <1>3 DEF P!Levels
      <4>2. denied => entry' = entry
        OBVIOUS
      <4>3. P!Obstructed(q)'
        BY <1>7, <3>3, <4>1, <4>2 DEF P!Obstructed
      <4> QED BY <3>1, <3>3, <4>3
    <3>4. CASE ret[q] # 0 /\ ~ P!Obstructed(q)
      <4>1. maker[level[q]] \in OtherCallers(q)
        BY <3>1, <3>4 DEF PInv, PathResults
      <4>2. wants[q] > 0
        BY <1>2, <1>3, <3>4 DEF PInv, OnPath
      <4>3. level[q] \in P!Levels
        BY <4>2, PathLevel
      <4> QED BY <1>8, <3>1, <3>4, <4>1, <4>3 DEF OtherCallers
    <3> QED BY <3>2, <3>3, <3>4
  <2> QED BY <2>1, <2>2
<1> QED BY <1>9, <1>10, <1>11, <1>12, <1>13 DEF PInv

(* A process returns -1 and nothing else changes. *)
LEMMA PathFail ==
  ASSUME P!PathConstants, PInv, NEW p \in Callers, pc[p] # "returned", wants[p] > 0,
         P!Return(p, -1), UNCHANGED <<entry, maker, denied, wants>>,
         P!Obstructed(p) \/ maker[level[p]] \in OtherCallers(p)
  PROVE  PInv'
<1>1. level[p] \in P!Levels /\ level[p] \in 1 .. wants[p]
  BY PathLevel
<1>2. MAX_DEPTH \in Nat \ {0} /\ MaxLevels \in Nat
  BY DEF P!PathConstants
<1>3. P!TypeOK
  BY DEF PInv
<1>4. /\ level' = level /\ pc' = [pc EXCEPT ![p] = "returned"]
      /\ ret' = [ret EXCEPT ![p] = -1]
  BY DEF P!Return
<1>5. P!TypeOK'
  BY <1>3, <1>4 DEF P!TypeOK
<1>6. pc'[p] = "returned" /\ ret'[p] = -1
      /\ \A q \in Callers \ {p} : pc'[q] = pc[q] /\ ret'[q] = ret[q]
  BY <1>3, <1>4 DEF P!TypeOK
<1>7. OnPath'
  BY <1>4, <1>6 DEF PInv, OnPath
<1>8. MakersMoveOn'
  <2> SUFFICES ASSUME NEW k \in P!Levels, maker[k] \in Callers
               PROVE  /\ entry[k] = "directory"
                      /\ \/ level[maker[k]] > k
                         \/ pc'[maker[k]] = "returned"
                            /\ (ret'[maker[k]] = 0 \/ wants[maker[k]] > MAX_DEPTH)
    BY <1>4 DEF MakersMoveOn
  <2>1. /\ entry[k] = "directory"
        /\ \/ level[maker[k]] > k
           \/ pc[maker[k]] = "returned" /\ (ret[maker[k]] = 0 \/ wants[maker[k]] > MAX_DEPTH)
    BY DEF PInv, MakersMoveOn
  <2> QED BY <1>6, <2>1
<1>9. MkdirRace'
  BY <1>4, <1>6 DEF PInv, MkdirRace
<1>10. PathResults'
  <2>1. \A q \in Callers : P!Obstructed(q)' = P!Obstructed(q)
    BY DEF P!Obstructed
  <2>2. ASSUME NEW q \in Callers, q # p, pc'[q] = "returned"
        PROVE  IF ret'[q] = 0
               THEN wants[q] > 0 => level'[q] = wants[q] /\ entry[wants[q]] = "directory"
               ELSE P!Obstructed(q)' \/ maker[level'[q]] \in OtherCallers(q)
    BY <1>4, <1>6, <2>1, <2>2 DEF PInv, PathResults
  <2> QED BY <1>4, <1>6, <2>1, <2>2 DEF PathResults
<1> QED BY <1>5, <1>7, <1>8, <1>9, <1>10 DEF PInv

(* A process without directories to check returns at once. *)
LEMMA PathNoParents ==
  ASSUME P!PathConstants, PInv, NEW p \in Callers, P!NoParents(p)
  PROVE  PInv'
<1>1. /\ wants[p] = 0 /\ level' = level /\ pc' = [pc EXCEPT ![p] = "returned"]
      /\ ret' = [ret EXCEPT ![p] = 0] /\ UNCHANGED <<entry, maker, denied, wants>>
  BY DEF P!NoParents, P!Return
<1>2. P!TypeOK
  BY DEF PInv
<1>3. pc'[p] = "returned" /\ ret'[p] = 0
      /\ \A q \in Callers \ {p} : pc'[q] = pc[q] /\ ret'[q] = ret[q]
  BY <1>1, <1>2 DEF P!TypeOK
<1>4. P!TypeOK'
  BY <1>1, <1>2 DEF P!TypeOK
<1>5. OnPath' /\ MkdirRace'
  BY <1>1, <1>3 DEF PInv, OnPath, MkdirRace
<1>6. MakersMoveOn'
  <2> SUFFICES ASSUME NEW k \in P!Levels, maker[k] \in Callers
               PROVE  /\ entry[k] = "directory"
                      /\ \/ level[maker[k]] > k
                         \/ pc'[maker[k]] = "returned"
                            /\ (ret'[maker[k]] = 0 \/ wants[maker[k]] > MAX_DEPTH)
    BY <1>1 DEF MakersMoveOn
  <2>1. /\ entry[k] = "directory"
        /\ \/ level[maker[k]] > k
           \/ pc[maker[k]] = "returned" /\ (ret[maker[k]] = 0 \/ wants[maker[k]] > MAX_DEPTH)
    BY DEF PInv, MakersMoveOn
  <2> QED BY <1>3, <2>1
<1>7. PathResults'
  <2>1. \A q \in Callers : P!Obstructed(q)' = P!Obstructed(q)
    BY <1>1 DEF P!Obstructed
  <2>2. ASSUME NEW q \in Callers, q # p, pc'[q] = "returned"
        PROVE  IF ret'[q] = 0
               THEN wants[q] > 0 => level'[q] = wants[q] /\ entry[wants[q]] = "directory"
               ELSE P!Obstructed(q)' \/ maker[level'[q]] \in OtherCallers(q)
    BY <1>1, <1>3, <2>1, <2>2 DEF PInv, PathResults
  <2>3. ~ (wants[p] > 0)
    BY <1>1
  <2> QED BY <1>1, <1>3, <2>1, <2>2, <2>3 DEF PathResults
<1> QED BY <1>4, <1>5, <1>6, <1>7 DEF PInv

LEMMA PathStat ==
  ASSUME P!PathConstants, PInv, NEW p \in Callers, P!Stat(p)
  PROVE  PInv'
<1>1. /\ pc[p] = "stat" /\ wants[p] > 0 /\ UNCHANGED <<entry, maker, denied, wants>>
  BY DEF P!Stat
<1>2. level[p] \in P!Levels /\ level[p] \in 1 .. wants[p]
  BY <1>1, PathLevel
<1>3. P!TypeOK
  BY DEF PInv
<1>4. CASE entry[level[p]] = "none"
  <2>1. pc' = [pc EXCEPT ![p] = "mkdir"] /\ level' = level /\ ret' = ret
    BY <1>4 DEF P!Stat
  <2>2. pc'[p] = "mkdir" /\ \A q \in Callers \ {p} : pc'[q] = pc[q]
    BY <1>3, <2>1 DEF P!TypeOK
  <2>3. P!TypeOK'
    BY <1>1, <1>3, <2>1 DEF P!TypeOK
  <2>4. ~ (wants[p] = 0)
    BY <1>1
  <2>5. OnPath'
    BY <1>1, <2>1, <2>2, <2>4 DEF PInv, OnPath
  <2>6. MkdirRace'
    BY <1>1, <1>4, <2>1, <2>2 DEF PInv, MkdirRace
  <2>7. MakersMoveOn'
    <3> SUFFICES ASSUME NEW k \in P!Levels, maker[k] \in Callers
                 PROVE  /\ entry[k] = "directory"
                        /\ \/ level[maker[k]] > k
                           \/ pc'[maker[k]] = "returned"
                              /\ (ret[maker[k]] = 0 \/ wants[maker[k]] > MAX_DEPTH)
      BY <1>1, <2>1 DEF MakersMoveOn
    <3>1. /\ entry[k] = "directory"
          /\ \/ level[maker[k]] > k
             \/ pc[maker[k]] = "returned" /\ (ret[maker[k]] = 0 \/ wants[maker[k]] > MAX_DEPTH)
      BY DEF PInv, MakersMoveOn
    <3> QED BY <1>1, <2>2, <3>1
  <2>8. PathResults'
    <3>1. \A q \in Callers : P!Obstructed(q)' = P!Obstructed(q)
      BY <1>1 DEF P!Obstructed
    <3> QED BY <1>1, <2>1, <2>2, <3>1 DEF PInv, PathResults
  <2> QED BY <2>3, <2>5, <2>6, <2>7, <2>8 DEF PInv
<1>5. CASE entry[level[p]] = "file"
  <2>1. P!Return(p, -1)
    BY <1>5 DEF P!Stat
  <2>2. P!Obstructed(p)
    BY <1>2, <1>5 DEF P!Obstructed
  <2> QED BY <1>1, <2>1, <2>2, PathFail
<1>6. CASE entry[level[p]] = "directory"
  <2>1. P!Advance(p)
    BY <1>6 DEF P!Stat
  <2>2. /\ entry' \in [P!Levels -> {"none", "file", "directory"}]
        /\ maker' \in [P!Levels -> Callers \cup {Nobody}]
    BY <1>1, <1>3 DEF P!TypeOK
  <2>3. /\ entry'[level[p]] = "directory" /\ entry' = entry /\ maker' = maker
        /\ UNCHANGED <<denied, wants>>
        /\ \A k \in P!Levels \ {level[p]} : entry'[k] = entry[k] /\ maker'[k] = maker[k]
    BY <1>1, <1>6
  <2>4. pc[p] # "returned"
    BY <1>1
  <2> QED BY <1>1, <2>1, <2>2, <2>3, <2>4, PathAdvance
<1> QED BY <1>2, <1>3, <1>4, <1>5, <1>6 DEF P!TypeOK

LEMMA PathMkdir ==
  ASSUME P!PathConstants, PInv, NEW p \in Callers, P!Mkdir(p)
  PROVE  PInv'
<1>1. pc[p] = "mkdir" /\ UNCHANGED <<denied, wants>>
  BY DEF P!Mkdir
<1>2. P!TypeOK /\ MaxLevels \in Nat
  BY DEF PInv, P!PathConstants
<1>3. wants[p] > 0
  BY <1>1, <1>2 DEF PInv, OnPath, P!TypeOK
<1>4. level[p] \in P!Levels /\ level[p] \in 1 .. wants[p]
  BY <1>3, PathLevel
<1>5. CASE denied \/ entry[level[p]] # "none"
  <2>1. P!Return(p, -1) /\ UNCHANGED <<entry, maker, denied, wants>>
    BY <1>1, <1>5 DEF P!Mkdir
  <2>2. entry[level[p]] = "none" \/ maker[level[p]] \in OtherCallers(p)
    BY <1>1 DEF PInv, MkdirRace
  <2>3. P!Obstructed(p) \/ maker[level[p]] \in OtherCallers(p)
    BY <1>4, <1>5, <2>2 DEF P!Obstructed
  <2>4. pc[p] # "returned"
    BY <1>1
  <2> QED BY <1>3, <2>1, <2>3, <2>4, PathFail
<1>6. CASE ~ (denied \/ entry[level[p]] # "none")
  <2>1. /\ entry' = [entry EXCEPT ![level[p]] = "directory"]
        /\ maker' = [maker EXCEPT ![level[p]] = p]
        /\ P!Advance(p)
    BY <1>6 DEF P!Mkdir
  <2>2. /\ entry' \in [P!Levels -> {"none", "file", "directory"}]
        /\ maker' \in [P!Levels -> Callers \cup {Nobody}]
        /\ entry'[level[p]] = "directory" /\ maker'[level[p]] = p
        /\ \A k \in P!Levels \ {level[p]} : entry'[k] = entry[k] /\ maker'[k] = maker[k]
    BY <1>2, <1>4, <2>1 DEF P!TypeOK
  <2>3. pc[p] # "returned" /\ entry[level[p]] = "none" /\ ~ denied
    BY <1>1, <1>6
  <2> QED BY <1>1, <1>3, <2>1, <2>2, <2>3, PathAdvance
<1> QED BY <1>5, <1>6

LEMMA PathNext ==
  ASSUME P!PathConstants, PInv, [P!Next]_pathVars
  PROVE  PInv'
<1>1. CASE UNCHANGED pathVars
  BY <1>1 DEF pathVars, PInv, P!TypeOK, OnPath, MakersMoveOn, MkdirRace, PathResults, P!Obstructed
<1>2. CASE P!Next
  BY <1>2, PathNoParents, PathStat, PathMkdir DEF P!Next
<1> QED BY <1>1, <1>2

(* A set of processes has a deepest one. *)
LEMMA DeepestCaller ==
  ASSUME P!PathConstants, \A p \in Callers : level[p] \in P!Levels
  PROVE  \E p \in Callers : \A q \in Callers : level[q] <= level[p]
<1> DEFINE left == {MaxLevels - level[p] : p \in Callers}
           R == OpToRel(<, Nat)
<1>1. MaxLevels \in Nat /\ Callers # {} /\ \A p \in Callers : level[p] \in 1 .. MaxLevels
  BY DEF P!PathConstants, P!Levels
<1>2. left \subseteq Nat /\ left # {}
  BY <1>1
<1>3. \A x, y \in Nat : y < x => <<y, x>> \in R
  BY DEF OpToRel
<1> HIDE DEF R
<1>4. IsWellFoundedOn(R, Nat)
  BY NatLessThanWellFounded DEF R
<1>5. PICK x \in left : \A y \in left : ~ (<<y, x>> \in R)
  BY <1>2, <1>4, WFMin
<1>6. PICK p \in Callers : x = MaxLevels - level[p]
  BY <1>5
<1>7. \A q \in Callers : level[q] <= level[p]
  <2> TAKE q \in Callers
  <2>1. MaxLevels - level[q] \in left /\ MaxLevels - level[p] \in left
    OBVIOUS
  <2> HIDE DEF left
  <2>2. ~ (MaxLevels - level[q] < MaxLevels - level[p])
    BY <1>2, <1>3, <1>5, <1>6, <2>1
  <2> QED BY <1>1, <2>2
<1> QED BY <1>7

(* The invariant says all: the deepest of processes that all fail without an
   obstacle lost its level to one that went deeper. *)
LEMMA PathSuffices ==
  ASSUME P!PathConstants, PInv
  PROVE  P!PathsMade
<1>1. ASSUME NEW p \in Callers, pc[p] = "returned"
      PROVE  IF ret[p] = 0 THEN \A k \in 1 .. wants[p] : entry[k] = "directory"
             ELSE P!Obstructed(p) \/ maker[level[p]] \in Callers \ {p}
  <2>1. CASE ret[p] = 0
    <3> SUFFICES ASSUME NEW k \in 1 .. wants[p] PROVE entry[k] = "directory"
      BY <2>1
    <3>1. wants[p] \in Nat /\ wants[p] <= MaxLevels /\ MaxLevels \in Nat
      BY DEF PInv, P!TypeOK, P!PathConstants
    <3>2. level[p] = wants[p] /\ entry[wants[p]] = "directory"
      BY <1>1, <2>1, <3>1 DEF PInv, PathResults
    <3>3. \A i \in P!Levels : i < level[p] => entry[i] = "directory"
      BY DEF PInv, OnPath
    <3> QED BY <3>1, <3>2, <3>3 DEF P!Levels
  <2>2. CASE ret[p] # 0
    BY <1>1, <2>2 DEF PInv, PathResults, OtherCallers
  <2> QED BY <2>1, <2>2
<1>2. ASSUME \A p \in Callers : pc[p] = "returned" /\ ~ P!Obstructed(p),
             \A p \in Callers : ret[p] # 0
      PROVE  FALSE
  <2>1. \A p \in Callers : maker[level[p]] \in OtherCallers(p) /\ wants[p] > 0
    <3> TAKE p \in Callers
    <3>1. pc[p] = "returned" /\ ~ P!Obstructed(p) /\ ret[p] # 0
      BY <1>2
    <3>2. maker[level[p]] \in OtherCallers(p)
      BY <3>1 DEF PInv, PathResults
    <3>3. wants[p] \in 0 .. MaxLevels /\ MaxLevels \in Nat /\ wants[p] # 0
      BY <3>1 DEF PInv, P!TypeOK, OnPath, P!PathConstants
    <3> QED BY <3>2, <3>3
  <2>2. \A p \in Callers : level[p] \in P!Levels
    BY <2>1, PathLevel
  <2>3. PICK p \in Callers : \A q \in Callers : level[q] <= level[p]
    BY <2>2, DeepestCaller
  <2> DEFINE q == maker[level[p]]
  <2>4. q \in Callers /\ level[q] > level[p]
    BY <1>2, <2>1, <2>2 DEF PInv, MakersMoveOn, OtherCallers, P!Obstructed
  <2>5. level[q] \in Nat /\ level[p] \in Nat
    BY <2>4 DEF PInv, P!TypeOK
  <2> HIDE DEF q
  <2> QED BY <2>3, <2>4, <2>5
<1> QED BY <1>1, <1>2 DEF P!PathsMade

\* However many processes create one path at once, a call that succeeds has
\* its directories, one that fails met an obstacle or lost a level to another
\* process, and they cannot all lose (grvy_check_file_path, _GRVY_CheckDir).
THEOREM ParentsMade == Spec => []PathsMade
<1>1. P!PathConstants
  BY LibraryAssumption
<1>2. Init => PInv
  BY <1>1, PathInit DEF Init
<1>3. PInv /\ [Next]_vars => PInv'
  <2> SUFFICES ASSUME PInv, [Next]_vars PROVE PInv'
    OBVIOUS
  <2>1. [P!Next]_pathVars
    BY DEF Next, vars
  <2> QED BY <1>1, <2>1, PathNext
<1>4. PInv => PathsMade
  BY <1>1, PathSuffices DEF PathsMade
<1> QED BY <1>2, <1>3, <1>4, PTL DEF Spec

-----------------------------------------------------------------------------
(* The input parser: a step of InputParse is one of InputQueries, or none.  *)

Input == IF initialized THEN I!OpenInput ELSE Missing

TextsTyped == \A k \in Keywords : contents[k] \in Seq(I!Elements)

LEMMA InputFacts ==
  /\ Missing \notin I!Elements \cup {Phrase} /\ Sentinel \notin I!Elements \cup {Phrase}
  /\ Unreadable \notin I!Elements \cup {Phrase}
  /\ Yes \in I!Elements /\ No \in I!Elements /\ Numbers \subseteq I!Elements
  /\ \A kind \in I!Kinds : I!ValuesOf(kind) \subseteq I!Elements
  /\ MaxLength \in Nat
<1>1. {Sentinel, Missing, Unreadable} \cap (I!Elements \cup {Phrase}) = {} /\ MaxLength \in Nat
  BY LibraryAssumption DEF I!InputConstants
<1>2. /\ Yes \in I!Elements /\ No \in I!Elements /\ Numbers \subseteq I!Elements
      /\ Words \subseteq I!Elements
  BY DEF I!Elements
<1>3. \A kind \in I!Kinds : I!ValuesOf(kind) \subseteq I!Elements
  BY <1>2 DEF I!ValuesOf
<1> QED BY <1>1, <1>2, <1>3

\* What a text reads as.
LEMMA ReadType ==
  ASSUME NEW kind \in I!Kinds, NEW text \in Seq(I!Elements)
  PROVE  I!Read(kind, text) \in I!Elements \cup {Phrase, Missing, Unreadable}
<1>1. AsBool \in [I!Elements -> {Yes, No, Unreadable}]
  BY LibraryAssumption DEF I!InputConstants
<1>2. CASE text = <<>>
  BY <1>2 DEF I!Read
<1>3. CASE text # <<>>
  <2>1. Head(text) \in I!Elements
    BY <1>3
  <2>2. AsBool[Head(text)] \in {Yes, No, Unreadable}
    BY <1>1, <2>1
  <2>3. CASE kind = "number"
    BY <1>3, <2>1, <2>3 DEF I!Read
  <2>4. CASE kind = "string"
    BY <1>3, <2>1, <2>4 DEF I!Read
  <2>5. CASE kind = "bool"
    BY <1>3, <2>2, <2>5, InputFacts DEF I!Read
  <2> QED BY <2>3, <2>4, <2>5 DEF I!Kinds
<1> QED BY <1>2, <1>3

LEMMA NumberType ==
  ASSUME NEW e PROVE I!Read("number", <<e>>) \in Numbers \cup {Unreadable}
BY DEF I!Read

\* An open input is not mistaken for none.
LEMMA InputOpen ==
  ASSUME TextsTyped
  PROVE  I!OpenInput # Missing
<1>1. \A p \in I!Kinds \X Keywords :
        I!Known(I!Read(p[1], contents[p[2]])) \in I!Elements \cup {Phrase, Missing}
  <2> SUFFICES ASSUME NEW kind \in I!Kinds, NEW k \in Keywords
               PROVE  I!Known(I!Read(kind, contents[k])) \in I!Elements \cup {Phrase, Missing}
    OBVIOUS
  <2>1. I!Read(kind, contents[k]) \in I!Elements \cup {Phrase, Missing, Unreadable}
    BY ReadType DEF TextsTyped
  <2> QED BY <2>1 DEF I!Known
<1>2. ASSUME NEW k \in Keywords
      PROVE  [i \in DOMAIN contents[k] |-> I!Known(I!Read("number", <<contents[k][i]>>))]
               \in Seq(I!Elements \cup {Missing})
  <2>1. contents[k] \in Seq(I!Elements)
    BY DEF TextsTyped
  <2>2. \A i \in DOMAIN contents[k] :
          I!Known(I!Read("number", <<contents[k][i]>>)) \in I!Elements \cup {Missing}
    BY NumberType, InputFacts DEF I!Known
  <2>3. DOMAIN contents[k] = 1 .. Len(contents[k]) /\ Len(contents[k]) \in Nat
    BY <2>1
  <2> QED BY <2>2, <2>3
<1>3. I!OpenInput \in [value : [I!Kinds \X Keywords -> I!Elements \cup {Phrase, Missing}],
                       numbers : [Keywords -> Seq(I!Elements \cup {Missing})]]
  BY <1>1, <1>2 DEF I!OpenInput
<1> QED BY <1>3, LibraryAssumption DEF I!InputConstants

\* Read_Var answers from the file, else with the default.
LEMMA ReadScalarAnswers ==
  ASSUME TextsTyped, NEW kind \in I!Kinds, NEW k \in Keywords,
         NEW def \in I!ValuesOf(kind) \cup {Sentinel}, I!ReadScalar(kind, k, def)
  PROVE  I!Promise!Query(kind, k, I!Own(def)) /\ I!Own(def) \in I!Elements \cup {Missing}
<1> DEFINE own == I!Own(def)
           text == I!Read(kind, contents[k])
           default == IF own = Missing THEN registry[<<kind, k>>] ELSE own
<1>1. /\ def \in I!Elements \cup {Sentinel} /\ own \in I!Elements \cup {Missing}
      /\ own = IF def = Sentinel THEN Missing ELSE def
      /\ def # Sentinel => def # Missing
  BY InputFacts DEF I!Own
<1>2. asked' = <<"value", kind, k, own>> /\ UNCHANGED <<initialized, contents>>
  BY DEF I!ReadScalar, I!object
<1>3. CASE ~ initialized
  <2>1. answer' = <<>> /\ registry' = registry /\ ~ initialized'
    BY <1>2, <1>3 DEF I!ReadScalar
  <2>2. I!Promise!Refuse
    BY <1>3, <2>1 DEF I!Promise!Refuse
  <2> QED BY <1>1, <1>2, <2>2 DEF I!Promise!Query
<1>4. CASE initialized
  <2>1. default = I!RegisteredBy(def, registry[<<kind, k>>])
    BY <1>1 DEF I!RegisteredBy
  <2>2. text \in I!Elements \cup {Phrase, Missing, Unreadable}
    BY ReadType DEF TextsTyped
  <2> DEFINE result == I!ReadVar(text, registry[<<kind, k>>], def)
  <2>3. /\ answer' = IF result.ok THEN <<result.value>> ELSE <<>>
        /\ registry' = [registry EXCEPT ![<<kind, k>>] = I!RegisteredBy(def, @)]
    BY <1>4 DEF I!ReadScalar
  <2>4. registry' = [registry EXCEPT ![<<kind, k>>] = default]
    BY <2>1, <2>3
  <2>5. I!OpenInput.value[<<kind, k>>] = I!Known(text)
    BY DEF I!OpenInput
  <2>6. answer' = IF I!Known(text) # Missing THEN <<I!Known(text)>>
                  ELSE IF default = Missing THEN <<>> ELSE <<default>>
    <3> HIDE DEF text, default, own
    <3>1. CASE text \in {Missing, Unreadable}
      <4>1. I!Known(text) = Missing /\ I!Converted(text, def) = def
        BY <3>1 DEF I!Known, I!Converted
      <4>2. result = IF default # Missing THEN [ok |-> TRUE, value |-> default]
                     ELSE [ok |-> FALSE, value |-> def]
        BY <2>1, <4>1 DEF I!ReadVar
      <4> QED BY <2>3, <4>1, <4>2
    <3>2. CASE text \in I!Elements \cup {Phrase}
      <4>1. /\ text # Missing /\ text # Unreadable /\ text # Sentinel
            /\ I!Known(text) = text /\ I!Converted(text, def) = text
        BY <3>2, InputFacts DEF I!Known, I!Converted
      <4>2. CASE text = def
        <5>1. default = def /\ default # Missing
          BY <1>1, <4>1, <4>2 DEF default, own
        <5>2. result = [ok |-> TRUE, value |-> default]
          BY <2>1, <4>1, <4>2, <5>1 DEF I!ReadVar
        <5> QED BY <2>3, <4>1, <4>2, <5>1, <5>2
      <4>3. CASE text # def
        <5>1. result = [ok |-> TRUE, value |-> text]
          BY <4>1, <4>3 DEF I!ReadVar
        <5> QED BY <2>3, <4>1, <5>1
      <4> QED BY <4>2, <4>3
    <3> QED BY <2>2, <3>1, <3>2
  <2>7. I!Promise!Answer(kind, k, own)
    BY <1>2, <1>4, <2>4, <2>5, <2>6, InputOpen DEF I!Promise!Answer, I!Promise!Found, I!OpenInput
  <2> QED BY <1>1, <1>2, <2>7 DEF I!Promise!Query
<1> QED BY <1>1, <1>3, <1>4

\* The bool version cannot fail.
LEMMA ReadBoolAnswers ==
  ASSUME TextsTyped, NEW k \in Keywords, NEW def \in {Yes, No}, I!ReadBool(k, def)
  PROVE  I!Promise!Query("bool", k, def)
<1> DEFINE text == I!Read("bool", contents[k])
<1>1. /\ asked' = <<"value", "bool", k, def>> /\ UNCHANGED <<initialized, contents>>
      /\ def # Missing
  BY InputFacts DEF I!ReadBool, I!object
<1>2. CASE ~ initialized
  <2>1. answer' = <<>> /\ registry' = registry /\ ~ initialized'
    BY <1>1, <1>2 DEF I!ReadBool
  <2>2. I!Promise!Refuse
    BY <1>2, <2>1 DEF I!Promise!Refuse
  <2> QED BY <1>1, <2>2 DEF I!Promise!Query
<1>3. CASE initialized
  <2>1. text \in I!Elements \cup {Phrase, Missing, Unreadable}
    BY ReadType DEF TextsTyped, I!Kinds
  <2>2. /\ answer' = <<I!Converted(text, def)>>
        /\ registry' = [registry EXCEPT ![<<"bool", k>>] = def]
    BY <1>3 DEF I!ReadBool
  <2>3. I!OpenInput.value[<<"bool", k>>] = I!Known(text)
    BY DEF I!OpenInput, I!Kinds
  <2>4. answer' = IF I!Known(text) # Missing THEN <<I!Known(text)>> ELSE <<def>>
    <3> HIDE DEF text
    <3> QED BY <2>1, <2>2, InputFacts DEF I!Known, I!Converted
  <2>5. I!Promise!Answer("bool", k, def)
    BY <1>1, <1>3, <2>2, <2>3, <2>4, InputOpen
       DEF I!Promise!Answer, I!Promise!Found, I!OpenInput
  <2> QED BY <1>1, <2>5 DEF I!Promise!Query
<1> QED BY <1>2, <1>3

\* The element a query reads: what the promise calls it.
Element(k, i) ==
    IF i \in DOMAIN contents[k] THEN I!Known(I!Read("number", <<contents[k][i]>>)) ELSE Missing

LEMMA ElementRead ==
  ASSUME NEW k \in Keywords, NEW i, NEW def \in Numbers \cup {Sentinel}
  PROVE  /\ I!ElementAt(k, i, def) # def =>
                Element(k, i) = I!ElementAt(k, i, def) /\ Element(k, i) # Missing
         /\ I!ElementAt(k, i, def) = def => Element(k, i) = Missing \/ Element(k, i) = I!Own(def)
         /\ Element(k, i) =
                IF i \in DOMAIN I!OpenInput.numbers[k] THEN I!OpenInput.numbers[k][i] ELSE Missing
<1> DEFINE text == IF i \in DOMAIN contents[k] THEN I!Read("number", <<contents[k][i]>>)
                   ELSE Missing
<1>1. text \in Numbers \cup {Unreadable, Missing}
  BY NumberType
<1>2. Element(k, i) = I!Known(text) /\ I!ElementAt(k, i, def) = I!Converted(text, def)
  BY DEF Element, I!ElementAt, I!Known
<1>3. Element(k, i) =
         IF i \in DOMAIN I!OpenInput.numbers[k] THEN I!OpenInput.numbers[k][i] ELSE Missing
  BY DEF Element, I!OpenInput
<1> HIDE DEF text
<1>4. CASE text \in Numbers
  <2>1. text # Missing /\ text # Unreadable /\ text # Sentinel
    BY <1>4, InputFacts
  <2>2. Element(k, i) = text /\ I!ElementAt(k, i, def) = text
    BY <1>2, <2>1 DEF I!Known, I!Converted
  <2> QED BY <1>3, <2>1, <2>2 DEF I!Own
<1>5. CASE text \in {Unreadable, Missing}
  <2>1. Element(k, i) = Missing /\ I!ElementAt(k, i, def) = def
    BY <1>2, <1>5 DEF I!Known, I!Converted
  <2> QED BY <1>3, <2>1
<1> QED BY <1>1, <1>4, <1>5

LEMMA OwnNumber ==
  ASSUME NEW def \in Numbers \cup {Sentinel}
  PROVE  I!Own(def) \in I!Elements \cup {Missing}
BY InputFacts DEF I!Own

\* Read_Var_Vec and Read_Var_iVec answer with elements of the file, or fail
\* over one that is not there or equals the default.
LEMMA ReadElements ==
  ASSUME TextsTyped, NEW k \in Keywords, NEW first \in Nat, NEW last \in Nat,
         NEW def \in Numbers \cup {Sentinel},
         asked' = <<"elements", k, first, last, I!Own(def)>>,
         UNCHANGED <<initialized, contents, registry>>,
         answer' = IF initialized /\ \A i \in first .. last : I!ElementAt(k, i, def) # def
                   THEN [i \in 1 .. last - first + 1 |-> I!ElementAt(k, first + i - 1, def)]
                   ELSE <<>>
  PROVE  I!Promise!QueryElements(k, first, last, I!Own(def))
<1>1. UNCHANGED <<Input, registry>>
  BY DEF Input, I!OpenInput
<1>2. CASE ~ initialized
  <2>1. I!Promise!Refuse
    BY <1>1, <1>2 DEF I!Promise!Refuse, Input
  <2> QED BY <2>1 DEF I!Promise!QueryElements
<1>3. CASE initialized /\ \A i \in first .. last : I!ElementAt(k, i, def) # def
  <2>1. \A i \in first .. last : Element(k, i) # Missing
    BY <1>3, ElementRead
  <2>2. ASSUME NEW i \in 1 .. last - first + 1
        PROVE  I!ElementAt(k, first + i - 1, def) = Element(k, first + i - 1)
    <3>1. first + i - 1 \in first .. last
      OBVIOUS
    <3> QED BY <1>3, <3>1, ElementRead
  <2>3. answer' = [i \in 1 .. last - first + 1 |-> Element(k, first + i - 1)]
    BY <1>3, <2>2
  <2>4. I!Promise!AnswerElements(k, first, last, I!Own(def))
    BY <1>1, <1>3, <2>1, <2>3, InputOpen, ElementRead DEF I!Promise!AnswerElements, Input
  <2> QED BY <2>4 DEF I!Promise!QueryElements
<1>4. CASE initialized /\ \E i \in first .. last : I!ElementAt(k, i, def) = def
  <2>1. PICK i \in first .. last : I!ElementAt(k, i, def) = def
    BY <1>4
  <2>2. Element(k, i) = Missing \/ Element(k, i) = I!Own(def)
    BY <2>1, ElementRead
  <2>3. answer' = <<>>
    BY <1>4
  <2>4. I!Promise!AnswerElements(k, first, last, I!Own(def))
    BY <1>1, <1>4, <2>2, <2>3, InputOpen, ElementRead DEF I!Promise!AnswerElements, Input
  <2> QED BY <2>4 DEF I!Promise!QueryElements
<1> QED BY <1>2, <1>3, <1>4

LEMMA InitInput == Init => TextsTyped /\ I!Promise!Init
<1> SUFFICES ASSUME Init PROVE TextsTyped /\ I!Promise!Init
  OBVIOUS
<1>1. I!Init
  BY DEF Init
<1> QED BY <1>1 DEF I!Init, TextsTyped, I!Promise!Init

\* Opening and closing.
LEMMA OpenStep ==
  ASSUME TextsTyped, UNCHANGED <<registry, asked, answer>>,
         \/ I!Close
         \/ \E f \in InputFiles : I!OpenFile(f) \/ I!Load(f)
         \/ I!OpenFile(NoFile)
  PROVE  /\ TextsTyped'
         /\ I!Promise!OpenInput \/ I!Promise!CloseInput \/ UNCHANGED Input
<1>1. CASE UNCHANGED <<initialized, contents>>
  BY <1>1 DEF TextsTyped, Input, I!OpenInput
<1>2. CASE I!Close
  BY <1>2 DEF I!Close, TextsTyped, I!Promise!CloseInput
<1>3. ASSUME NEW f \in InputFiles, ~ initialized, I!NewParser(f)
      PROVE  TextsTyped' /\ I!Promise!OpenInput
  <2>1. \A k \in Keywords : f.text[k] \in Seq(I!Elements)
    BY LibraryAssumption DEF I!InputConstants
  <2> QED BY <1>3, <2>1 DEF I!NewParser, TextsTyped, I!Promise!OpenInput
<1> QED BY <1>1, <1>2, <1>3 DEF I!OpenFile, I!Load, I!object

LEMMA QueryStep ==
  ASSUME TextsTyped, NEW k \in Keywords,
         \/ \E kind \in {"number", "string"} :
               \/ I!GetVar(kind, k)
               \/ \E v \in I!ValuesOf(kind) \cup {Sentinel} : I!ReadScalar(kind, k, v)
         \/ \E kind \in I!Kinds : \E v \in I!ValuesOf(kind) : I!RegisterVar(kind, k, v)
         \/ \E v \in {Yes, No} : I!ReadBool(k, v)
         \/ \E n \in 1 .. MaxLength, def \in Numbers \cup {Sentinel} :
               I!ReadVector(k, n, def) \/ I!ReadElement(k, n, def)
  PROVE  TextsTyped' /\ I!Promise!Next
<1>0. TextsTyped'
  <2>1. UNCHANGED contents
    BY DEF I!GetVar, I!ReadScalar, I!RegisterVar, I!ReadBool, I!ReadVector, I!ReadElement,
           I!object
  <2> QED BY <2>1 DEF TextsTyped
<1>1. ASSUME NEW kind \in {"number", "string"}, I!GetVar(kind, k) PROVE I!Promise!Next
  <2>1. UNCHANGED Input
    BY <1>1 DEF I!GetVar, I!object, Input, I!OpenInput
  <2>2. I!Promise!AskDefault(kind, k)
    BY <1>1, <2>1 DEF I!GetVar, I!Promise!AskDefault, I!Promise!Found, Input
  <2> QED BY <2>2 DEF I!Promise!Next, I!Kinds
<1>2. ASSUME NEW kind \in {"number", "string"}, NEW v \in I!ValuesOf(kind) \cup {Sentinel},
             I!ReadScalar(kind, k, v)
      PROVE  I!Promise!Next
  <2>1. kind \in I!Kinds
    BY DEF I!Kinds
  <2>2. I!Promise!Query(kind, k, I!Own(v)) /\ I!Own(v) \in I!Elements \cup {Missing}
    BY <1>2, <2>1, ReadScalarAnswers
  <2> QED BY <2>1, <2>2 DEF I!Promise!Next
<1>3. ASSUME NEW kind \in I!Kinds, NEW v \in I!ValuesOf(kind), I!RegisterVar(kind, k, v)
      PROVE  I!Promise!Next
  <2>1. UNCHANGED Input
    BY <1>3 DEF I!RegisterVar, I!object, Input, I!OpenInput
  <2>2. I!Promise!Register(kind, k, v)
    BY <1>3, <2>1 DEF I!RegisterVar, I!Promise!Register, Input
  <2>3. v \in I!Elements
    BY InputFacts
  <2> QED BY <2>2, <2>3 DEF I!Promise!Next
<1>4. ASSUME NEW v \in {Yes, No}, I!ReadBool(k, v) PROVE I!Promise!Next
  <2>1. I!Promise!Query("bool", k, v)
    BY <1>4, ReadBoolAnswers
  <2>2. v \in I!Elements /\ "bool" \in I!Kinds
    BY InputFacts DEF I!Kinds
  <2> QED BY <2>1, <2>2 DEF I!Promise!Next
<1>5. ASSUME NEW n \in 1 .. MaxLength, NEW def \in Numbers \cup {Sentinel},
             I!ReadVector(k, n, def)
      PROVE  I!Promise!Next
  <2>1. /\ 1 \in 1 .. MaxLength /\ n \in Nat /\ n - 1 + 1 = n
        /\ \A i \in 1 .. n : 1 + i - 1 = i
    BY InputFacts
  <2>2. answer' = IF initialized /\ \A i \in 1 .. n : I!ElementAt(k, i, def) # def
                  THEN [i \in 1 .. n |-> I!ElementAt(k, 1 + i - 1, def)] ELSE <<>>
    BY <1>5, <2>1 DEF I!ReadVector
  <2>3. answer' = IF initialized /\ \A i \in 1 .. n : I!ElementAt(k, i, def) # def
                  THEN [i \in 1 .. n - 1 + 1 |-> I!ElementAt(k, 1 + i - 1, def)] ELSE <<>>
    BY <2>1, <2>2
  <2>4. I!Promise!QueryElements(k, 1, n, I!Own(def))
    BY <1>5, <2>1, <2>3, ReadElements DEF I!ReadVector, I!object
  <2> QED BY <2>1, <2>4, OwnNumber DEF I!Promise!Next
<1>6. ASSUME NEW n \in 1 .. MaxLength, NEW def \in Numbers \cup {Sentinel},
             I!ReadElement(k, n, def)
      PROVE  I!Promise!Next
  <2>1. n \in Nat /\ n .. n = {n} /\ n - n + 1 = 1 /\ n + 1 - 1 = n
    BY InputFacts
  <2>2. [i \in 1 .. 1 |-> I!ElementAt(k, n + i - 1, def)] = <<I!ElementAt(k, n, def)>>
    BY <2>1
  <2>3. answer' = IF initialized /\ \A i \in n .. n : I!ElementAt(k, i, def) # def
                  THEN [i \in 1 .. n - n + 1 |-> I!ElementAt(k, n + i - 1, def)] ELSE <<>>
    BY <1>6, <2>1, <2>2 DEF I!ReadElement
  <2>4. I!Promise!QueryElements(k, n, n, I!Own(def))
    BY <1>6, <2>1, <2>3, ReadElements DEF I!ReadElement, I!object
  <2> QED BY <2>4, OwnNumber DEF I!Promise!Next
<1> QED BY <1>0, <1>1, <1>2, <1>3, <1>4, <1>5, <1>6

LEMMA InputStep ==
  ASSUME TextsTyped, [Next]_vars
  PROVE  /\ TextsTyped'
         /\ I!Promise!Next \/ UNCHANGED <<Input, registry, asked, answer>>
<1>1. CASE UNCHANGED inputVars
  BY <1>1 DEF inputVars, TextsTyped, Input, I!OpenInput
<1>2. ASSUME I!Crash
      PROVE  TextsTyped' /\ UNCHANGED <<Input, registry, asked, answer>>
  BY <1>2 DEF I!Crash, I!object, TextsTyped, Input, I!OpenInput
<1>3. CASE I!Next
  <2>1. ASSUME \/ I!Close \/ I!OpenFile(NoFile)
               \/ \E f \in InputFiles : I!OpenFile(f) \/ I!Load(f)
        PROVE  /\ TextsTyped'
               /\ I!Promise!Next \/ UNCHANGED <<Input, registry, asked, answer>>
    <3>1. UNCHANGED <<registry, asked, answer>>
      BY <2>1 DEF I!Close, I!OpenFile, I!Load
    <3>2. /\ TextsTyped'
          /\ I!Promise!OpenInput \/ I!Promise!CloseInput \/ UNCHANGED Input
      BY <2>1, <3>1, OpenStep
    <3> QED BY <3>1, <3>2 DEF I!Promise!Next
  <2>2. ASSUME NEW k \in Keywords,
               \/ I!FortranReadChar(k) \/ I!FortranGetChar(k) \/ I!FortranGetNumber(k)
        PROVE  /\ TextsTyped'
               /\ I!Promise!Next \/ UNCHANGED <<Input, registry, asked, answer>>
    <3>1. \/ I!Crash \/ I!ReadScalar("string", k, Sentinel)
          \/ I!GetVar("string", k) \/ I!GetVar("number", k)
      BY <2>2 DEF I!FortranReadChar, I!FortranGetChar, I!FortranGetNumber
    <3>2. ASSUME ~ I!Crash PROVE TextsTyped' /\ I!Promise!Next
      BY <3>1, <3>2, QueryStep
    <3> QED BY <1>2, <3>2
  <2>3. ASSUME NEW k \in Keywords,
               \/ \E kind \in {"number", "string"} :
                     \/ I!GetVar(kind, k)
                     \/ \E v \in I!ValuesOf(kind) \cup {Sentinel} : I!ReadScalar(kind, k, v)
               \/ \E kind \in I!Kinds : \E v \in I!ValuesOf(kind) : I!RegisterVar(kind, k, v)
               \/ \E v \in {Yes, No} : I!ReadBool(k, v)
               \/ \E n \in 1 .. MaxLength, def \in Numbers \cup {Sentinel} :
                     I!ReadVector(k, n, def) \/ I!ReadElement(k, n, def)
        PROVE  TextsTyped' /\ I!Promise!Next
    BY <2>3, QueryStep
  <2> QED BY <1>3, <2>1, <2>2, <2>3 DEF I!Next
<1> QED BY <1>1, <1>3 DEF Next, vars

\* Every query is answered from the open input, else with the last default
\* anybody gave for the keyword, else it fails; nothing is answered while no
\* input is open: InputParse implements InputQueries.
THEOREM PromiseKept == Spec => QueriesAnswered
<1>1. Init => TextsTyped /\ I!Promise!Init
  BY InitInput
<1>2. TextsTyped /\ [Next]_vars => TextsTyped'
  BY InputStep
<1>3. TextsTyped /\ [Next]_vars => [I!Promise!Next]_<<Input, registry, asked, answer>>
  BY InputStep
<1> QED BY <1>1, <1>2, <1>3, PTL DEF Spec, QueriesAnswered, I!QueriesAnswered, I!Promise!Spec, Input
=============================================================================

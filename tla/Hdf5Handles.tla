----------------------------- MODULE Hdf5Handles -----------------------------
(***************************************************************************)
(* GRVY_HDF5_Class: one object, called sequentially, between its user and  *)
(* the HDF5 library.  The object keeps the file it has open and three      *)
(* caches of library handles, looked up by NAME; the library keeps a file  *)
(* open as long as any object of it is.  A failed library call that the    *)
(* wrapper treats as fatal ends the program.                               *)
(*                                                                         *)
(* What a handle refers to is recorded instead of its number.  Names are   *)
(* abstract, a numeric attribute has a value and a string attribute is     *)
(* Text.                                                                   *)
(***************************************************************************)
EXTENDS Naturals, FiniteSets, FiniteSetsExt

CONSTANTS
    Files, Groups, Attributes, Datasets,   \* names
    Numbers,      \* values this program writes into numeric attributes
    Old,          \* the value of a numeric attribute written before
    Text,         \* the value of a string attribute
    None,         \* no file, no object
    NoEntry,      \* a name a cache has never seen
    Zero,         \* the id 0 that operator[] of a map inserts
    MaxBadReads   \* bound: reads that fail after the attribute was opened

AttributeHandles == [file : Files, group : Groups, live : BOOLEAN]

HandleConstants ==
    /\ IsFiniteSet(Groups) /\ IsFiniteSet(Attributes) /\ IsFiniteSet(Datasets)
    /\ {None, NoEntry, Zero} \cap Files = {} /\ Cardinality({None, NoEntry, Zero}) = 3
    /\ NoEntry \notin [file : Files, group : Groups] \cup AttributeHandles
    /\ MaxBadReads \in Nat

VARIABLES
    job,           \* "running", or "exited" by exit(1)
    file,          \* fileId
    groupIds,      \* group   -> NoEntry, Zero or the file of the open group
    datasetIds,    \* dataset -> NoEntry or what the handle refers to
    attributeIds,  \* attribute -> NoEntry or what the handle refers to
    handler,       \* the library's error handler: "user" or "silent"
    saved,         \* error_orig_func
    disk,          \* what each file holds, None if it does not exist
    open,          \* library: objects open in each file
    readonly,      \* library: files that are, or were last, open for reading only
    badReads,      \* reads of each file that failed with the attribute open
    table          \* the packet table the timer has open, as <<file>>

cache == <<file, groupIds, datasetIds, attributeIds>>
errors == <<handler, saved>>
library == <<disk, open, readonly, badReads>>
vars == <<job, cache, errors, library, table>>

Empty == [groups |-> {}, data |-> {}, attrs |-> [p \in Groups \X Attributes |-> None]]

(* A file written before: data sets are created by other programs (and by
   the timer). *)
Written == [groups |-> Groups, data |-> Groups \X Datasets,
            attrs |-> [p \in Groups \X Attributes |-> Old]]

Init ==
    /\ job = "running"
    /\ file = None
    /\ groupIds = [g \in Groups |-> NoEntry]
    /\ datasetIds = [d \in Datasets |-> NoEntry]
    /\ attributeIds = [a \in Attributes |-> NoEntry]
    /\ handler = "user" /\ saved = None
    /\ disk \in [Files -> {None, Written}]
    /\ open = [f \in Files |-> 0]
    /\ readonly = {}
    /\ badReads = [f \in Files |-> 0]
    /\ table = None

(***************************************************************************)
(* The error handler: the functions' effects on <<handler, saved>>         *)
(***************************************************************************)
Silence(h) == <<"silent", h[1]>>
Restore(h) == <<h[2], h[2]>>

Handled(h) == handler' = h[1] /\ saved' = h[2]
Quietly(h) == Restore(Silence(h))

(* exit(1): nothing else happens. *)
Exit ==
    /\ job' = "exited"
    /\ UNCHANGED <<cache, errors, library, table>>

(***************************************************************************)
(* Files                                                                   *)
(***************************************************************************)

(* H5Fcreate refuses an existing file without, and an open one with the
   overwrite flag. *)
Create(f, overwrite) ==
    \/ /\ file = None
       /\ IF overwrite THEN open[f] = 0 ELSE disk[f] = None
       /\ file' = f
       /\ disk' = [disk EXCEPT ![f] = Empty]
       /\ readonly' = readonly \ {f}
       /\ Handled(Quietly(<<handler, saved>>))
       /\ UNCHANGED <<job, groupIds, datasetIds, attributeIds, open, badReads, table>>
    \/ /\ file = None => IF overwrite THEN open[f] # 0 ELSE disk[f] # None
       /\ Exit

(* A file of which an object is still open keeps the mode it was opened in,
   and is not opened for writing if that was for reading only. *)
CanOpen(f, forReading) ==
    /\ disk[f] # None
    /\ open[f] # 0 /\ f \in readonly => forReading

Mode(f, forReading) ==
    IF open[f] # 0 THEN readonly
    ELSE IF forReading THEN readonly \cup {f} ELSE readonly \ {f}

Open(f, forReading) ==
    \/ /\ file = None /\ CanOpen(f, forReading)
       /\ file' = f
       /\ readonly' = Mode(f, forReading)
       /\ Handled(Quietly(<<handler, saved>>))
       /\ UNCHANGED <<job, groupIds, datasetIds, attributeIds, disk, open, badReads, table>>
    \/ /\ file = None => ~CanOpen(f, forReading)
       /\ Exit

(* Exists and GroupExists open and close quietly. *)
Look ==
    /\ Handled(Quietly(<<handler, saved>>))
    /\ UNCHANGED <<job, cache, library, table>>

(* Defect: close_open_objects is not called. *)
CloseOnly ==
    /\ file' = None
    /\ UNCHANGED <<job, groupIds, datasetIds, attributeIds, errors, library, table>>

(* close_open_objects closes and forgets the groups, and nothing else. *)
Close ==
    /\ IF file = None
       THEN UNCHANGED <<file, groupIds, open>>
       ELSE /\ file' = None
            /\ open' = [f \in Files |->
                    open[f] - Cardinality({g \in Groups : groupIds[g] = f})]
            /\ groupIds' = [g \in Groups |-> NoEntry]
    /\ UNCHANGED <<job, datasetIds, attributeIds, errors, disk, readonly, badReads, table>>

(***************************************************************************)
(* Groups                                                                  *)
(***************************************************************************)
Opened(f) == open' = [open EXCEPT ![f] = @ + 1]

Writable(f) == f \notin readonly

(* A group in the cache counts as existing, an id 0 included. *)
CanCreateGroup(g) == file # None /\ Writable(file) /\ g \notin disk[file].groups

GroupCreate(g) ==
    \/ groupIds[g] # NoEntry /\ UNCHANGED vars
    \/ /\ groupIds[g] = NoEntry /\ CanCreateGroup(g)
       /\ disk' = [disk EXCEPT ![file].groups = @ \cup {g}]
       /\ groupIds' = [groupIds EXCEPT ![g] = file]
       /\ Opened(file)
       /\ UNCHANGED <<job, file, datasetIds, attributeIds, errors, readonly, badReads, table>>
    \/ groupIds[g] = NoEntry /\ ~CanCreateGroup(g) /\ Exit

(* What GroupOpen does when it does not exit: the cache, the number of open
   objects and the error handler. *)
GroupOpens(g) == file # None /\ (groupIds[g] # NoEntry \/ g \in disk[file].groups)

(* Defect: the handler is silenced before the cache is looked at. *)
GroupOpenedSilently(g, h) ==
    [ids    |-> IF groupIds[g] # NoEntry THEN groupIds ELSE [groupIds EXCEPT ![g] = file],
     open   |-> IF groupIds[g] # NoEntry THEN open ELSE [open EXCEPT ![file] = @ + 1],
     errors |-> Quietly(h)]

GroupOpened(g, h) ==
    IF groupIds[g] # NoEntry
    THEN [ids |-> groupIds, open |-> open, errors |-> h]
    ELSE [ids |-> [groupIds EXCEPT ![g] = file], open |-> [open EXCEPT ![file] = @ + 1],
          errors |-> Quietly(h)]

GroupOpen(g) ==
    \/ /\ GroupOpens(g)
       /\ LET after == GroupOpened(g, <<handler, saved>>)
          IN  groupIds' = after.ids /\ open' = after.open /\ Handled(after.errors)
       /\ UNCHANGED <<job, file, datasetIds, attributeIds, disk, readonly, badReads, table>>
    \/ ~GroupOpens(g) /\ Exit

(* ListSubGroups opens the group and iterates over the library's list. *)
ListSubGroups(g) == GroupOpen(g)

(* Reading groupIds[g] enters a 0 for a name that is not there. *)
Entered(g) == [groupIds EXCEPT ![g] = IF @ = NoEntry THEN Zero ELSE @]

(* The library finds an object below a group only through a live handle. *)
Below(g) == groupIds[g] \in Files

(***************************************************************************)
(* Data sets and packet tables                                             *)
(***************************************************************************)

(* DatasetExists and PTableExists. *)
DatasetExists(g) ==
    /\ groupIds' = Entered(g)
    /\ Handled(Quietly(<<handler, saved>>))
    /\ UNCHANGED <<job, file, datasetIds, attributeIds, library, table>>

DatasetOpen(g, d) ==
    \/ file # None /\ datasetIds[d] # NoEntry /\ UNCHANGED vars
    \/ /\ file # None /\ datasetIds[d] = NoEntry
       /\ Below(g) /\ <<g, d>> \in disk[groupIds[g]].data
       /\ datasetIds' = [datasetIds EXCEPT ![d] = [file |-> groupIds[g], group |-> g]]
       /\ Opened(groupIds[g])
       /\ Handled(Quietly(<<handler, saved>>))
       /\ UNCHANGED <<job, file, groupIds, attributeIds, disk, readonly, badReads, table>>
    \/ /\ file # None => /\ datasetIds[d] = NoEntry
                         /\ ~(Below(g) /\ <<g, d>> \in disk[groupIds[g]].data)
       /\ Exit

(* The timer, the only caller, has opened or created the group before, and
   keeps the handle until PTableClose. *)
PTableOpen(g, d) ==
    /\ Below(g) /\ table = None
    /\ LET after == GroupOpened(g, Silence(<<handler, saved>>))
       IN  IF <<g, d>> \in disk[groupIds[g]].data
           THEN /\ table' = groupIds[g] /\ Opened(groupIds[g])
                /\ Handled(Restore(after.errors))
                /\ UNCHANGED <<job, cache, disk, readonly, badReads>>
           ELSE Exit

PTableClose ==
    /\ table # None
    /\ open' = [open EXCEPT ![table] = @ - 1]
    /\ table' = None
    /\ UNCHANGED <<job, cache, errors, disk, readonly, badReads>>

(***************************************************************************)
(* Attributes                                                              *)
(***************************************************************************)
Value(g, a) == disk[groupIds[g]].attrs[<<g, a>>]
Has(g, a) == Below(g) /\ Value(g, a) # None

AttributeExists(g) == DatasetExists(g)

AttributeOpen(g, a) ==
    \/ file # None /\ attributeIds[a] # NoEntry /\ UNCHANGED vars
    \/ /\ file # None /\ attributeIds[a] = NoEntry /\ Has(g, a)
       /\ attributeIds' = [attributeIds EXCEPT
                ![a] = [file |-> groupIds[g], group |-> g, live |-> TRUE]]
       /\ Opened(groupIds[g])
       /\ Handled(Quietly(<<handler, saved>>))
       /\ UNCHANGED <<job, file, groupIds, datasetIds, disk, readonly, badReads, table>>
    \/ /\ file # None => attributeIds[a] = NoEntry /\ ~Has(g, a)
       /\ Exit

(* The handle an existing attribute is written through: the cached one, of
   whatever group or file, open or closed, else a new one. *)
WriteHandle(g, a) ==
    IF attributeIds[a] # NoEntry THEN attributeIds[a]
    ELSE [file |-> groupIds[g], group |-> g, live |-> TRUE]

(* H5Awrite is not checked: through a closed handle, into a file open for
   reading or into a string it writes nothing. H5Aclose leaves the closed
   handle cached. *)
Rewrite(g, a, v) ==
    LET handle == WriteHandle(g, a)
        fresh  == attributeIds[a] = NoEntry
        writes == /\ handle.live /\ Writable(handle.file)
                  /\ disk[handle.file].attrs[<<handle.group, a>>] # Text
    IN  /\ attributeIds' = [attributeIds EXCEPT ![a] = [handle EXCEPT !.live = FALSE]]
        /\ disk' = IF writes
                   THEN [disk EXCEPT ![handle.file].attrs[<<handle.group, a>>] = v]
                   ELSE disk
        /\ open' = IF handle.live /\ ~fresh THEN [open EXCEPT ![handle.file] = @ - 1] ELSE open

(* An attribute that does not exist is created below a live group handle of
   a file that is open for writing, or the program exits. *)
Creates(g, a, v) ==
    /\ Below(g) /\ Writable(groupIds[g]) /\ Value(g, a) = None
    /\ disk' = [disk EXCEPT ![groupIds[g]].attrs[<<g, a>>] = v]

(* AttributeWrite of a number: it exits if the attribute cannot be created,
   or if it exists and no file is open. *)
AttributeWrite(g, a, v) ==
    \/ /\ Has(g, a) /\ file # None
       /\ Rewrite(g, a, v)
       /\ Handled(IF attributeIds[a] = NoEntry
                  THEN Quietly(Quietly(<<handler, saved>>)) ELSE Quietly(<<handler, saved>>))
       /\ UNCHANGED <<job, file, groupIds, datasetIds, readonly, badReads, table>>
    \/ /\ Creates(g, a, v)
       /\ Handled(Quietly(<<handler, saved>>))
       /\ UNCHANGED <<job, cache, open, readonly, badReads, table>>
    \/ /\ Below(g) => ~Has(g, a) /\ ~Writable(groupIds[g])
       /\ Exit

(* AttributeWrite of a string always creates. *)
AttributeWriteText(g, a) ==
    \/ /\ Creates(g, a, Text)
       /\ UNCHANGED <<job, cache, errors, open, readonly, badReads, table>>
    \/ /\ Below(g) => Has(g, a) \/ ~Writable(groupIds[g])
       /\ Exit

(* AttributeRead opens the group; a value of the other kind does not convert
   and leaves the attribute open. *)
AttributeRead(g, a, text) ==
    LET after == GroupOpened(g, <<handler, saved>>)
        held  == IF after.ids[g] \in Files THEN disk[after.ids[g]].attrs[<<g, a>>] ELSE None
        fails == held # None /\ (held = Text) # text
    IN  \/ /\ GroupOpens(g)
           /\ fails => SumFunction(badReads) < MaxBadReads
           /\ groupIds' = after.ids
           /\ Handled(IF held = None THEN after.errors ELSE Quietly(after.errors))
           /\ open' = IF fails THEN [after.open EXCEPT ![after.ids[g]] = @ + 1] ELSE after.open
           /\ badReads' = IF fails THEN [badReads EXCEPT ![after.ids[g]] = @ + 1] ELSE badReads
           /\ UNCHANGED <<job, file, datasetIds, attributeIds, disk, readonly, table>>
        \/ ~GroupOpens(g) /\ Exit

Next ==
    /\ job = "running"
    /\ \/ \E f \in Files, flag \in BOOLEAN : Create(f, flag) \/ Open(f, flag)
       \/ Look \/ Close \/ PTableClose
       \/ \E g \in Groups :
            \/ GroupCreate(g) \/ GroupOpen(g) \/ ListSubGroups(g) \/ DatasetExists(g) \/ AttributeExists(g)
            \/ \E d \in Datasets : DatasetOpen(g, d) \/ PTableOpen(g, d)
            \/ \E a \in Attributes :
                  \/ AttributeOpen(g, a) \/ AttributeWriteText(g, a)
                  \/ \E v \in Numbers : AttributeWrite(g, a, v)
                  \/ \E text \in BOOLEAN : AttributeRead(g, a, text)

Spec == Init /\ [][Next]_vars

(***************************************************************************)
(* Properties                                                              *)
(***************************************************************************)
(* Every variable has its type. *)
TypeOK ==
    /\ job \in {"running", "exited"}
    /\ file \in Files \cup {None} /\ table \in Files \cup {None}
    /\ groupIds \in [Groups -> Files \cup {NoEntry, Zero}]
    /\ datasetIds \in [Datasets -> [file : Files, group : Groups] \cup {NoEntry}]
    /\ attributeIds \in [Attributes -> AttributeHandles \cup {NoEntry}]
    /\ handler \in {"user", "silent"}
    /\ open \in [Files -> Nat] /\ readonly \subseteq Files /\ badReads \in [Files -> 0 .. MaxBadReads]

(* Between two calls the application's error handler is installed: no call
   nests its silencing of the library in another's (789-806, 700-704). *)
HandlerRestored == handler = "user"

(* An object handle that Close does not know of, or a read that failed half
   way, keeps a file open. *)
KeptOpen(f) ==
    \/ \E d \in Datasets : datasetIds[d] # NoEntry /\ datasetIds[d].file = f
    \/ \E a \in Attributes :
          attributeIds[a] # NoEntry /\ attributeIds[a].live /\ attributeIds[a].file = f
    \/ table = f \/ badReads[f] # 0

(* Every group is closed with its file, and closed once: a cached group
   handle is one of the open file, so that no lookup after a Close and the
   next Open leads into the file before, and of a closed file nothing stays
   open on account of its groups, however often they were created, opened,
   listed or read through (150-197, 740-766, 808-825). *)
GroupsClosed ==
    /\ \A g \in Groups : groupIds[g] \in Files => groupIds[g] = file
    /\ \A f \in Files : f # file /\ ~KeptOpen(f) => open[f] = 0

(* "make sure to close all objects opened previously via the public
   interface" (grvy_hdf5.cpp:760-764): is a file really closed by Close? The
   packet table is private and not meant. *)
CloseClosesAll ==
    file = None /\ table = None => \A f \in Files : open[f] = 0

=============================================================================

------------------------------ MODULE Libraries ------------------------------
(***************************************************************************)
(* The service libraries under one roof: a behaviour uses one of them, and *)
(* the variables of the others keep their initial values.  They share no   *)
(* state, so their state spaces lie side by side.                          *)
(***************************************************************************)
EXTENDS HistTable, FiniteSets

CONSTANTS
    Files, Groups, Attributes, Datasets, AttributeNumbers, Old, Text,   \* HDF5
    None, NoEntry, Zero, MaxBadReads,
    Keywords, Numbers, Words, Phrase, AsBool, Yes, No, InputFiles,      \* input
    Missing, Sentinel, MaxLength,
    Callers, MaxLevels, MAX_DEPTH, Nobody,                              \* paths
    Parent, Child, Places, MaxDirs                                      \* directories

VARIABLES library,
    job, file, groupIds, datasetIds, attributeIds, handler, saved, disk, open,
    readonly, badReads, table,
    allocated, crashed, initialized, contents, registry, asked, answer,
    entry, maker, denied, wants, level, pc, ret,
    state, cwd, stack, handlers, emptied, made, creator, place, form, inherited,
    exists, full, removed, reported,
    logDisk, logFile, owner, reading, saving, num, host, faults

H == INSTANCE Hdf5Handles WITH Numbers <- AttributeNumbers
I == INSTANCE InputParse
P == INSTANCE PathCheck WITH Procs <- Callers
S == INSTANCE ScratchDirs
L == INSTANCE HistLog WITH disk <- logDisk, file <- logFile, pc <- saving

ASSUME LibraryAssumption ==
    H!HandleConstants /\ I!InputConstants /\ P!PathConstants /\ S!ScratchConstants

hdf5Vars == <<job, file, groupIds, datasetIds, attributeIds, handler, saved, disk, open,
              readonly, badReads, table>>
inputVars == <<allocated, crashed, initialized, contents, registry, asked, answer>>
pathVars == <<entry, maker, denied, wants, level, pc, ret>>
scratchVars == <<state, cwd, stack, handlers, emptied, made, creator, place, form,
                 inherited, exists, full, removed, reported>>
logVars == <<logDisk, logFile, owner, reading, saving, num, host, faults>>

(* A library that is not used starts in one of its initial states. *)
Init ==
    /\ library \in {"hdf5", "input", "path", "scratch", "log"}
    /\ H!Init /\ I!Init /\ P!Init /\ S!Init /\ L!Init
    /\ library # "hdf5" => disk = [f \in Files |-> None]
    /\ library # "path" => /\ entry = [k \in 1 .. MaxLevels |-> "none"] /\ ~denied
                           /\ wants = [p \in Callers |-> 0]
    /\ library # "scratch" => cwd[Parent] = CHOOSE w \in Places : TRUE
    /\ library # "log" => host = [s \in Saves |-> CHOOSE h \in Hosts : TRUE]

Next ==
    /\ UNCHANGED library
    /\ \/ library = "hdf5" /\ H!Next /\ UNCHANGED <<inputVars, pathVars, scratchVars, logVars>>
       \/ library = "input" /\ I!Next /\ UNCHANGED <<hdf5Vars, pathVars, scratchVars, logVars>>
       \/ library = "path" /\ P!Next /\ UNCHANGED <<hdf5Vars, inputVars, scratchVars, logVars>>
       \/ library = "scratch" /\ S!Next /\ UNCHANGED <<hdf5Vars, inputVars, pathVars, logVars>>
       \/ library = "log" /\ L!Next /\ UNCHANGED <<hdf5Vars, inputVars, pathVars, scratchVars>>

vars == <<library, hdf5Vars, inputVars, pathVars, scratchVars, logVars>>

Spec == Init /\ [][Next]_vars

-----------------------------------------------------------------------------
(* The properties of the modules, under names a configuration can use.      *)

HandlerRestored == H!HandlerRestored
GroupsClosed    == H!GroupsClosed
QueriesAnswered == I!QueriesAnswered
PathsMade       == P!PathsMade
ScratchGone     == S!ScratchGone
NotTakenEarly   == S!NotTakenEarly
LogTypeOK       == L!TypeOK
AbortsNeedFault == L!AbortsNeedFault
LogSpec         == L!LogSpec
=============================================================================

---------------------------- MODULE OcoreSession ----------------------------
(***************************************************************************)
(* The life of one MPI_Ocore session on every rank: Initialize (checking   *)
(* the configuration, building the communicators, reading the options on   *)
(* the master and broadcasting them, setting up the Ocore tasks), the work *)
(* in between as far as it decides who owns which record, and Finalize     *)
(* (teardown, raw statistics, summary, MPI_Finalize).                      *)
(*                                                                         *)
(* Ranks are MPI processes.  A barrier is one step of all its members; a   *)
(* broadcast lets the root go on and the others follow; a reduction or a   *)
(* gather lets the others go on and the root follow.  A rank that aborts   *)
(* or fails an assertion takes the job down, but only some time later.     *)
(*                                                                         *)
(* Write sends a header and a block.  If MPI buffers both, it returns with *)
(* the two still under way; otherwise the Ocore task has received them.    *)
(* Messages of one sender arrive in order, those of two in any order: the  *)
(* master's OCORE_EXIT waits for the master's own writes, but may overtake *)
(* those of the others, which are then lost.                               *)
(***************************************************************************)
EXTENDS Integers, Sequences, FiniteSets, FiniteSetsExt, InputLookup

CONSTANTS
    MaxProcs,     \* bound: MPI tasks the job was started with
    MaxWrites,    \* bound: writes of all work tasks together
    InputFiles,   \* the input files a user may have: keyword -> text
    NoFile        \* the input file cannot be opened

ASSUME SessionBounds == MaxProcs \in Nat \ {0} /\ MaxWrites \in Nat

Keywords == {"enable_ocore", "use_disk_overflow", "allow_empty_records",
             "blocksize", "dump_raw_statistics", "statsfile"}

VARIABLES
    config,    \* how the job was started
    job,       \* "running" until an aborting rank takes it down
    pc,        \* where each rank is
    enabled,   \* use_mpi_ocore of each rank
    options,   \* the option members of each rank
    distrib,   \* distrib_rank of each rank
    wrote,     \* calls of Write of each work task: the timer's write_to_pool
    made,      \* those for which it assigned an owner
    mastersWrites,  \* new records under way to each Ocore task from the master,
    othersWrites,   \*   and from the other work tasks; lost once it has left
    held,      \* records in each Ocore task's smap
    spilled,   \* overflow_triggered of each Ocore task
    stats,     \* the raw statistics file
    turn,      \* the loop index of DumpStatistics
    report     \* what the master prints in Summarize

records == <<distrib, wrote, made, mastersWrites, othersWrites, held, spilled>>
local == <<enabled, options, records>>
outputs == <<stats, turn, report>>
vars == <<config, job, pc, local, outputs>>

(* A rank's program, in order. *)
Stages == <<"start", "groups", "comms", "ranks", "enable", "options", "bcast",
            "config", "setup", "ready", "work", "poll", "drain", "notify",
            "gate", "header", "written", "turn", "took", "reduce", "gather",
            "close", "finished">>

Stopped == {"aborted", "empty_dump"}    \* MPI_Abort or exit; assert at 615

Position(s) == CHOOSE i \in DOMAIN Stages : Stages[i] = s

Ranks == 0 .. config.nprocs - 1

Past(r, s) == pc[r] \notin Stopped /\ Position(pc[r]) > Position(s)

Master == 0
StartingRank == config.nprocs - config.ocores
OcoreTasks == {r \in Ranks : r >= StartingRank}
WorkTasks  == Ranks \ OcoreTasks
OcoreRank(r) == r - StartingRank          \* rank in MPI_COMM_OCORE

(***************************************************************************)
(* The constructor                                                         *)
(***************************************************************************)
Constructed == [use_disk_overflow |-> TRUE, allow_empty_records |-> TRUE,
                blocksize |-> 1, dump_stats |-> FALSE, statsfile |-> ""]

Init ==
    /\ config \in [nprocs : 1 .. MaxProcs, ocores : 0 .. MaxProcs,
                   file : InputFiles \cup {NoFile}, ownsMPI : BOOLEAN, buffers : BOOLEAN]
    /\ job = "running"
    /\ pc      = [r \in Ranks |-> "start"]
    /\ enabled = [r \in Ranks |-> TRUE]
    /\ options = [r \in Ranks |-> Constructed]
    /\ distrib = [r \in Ranks |-> 0]
    /\ wrote   = [r \in Ranks |-> 0]
    /\ made    = [r \in Ranks |-> 0]
    /\ mastersWrites = [r \in Ranks |-> 0]
    /\ othersWrites  = [r \in Ranks |-> 0]
    /\ held    = [r \in Ranks |-> 0]
    /\ spilled = [r \in Ranks |-> FALSE]
    /\ stats   = [exists |-> FALSE, blocks |-> <<>>]
    /\ turn    = 1
    /\ report  = [written |-> 0, upper |-> 0, spilled |-> {}]

Goto(r, s) == pc' = [pc EXCEPT ![r] = s]

(* An MPI barrier of a communicator: its members meet at s and go on. *)
Meet(group, s, next) ==
    /\ group # {}
    /\ \A r \in group : pc[r] = s
    /\ pc' = [r \in Ranks |-> IF r \in group THEN next[r] ELSE pc[r]]

(***************************************************************************)
(* Initialize                                                              *)
(***************************************************************************)
EnoughTasks == config.ocores + 1 <= config.nprocs

(* Every rank rejects num_ocore_tasks < 1; only the master rejects a job
   that is too small, and the others go on to the first barrier. *)
CheckConfiguration(r) ==
    /\ pc[r] = "start"
    /\ Goto(r, IF config.ocores < 1 \/ (r = Master /\ ~EnoughTasks)
               THEN "aborted" ELSE "groups")
    /\ UNCHANGED <<local, outputs>>

Setup == {<<"groups", "comms">>, <<"comms", "ranks">>, <<"ranks", "enable">>}

(* Defect: no barriers. *)
BuildCommunicatorsApart ==
    /\ \E step \in Setup, r \in Ranks : pc[r] = step[1] /\ Goto(r, step[2])
    /\ UNCHANGED <<local, outputs>>

(* Three barriers around the groups, the communicators and the ranks. *)
BuildCommunicators ==
    /\ \E step \in Setup : Meet(Ranks, step[1], [r \in Ranks |-> step[2]])
    /\ UNCHANGED <<local, outputs>>

Text(key) == config.file[key]

(* The master opens the file; a missing file or keyword means disabled. *)
MasterEnable ==
    /\ pc[Master] = "enable"
    /\ LET on == /\ config.file # NoFile
                 /\ ReadVar(Text("enable_ocore"), 0, Sentinel).value = 1
       IN  /\ enabled' = [enabled EXCEPT ![Master] = on]
           /\ Goto(Master, IF on THEN "options" ELSE "finished")
    /\ UNCHANGED <<options, records, outputs>>

(* Disabled: Initialize returns 1, and Finalize will return at once. *)
OtherEnable(r) ==
    /\ r # Master /\ pc[r] = "enable" /\ Past(Master, "enable")
    /\ enabled' = [enabled EXCEPT ![r] = enabled[Master]]
    /\ Goto(r, IF enabled[Master] THEN "bcast" ELSE "finished")
    /\ UNCHANGED <<options, records, outputs>>

(* Each option has a registered default, so no read fails. blocksize stands
   for the four numbers the sanity check tests. *)
ParsedOptions ==
    LET dump == Converted(Text("dump_raw_statistics"), TRUE)
    IN  [use_disk_overflow   |-> ReadVar(Text("use_disk_overflow"), 1, Sentinel).value = 1,
         allow_empty_records |-> ReadVar(Text("allow_empty_records"), 0, Sentinel).value = 1,
         blocksize  |-> ReadVar(Text("blocksize"), Constructed.blocksize, Sentinel).value,
         dump_stats |-> dump,
         statsfile  |-> IF dump
                        THEN ReadVar(Text("statsfile"), "grvy_ocore_stats.dat", Sentinel).value
                        ELSE Constructed.statsfile]

ReadOptions ==
    /\ pc[Master] = "options"
    /\ options' = [options EXCEPT ![Master] = ParsedOptions]
    /\ Goto(Master, IF ParsedOptions.blocksize > 0 THEN "bcast" ELSE "aborted")
    /\ UNCHANGED <<enabled, records, outputs>>

(* Defect: one broadcast is missing. *)
ReceivedLess(mine, root) ==
    [mine EXCEPT !.blocksize = root.blocksize, !.statsfile = root.statsfile]

(* The broadcasts: the two flags read as integers are not among them. *)
Received(mine, root) ==
    [mine EXCEPT !.blocksize = root.blocksize, !.dump_stats = root.dump_stats,
                 !.statsfile = root.statsfile]

BcastOptions(r) ==
    /\ pc[r] = "bcast"
    /\ r = Master \/ Past(Master, "bcast")
    /\ options' = [options EXCEPT ![r] = Received(options[r], options[Master])]
    /\ Goto(r, "config")
    /\ UNCHANGED <<enabled, records, outputs>>

ShowConfiguration ==
    /\ Meet(Ranks, "config", [r \in Ranks |-> IF r \in OcoreTasks THEN "setup" ELSE "ready"])
    /\ UNCHANGED <<local, outputs>>

(* The scratch directory, the overflow file and the pool: each can fail. *)
SetUpOcoreTask(r) ==
    /\ pc[r] = "setup"
    /\ Goto(r, "ready") \/ Goto(r, "aborted")
    /\ UNCHANGED <<local, outputs>>

Ready ==
    /\ Meet(Ranks, "ready", [r \in Ranks |-> IF r \in OcoreTasks THEN "poll" ELSE "work"])
    /\ UNCHANGED <<local, outputs>>

(***************************************************************************)
(* Between Initialize and Finalize                                         *)
(***************************************************************************)

(* Defect: the round robin wraps one too early. *)
NextOwnerShort(rank) == IF rank + 1 >= config.ocores - 1 THEN 0 ELSE rank + 1

NextOwner(rank) == IF rank + 1 = config.ocores THEN 0 ELSE rank + 1

(* A record is added to the smap of Ocore task o. If its pool is full, it has
   to spill to disk, provided it has overflow enabled. *)
Stored(o) ==
    /\ held' = [held EXCEPT ![o] = @ + 1]
    /\ \/ UNCHANGED spilled
       \/ /\ held[o] > 0 /\ options[o].use_disk_overflow
          /\ spilled' = [spilled EXCEPT ![o] = TRUE]

(* A new record is on its way to o, or there. *)
Sent(w, o) ==
    IF ~config.buffers
    THEN Stored(o) /\ UNCHANGED <<mastersWrites, othersWrites>>
    ELSE /\ IF w = Master
            THEN /\ mastersWrites' = [mastersWrites EXCEPT ![o] = @ + 1]
                 /\ UNCHANGED othersWrites
            ELSE /\ othersWrites' = [othersWrites EXCEPT ![o] = @ + 1]
                 /\ UNCHANGED mastersWrites
         /\ UNCHANGED <<held, spilled>>

(* Write of an index that has an owner updates its record. Any other goes to
   the next Ocore task in turn, which adds a record; if the index was popped
   before and it is the same task's turn again, the record is still there. *)
Write(w) ==
    /\ pc[w] = "work" /\ SumFunctionOnSet(wrote, WorkTasks) < MaxWrites
    /\ wrote' = [wrote EXCEPT ![w] = @ + 1]
    /\ \/ /\ made[w] > 0
          /\ UNCHANGED <<distrib, made, mastersWrites, othersWrites, held, spilled>>
       \/ /\ distrib' = [distrib EXCEPT ![w] = NextOwner(@)]
          /\ made' = [made EXCEPT ![w] = @ + 1]
          /\ \/ Sent(w, distrib[w] + StartingRank)
             \/ /\ made[w] >= config.ocores
                /\ UNCHANGED <<mastersWrites, othersWrites, held, spilled>>
    /\ UNCHANGED <<pc, enabled, options, outputs>>

(* An Ocore task receives a write that was under way, of any sender. *)
StoreData(o) ==
    /\ pc[o] = "poll"
    /\ \/ /\ mastersWrites[o] > 0
          /\ mastersWrites' = [mastersWrites EXCEPT ![o] = @ - 1] /\ UNCHANGED othersWrites
       \/ /\ othersWrites[o] > 0
          /\ othersWrites' = [othersWrites EXCEPT ![o] = @ - 1] /\ UNCHANGED mastersWrites
    /\ Stored(o)
    /\ UNCHANGED <<pc, enabled, options, distrib, wrote, made, outputs>>

(***************************************************************************)
(* Finalize                                                                *)
(***************************************************************************)
CallFinalize(w) ==
    /\ pc[w] = "work"
    /\ Goto(w, "drain")
    /\ UNCHANGED <<local, outputs>>

(* The barrier of the work tasks before the Ocore tasks are told to stop. *)
DrainWork ==
    /\ Meet(WorkTasks, "drain", [r \in WorkTasks |-> IF r = Master THEN "notify" ELSE "gate"])
    /\ UNCHANGED <<local, outputs>>

NotifyOcoreTasks ==
    /\ pc[Master] = "notify"
    /\ Goto(Master, "gate")
    /\ UNCHANGED <<local, outputs>>

(* Defect: the master's loop stops one Ocore task short. *)
LeavePollingButLast(r) ==
    /\ pc[r] = "poll" /\ Past(Master, "notify") /\ mastersWrites[r] = 0
    /\ OcoreRank(r) + 1 < config.ocores
    /\ Goto(r, "gate")
    /\ UNCHANGED <<local, outputs>>

(* OCORE_EXIT, behind whatever else the master has sent. *)
LeavePolling(r) ==
    /\ pc[r] = "poll" /\ Past(Master, "notify") /\ mastersWrites[r] = 0
    /\ Goto(r, "gate")
    /\ UNCHANGED <<local, outputs>>

AfterGate(r) == IF r \in WorkTasks THEN "reduce"
                ELSE IF options[r].dump_stats THEN "header" ELSE "gather"

PassGate ==
    /\ Meet(Ranks, "gate", [r \in Ranks |-> AfterGate(r)])
    /\ UNCHANGED <<local, outputs>>

(* DumpStatistics: Ocore rank 1 truncates the file and writes the header. *)
WriteHeader(r) ==
    /\ pc[r] = "header"
    /\ \/ /\ OcoreRank(r) = 1
          /\ stats' = [exists |-> TRUE, blocks |-> <<>>]
          /\ Goto(r, "written")
       \/ /\ OcoreRank(r) = 1          \* fopen fails
          /\ Goto(r, "aborted") /\ UNCHANGED stats
       \/ /\ OcoreRank(r) # 1
          /\ Goto(r, "written") /\ UNCHANGED stats
    /\ UNCHANGED <<local, turn, report>>

(* Defect: the loop over the ranks ends one too early. *)
NextTurnShort(next) == IF next + 1 < config.ocores THEN "turn" ELSE "gather"

(* Ranks take turns from 1: rank 0 of MPI_COMM_OCORE has none. *)
NextTurn(next) == IF next < config.ocores THEN "turn" ELSE "gather"

HeaderBarrier ==
    /\ Meet(OcoreTasks, "written", [r \in OcoreTasks |-> NextTurn(1)])
    /\ UNCHANGED <<local, outputs>>

TakeTurn(r) ==
    /\ pc[r] = "turn"
    /\ \/ /\ OcoreRank(r) # turn
          /\ Goto(r, "took") /\ UNCHANGED stats
       \/ /\ OcoreRank(r) = turn /\ held[r] = 0
          /\ Goto(r, "empty_dump") /\ UNCHANGED stats
       \/ /\ OcoreRank(r) = turn /\ held[r] > 0
          /\ stats' = [exists |-> TRUE, blocks |-> Append(stats.blocks, OcoreRank(r))]
          /\ Goto(r, "took")
       \/ /\ OcoreRank(r) = turn /\ held[r] > 0      \* fopen fails
          /\ Goto(r, "aborted") /\ UNCHANGED stats
    /\ UNCHANGED <<local, turn, report>>

TurnBarrier ==
    /\ Meet(OcoreTasks, "took", [r \in OcoreTasks |-> NextTurn(turn + 1)])
    /\ turn' = turn + 1
    /\ UNCHANGED <<local, stats, report>>

(* Defect: the master prints its own count. *)
WrittenByMaster == wrote[Master]

Written == SumFunctionOnSet(wrote, WorkTasks)

(* Summarize: the work tasks' counts are reduced on MPI_COMM_WORK, as an
   MPI_INT into a size_t that was never set: its upper half is whatever the
   stack held (0 or not 0). The count is printed from the lower half. *)
Reduce(r) ==
    /\ pc[r] = "reduce"
    /\ \/ r # Master /\ UNCHANGED report
       \/ /\ r = Master
          /\ \A w \in WorkTasks \ {Master} : Past(w, "reduce")
          /\ \E upper \in {0, 1} :
                report' = [report EXCEPT !.written = Written, !.upper = upper]
    /\ Goto(r, "gather")
    /\ UNCHANGED <<local, stats, turn>>

(* The disk figures are gathered on MPI_COMM_GLOBAL and printed if anything
   seems to have been written. *)
Gather(r) ==
    /\ pc[r] = "gather"
    /\ \/ r # Master /\ UNCHANGED report
       \/ /\ r = Master
          /\ \A s \in Ranks \ {Master} : Past(s, "gather")
          /\ report' = [report EXCEPT !.spilled =
                            IF report.written > 0 \/ report.upper > 0
                            THEN {s \in OcoreTasks : spilled[s]} ELSE {}]
    /\ Goto(r, "close")
    /\ UNCHANGED <<local, stats, turn>>

(* MPI is finalized, behind a barrier, only if Initialize started it. *)
Close ==
    /\ IF config.ownsMPI
       THEN Meet(Ranks, "close", [r \in Ranks |-> "finished"])
       ELSE \E r \in Ranks : pc[r] = "close" /\ Goto(r, "finished")
    /\ UNCHANGED <<local, outputs>>

(* MPI_Abort, exit or a failed assertion reaches the whole job. *)
Kill ==
    /\ \E r \in Ranks : pc[r] \in Stopped
    /\ job' = "killed"
    /\ UNCHANGED <<config, pc, local, outputs>>

Ended == job = "killed" \/ \A r \in Ranks : pc[r] = "finished"

RankStep(r) ==
    \/ CheckConfiguration(r) \/ OtherEnable(r) \/ BcastOptions(r)
    \/ SetUpOcoreTask(r) \/ Write(r) \/ StoreData(r) \/ CallFinalize(r) \/ LeavePolling(r)
    \/ WriteHeader(r) \/ TakeTurn(r) \/ Reduce(r) \/ Gather(r)

Collective ==
    \/ BuildCommunicators \/ MasterEnable \/ ReadOptions \/ ShowConfiguration
    \/ Ready \/ DrainWork \/ NotifyOcoreTasks \/ PassGate \/ HeaderBarrier
    \/ TurnBarrier \/ Close

Step == /\ job = "running"
        /\ \/ (\E r \in Ranks : RankStep(r)) \/ Collective
        /\ UNCHANGED <<config, job>>

Next == \/ Step
        \/ job = "running" /\ Kill
        \/ Ended /\ UNCHANGED vars

Spec == Init /\ [][Next]_vars /\ WF_vars(Step) /\ WF_vars(job = "running" /\ Kill)

(***************************************************************************)
(* Properties                                                              *)
(***************************************************************************)

(* Every variable has its type. *)
SessionTypeOK ==
    /\ job \in {"running", "killed"}
    /\ pc \in [Ranks -> Range(Stages) \cup Stopped]
    /\ enabled \in [Ranks -> BOOLEAN] /\ spilled \in [Ranks -> BOOLEAN]
    /\ distrib \in [Ranks -> 0 .. MaxProcs]
    /\ wrote \in [Ranks -> Nat] /\ made \in [Ranks -> Nat]
    /\ mastersWrites \in [Ranks -> Nat] /\ othersWrites \in [Ranks -> Nat]
    /\ held \in [Ranks -> Nat]
    /\ turn \in 1 .. MaxProcs + 1

(* A job that Initialize has to reject, on whichever rank the check is made,
   builds no communicator on any rank (1023-1033, 1048): the ranks that do
   not check stay at the first barrier. *)
RejectedStops ==
    (config.ocores < 1 \/ ~EnoughTasks) => \A r \in Ranks : ~Past(r, "groups")

(* Once a rank has the broadcast options, it agrees with every other such
   rank on the block size, on whether the statistics are dumped and on the
   file (1178-1206): both sides of a message use the same size, and the
   Ocore tasks enter the barriers of DumpStatistics together. *)
OptionsAgree ==
    \A r, s \in Ranks :
        Past(r, "bcast") /\ Past(s, "bcast") =>
            /\ (enabled[r] <=> enabled[s])
            /\ \A f \in {"blocksize", "dump_stats", "statsfile"} :
                    options[r][f] = options[s][f]

(* The raw statistics hold the blocks of the Ocore ranks from 1 in rank
   order, each once, although every rank appends to the file on its own
   (586-632). That all but the block of rank 0 are there when an Ocore task
   leaves the dump is what the loop makes of EveryTaskDumps. *)
StatsInOrder ==
    /\ stats.blocks = [i \in 1 .. Len(stats.blocks) |-> i]
    /\ \A o \in Ranks :
          o \in OcoreTasks /\ enabled[o] /\ options[o].dump_stats /\ Past(o, "took")
          => Len(stats.blocks) = config.ocores - 1

(* "Dump statistics serially from each ocore subprocess"
   (grvy_ramdisk.cpp:605): does the file have the block of every Ocore task
   that holds records, once the dump is over? *)
EveryTaskDumps ==
    \A o \in Ranks : o \in OcoreTasks /\ enabled[o] /\ options[o].dump_stats /\ Past(o, "took")
        => \A p \in OcoreTasks : held[p] > 0 => OcoreRank(p) \in Range(stats.blocks)

(* The assertion at 615 fails on an Ocore task only if the master did not
   write enough new records for the round robin to reach it (1349-1354), and
   neither did any other work task, unless a write of theirs is lost behind
   the master's OCORE_EXIT (301-308, 563-565): buffered, it may be received
   after the message that ends the polling. *)
DumpNeedsRecords ==
    \A o \in Ranks :
        pc[o] = "empty_dump" =>
            /\ made[Master] <= OcoreRank(o)
            /\ \A w \in WorkTasks :
                  made[w] <= OcoreRank(o) \/ (config.buffers /\ othersWrites[o] > 0)

(* The summary the master prints counts every write of every work task, and
   with it at least the records that the Ocore tasks hold and those that were
   lost; and it names exactly the Ocore tasks that went to disk (643-735). *)
ReportTrue ==
    enabled[Master] /\ Past(Master, "gather") =>
        /\ report.written = SumFunctionOnSet(wrote, WorkTasks)
        /\ SumFunctionOnSet(held, OcoreTasks) + SumFunctionOnSet(othersWrites, OcoreTasks)
              <= report.written
        /\ report.spilled = {o \in OcoreTasks : spilled[o]}

(* Every rank returns from Finalize, or the job is taken down: no rank is
   left waiting in a collective call the others never make. *)
SessionEnds == <>Ended

(* "enabled disk-based overflow for least-frequently accessed records
   (1=yes,0=no)" (test/mpi_ocore.input:13): does an Ocore task go to disk
   only if the input file the master read allows it? *)
OverflowAsConfigured ==
    \A o \in OcoreTasks : spilled[o] => options[Master].use_disk_overflow

=============================================================================

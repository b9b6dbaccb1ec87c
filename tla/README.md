# TLA+ models of libGRVY

This directory holds TLA+ models of [libGRVY](../src/README.md), the TLC runs
that check them on small instances, and TLAPS proofs about them. Every
definition is written from the C++ source; `PROJECT.json` maps each one to the
lines it stands for.

## Reading order

| module | what it is | proofs |
|---|---|---|
| `RecordStore` | what one Ocore task promises: a map from keys to blocks | |
| `OcoreStore` | how it keeps that promise: map, ramdisk pool, free-slot stack, overflow file | `OcoreStoreProofs` |
| `OcoreMemory` | what the out-of-core library promises: one private memory per work task | |
| `OcoreProtocol` | the MPI protocol that keeps that promise | `OcoreProtocolProofs`, `OcoreProtocolRefinement` |
| `OcoreSession` | one session on every rank, from `Initialize` to `MPI_Finalize` | `SessionProofs` |
| `Timer` | the performance timer under any sequence of calls | `TimerProofs` |
| `TimerUse` | the timer beside an ideal account of properly nested calls | `TimerProofs` |
| `TimingLog` | what the historical log promises: an append-only log per host | |
| `HistTable` | the file of historical timings, its constants and their assumptions | |
| `HistLog` | `SaveHistTiming` in its file operations, with other processes and deaths in between | `HistLogProofs` |
| `Hdf5Handles` | the handle caches and the saved error handler of the HDF5 wrapper | `LibraryProofs` |
| `InputQueries` | what the input parser promises | |
| `InputLookup` | one scalar query: the text, the default passed, the default registered | |
| `InputParse` | the parser object behind its C and Fortran interfaces | `LibraryProofs` |
| `PathCheck` | several processes that create the parents of one path | `LibraryProofs` |
| `ScratchDirs` | scratch directories of a process and its fork, removed at exit | `LibraryProofs` |
| `Libraries` | `Hdf5Handles`, `InputParse`, `PathCheck`, `ScratchDirs` and `HistLog` side by side | `LibraryProofs` |
| `Sums` | lemmas about sums over finite sets, for `TimerProofs` and `SessionProofs` | all of it |
| `MC...` | instances for TLC | |

`tlc -config MCStore.cfg MCOcoreStore` and so on, see the table of runs;
`tlapm OcoreStoreProofs.tla` and so on for the proofs.

## The system

libGRVY is a toolkit for HPC applications. Its parts, the state they keep, and
what makes each of them hard:

| component | state | operations | hard behaviour | what makes it correct |
|---|---|---|---|---|
| MPI out-of-core library ("Ocore"), `grvy_ramdisk.cpp` | per work task: `rank_map`, round-robin counter; per Ocore task: `smap`, `pool`, `free_records`, overflow file, counters | `Initialize`, `Write`, `Read`, `PopRecord`, `Finalize`; `PollForWork`, `StoreData`, `PullData`, `GetFreeRecord`, `DumptoDisk` | several ranks, two-message requests, `MPI_ANY_SOURCE`, buffered sends, barriers, eviction to disk | each work task reads its own last write; no slot shared or lost; every call returns; tear-down loses nothing |
| performance timer, `grvy_timer.cpp` | `TimerMap`, `callgraph` stack, `num_begins`, time stamps | `Init`, `BeginTimer`, `EndTimer`, `PauseTimer`, `ResumeTimer`, `Reset`, `Finalize`, `Summarize`, `ElapsedGlobal`, statistics | nesting, unbalanced Begin/End, Reset in the middle | exclusive times add up; each moment is charged to one timer |
| historical timing log, `grvy_timer.cpp`, `grvy_ptable.h` | HDF5 file: group per host, table, attribute `num_measurements` | `SaveHistTiming`, `SummarizeHistTiming` | crash between append, counter and extension; two writers | no measurement overwritten, reader sees complete rows |
| HDF5 wrapper, `grvy_hdf5.cpp` | open file, caches of group, dataset and attribute handles, saved error handler | `Create`, `Open`, `Close`, `Group*`, `Dataset*`, `Attribute*` | stale handles after `Close`, nested silencing | a cached handle belongs to the open file and the named object |
| input parser, `grvy_input.cpp` | parsed file, registered defaults per type | `Open`, `Load`, `Close`, `Register_Var`, `Read_Var*`, `Fdump` | sentinels, defaults that overwrite each other | value in file, else default, else failure |
| file and scratch utilities, `grvy_utils.cpp` | stack of scratch directories, the file system | `grvy_check_file_path`, `grvy_create_unique_dir`, `grvy_create_scratch_dir`, exit handler | check-then-act with other processes, depth limit | parents exist on success; every scratch directory is removed |
| logging, host environment, version, math | log level and prefixes; otherwise none | one-step queries | none | - |
| `gadd`, `gdump`, C and Fortran wrappers | none of their own | forward to the classes above | none | - |

Interaction: the Ocore master reads its options through the input parser; Ocore
tasks use `grvy_create_unique_dir` for the overflow file and the timer for
statistics; the historical log uses the timer and the HDF5 wrapper. Inside the
Ocore library everything goes through MPI messages and barriers; no memory is
shared. `PROJECT.json` lists all components with their status, and under
`hazards` what is hard to test in each of them, at its line.

Every part that keeps state from one call to the next is modelled, in full or
in part; see "Not modelled" for the rest.

## The record store of an Ocore task (`OcoreStore`)

An Ocore task serves one request after the other, so `StoreData` and
`PullData` are atomic steps here, each with everything it calls.

| model | code |
|---|---|
| `smap`, `pool`, `free_records`, `num_active_records`, `num_active_disk_records`, `overflow_triggered` | members of the same name |
| `disk` | the overflow file: written file slots only |
| `reply` | what the last `MPI_Send` of `PullData` carried |
| `up` | FALSE once `Abort` or a failed assertion ended the job |
| `dump_watermark_ratio` | a fraction chosen once from `Watermarks`, integer arithmetic in place of the double |
| `StoreFresh`, `StoreReuse`, `StoreOverflow`, `StoreRefused` | `StoreData` of a new key, by the ways out of `GetFreeRecord` |
| `StoreUpdate` | `StoreData` of a known key, in memory or on disk |
| `DumpOrders`, `DumpedMap`, `DumpedDisk`, `FreedBy` | `DumptoDisk`: every order the priority queue may yield (ties are open), and what the loop changes |
| `PullData` | `PullData` |

A key stands for the pair (sending rank, header offset). `StoreRefused` assumes
a build with assertions; `use_disk_overflow` is the constant TRUE because the
option never reaches an Ocore task (see findings), so the branch of
`GetFreeRecord` with overflow disabled is in the model but unreachable.

Abstracted: contents of blocks, byte offsets in the file, the statistics timer,
errors of `fwrite` and of memory allocation, the rounding of the double
watermark (it can move one record less than the exact fraction).

## The protocol (`OcoreProtocol`)

Work tasks have the low ranks, Ocore tasks the high ones. A write is a header
(tag `TAG_HEADER`) followed by the block (`sendtag`); a read is a header
answered by a block (`recvtag`). `headers`, `blocks` and `replies` are the
message queues per sender and receiver: MPI keeps the order per sender,
receiver and tag, and promises nothing between different senders or tags.

* `MPI_Send` may return at once or only when its message has been received.
  Which of the two depends on the size of the message, and the three kinds of
  message have fixed sizes, so `eager` says once for each kind whether it is
  buffered; all eight choices are checked.
* A work task inside a call is at `pc` "header" (header posted), "data" (block
  posted), then "idle" again. `WriteNew`, `WriteOld`, `ReadKnown`,
  `ReadUnknown` and `PopRecord` open a call, `SendData`, `WriteReturns` and
  `ReadReturns` carry it on.
* An Ocore task is at `poll` "poll", "recv_data" (inside `StoreData`) or
  "send_reply" (inside `PullData`), then at the global barrier.
* `Finalize` is the barrier of the work tasks, the master's loop of
  `OCORE_EXIT` messages, and the global barrier. What follows it (closing the
  file, statistics) changes no record and is left out.
* An offset is narrowed to an `int` in the header (`HeaderOffset`). The runs
  use offsets that fit; with offsets that do not, two records would be one.
* Each Ocore task keeps a plain map `records` here. That the ramdisk and the
  overflow file implement it is `StoreSpec` of `OcoreStore`.
* `AllowEmpty` follows the code: only the master's option can be FALSE.
* `hbuf[1]`, the destination, always equals the receiving rank, so the tests of
  `PollForWork` against it are dropped. What `PopRecord` returns is read from
  an erased map entry and is not modelled; the record it delivers is. The
  record leaves the caller's map only: its comment speaks of the Ocore pool,
  but the task that holds it is not told (`AfterPop`), and keeps it.

`OcoreMemory` is the abstract view: a private map per work task, calls that are
opened and closed. The refinement maps a task's memory to `Latest(w, o)`: the
last write of that offset still under way, else what the owner holds.

## The session (`OcoreSession`)

One action is what a rank does up to its next collective call. A barrier is one
step of all its members (`Meet`), a broadcast lets the root go on first, a
reduction or a gather lets the root go on last. `pc` is the place of a rank,
one of `Stages`.

| model | code |
|---|---|
| `CheckConfiguration`, `BuildCommunicators` | the checks of `Initialize` and its three barriers around groups, communicators and ranks |
| `MasterEnable`, `OtherEnable` | opening the input, `enable_ocore`, its broadcast, the early return |
| `ReadOptions`, `ParsedOptions`, `BcastOptions`, `Received` | the options the master parses, and the broadcasts that follow |
| `ShowConfiguration`, `SetUpOcoreTask`, `Ready` | the rest of `Initialize`; the scratch directory, the overflow file or the pool may fail |
| `Write`, `NextOwner` | `Write` of a known or a new index, `AssignOwnership` |
| `Sent`, `StoreData`, `Stored` | the two messages of a write, buffered or not; their receipt, and that the task may have to spill |
| `CallFinalize` ... `PassGate` | the barriers and messages of `Finalize` |
| `WriteHeader`, `HeaderBarrier`, `TakeTurn`, `TurnBarrier` | `DumpStatistics` |
| `Reduce`, `Gather` | `Summarize` |
| `Close`, `Kill` | `MPI_Finalize`; an abort, an `exit` or a failed assertion that reaches the whole job some time later |

What a query of the input returns is `InputLookup`, the same operators as in
`InputParse`. `blocksize` stands for the four numbers whose sign is checked.
The count of `Summarize` is reduced as an `MPI_INT` into a `size_t` without a
value; its upper half, zero or not, is chosen freely (`report.upper`). What is
reduced is the count of the timer `write_to_pool`: every write, updates of
known records included (`wrote`).

A write that makes a record reaches the Ocore task in the same step if MPI does
not buffer its two messages, and in a later one if it does (`config.buffers`).
Messages of one sender arrive in order, so the master's `OCORE_EXIT` comes
after the master's own writes (`mastersWrites`), but it may overtake those of
the other work tasks (`othersWrites`), which are then never received. Updates
under way change no count and are not followed. That a task without room may
abort is left to `OcoreStore` (`OverflowNeverAborts`).

A task that dumps has no record for one of two reasons: the round robin did
not reach it, or what was sent to it was overtaken (`DumpNeedsRecords`). The
master's count is exact (`ReportTrue`), and so never less than what the Ocore
tasks hold plus what was lost. A disabled library makes `Finalize` return at
once, so such ranks are finished.

## The timer (`Timer`, `TimerUse`)

The timer has no lock and belongs to one thread, so a call is one step. It is
not instantaneous: `BeginTimer` and `EndTimer` read the clock for their own
timer and again in `PauseTimer` or `ResumeTimer` for the surrounding one. A
step therefore lets up to `MaxDelay` ticks pass between the first reading
(`now`) and the later one (`later`). Time between calls passes in `Tick`. The
clock is assumed not to run backwards (`gettimeofday` may be set back; nothing
in the code deals with that).

| model | code |
|---|---|
| `TimerMap[id]`: `timings`, `stamp`, `timings_inc`, `stamp_inc`, `accumulated`, `count` | `tTimer_Data`: `timings[0]`, `timings[1]`, `timings_inc[0]`, `timings_inc[1]`, `accumulated`, number of samples in `stats` |
| `callgraph`, `num_begins`, `finalized`, `timer_finalize` | members of the same name |
| `Init` | the constructor, which begins the global timer |
| `BeginWith`, `Begun`, `Paused`, `MustPush` | `BeginTimer` with the `PauseTimer` it calls |
| `EndKnown`, `EndRefused`, `Ended`, `Resumed`, `Popped` | `EndTimer` with the `ResumeTimer` it calls |
| `Reset`, `Finalize`, `Summarize` | the calls of these names; `Init(name)` is `Reset` |
| `ElapsedGlobal` | the query of this name |

Three details of the code are kept as they are. `num_begins >
callgraph.size()` compares unsigned, so that a negative `num_begins` passes
(`MustPush`). `EndTimer` means to reject an end without a begin but tests
`index->first[1]`, a character of the name; a name whose second character is
negative (`HighByteIds`, for example UTF-8) is rejected always, every other
name never. `Reset` clears the totals and `num_begins` but not `callgraph`.

Left out: the flag `initialized`, which is only read by queries and
`SaveHistTiming`; mean, variance, minimum and maximum of the samples; what
`Summarize` prints; the historical log.

`Timer` lets the application make any call at any time. `TimerUse` adds
history: which timers are open, how many ticks each was the innermost one
(`charged`), the whole of its begin-to-end spans (`spanned`), and the ticks
spent inside calls that paused or resumed it (`slack`), which the two readings
of the clock count twice or not at all. A call is proper when timers are
nested and not begun twice, none is open at a `Reset` or `Finalize`, and none
is begun between `Finalize` and the next `Reset`; the account is compared with
the timer until the first improper call. `TimerUse` adds variables only:
`UseIsTimer` proves that it is `Timer` otherwise.

## The historical timings (`HistLog`)

`SaveHistTiming` opens or creates an HDF5 file that many jobs share, finds or
creates the table of its host, writes one row at the index `num_measurements`,
increments that attribute, and extends the table at the end of a chunk. Each
of these operations is an action, and other processes run, or the process
dies, between any two.

| model | code |
|---|---|
| `disk`, `file`, `owner`, `reading` | the file, its copy in the writer's HDF5 library, the file locks |
| `disk[h].rows`, `disk[h].num` | the dataset `PTable` of host `h` and its attribute `num_measurements`, `NoCount` when missing |
| `num` | the local variable `num_measurements` |
| `NotInitialized`, `Exists`, `CannotOpen`, `Open`, `Create` | the checks at the start of `SaveHistTiming` and `Exists`, `Open`, `Create` of the HDF5 wrapper |
| `OpenTable`, `CreateTable`, `WriteAttributes` | the dataset and the attributes of a new table |
| `QueryCount`, `AppendHistData`, `AppendAborts`, `WriteCount`, `Extend`, `NoExtension`, `Close` | the rest of `SaveHistTiming` |
| `Summarize`, `Measurements` | `SummarizeHistTiming` as a reader: its lock and the rows it reads |

Of the HDF5 library the model assumes what its header comment says: file locks
(the wrapper calls functions of HDF5 1.12, which locks files by default),
changes on disk when the file is closed, and, after a death, a file that is
unchanged, or as the calls so far made it, or unreadable. Three details of the
code matter. A locked or unreadable file counts as absent for `Exists`, so that
`Create` is tried and fails. A missing attribute leaves `num_measurements`
without a value (`AttributeRead` returns an error that is not looked at); the
model lets it be any index inside the table or just outside. The result of
`H5Dset_extent` is ignored, so that a failed extension is a fault that shows
only in later saves.

`TimingLog` is the promise. A save that returned is in the log of its host
once, in order; a death may add the measurement under way, or lose the whole
file. Only a death in the very first save for a host can void that host's
table (between its creation and its attributes). A failed extension, or a
death right before one, leaves a correct table that is full: later saves of
the host abort. `AbortsNeedFault` shows that no save aborts without a fault
before it.

Left out: the groups, whose creation is idempotent; contents of rows; the
statistics and ascii files `SummarizeHistTiming` makes of what it reads;
removal of the file; errors of other HDF5 calls.

## The HDF5 wrapper (`Hdf5Handles`)

One `GRVY_HDF5_Class`, called sequentially. It looks up handles by name in
three caches; the library keeps a file open as long as an object of it is
open. Instead of a number, a cache holds what its handle refers to, so that a
handle of another file, another group or a closed object can be told apart.
`handler` and `saved` are the error handler installed in the library and the
one the object will put back. The timer's packet table is `table`.

The caches go stale: `Close` forgets the groups only, `AttributeWrite` closes an
attribute and leaves it cached, reading `groupIds[name]` for a group that is
not open enters an id 0. All of it is in the model. `Close` is documented to
close all objects opened via the public interface, which it does not
(`CloseClosesAll`, a finding); what it does close, the groups, it closes
completely, so that no group handle of a former file is left and none keeps a
file open (`GroupsClosed`, proved). No call leaves the application without its
error handler (`HandlerRestored`, proved). An attribute that is looked up by
its name in another group, or written through a closed handle or in a file
open for reading, is not written and `AttributeWrite` returns 0 all the same:
`Rewrite` and `WriteHandle` do as the code does, and since no text of the
sources says otherwise, no property is stated.

Files are opened for reading and writing or for reading only (`readonly`). A
file that an object still keeps open keeps its mode, and is not opened for
writing if that was for reading only. Names and values are abstract, and what
the iteration of `ListSubGroups` returns is left out.

## The input parser (`InputLookup`, `InputQueries`, `InputParse`)

`ReadVar` decides whether a keyword was found by comparing the value read with
the default passed, and lets a default passed by one caller replace the one
registered before. `InputQueries` states what callers are told: the value in
the file, else the last default anybody gave, else a failure. `InputParse` is
shown to implement it over sequences of `Open`, `Load`, `Close`, scalar, bool,
vector and element queries, `Register_Var` and `Get_Var`, by the C interface and
by those Fortran wrappers that do more than forward. `asked`, the last request
with its arguments, is history: it makes the promise say which query it was.

int, float and double are one kind, since their functions are one template and
their registries separate. GetPot is not modelled but for a look-up with a
default; its conversions are the constants `AsBool` and `Numbers`. No text of
the run spells a sentinel. Two files matter for their form: one with carriage
returns, which is refused, and one without entries, which is not used.

## Files and directories (`PathCheck`, `ScratchDirs`)

`PathCheck` is `grvy_check_file_path` in several processes at once, its `stat`
and its `mkdir` as separate steps. Paths with nothing in common do not
interact, so all lie on one chain of directories. A level may be there
already, as a directory or as a file, or be forbidden.

`ScratchDirs` is `grvy_create_scratch_dir` and its exit handler: a stack of
directories per process, popped and removed at exit, contents first. The
program may fill and remove directories, change its working directory, which
relative templates are resolved against, fork, or be killed. `form` says
whether the name of a directory is absolute or relative, or whether the
function failed after it had made the directory and promised nothing.

The header promises a directory that lasts as long as the process and is gone
with all its contents when it exits (`DeletedAtExit`). The code does not keep
that promise (a finding). Two properties say which part it keeps: a directory
is taken early only by the exit of a fork that inherited the list, never if it
was made after the fork (`NotTakenEarly`); and none is left silently, except
under a relative name after a change of the working directory (`ScratchGone`).
Both are proved. `inherited`, the directories listed when the process forked,
is history.

## Runs

| run | module / cfg | properties | expected |
|---|---|---|---|
| `store` | `MCOcoreStore` / `MCStore.cfg` | `TypeOK`, `SlotsAccounted`, `RoomIsReal`, `SlotsExclusive`, `FileDense`, `SlotSupply`, `OverflowNeverAborts`, `StoreSpec`, `EvictsLeastRead`, `RefusesOnlyWhenFull` | pass |
| `protocol` | `MCOcoreProtocol` / `MCProtocol.cfg` | `TypeOK`, `HeadersMatchBlocks`, `PullsKnownRecord`, `ExitLeavesNothing`, `MemorySpec`, `CallsReturn`, `FinalizeCompletes`, no deadlock | pass |
| `session` | `MCOcoreSession` / `MCSession.cfg` | `RejectedStops`, `OptionsAgree`, `StatsInOrder`, `DumpNeedsRecords`, `ReportTrue`, `SessionEnds`, no deadlock | pass |
| `timer` | `MCTimerUse` / `MCTimer.cfg` | `TypeOK`, `CallgraphCovers`, `ExclusiveIsCharged`, `InclusiveIsSpanned`, `ActiveIsOpen`, `SubtimersFitTotal`, `ElapsedGlobalCounts` | pass |
| `libraries` | `MCLibraries` / `MCLibraries.cfg` | `HandlerRestored`, `GroupsClosed`, `QueriesAnswered`, `PathsMade`, `NotTakenEarly`, `ScratchGone`, `LogTypeOK`, `AbortsNeedFault`, `LogSpec` | pass |
| `finalize_drains` | `MCOcoreProtocol` / `MCFinalizeDrains.cfg` | `FinalizeDrains` | violation |
| `session_options` | `MCOcoreSession` / `MCSessionOptions.cfg` | `OverflowAsConfigured` | violation |
| `session_stats` | `MCOcoreSession` / `MCSessionStats.cfg` | `EveryTaskDumps` | violation |
| `timer_restart` | `MCTimerUse` / `MCTimerRestart.cfg` | `ElapsedSinceReset` | violation |
| `timer_unmatched` | `MCTimerUse` / `MCTimerUnmatched.cfg` | `SamplesNeedBegin` | violation |
| `close_objects` | `Hdf5Handles` / `MCClose.cfg` | `CloseClosesAll` | violation |
| `scratch_lifetime` | `ScratchDirs` / `MCScratch.cfg` | `DeletedAtExit` | violation |

Bounds, and why they are enough:

* `store`: four slots, six keys, two blocks, watermark 1/2, 3/4 or 1/5. With
  1/2 the fifth key dumps two records and the counter drifts, so that a sixth
  dumps again while a freed slot is on the stack; with 3/4 the stack holds
  more than one slot and they are reused in order; with 1/5 of four records a
  dump moves none and the job aborts. A record is read at most once
  (`MaxReads`) and written at most twice (`MaxWrites`), and over all keys at
  most two of those happen (`FewTouched`), in memory or on disk, before or
  after a dump. Keys and blocks are symmetric. 50 000 states.
* `protocol`: two work tasks and two Ocore tasks; the master makes three calls
  (enough to pop a record and write it again to the other owner) and the other
  work task one. Of the two blocks, the first that the master writes is fixed
  and the other task writes the other one (`BlocksFixed`): blocks are
  interchangeable, and what must be told apart is whose block it is. No
  symmetry, because liveness is checked as well. 325 000 states.
* `session`: jobs of one to four MPI tasks with none to four Ocore tasks, which
  includes every rejected size, no file or one of six input files
  (`MCInputFiles`), MPI started by the library or not, writes buffered or not,
  four writes of all work tasks together, so that the round robin goes round,
  an Ocore task may stay empty, and a write may be lost. Jobs of four tasks run
  with one of the files and MPI started by the library (`JobsRun`). Turns of the
  statistics need three Ocore tasks to be out of order. 247 000 states.
* `timer`: two ordinary timers and one whose name `EndTimer` refuses, clock
  readings 1 to 5, at most one tick inside a call, six calls. Six calls are
  enough to nest two timers (so that one pauses the other), to close both, to
  reset or finalize and begin again, and to make unmatched calls in any place;
  the nest `num_begins > 2` needs two open timers above the global one. The two
  ordinary timers are symmetric. 6 million states, about a minute.
* `libraries`: five libraries that share no state; a behaviour of `Libraries`
  uses one of them, so their state spaces lie side by side. HDF5: two files, two
  groups, one attribute and one data set name, one failed read, one attribute
  at a time with a value this program wrote (`FewWrites`), one file at a time
  open for reading only (`OneReadonly`). Input: two keywords, five files, vectors
  of two, at most two defaults registered at a time (`FewDefaults`). Paths:
  three processes, paths of up to four levels and a limit of three. Scratch: a
  parent and its fork, two directories, two working directories. Log: four
  saves, two hosts, chunks of two rows, two faults. With four saves of one
  host the table is extended twice; with two faults a second death meets what
  the first one left, for example a table without its attribute. Saves and
  hosts are alike, so the saves start in order and the first is on a fixed host
  (`SavesInOrder`). 940 000 states, about three minutes.
* the violation runs use the same bounds or, for `close_objects` and
  `scratch_lifetime`, the least that shows the disagreement: one file, group and
  data set; one directory and a fork.

The store, timer, library, `close_objects` and `scratch_lifetime` runs switch deadlock checking off: bounded
counters, an abort, a return or the exit of the program end a behaviour there.
The protocol and session runs keep it on; a finished or aborted job is the
only state that may stutter.

Fairness: in the protocol, weak fairness of each rank's own steps (`WorkStep`,
`OcoreStep`), which says only that a rank that can proceed does: MPI processes
are scheduled by the operating system and MPI makes progress on posted
operations. Opening a call and calling `Finalize` are the application's choice
and have no fairness. A work task is assumed to make finitely many calls
(`MaxCalls`): a receive from `MPI_ANY_SOURCE` need not be fair among senders
that never stop. In the session, weak fairness of the job as a whole (`Step`)
and of the delivery of an abort (`Kill`). The first asks that applications call
`Finalize`; it does not ask that any particular rank runs, and needs no more
because every behaviour of a session is finite.

Each property of a passing run has a mutant in `PROJECT.json`: a definition
replaced by the operator marked "Defect" beside it, under which the run finds
the property violated.

## Findings

1. `use_disk_overflow` is read by the master only and not broadcast, although
   the comment above the broadcasts says that the inputs are: an Ocore task
   moves records to disk in spite of an input file that disables it
   (`session_options`). The same is missing for `allow_empty_records`, which the
   run does not look at. Everything that is broadcast agrees (`OptionsAgree`,
   proved).
2. The barrier in `Finalize` does not mean that requests are complete: a
   buffered write can still be on its way when `OCORE_EXIT` is received
   (`finalize_drains`). `ExitLeavesNothing`, proved, shows that nothing is
   left behind when MPI does not buffer both the headers and the data.
3. The raw statistics are dumped "serially from each ocore subprocess", says the
   comment, but the loop starts at rank 1: rank 0 never dumps, and with a single
   Ocore task there is not even a file (`session_stats`). The blocks of all
   other ranks are there, in order (`StatsInOrder`, proved).
4. `ElapsedGlobal` is documented to return the time since `Init`. After a
   `Finalize` and a new `Init` or `Reset` it adds the time since that
   `Finalize`, because `timer_finalize` is not cleared (and neither is
   `finalized`, so that `Summarize` no longer ends the global timer)
   (`timer_restart`). Without a `Reset` after a `Finalize` it is right
   (`ElapsedGlobalCounts`).
5. `EndTimer` does not detect an end without a begin (the test described
   above): it takes a sample measured from the stamp -1 and pops an entry of
   the call stack that belongs to another timer (`timer_unmatched`). The stack
   is never used while empty all the same (`CallgraphCovers`, proved).
6. `Close` of the HDF5 wrapper says that it makes sure to close all objects
   opened via the public interface, since the library would keep the file open
   otherwise. It closes groups: after `DatasetOpen` and `Close` the file is
   still open (`close_objects`).
7. A scratch directory is documented to be deleted when the process exits.
   The list and the exit handler are inherited by a fork, whose exit
   deletes the directories of its parent while that still runs
   (`scratch_lifetime`).

Observed, with no statement in the sources against it: `num_active_records` is
incremented twice for a record stored after a dump (lines 1646 and 1427 of
`grvy_ramdisk.cpp`), so dumps happen while slots are free. No slot is lost or
shared by it and no record refused (`SlotsAccounted`, `SlotsExclusive`,
`RoomIsReal`, `RefusesOnlyWhenFull`, all proved). The raw statistics
end the job in an assertion if an Ocore task other than rank 0 holds no record,
for one of two reasons (`DumpNeedsRecords`, proved). Of processes that create
one path at once all but one may fail (`PathsMade`, proved). `PopRecord` leaves
the record with the Ocore task that holds it.

## Proofs

Every proof follows the same path: an inductive invariant `IInv` of named
parts, checked by TLC before it was proved, one lemma for each action, and the
theorems from the invariant. Constants are restricted by the named assumptions
of the modules only.

### The record store

`OcoreStoreProofs` proves, for every set of keys and blocks, every pool size
(zero included) and every set of watermark ratios between 0 and 1
(`StoreAssumption`):

* `TypeCorrect`: `Spec => []TypeOK`
* `SlotsNeverShared`: `Spec => []SlotsExclusive`
* `SlotsNeverLost`: `Spec => []SlotsAccounted`
* `FileAlwaysDense`: `Spec => []FileDense`

They follow from one inductive invariant, `IInv`: the conjunction of these four
and `SlotSupply`. None of the four is inductive alone. `StoreFresh` uses the
counter as a slot number, and that slot is free only because of
`SlotsAccounted` before the first dump; after it, `SlotSupply` says that a
counter below `max_num_records` implies a slot on the stack, so `StoreFresh`
cannot happen; and pushing the slots of dumped records keeps the stack free of
duplicates only because of `SlotsExclusive`. Lemmas about stacks (`PopStack`,
`PushAll`), about a dump (`DumpOrder`, `DumpMap`, `DumpStack`, `DumpFile`) and
about storing a record (`InstallEffect`, `InstallExclusive`) carry the steps;
there is one lemma per action (`FreshStep`, `ReuseStep`, `OverflowStep`,
`RefusedStep`, `UpdateStep`, `PullStep`). No assumption beyond
`StoreAssumption` is used.

The same module proves, from the same invariant:

* `SupplyHolds`, `RoomNeverFeigned`, `DumpAlwaysFrees`:
  `SlotSupply`, `RoomIsReal`, `OverflowNeverAborts`
* `RefusalMeansFull`: `Spec => RefusesOnlyWhenFull`
* `LeastReadLeave`: `Spec => EvictsLeastRead`
* `StoreRefines`: `Spec => StoreSpec`, the refinement of `RecordStore`

The first two count: resident records inject into the slots, onto them when no
slot is free, and never onto them while the counter is below its limit
(`ResidentWithin`, `ResidentAll`, `RoomWhenUp`). An abort has to remember what
was true when it happened; `AbortedFull` is that memory. For the refinement the
value of a key is the block at its slot of the pool or the file; `DumpValues`
shows that a dump, in whichever order the queue yields the records, moves
blocks and index entries alike, `InstallValues` and `UpdateValues` that a store
touches no other key.

### The protocol

`OcoreProtocolProofs` proves, for every number of work and Ocore tasks, every
set of offsets, every choice of what MPI buffers and every number of calls:

* `TypeCorrect`, `BlocksFollowHeaders`, `ReadsFindRecords`, `ExitsClean`:
  `Spec => []` of `TypeOK`, `HeadersMatchBlocks`, `PullsKnownRecord` and
  `ExitLeavesNothing`

The invariant is one statement for each pair of a work task and an Ocore task
(`Pair`), since messages of different pairs overtake one another freely:
`Order` (only the last header waiting can be anything but a write),
`Matched` (as many blocks as write headers, give or take the one being sent or
served), `Reply`, `Known` (a record the work task knows is with its owner or in
a header on its way) and `Unbuffered`; and `Teardown` for the barriers. Why a
read finds its record is `Known` with `Order`: the write is in front of it in
the same queue.

`OcoreProtocolRefinement` proves `ProtocolRefines`: `OffsetsDistinct` and
`Spec` imply `MemorySpec`, the private memory of each work task. The assumption
is that offsets of the application which differ also differ in the `int` of the
header; without it the statement is false. What a memory holds is the block of
the last write under way, matched to its header by position (`LastBlock`), else
the record of the owner: `StoreBlocks` moves the oldest write into the
record, the rest of the lemmas show that nothing else changes the last one.

### The session

`SessionProofs` proves, for every number of MPI tasks, Ocore tasks and records
and every set of input files:

* `TypeCorrect`: `Spec => []SessionTypeOK`
* `NoneBuilt`, `BroadcastAgrees`, `DumpInOrder`, `EmptyDumpExplained`:
  `Spec => []` of `RejectedStops`, `OptionsAgree`, `StatsInOrder` and
  `DumpNeedsRecords`

`Rejected` confines a job that must not start to the first barrier, which its
master never reaches. `Options` relates every rank to the master: what it has
is what the constructor set, or the master's. `Dump` follows the Ocore tasks
through the dump by the first of them, which has no turn and so is before, in
or after it with all the others (`Early`, `Turning`, `Late`). `Dealt` says
where the round robin is: before its first round ends, a work task that made n
records has reached the first n Ocore tasks, each of which holds one of them or
has it under way; an Ocore task that has left its polling loop has everything
the master sent. Most steps concern none of this and are dealt with at once
(`QuietStep`).

* `SummaryRight`: `Spec => []ReportTrue`

`Counted` says that records held and under way are never more than the writes
made, that no work task writes and no Ocore task receives any more when the
master adds the counts up, and that the master keeps the result. That the sums
move together when a record is sent and stored needs the sum over a set to be
more than a name; see "Sums" below.

### The timer

`TimerProofs` proves, for every set of timer names, any part of them refused by
`EndTimer`, every delay inside a call and every bound on the clock
(`TimerAssumption`):

* `TimerTypes`: `Spec => []TypeOK`, with which no stored time is negative and
  no stamp is ahead of the clock
* `CallgraphNeverEmpty`: `Spec => []CallgraphCovers`
* `UseIsTimer`: `SpecUse => Spec`, so that both hold in `TimerUse` as well

The inductive invariant is `TInv`, the conjunction of the two. Neither half is
inductive alone: that the time a pause adds is not negative needs the top of
the stack to be a timer of `TimerMap`, and that is where the stack invariant
comes in; that a begun timer is found on the stack later needs its data to be
in the map. `num_begins <= Len(callgraph)` is what survives unmatched calls:
an end lowers both or only the first, a begin raises the second unless it is
already larger. One group of lemmas follows the data map through a call
(`PausedSound`, `ResumedSound`, `BegunSound`, `EndedSound`, `ClearedSound`),
one the stack (`BeginCovers`, `EndCovers`).

The same module proves the comparison with the account, again for every such
timer and for any number of calls:

* `ExclusiveTimes`, `InclusiveTimes`, `ActiveTimers`, `ElapsedGlobalGoesOn`:
  `SpecUse => []` of `ExclusiveIsCharged`, `InclusiveIsSpanned`,
  `ActiveIsOpen` and `ElapsedGlobalCounts`

They need `UseInv` beside `TInv`: as long as use is proper, `Nested` (the
callgraph is the nest of open timers on top of the global one, and `num_begins`
counts them), `Measured` (the global timer runs without a pause since the last
`Reset`) and `Accounted`. The last is one statement for each timer (`Matches`)
and the reason none of the theorems is inductive alone: what a timer has in
`timings`, in `accumulated` and since its stamp agrees with its account
differently when it is the innermost one, an outer one, or closed. The lemmas
`MatchesRestart`, `MatchesPause`, `MatchesStop` and `MatchesResume` say what a
call does to that agreement for one timer, and where `slack` comes from: a
pause is charged once too often, a resume once too little, for the ticks
between the two readings. `HowBegun` and `HowEnded` say that a call moves the
begun or ended timer and its surrounding one in the nest and nobody else, and
`BeginKept` ... `TickKept` put the two together, one for each call.

* `SubtimersFit`: if there are finitely many names,
  `SpecUse => []SubtimersFitTotal`

Each tick is charged to at most one timer, and only while the global timer
runs. `Budget` says so of the sum (what all timers together are charged is not
more than the time since the start), and the theorem follows with the agreement
of each single timer with its account. A program has finitely many timers, and
the sum over infinitely many would have no value.

### The historical log

`HistLogProofs` proves, for every set of saves and hosts, every chunk size and
every number of faults:

* `TypeCorrect`: `Spec => []TypeOK` (`LogTypeOK` in the run `libraries`), with which there is
  one writer, and no reader beside it
* `RoomForRow`: `Spec => []AbortsNeedFault`
* `LogRefines`: `Spec => LogSpec`, the refinement of `TimingLog`

`Base` is what the owner of the file found when it opened it. `Work` relates
the table under change to it at each stage of a save: the same measurements
until the count is written, one more afterwards; a death leaves one or the
other. `HasRoom` is why no fault means no abort: the table has room for at
least one and at most a chunk of rows, and its length is a multiple of the
chunk size, so that the count can pass the end only where `Extend` runs.

### Sums

`SumFunctionOnSet` of the community modules is a recursive function on the
subsets of a set. `Sums` proves that such a function exists on the subsets of a
finite set (`SumExists`), so that the sum has its two equations
(`SumEquation`), and from them how it follows a change of one summand
(`SumGrows`) and of all (`SumMonotone`), and when it is zero (`SumZero`). The
library's induction theorems take the proved statement as an operator, which
the provers cannot instantiate; `EveryNat` and `EverySubset` state induction
over sets in their place, and follow from the order of the naturals being well
founded.

### Paths

`LibraryProofs` proves, for every number of processes, depth and limit:

* `ParentsMade`: `Spec => []PathsMade`

The invariant is `PInv`. A level that is made has a maker who has gone on
(`MakersMoveOn`), so a process that lost a level (`MkdirRace`) lost it to one
that got deeper. If all had lost, the one on the deepest level lost to one on a
deeper level still (`DeepestCaller`).

### The HDF5 wrapper

`LibraryProofs` proves for `Libraries`, for every finite set of groups,
attributes and data sets, any files and any number of failed reads:

* `UsersHandlerBack`, `NoGroupStaysOpen`: `Spec => []` of `HandlerRestored` and
  `GroupsClosed`

The invariant `HInv` holds types, the handler, `OfOpenFile` and `Balanced`: the
library's count of open objects in a file is what the caches, the table and
the failed reads hold of it (`Held`). The count is over all files, those the
object has closed included, because a data set or an attribute stays cached
across `Close`; what `Close` lowers, `OfOpenFile` says, are groups of this
file only. `GroupsClosed` follows: of a file that is not the open one, no group
is held. The lemmas on `Held` (`GroupCount` and those after it) say how one
entry more or less in a cache changes the count of one file.

### Scratch directories

* `OnlyInheritedTaken`, `NoneLeftSilently`: `Spec => []` of `NotTakenEarly` and
  `ScratchGone`, for any number of directories and working directories

The two speak of directories and processes; their invariant `SInv` has to speak
of the lists. On a process's list are its own directories and those it
inherited (`OwnOrInherited`), so the handler of a process takes a directory from
a running creator only as the parent's fork. At the fork itself the child
inherits directories of the parent only because nobody else could have made one
(`AllParents`). A directory with a promise is on its creator's list until it is
gone, reported, or out of reach of a relative name (`Tracked`), and the list of
a process that has exited is empty (`WorkedOff`). `HalfRemoved` keeps the
handler's two steps, contents and directory, on the same entry.

### The input parser

* `PromiseKept`: `Spec => QueriesAnswered`, the refinement of `InputQueries`,
  for every set of keywords and input files, every conversion of words to
  numbers and truth values, and vectors of any bounded length

A step of the parser is matched to a query of the promise by what was asked;
the lemmas go through the ways a value is found: in the file, as the default
passed, as the default registered, and as neither. The proof rests on
`InputConstants`: no text of an input file or default spells the sentinel that
`ReadVar` compares with, which the code needs as well.

### Assumptions on the constants

`HandleConstants` asks for finite sets of names and that the marks for an empty
cache entry are no handles; `InputConstants` that the sentinels are no text of
an input and that the conversions have the types the parser declares. TLC
evaluates both in the run `libraries`. The other modules' assumptions are
ranges of numbers and disjointness of model values.

### Only model-checked

* All liveness (`CallsReturn`, `FinalizeCompletes`, `SessionEnds`): the prover
  has no support for `ENABLED` and fairness.

## Plan

The next step is the sizes of the pool as `int` and `size_t` products with
their widths (line 1206 of `grvy_ramdisk.cpp`).

## Not modelled

* Statistics proper (mean, variance, extrema), the layout of summaries and of
  the statistics and ascii files: numbers and text, with no state behind them.
* `grvy_copy_dir`, logging, host environment, version and math helpers, the
  command-line tools `gadd` and `gdump`, the C and Fortran wrappers of the Ocore
  library and the timer: they forward or act in a single step.
* `Dump` and `Fdump` of the parser, which print and change nothing.
* GetPot, which is third-party code, but for what the parser asks of it.
* Failures of `fread`, `fwrite` and memory allocation in an Ocore task, and of
  HDF5 calls other than those named above.

---------------------------- MODULE OcoreProtocol ----------------------------
(***************************************************************************)
(* The message protocol of the out-of-core library                         *)
(* (src/src/grvy_ramdisk.cpp): work tasks that call Write, Read, PopRecord *)
(* and Finalize, Ocore tasks that run PollForWork, and the MPI messages    *)
(* between them.  Ranks are those of MPI_COMM_GLOBAL: the work tasks come  *)
(* first, rank 0 is the master, the Ocore tasks have the highest ranks.    *)
(*                                                                         *)
(* MPI is modelled by what the code relies on: messages of one tag between *)
(* two ranks are received in the order they were sent, a receive from      *)
(* MPI_ANY_SOURCE may take any sender's first message, and MPI_Send        *)
(* returns once its message is received, or earlier if MPI buffers it.     *)
(* Whether MPI buffers depends on the size of the message, which is fixed  *)
(* for each of the three kinds of message: eager is chosen once.           *)
(*                                                                         *)
(* An Ocore task keeps a plain map from keys to blocks here; OcoreStore    *)
(* shows that its ramdisk and overflow file implement that map.            *)
(***************************************************************************)
EXTENDS Integers, Sequences, FiniteSets

CONSTANTS
  NumWork,          \* work tasks, ranks 0 .. NumWork - 1
  numOcoreTasks_,   \* Ocore tasks, the ranks after those
  Offsets,          \* offsets (size_t) the application uses
  IntRange,         \* number of values of the int that carries an offset
  Data,             \* contents of a data block
  Zero,             \* the block of zeros
  NoBlock,          \* "no block", neither in Data nor Zero
  allow_empty_input,\* allow_empty_records as the master reads it
  MaxCalls          \* MaxCalls[w]: bound on the calls w makes before Finalize

startingRank_ == NumWork
Work   == 0 .. NumWork - 1
Ocore  == startingRank_ .. startingRank_ + numOcoreTasks_ - 1
Master == 0

ASSUME ProtocolAssumption ==
  /\ NumWork \in Nat \ {0} /\ numOcoreTasks_ \in Nat \ {0}
  /\ Offsets \subseteq Nat /\ IntRange \in Nat \ {0}
  /\ NoBlock \notin Data \cup {Zero}
  /\ allow_empty_input \in BOOLEAN
  /\ MaxCalls \in [Work -> Nat]

VARIABLES
  rank_map,      \* rank_map[w]: offset -> Ocore rank that owns the record
  distrib_rank,  \* distrib_rank[w]: round-robin counter of w
  call,          \* call[w]: the library call w is in
  pc,            \* pc[w]: where in that call
  result,        \* result[w]: block returned by w's last read or pop
  calls,         \* calls[w]: calls made so far (bounded by MaxCalls)
  exits,         \* Ocore tasks the master has sent OCORE_EXIT to
  headers,       \* headers[w][c]: TAG_HEADER messages from w to c
  blocks,        \* blocks[w][c]: sendtag messages from w to c
  replies,       \* replies[c][w]: recvtag messages from c to w
  poll,          \* poll[c]: where c is in PollForWork and after it
  serving,       \* serving[c]: the request c is working on
  records,       \* records[c]: <<rank, header offset>> -> block
  eager,         \* kinds of message MPI_Send buffers
  aborted        \* MPI_Abort or a failed assertion ended the job

vars == <<rank_map, distrib_rank, call, pc, result, calls, exits, headers,
          blocks, replies, poll, serving, records, eager, aborted>>
workVars  == <<rank_map, distrib_rank, call, pc, result, calls, exits>>
netVars   == <<headers, blocks, replies>>
ocoreVars == <<poll, serving, records>>

-----------------------------------------------------------------------------
\* Only the master reads allow_empty_records; it is not broadcast, so the
\* other work tasks keep the constructor's TRUE.
AllowEmpty == [w \in Work |-> w # Master \/ allow_empty_input]

\* hbuf[2] = offset: a size_t stored in an int.
HeaderOffset(o) == o % IntRange

Call(op, o, d) == [op |-> op, off |-> o, data |-> d]
Idle == Call("none", 0, NoBlock)
Request(w, o) == [rank |-> w, off |-> o]
NoRequest == Request(0, 0)

Least(S) == CHOOSE o \in S : \A p \in S : o <= p

\* A message w posted to c has been received: sends block, so it is the last
\* one of its queue.
Received(queue) == queue = << >>

Post(queues, from, to, m) == [queues EXCEPT ![from][to] = Append(@, m)]
Take(queues, from, to)    == [queues EXCEPT ![from][to] = Tail(@)]

\* Defect: the round-robin counter is never reset.
NextDistribNoReset(n) == n + 1

\* AssignOwnership: the round-robin counter after it handed out n.
NextDistrib(n) == IF n + 1 = numOcoreTasks_ THEN 0 ELSE n + 1

\* Defect: the owner is recorded after the counter has moved on.
RecordedOwnerLate(n) == NextDistrib(n) + startingRank_

\* The owner AssignOwnership records in rank_map for counter value n.
RecordedOwner(n) == n + startingRank_

\* Open a call and post its header to rank c (Write_to_Pool, Read_from_Pool).
PostHeader(w, c, type, the_call) ==
  /\ headers' = Post(headers, w, c, [type |-> type, off |-> HeaderOffset(the_call.off)])
  /\ call' = [call EXCEPT ![w] = the_call]
  /\ pc' = [pc EXCEPT ![w] = "header"]

\* The application may call the library: w is between calls and still may.
CanCall(w) == ~ aborted /\ pc[w] = "idle" /\ calls[w] < MaxCalls[w]
CountCall(w) == calls' = [calls EXCEPT ![w] = @ + 1]

-----------------------------------------------------------------------------
(* Work tasks.                                                              *)

\* Write of a new offset: AssignOwnership, then OCORE_WRITE_NEW.
WriteNew(w, o, d) ==
  /\ CanCall(w) /\ CountCall(w)
  /\ o \notin DOMAIN rank_map[w]
  /\ LET owner == distrib_rank[w] + startingRank_
     IN  /\ rank_map' = [rank_map EXCEPT ![w] =
                           [x \in DOMAIN rank_map[w] \cup {o} |->
                              IF x = o THEN RecordedOwner(distrib_rank[w]) ELSE rank_map[w][x]]]
         /\ PostHeader(w, owner, "OCORE_WRITE_NEW", Call("write", o, d))
  /\ distrib_rank' = [distrib_rank EXCEPT ![w] = NextDistrib(@)]
  /\ UNCHANGED <<result, exits, blocks, replies, ocoreVars, eager, aborted>>

\* Write of a known offset: to its owner, OCORE_UPDATE_OLD.
WriteOld(w, o, d) ==
  /\ CanCall(w) /\ CountCall(w)
  /\ o \in DOMAIN rank_map[w]
  /\ PostHeader(w, rank_map[w][o], "OCORE_UPDATE_OLD", Call("write", o, d))
  /\ UNCHANGED <<rank_map, distrib_rank, result, exits, blocks, replies,
                 ocoreVars, eager, aborted>>

\* The header's MPI_Send has returned: post the data.
SendData(w) ==
  /\ ~ aborted /\ pc[w] = "header" /\ call[w].op = "write"
  /\ LET owner == rank_map[w][call[w].off]
     IN  /\ "header" \in eager \/ Received(headers[w][owner])
         /\ blocks' = Post(blocks, w, owner, call[w].data)
  /\ pc' = [pc EXCEPT ![w] = "data"]
  /\ UNCHANGED <<rank_map, distrib_rank, call, result, calls, exits, headers,
                 replies, ocoreVars, eager, aborted>>

\* The data's MPI_Send has returned, and so does Write.
WriteReturns(w) ==
  /\ ~ aborted /\ pc[w] = "data"
  /\ "data" \in eager \/ Received(blocks[w][rank_map[w][call[w].off]])
  /\ call' = [call EXCEPT ![w] = Idle]
  /\ pc' = [pc EXCEPT ![w] = "idle"]
  /\ UNCHANGED <<rank_map, distrib_rank, result, calls, exits, netVars,
                 ocoreVars, eager, aborted>>

\* Read of a known offset.
ReadKnown(w, o) ==
  /\ CanCall(w) /\ CountCall(w)
  /\ o \in DOMAIN rank_map[w]
  /\ PostHeader(w, rank_map[w][o], "OCORE_READ", Call("read", o, NoBlock))
  /\ UNCHANGED <<rank_map, distrib_rank, result, exits, blocks, replies,
                 ocoreVars, eager, aborted>>

\* Read of an offset never written: zeros without any message, or Abort.
ReadUnknown(w, o) ==
  /\ CanCall(w) /\ CountCall(w)
  /\ o \notin DOMAIN rank_map[w]
  /\ IF AllowEmpty[w]
     THEN result' = [result EXCEPT ![w] = Zero] /\ UNCHANGED aborted
     ELSE aborted' = TRUE /\ UNCHANGED result
  /\ UNCHANGED <<rank_map, distrib_rank, call, pc, exits, netVars, ocoreVars, eager>>

\* PopRecord reads the first record of rank_map, or aborts if there is none.
PopRecord(w) ==
  /\ CanCall(w) /\ CountCall(w)
  /\ IF DOMAIN rank_map[w] = {}
     THEN aborted' = TRUE /\ UNCHANGED <<headers, call, pc>>
     ELSE /\ LET o == Least(DOMAIN rank_map[w])
             IN  PostHeader(w, rank_map[w][o], "OCORE_READ", Call("pop", o, NoBlock))
          /\ UNCHANGED aborted
  /\ UNCHANGED <<rank_map, distrib_rank, result, exits, blocks, replies,
                 ocoreVars, eager>>

\* Defect: the record stays in rank_map.
AfterPopKept(w) == rank_map

\* rank_map after w's pop: its record is erased.
AfterPop(w) ==
  [rank_map EXCEPT ![w] = [x \in DOMAIN rank_map[w] \ {call[w].off} |-> rank_map[w][x]]]

\* The reply arrives; Read returns, PopRecord erases its rank_map entry first.
\* (The value PopRecord returns is read from the erased entry and is not
\* part of the model.)
ReadReturns(w) ==
  /\ ~ aborted /\ pc[w] = "header" /\ call[w].op \in {"read", "pop"}
  /\ LET owner == rank_map[w][call[w].off]
     IN  /\ replies[owner][w] # << >>
         /\ result' = [result EXCEPT ![w] = Head(replies[owner][w])]
         /\ replies' = Take(replies, owner, w)
  /\ rank_map' = IF call[w].op = "pop" THEN AfterPop(w) ELSE rank_map
  /\ call' = [call EXCEPT ![w] = Idle]
  /\ pc' = [pc EXCEPT ![w] = "idle"]
  /\ UNCHANGED <<distrib_rank, calls, exits, headers, blocks, ocoreVars, eager, aborted>>

-----------------------------------------------------------------------------
(* Finalize.                                                                *)

\* Enter MPI_Barrier(MPI_COMM_WORK).
Finalize(w) ==
  /\ ~ aborted /\ pc[w] = "idle"
  /\ call' = [call EXCEPT ![w] = Call("finalize", 0, NoBlock)]
  /\ pc' = [pc EXCEPT ![w] = "work_barrier"]
  /\ UNCHANGED <<rank_map, distrib_rank, result, calls, exits, netVars,
                 ocoreVars, eager, aborted>>

\* Defect: the barrier of the work tasks is missing.
WorkBarrierOpenAlways == TRUE

\* Every work task has entered MPI_Barrier(MPI_COMM_WORK).
WorkBarrierOpen == \A w \in Work : pc[w] \notin {"idle", "header", "data"}

\* Leave that barrier: the master starts to send OCORE_EXIT, the others go
\* on to MPI_Barrier(MPI_COMM_GLOBAL).
LeaveWorkBarrier(w) ==
  /\ ~ aborted /\ pc[w] = "work_barrier" /\ WorkBarrierOpen
  /\ pc' = [pc EXCEPT ![w] = IF w = Master THEN "exits" ELSE "global_barrier"]
  /\ UNCHANGED <<rank_map, distrib_rank, call, result, calls, exits, netVars,
                 ocoreVars, eager, aborted>>

\* Defect: the loop starts one rank too late.
ExitRanksButFirst == Ocore \ {startingRank_}

\* The ranks Finalize's loop visits.
ExitRanks == Ocore

\* The master sends OCORE_EXIT to the Ocore tasks in rank order, each once
\* the MPI_Send before it has returned.
SendExit ==
  /\ ~ aborted /\ pc[Master] = "exits"
  /\ "header" \in eager \/ \A c \in exits : Received(headers[Master][c])
  /\ IF exits = ExitRanks
     THEN pc' = [pc EXCEPT ![Master] = "global_barrier"] /\ UNCHANGED <<exits, headers>>
     ELSE LET c == Least(ExitRanks \ exits)
          IN  /\ headers' = Post(headers, Master, c, [type |-> "OCORE_EXIT", off |-> 0])
              /\ exits' = exits \cup {c}
              /\ UNCHANGED pc
  /\ UNCHANGED <<rank_map, distrib_rank, call, result, calls, blocks, replies,
                 ocoreVars, eager, aborted>>

GlobalBarrierOpen ==
  /\ \A w \in Work : pc[w] \in {"global_barrier", "done"}
  /\ \A c \in Ocore : poll[c] \in {"global_barrier", "done"}

WorkDone(w) ==
  /\ ~ aborted /\ pc[w] = "global_barrier" /\ GlobalBarrierOpen
  /\ pc' = [pc EXCEPT ![w] = "done"]
  /\ UNCHANGED <<rank_map, distrib_rank, call, result, calls, exits, netVars,
                 ocoreVars, eager, aborted>>

OcoreDone(c) ==
  /\ ~ aborted /\ poll[c] = "global_barrier" /\ GlobalBarrierOpen
  /\ poll' = [poll EXCEPT ![c] = "done"]
  /\ UNCHANGED <<workVars, netVars, serving, records, eager, aborted>>

-----------------------------------------------------------------------------
(* Ocore tasks: PollForWork.                                                *)

\* Take a header from any work task that has one waiting.  A write header
\* leads to StoreData's MPI_Recv from the same rank, a read header to
\* PullData, OCORE_EXIT leaves the loop.
PollWrite(c, w) ==
  /\ Head(headers[w][c]).type \in {"OCORE_WRITE_NEW", "OCORE_UPDATE_OLD"}
  /\ poll' = [poll EXCEPT ![c] = "recv_data"]
  /\ serving' = [serving EXCEPT ![c] = Request(w, Head(headers[w][c]).off)]
  /\ UNCHANGED <<replies, aborted>>

PollRead(c, w) ==
  /\ Head(headers[w][c]).type = "OCORE_READ"
  /\ LET key == <<w, Head(headers[w][c]).off>>
     IN  IF key \in DOMAIN records[c]
         THEN /\ replies' = Post(replies, c, w, records[c][key])
              /\ poll' = [poll EXCEPT ![c] = "send_reply"]
              /\ serving' = [serving EXCEPT ![c] = Request(w, key[2])]
              /\ UNCHANGED aborted
         ELSE aborted' = TRUE /\ UNCHANGED <<replies, poll, serving>>

PollExit(c, w) ==
  /\ Head(headers[w][c]).type = "OCORE_EXIT"
  /\ poll' = [poll EXCEPT ![c] = "global_barrier"]
  /\ UNCHANGED <<replies, serving, aborted>>

PollForWork(c) ==
  /\ ~ aborted /\ poll[c] = "poll"
  /\ \E w \in Work :
       /\ headers[w][c] # << >>
       /\ PollWrite(c, w) \/ PollRead(c, w) \/ PollExit(c, w)
       /\ headers' = Take(headers, w, c)
  /\ UNCHANGED <<workVars, blocks, records, eager>>

\* Defect: the data is received from whoever sent first, not from the rank
\* whose header is being served.
SourceAny(c) == {w \in Work : blocks[w][c] # << >>}

\* StoreData receives from the rank its key names.
Source(c) == {serving[c].rank}

\* StoreData's MPI_Recv completes: the block is stored under the key.
StoreData(c) ==
  /\ ~ aborted /\ poll[c] = "recv_data"
  /\ \E w \in Source(c) :
       /\ blocks[w][c] # << >>
       /\ blocks' = Take(blocks, w, c)
       /\ LET key == <<serving[c].rank, serving[c].off>>
          IN  records' = [records EXCEPT ![c] =
                            [k \in DOMAIN records[c] \cup {key} |->
                               IF k = key THEN Head(blocks[w][c]) ELSE records[c][k]]]
  /\ poll' = [poll EXCEPT ![c] = "poll"]
  /\ serving' = [serving EXCEPT ![c] = NoRequest]
  /\ UNCHANGED <<workVars, headers, replies, eager, aborted>>

\* PullData's MPI_Send returns.
ReplySent(c) ==
  /\ ~ aborted /\ poll[c] = "send_reply"
  /\ "reply" \in eager \/ Received(replies[c][serving[c].rank])
  /\ poll' = [poll EXCEPT ![c] = "poll"]
  /\ serving' = [serving EXCEPT ![c] = NoRequest]
  /\ UNCHANGED <<workVars, netVars, records, eager, aborted>>

-----------------------------------------------------------------------------
Init ==
  /\ rank_map = [w \in Work |-> [o \in {} |-> 0]]
  /\ distrib_rank = [w \in Work |-> 0]
  /\ call = [w \in Work |-> Idle]
  /\ pc = [w \in Work |-> "idle"]
  /\ result = [w \in Work |-> NoBlock]
  /\ calls = [w \in Work |-> 0]
  /\ exits = {}
  /\ headers = [w \in Work |-> [c \in Ocore |-> << >>]]
  /\ blocks = [w \in Work |-> [c \in Ocore |-> << >>]]
  /\ replies = [c \in Ocore |-> [w \in Work |-> << >>]]
  /\ poll = [c \in Ocore |-> "poll"]
  /\ serving = [c \in Ocore |-> NoRequest]
  /\ records = [c \in Ocore |-> [k \in {} |-> NoBlock]]
  /\ eager \in SUBSET {"header", "data", "reply"}
  /\ aborted = FALSE

\* What the application decides to do next.
BeginCall(w) ==
  \/ PopRecord(w)
  \/ \E o \in Offsets :
       \/ ReadKnown(w, o) \/ ReadUnknown(w, o)
       \/ \E d \in Data : WriteNew(w, o, d) \/ WriteOld(w, o, d)

\* What a work task does once it is inside a call.
WorkStep(w) ==
  \/ SendData(w) \/ WriteReturns(w) \/ ReadReturns(w)
  \/ LeaveWorkBarrier(w) \/ WorkDone(w)
  \/ w = Master /\ SendExit

OcoreStep(c) == PollForWork(c) \/ StoreData(c) \/ ReplySent(c) \/ OcoreDone(c)

Finished ==
  \/ aborted
  \/ /\ \A w \in Work : pc[w] = "done"
     /\ \A c \in Ocore : poll[c] = "done"

Stopped == Finished /\ UNCHANGED vars

Next ==
  \/ \E w \in Work : BeginCall(w) \/ Finalize(w) \/ WorkStep(w)
  \/ \E c \in Ocore : OcoreStep(c)
  \/ Stopped

\* Every rank keeps running: a work task inside a call and an Ocore task with
\* something to do eventually take a step.  Making a call is up to the
\* application.
Fairness ==
  /\ \A w \in Work : WF_vars(WorkStep(w))
  /\ \A c \in Ocore : WF_vars(OcoreStep(c))

Spec == Init /\ [][Next]_vars /\ Fairness

-----------------------------------------------------------------------------
(* Properties.                                                              *)

\* Types of the variables.
TypeOK ==
  /\ \A w \in Work :
       /\ DOMAIN rank_map[w] \subseteq Offsets
       /\ \A o \in DOMAIN rank_map[w] : rank_map[w][o] \in Ocore
       /\ distrib_rank[w] \in 0 .. numOcoreTasks_ - 1
       /\ pc[w] \in {"idle", "header", "data", "work_barrier", "exits",
                     "global_barrier", "done"}
       /\ result[w] \in Data \cup {Zero, NoBlock}
       /\ calls[w] \in 0 .. MaxCalls[w]
  /\ exits \subseteq Ocore
  /\ \A c \in Ocore :
       /\ poll[c] \in {"poll", "recv_data", "send_reply", "global_barrier", "done"}
       /\ \A k \in DOMAIN records[c] : records[c][k] \in Data
  /\ aborted \in BOOLEAN

IsWrite(m) == m.type \in {"OCORE_WRITE_NEW", "OCORE_UPDATE_OLD"}

\* The writes of a queue: only its last header can be a read or an exit,
\* because the sender waits for the reply and sends nothing after an exit.
WritesOf(queue) ==
  IF queue = << >> \/ IsWrite(queue[Len(queue)]) THEN queue
  ELSE SubSeq(queue, 1, Len(queue) - 1)

\* Header offsets of w's writes that c has not yet stored, oldest first.
OutOffsets(w, c) ==
  LET waiting == WritesOf(headers[w][c])
  IN  (IF poll[c] = "recv_data" /\ serving[c].rank = w
       THEN <<serving[c].off>> ELSE << >>)
      \o [i \in 1 .. Len(waiting) |-> waiting[i].off]

\* Blocks of those writes: under way, or about to be sent by w.
OutBlocks(w, c) ==
  blocks[w][c] \o
    (IF pc[w] = "header" /\ call[w].op = "write" /\ rank_map[w][call[w].off] = c
     THEN <<call[w].data>> ELSE << >>)

\* Headers and data travel in separate messages with separate tags; still
\* every header that c will serve finds exactly one block of the same sender,
\* and no block is left over to be taken for the data of a later header.
HeadersMatchBlocks ==
  \A w \in Work, c \in Ocore : Len(OutOffsets(w, c)) = Len(OutBlocks(w, c))

\* The assertion it != smap.end() of PullData never fails: a read request is
\* not served before the write that created its record, even when MPI
\* buffered that write.
PullsKnownRecord ==
  \A c \in Ocore, w \in Work :
    poll[c] = "poll" /\ headers[w][c] # << >> /\ Head(headers[w][c]).type = "OCORE_READ"
      => <<w, Head(headers[w][c]).off>> \in DOMAIN records[c]

\* The block a work task means by an offset: that of its last write still
\* under way, else the one the owner holds.
Latest(w, o) ==
  LET c    == rank_map[w][o]
      hits == {i \in DOMAIN OutOffsets(w, c) \cap DOMAIN OutBlocks(w, c) :
                 OutOffsets(w, c)[i] = HeaderOffset(o)}
  IN  IF hits = {} THEN records[c][<<w, HeaderOffset(o)>>]
      ELSE OutBlocks(w, c)[CHOOSE i \in hits : \A j \in hits : j <= i]

\* The protocol implements one private memory per work task: a read returns
\* the task's own last write, through buffered sends, several owners, records
\* popped and written again, and the requests of other tasks.
Memory == INSTANCE OcoreMemory
            WITH mem <- [w \in Work |-> [o \in DOMAIN rank_map[w] |-> Latest(w, o)]]

MemorySpec == Memory!Spec

\* An Ocore task that has left its polling loop has no request waiting, unless
\* MPI buffers both the headers and the data.
ExitLeavesNothing ==
  \A c \in Ocore, w \in Work :
    poll[c] \in {"global_barrier", "done"} /\ ~ {"header", "data"} \subseteq eager
      => headers[w][c] = << >> /\ blocks[w][c] = << >>

\* Every library call ends: Write, Read and PopRecord return (or the job is
\* aborted).
CallsReturn ==
  \A w \in Work : pc[w] \in {"header", "data"} ~> pc[w] = "idle" \/ aborted

\* Once every work task calls Finalize, all tasks get through it: the Ocore
\* tasks leave PollForWork and both barriers open.
FinalizeCompletes ==
  (\A w \in Work : call[w].op = "finalize") ~> Finished

\* "Include barrier here to ensure all worker tasks have completed any
\* oustanding requests prior to tearing down" (grvy_ramdisk.cpp:301-302): is
\* every request served before an Ocore task is torn down?
FinalizeDrains ==
  \A c \in Ocore, w \in Work :
    poll[c] \in {"global_barrier", "done"}
      => headers[w][c] = << >> /\ blocks[w][c] = << >>
=============================================================================

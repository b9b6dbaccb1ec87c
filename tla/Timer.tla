-------------------------------- MODULE Timer --------------------------------
(***************************************************************************)
(* The performance timer of libGRVY (src/src/grvy_timer.cpp): the state of *)
(* GRVY_Timer_Class and the calls that change it, in any order an          *)
(* application may make them.  The timer is used by one thread, so a call  *)
(* is one step; within it the clock is read more than once and may have    *)
(* moved on, by at most MaxDelay, between the first and a later reading.   *)
(***************************************************************************)
EXTENDS Integers, Sequences

CONSTANTS
  Ids,         \* names of the application's timers
  Global,      \* _GRVY_gtimer, the timer of the whole run
  HighByteIds, \* names whose second character is negative as a char
  MaxDelay,    \* clock ticks that may pass inside one call
  MaxTime      \* bound on the clock

ASSUME TimerAssumption ==
  /\ Global \notin Ids /\ HighByteIds \subseteq Ids
  /\ MaxDelay \in Nat /\ MaxTime \in Nat \ {0}

Names == Ids \cup {Global}

VARIABLES
  now,            \* the clock
  TimerMap,       \* TimerMap[id]: the data of the timers begun so far
  callgraph,      \* stack of the timers that are open, the top last
  num_begins,     \* number of active begin calls
  finalized,      \* Finalize was called
  timer_finalize  \* clock at the last EndTimer of the global timer, -1 before

vars == <<now, TimerMap, callgraph, num_begins, finalized, timer_finalize>>

-----------------------------------------------------------------------------
\* tTimer_Data: timings[0], timings[1], timings_inc[0], timings_inc[1],
\* accumulated, and the number of samples in stats.
Data == [timings : Int, stamp : Int, timings_inc : Int, stamp_inc : Int,
         accumulated : Int, count : Nat]

\* Data of a timer begun for the first time at time t.
FreshData(t) ==
  [timings |-> 0, stamp |-> t, timings_inc |-> 0, stamp_inc |-> t,
   accumulated |-> 0, count |-> 0]

\* Defect: the operands are swapped.
IncrementSwapped(t, stamp) == stamp - t

\* Time from a stamp to t.
Increment(t, stamp) == t - stamp

Top(stack) == stack[Len(stack)]

\* Defect: the ended timer stays on the stack.
PoppedNot(stack) == stack

\* std::stack::pop of a stack that may be empty, guarded by its size.
Popped(stack) == IF stack = << >> THEN stack ELSE SubSeq(stack, 1, Len(stack) - 1)

\* Defect: a timer below the top of a deep nest is not pushed.
MustPushShallow(n, stack) == n > Len(stack) /\ n <= 2

\* num_begins > callgraph.size() compares as unsigned numbers, so that a
\* negative num_begins is larger than every size.
MustPush(n, stack) == n < 0 \/ n > Len(stack)

Paused(map, id, t) ==
  [map EXCEPT ![id].accumulated = @ + Increment(t, map[id].stamp)]

\* Defect: the outer timer is not restarted.
ResumedNot(map, id, t) == map

Resumed(map, id, t) == [map EXCEPT ![id].stamp = t]

\* Defect: accumulations of an earlier call survive.
RestartedKeeping(r, t) ==
  [timings |-> r.timings, stamp |-> t, timings_inc |-> r.timings_inc, stamp_inc |-> t,
   accumulated |-> r.accumulated, count |-> r.count]

\* Data r of a timer begun again at time t.
Restarted(r, t) ==
  [timings |-> r.timings, stamp |-> t, timings_inc |-> r.timings_inc, stamp_inc |-> t,
   accumulated |-> 0, count |-> r.count]

Begun(map, id, t) ==
  [x \in DOMAIN map \cup {id} |->
     IF x # id THEN map[x]
     ELSE IF id \in DOMAIN map THEN Restarted(map[id], t) ELSE FreshData(t)]

\* Defect: the inclusive time is measured from the last resumption.
StoppedFromStamp(r, t) ==
  [timings |-> r.timings + Increment(t, r.stamp) + r.accumulated, stamp |-> -1,
   timings_inc |-> r.timings_inc + Increment(t, r.stamp), stamp_inc |-> -1,
   accumulated |-> r.accumulated, count |-> r.count + 1]

\* Data r of a timer ended at time t.
Stopped(r, t) ==
  [timings |-> r.timings + Increment(t, r.stamp) + r.accumulated, stamp |-> -1,
   timings_inc |-> r.timings_inc + Increment(t, r.stamp_inc), stamp_inc |-> -1,
   accumulated |-> r.accumulated, count |-> r.count + 1]

Ended(map, id, t) == [map EXCEPT ![id] = Stopped(map[id], t)]

\* Reset clears the totals and the statistics, not the stamps.
Zeroed(r) ==
  [timings |-> 0, stamp |-> r.stamp, timings_inc |-> 0, stamp_inc |-> r.stamp_inc,
   accumulated |-> r.accumulated, count |-> 0]

Cleared(map) == [id \in DOMAIN map |-> Zeroed(map[id])]

-----------------------------------------------------------------------------
\* BeginTimer with n begins active before it, started from the data map; the
\* surrounding timer is paused with a later reading of the clock.
BeginWith(map, n, id, later) ==
  /\ num_begins' = n + 1
  /\ callgraph' = IF MustPush(n + 1, callgraph) THEN Append(callgraph, id) ELSE callgraph
  /\ TimerMap' = Begun(IF n + 1 > 2 THEN Paused(map, Top(callgraph), later) ELSE map,
                       id, now)

BeginTimer(id, later) ==
  /\ BeginWith(TimerMap, num_begins, id, later)
  /\ UNCHANGED <<finalized, timer_finalize>>

\* EndTimer reaches its main branch: the timer is known, and the second
\* character of its name is not negative.
Endable(id) == id \in DOMAIN TimerMap /\ id \notin HighByteIds

EndKnown(id, later) ==
  /\ Endable(id)
  /\ callgraph' = Popped(callgraph)
  /\ LET ended == Ended(TimerMap, id, now)
     IN  TimerMap' = IF num_begins > 2 THEN Resumed(ended, Top(Popped(callgraph)), later)
                     ELSE ended
  /\ num_begins' = num_begins - 1

\* Two error messages and no change of the timers.
EndRefused(id) ==
  /\ ~ Endable(id)
  /\ UNCHANGED <<TimerMap, callgraph, num_begins>>

\* Defect: no snapshot of the clock is taken at the end of the global timer.
EndTimerUnseen(id, later) ==
  /\ EndKnown(id, later) \/ EndRefused(id)
  /\ UNCHANGED timer_finalize

EndTimer(id, later) ==
  /\ EndKnown(id, later) \/ EndRefused(id)
  /\ timer_finalize' = IF id = Global THEN later ELSE timer_finalize

EndUserTimer(id, later) == EndTimer(id, later) /\ UNCHANGED finalized

\* Init(name) and Reset: the global timer is begun anew.
Reset(later) ==
  /\ BeginWith(Cleared(TimerMap), 0, Global, later)
  /\ UNCHANGED <<finalized, timer_finalize>>

Finalize(later) == EndTimer(Global, later) /\ finalized' = TRUE

\* Summarize ends the global timer unless Finalize did; the total it changes
\* for its output it restores.
Summarize(later) == ~ finalized /\ Finalize(later)

\* A call begins at time now and is over at time later.
Call(later) ==
  \/ \E id \in Ids : BeginTimer(id, later) \/ EndUserTimer(id, later)
  \/ Reset(later)
  \/ Finalize(later)
  \/ Summarize(later)

Tick ==
  /\ now' = now + 1
  /\ UNCHANGED <<TimerMap, callgraph, num_begins, finalized, timer_finalize>>

\* The state the constructor leaves.
Init ==
  /\ now = 1
  /\ TimerMap = [id \in {Global} |-> FreshData(1)]
  /\ callgraph = <<Global>>
  /\ num_begins = 1
  /\ finalized = FALSE
  /\ timer_finalize = -1

Next ==
  \/ now < MaxTime /\ Tick
  \/ \E d \in 0 .. MaxDelay :
       now + d <= MaxTime /\ now' = now + d /\ Call(now + d)

Spec == Init /\ [][Next]_vars

-----------------------------------------------------------------------------
\* ElapsedGlobal.
ElapsedGlobal ==
  (IF TimerMap[Global].stamp > 0 THEN now - TimerMap[Global].stamp
   ELSE TimerMap[Global].timings)
  + (IF timer_finalize > 0 THEN now - timer_finalize ELSE 0)

\* Types of the variables: no time of a timer is negative, no stamp is ahead
\* of the clock.
TypeOK ==
  /\ now \in 1 .. MaxTime
  /\ DOMAIN TimerMap \subseteq Names /\ Global \in DOMAIN TimerMap
  /\ TimerMap \in [DOMAIN TimerMap -> Data]
  /\ \A id \in DOMAIN TimerMap :
       /\ TimerMap[id].timings >= 0 /\ TimerMap[id].timings_inc >= 0
       /\ TimerMap[id].accumulated >= 0
       /\ TimerMap[id].stamp \in -1 .. now /\ TimerMap[id].stamp_inc \in -1 .. now
  /\ callgraph \in Seq(Names)
  /\ num_begins \in Int
  /\ finalized \in BOOLEAN
  /\ timer_finalize \in Int

\* "No matching begin timer call for" (grvy_timer.cpp:354): is a sample taken
\* only from a timer that is running?
SamplesNeedBegin ==
  [][\A id \in DOMAIN TimerMap \cap Ids :
       TimerMap'[id].count > TimerMap[id].count => TimerMap[id].stamp > 0]_vars

\* Whatever calls the application makes, matched or not: PauseTimer and
\* ResumeTimer are never given the top of an empty stack, nor a name that
\* TimerMap does not hold.
CallgraphCovers ==
  /\ num_begins <= Len(callgraph)
  /\ \A i \in 1 .. Len(callgraph) : callgraph[i] \in DOMAIN TimerMap
=============================================================================

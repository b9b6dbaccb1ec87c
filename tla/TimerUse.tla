------------------------------ MODULE TimerUse ------------------------------
(***************************************************************************)
(* The timer beside an ideal account of the same calls.  The account knows *)
(* which timers are open, innermost last, charges every tick of the clock  *)
(* to the innermost one, and adds the whole time from begin to end to a    *)
(* timer's span.  It is kept as long as the application uses the timer     *)
(* properly: timers are nested and not begun twice, none is open at a      *)
(* Reset, an Init or the Finalize, and none is begun between Finalize and  *)
(* the next Reset.  After an improper call only the timer goes on.         *)
(***************************************************************************)
EXTENDS Timer, FiniteSetsExt

CONSTANT MaxCalls \* bound on the application's calls

VARIABLES
  open,     \* timers open in the account, innermost last
  running,  \* the global timer is running
  start,    \* clock at the last Reset
  total,    \* how long the global timer ran, once it has ended
  again,    \* there was a Reset after a Finalize
  charged,  \* charged[id]: ticks during which id was the innermost timer
  slack,    \* slack[id]: ticks inside calls that paused or resumed id
  spanned,  \* spanned[id]: ticks between begins and ends of id
  began,    \* began[id]: clock at the last begin of id
  complete, \* complete[id]: number of begin/end pairs
  proper,   \* every call so far was proper
  calls     \* number of calls so far

account == <<open, running, start, total, again, charged, slack, spanned, began, complete>>
useVars == <<vars, account, proper, calls>>

Zeros == [id \in Ids |-> 0]

IsOpen(id) == \E i \in 1 .. Len(open) : open[i] = id

\* The nest around its innermost timer.
Outer(nest) == SubSeq(nest, 1, Len(nest) - 1)

\* f with d more for the innermost timer of the nest, if there is one.
Charge(f, nest, d) ==
  IF nest = << >> THEN f ELSE [f EXCEPT ![Top(nest)] = @ + d]

InitUse ==
  /\ Init
  /\ open = << >> /\ running = TRUE /\ start = 1 /\ total = 0 /\ again = FALSE
  /\ charged = Zeros /\ slack = Zeros /\ spanned = Zeros /\ began = Zeros
  /\ complete = Zeros
  /\ proper = TRUE /\ calls = 0

TickUse ==
  /\ now < MaxTime /\ Tick
  /\ charged' = IF proper THEN Charge(charged, open, 1) ELSE charged
  /\ UNCHANGED <<open, running, start, total, again, slack, spanned, began,
                 complete, proper, calls>>

\* The account of a proper call; d ticks pass inside it.
AccountBegin(id, d) ==
  /\ open' = Append(open, id)
  /\ charged' = [charged EXCEPT ![id] = @ + d]
  /\ slack' = Charge(slack, open, d)
  /\ began' = [began EXCEPT ![id] = now]
  /\ UNCHANGED <<running, start, total, again, spanned, complete>>

AccountEnd(id, d) ==
  /\ open' = Outer(open)
  /\ charged' = Charge(charged, Outer(open), d)
  /\ slack' = Charge(slack, Outer(open), d)
  /\ spanned' = [spanned EXCEPT ![id] = @ + now - began[id]]
  /\ complete' = [complete EXCEPT ![id] = @ + 1]
  /\ UNCHANGED <<running, start, total, again, began>>

AccountReset ==
  /\ charged' = Zeros /\ slack' = Zeros /\ spanned' = Zeros /\ complete' = Zeros
  /\ running' = TRUE /\ start' = now /\ total' = 0
  /\ again' = (again \/ ~ running)
  /\ UNCHANGED <<open, began>>

AccountFinalize ==
  /\ running' = FALSE /\ total' = now - start
  /\ UNCHANGED <<open, start, again, charged, slack, spanned, began, complete>>

\* A call that is proper under the condition ok keeps the account.
Keeps(ok, effect) ==
  /\ proper' = (proper /\ ok)
  /\ IF proper /\ ok THEN effect ELSE UNCHANGED account

UseCall(d) ==
  /\ calls < MaxCalls /\ calls' = calls + 1
  /\ now + d <= MaxTime /\ now' = now + d
  /\ \/ \E id \in Ids :
          /\ BeginTimer(id, now + d)
          /\ Keeps(running /\ ~ IsOpen(id) /\ id \notin HighByteIds, AccountBegin(id, d))
     \/ \E id \in Ids :
          /\ EndUserTimer(id, now + d)
          /\ Keeps(open # << >> /\ Top(open) = id, AccountEnd(id, d))
     \/ Reset(now + d) /\ Keeps(open = << >>, AccountReset)
     \/ Finalize(now + d) /\ Keeps(running /\ open = << >>, AccountFinalize)
     \/ Summarize(now + d) /\ Keeps(running /\ open = << >>, AccountFinalize)

NextUse == TickUse \/ \E d \in 0 .. MaxDelay : UseCall(d)

SpecUse == InitUse /\ [][NextUse]_useVars

-----------------------------------------------------------------------------
Abs(n) == IF n < 0 THEN - n ELSE n

\* The data of a closed timer, zeros for one not begun yet.
Closed(id) == ~ IsOpen(id)
Total(id) == IF id \in DOMAIN TimerMap THEN TimerMap[id].timings ELSE 0

\* "exclusive timing measurements (ie. they do not include runtime
\* contributions from any embedded timers)" (grvy.h.in:549-550): after any
\* nesting, resets and restarts, a closed timer holds the ticks for which it
\* was innermost, up to those spent inside the calls that paused or resumed it.
ExclusiveIsCharged ==
  proper => \A id \in Ids : Closed(id) => Abs(Total(id) - charged[id]) <= slack[id]

\* "wallclock measurements between the begin/end of each timer, including the
\* time associated with any embedded timers" (grvy.h.in:582-584), and one
\* sample in the statistics for each begin/end pair since the last Reset.
InclusiveIsSpanned ==
  proper => \A id \in DOMAIN TimerMap \cap Ids :
    Closed(id) => /\ TimerMap[id].timings_inc = spanned[id]
                  /\ TimerMap[id].count = complete[id]

\* ElapsedSeconds' test for an active timer, timings[1] > 0, tells the open
\* timers from the closed ones.
ActiveIsOpen ==
  proper => \A id \in DOMAIN TimerMap \cap Ids : TimerMap[id].stamp > 0 <=> IsOpen(id)

\* The percentages of Summarize: the exclusive times fit into the time of the
\* global timer, so that the unassigned rest is not negative (up to the slack).
SubtimersFitTotal ==
  proper /\ ~ running =>
    /\ TimerMap[Global].timings = total
    /\ SumFunctionOnSet([id \in Ids |-> Total(id) - slack[id]], Ids) <= total

\* "return elapsed time since Init()" (grvy.h.in:1462): ElapsedGlobal goes on
\* counting after Finalize, as long as there was no Reset after it.
ElapsedGlobalCounts ==
  proper /\ ~ again => ElapsedGlobal \in now - start - MaxDelay .. now - start

\* The same after a Reset, which begins a new measurement.
ElapsedSinceReset ==
  proper => ElapsedGlobal \in now - start - MaxDelay .. now - start
=============================================================================

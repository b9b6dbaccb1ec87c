----------------------------- MODULE TimerProofs -----------------------------
(***************************************************************************)
(* Proofs about Timer, for all names, delays and clocks and for every      *)
(* sequence of calls, matched or not.                                      *)
(***************************************************************************)
EXTENDS TimerUse, SequenceTheorems, Sums

-----------------------------------------------------------------------------
(* The data map.                                                            *)

\* map is a data map whose stamps are not after time t.
Sound(map, t) ==
  /\ DOMAIN map \subseteq Names /\ Global \in DOMAIN map
  /\ map \in [DOMAIN map -> Data]
  /\ \A id \in DOMAIN map :
       /\ map[id].timings >= 0 /\ map[id].timings_inc >= 0
       /\ map[id].accumulated >= 0
       /\ map[id].stamp \in -1 .. t /\ map[id].stamp_inc \in -1 .. t

\* Time passes.
LEMMA SoundLater ==
  ASSUME NEW map, NEW t \in Int, NEW u \in Int, t <= u, Sound(map, t)
  PROVE  Sound(map, u)
BY DEF Sound

\* PauseTimer.
LEMMA PausedSound ==
  ASSUME NEW map, NEW t \in Int, NEW u \in Int, t <= u, Sound(map, t), NEW id \in DOMAIN map
  PROVE  Sound(Paused(map, id, u), u) /\ DOMAIN Paused(map, id, u) = DOMAIN map
<1>1. /\ map[id] \in Data /\ map[id].stamp <= t /\ map[id].accumulated >= 0
  BY DEF Sound, Data
<1>2. map[id].accumulated + Increment(u, map[id].stamp) \in Nat
  BY <1>1 DEF Increment, Data
<1> QED BY <1>1, <1>2 DEF Sound, Paused, Data

\* ResumeTimer.
LEMMA ResumedSound ==
  ASSUME NEW map, NEW t \in Int, NEW u \in Nat, t <= u, Sound(map, t), NEW id \in DOMAIN map
  PROVE  Sound(Resumed(map, id, u), u) /\ DOMAIN Resumed(map, id, u) = DOMAIN map
BY DEF Sound, Resumed, Data

\* The end of BeginTimer.
LEMMA BegunSound ==
  ASSUME NEW map, NEW t \in Nat, NEW u \in Int, t <= u, Sound(map, u), NEW id \in Names
  PROVE  Sound(Begun(map, id, t), u) /\ DOMAIN Begun(map, id, t) = DOMAIN map \cup {id}
<1> DEFINE new == Begun(map, id, t)
<1>1. /\ DOMAIN new = DOMAIN map \cup {id}
      /\ \A x \in DOMAIN new \ {id} : new[x] = map[x]
  BY DEF Begun
<1>2. new[id] = IF id \in DOMAIN map
                THEN Restarted(map[id], t)
                ELSE FreshData(t)
  BY DEF Begun
<1>3. /\ new[id] \in Data /\ new[id].timings >= 0 /\ new[id].timings_inc >= 0
      /\ new[id].accumulated >= 0 /\ new[id].stamp = t /\ new[id].stamp_inc = t
  <2>1. CASE id \in DOMAIN map
    BY <1>2, <2>1 DEF Sound, Data, Restarted
  <2>2. CASE id \notin DOMAIN map
    BY <1>2, <2>2 DEF FreshData, Data
  <2> QED BY <2>1, <2>2
<1>4. new \in [DOMAIN new -> Data]
  <2>1. \A x \in DOMAIN new : new[x] \in Data
    BY <1>1, <1>3 DEF Sound
  <2>2. new = [x \in DOMAIN new |-> new[x]]
    BY DEF Begun
  <2> QED BY <2>1, <2>2
<1> HIDE DEF new
<1>5. Sound(new, u)
  BY <1>1, <1>3, <1>4 DEF Sound
<1> QED BY <1>1, <1>5 DEF new

\* The first half of EndTimer.
LEMMA EndedSound ==
  ASSUME NEW map, NEW t \in Nat, Sound(map, t), NEW id \in DOMAIN map
  PROVE  Sound(Ended(map, id, t), t) /\ DOMAIN Ended(map, id, t) = DOMAIN map
<1> DEFINE new == Ended(map, id, t)
<1>1. /\ map[id] \in Data /\ map[id].stamp <= t /\ map[id].stamp_inc <= t
      /\ map[id].timings >= 0 /\ map[id].timings_inc >= 0 /\ map[id].accumulated >= 0
  BY DEF Sound, Data
<1>2. /\ map[id].timings + Increment(t, map[id].stamp) + map[id].accumulated \in Nat
      /\ map[id].timings_inc + Increment(t, map[id].stamp_inc) \in Nat
      /\ map[id].count + 1 \in Nat
  BY <1>1 DEF Increment, Data
<1>3. /\ DOMAIN new = DOMAIN map
      /\ new = [x \in DOMAIN map |-> new[x]]
      /\ \A x \in DOMAIN map \ {id} : new[x] = map[x]
  BY DEF Ended, Sound
<1>4. /\ new[id] \in Data /\ new[id].timings >= 0 /\ new[id].timings_inc >= 0
      /\ new[id].accumulated >= 0 /\ new[id].stamp = -1 /\ new[id].stamp_inc = -1
  BY <1>1, <1>2 DEF Ended, Stopped, Data
<1> HIDE DEF new
<1>5. new \in [DOMAIN new -> Data]
  BY <1>3, <1>4 DEF Sound
<1>6. Sound(new, t)
  BY <1>3, <1>4, <1>5 DEF Sound
<1> QED BY <1>3, <1>6 DEF new

\* Reset's loop.
LEMMA ClearedSound ==
  ASSUME NEW map, NEW t \in Int, Sound(map, t)
  PROVE  Sound(Cleared(map), t) /\ DOMAIN Cleared(map) = DOMAIN map
BY DEF Sound, Cleared, Zeroed, Data

-----------------------------------------------------------------------------
(* The callgraph.                                                           *)

\* The stack has names of map only, and at least n of them.
Covers(stack, n, map) ==
  /\ stack \in Seq(Names) /\ n \in Int
  /\ n <= Len(stack)
  /\ \A i \in 1 .. Len(stack) : stack[i] \in DOMAIN map

\* The inductive invariant.
TInv == TypeOK /\ CallgraphCovers

LEMMA TInvParts ==
  TInv <=> /\ now \in 1 .. MaxTime /\ finalized \in BOOLEAN /\ timer_finalize \in Int
           /\ Sound(TimerMap, now) /\ Covers(callgraph, num_begins, TimerMap)
BY DEF TInv, TypeOK, CallgraphCovers, Sound, Covers

\* BeginTimer, started from any sound data and any number of begins that the
\* stack covers: PauseTimer finds its timer, and the stack covers one more.
LEMMA BeginCovers ==
  ASSUME NEW map, NEW n \in Int, NEW id \in Names, NEW later \in Nat,
         now \in Nat, now <= later, Sound(map, now), Covers(callgraph, n, map),
         BeginWith(map, n, id, later)
  PROVE  Sound(TimerMap', later) /\ Covers(callgraph', num_begins', TimerMap')
<1> DEFINE before == IF n + 1 > 2 THEN Paused(map, Top(callgraph), later) ELSE map
<1>1. Sound(before, later) /\ DOMAIN before = DOMAIN map
  <2>1. CASE n + 1 > 2
    <3>1. Top(callgraph) \in DOMAIN map
      BY <2>1, LenProperties DEF Covers, Top
    <3> QED BY <2>1, <3>1, PausedSound
  <2>2. CASE ~ (n + 1 > 2)
    BY <2>2, SoundLater
  <2> QED BY <2>1, <2>2
<1>2. TimerMap' = Begun(before, id, now) /\ num_begins' = n + 1
  BY DEF BeginWith
<1> HIDE DEF before
<1>3. Sound(TimerMap', later) /\ DOMAIN TimerMap' = DOMAIN map \cup {id}
  BY <1>1, <1>2, BegunSound
<1>4. Covers(callgraph', n + 1, TimerMap')
  <2>1. CASE MustPush(n + 1, callgraph)
    <3>1. callgraph' = Append(callgraph, id)
      BY <2>1 DEF BeginWith
    <3>2. /\ callgraph' \in Seq(Names) /\ Len(callgraph') = Len(callgraph) + 1
          /\ \A i \in 1 .. Len(callgraph) : callgraph'[i] = callgraph[i]
          /\ callgraph'[Len(callgraph) + 1] = id
      BY <3>1, AppendProperties DEF Covers
    <3>3. Len(callgraph) \in Nat
      BY LenProperties DEF Covers
    <3> QED BY <1>3, <3>2, <3>3 DEF Covers
  <2>2. CASE ~ MustPush(n + 1, callgraph)
    <3>1. callgraph' = callgraph /\ n + 1 <= Len(callgraph)
      BY <2>2, LenProperties DEF BeginWith, MustPush, Covers
    <3> QED BY <1>3, <3>1 DEF Covers
  <2> QED BY <2>1, <2>2
<1> QED BY <1>2, <1>3, <1>4

\* EndTimer, matched or not: ResumeTimer finds its timer.
LEMMA EndCovers ==
  ASSUME NEW id \in Names, NEW later \in Nat,
         now \in Nat, now <= later, Sound(TimerMap, now),
         Covers(callgraph, num_begins, TimerMap),
         EndTimer(id, later)
  PROVE  Sound(TimerMap', later) /\ Covers(callgraph', num_begins', TimerMap')
<1>1. CASE EndRefused(id)
  BY <1>1, SoundLater DEF EndRefused
<1>2. CASE EndKnown(id, later)
  <2> DEFINE ended == Ended(TimerMap, id, now)
             rest == Popped(callgraph)
  <2>1. Sound(ended, now) /\ DOMAIN ended = DOMAIN TimerMap
    BY <1>2, EndedSound DEF EndKnown, Endable
  <2>2. /\ callgraph' = rest /\ num_begins' = num_begins - 1
        /\ TimerMap' = IF num_begins > 2 THEN Resumed(ended, Top(rest), later) ELSE ended
    BY <1>2 DEF EndKnown
  <2>3. Covers(rest, num_begins - 1, TimerMap)
    <3>1. CASE callgraph = << >>
      BY <3>1 DEF Popped, Covers
    <3>2. CASE callgraph # << >>
      <4>1. /\ Len(callgraph) \in Nat /\ Len(callgraph) >= 1
            /\ \A i \in 1 .. Len(callgraph) : callgraph[i] \in Names
        BY <3>2, EmptySeq, LenProperties, ElementOfSeq DEF Covers
      <4>2. /\ rest \in Seq(Names) /\ Len(rest) = Len(callgraph) - 1
            /\ \A i \in 1 .. Len(callgraph) - 1 : rest[i] = callgraph[i]
        <5>1. rest = SubSeq(callgraph, 1, Len(callgraph) - 1)
          BY <3>2 DEF Popped
        <5>2. /\ Len(callgraph) - 1 \in Int
              /\ \A i \in 1 .. Len(callgraph) - 1 : callgraph[i] \in Names
          BY <4>1
        <5>3. /\ SubSeq(callgraph, 1, Len(callgraph) - 1) \in Seq(Names)
              /\ Len(SubSeq(callgraph, 1, Len(callgraph) - 1))
                   = (IF 1 <= Len(callgraph) - 1 THEN Len(callgraph) - 1 - 1 + 1 ELSE 0)
              /\ \A i \in 1 .. Len(callgraph) - 1 - 1 + 1 :
                   SubSeq(callgraph, 1, Len(callgraph) - 1)[i] = callgraph[1 + i - 1]
          BY <5>2, SubSeqProperties
        <5> HIDE DEF rest
        <5>4. rest \in Seq(Names) /\ Len(rest) = Len(callgraph) - 1
          <6>1. rest \in Seq(Names)
            BY <5>1, <5>3
          <6>2. Len(rest) = IF 1 <= Len(callgraph) - 1 THEN Len(callgraph) - 1 - 1 + 1 ELSE 0
            BY <5>1, <5>3
          <6>3. Len(callgraph) \in Nat /\ Len(callgraph) >= 1
            BY <4>1
          <6>4. \A k \in Nat : k >= 1 => k - 1 = IF 1 <= k - 1 THEN k - 1 - 1 + 1 ELSE 0
            OBVIOUS
          <6>5. Len(rest) = Len(callgraph) - 1
            BY <6>2, <6>3, <6>4
          <6> QED BY <6>1, <6>5
        <5>5. ASSUME NEW i \in 1 .. Len(callgraph) - 1 PROVE rest[i] = callgraph[i]
          <6>1. i \in 1 .. Len(callgraph) - 1 - 1 + 1 /\ 1 + i - 1 = i
            BY <4>1
          <6> QED BY <5>1, <5>3, <6>1
        <5> QED BY <5>4, <5>5
      <4> QED BY <4>1, <4>2 DEF Covers
    <3> QED BY <3>1, <3>2
  <2> HIDE DEF ended, rest
  <2>4. CASE num_begins > 2
    <3>1. Top(rest) \in DOMAIN ended
      BY <2>1, <2>3, <2>4, LenProperties DEF Covers, Top
    <3>2. Sound(TimerMap', later) /\ DOMAIN TimerMap' = DOMAIN TimerMap
      BY <2>1, <2>2, <2>4, <3>1, ResumedSound
    <3> QED BY <2>2, <2>3, <3>2 DEF Covers
  <2>5. CASE ~ (num_begins > 2)
    BY <2>1, <2>2, <2>3, <2>5, SoundLater DEF Covers
  <2> QED BY <2>4, <2>5
<1> QED BY <1>1, <1>2 DEF EndTimer

-----------------------------------------------------------------------------
LEMMA InitTInv == Init => TInv
<1> SUFFICES ASSUME Init PROVE TInv
  OBVIOUS
<1>1. Sound(TimerMap, now)
  BY TimerAssumption DEF Init, Sound, FreshData, Data, Names
<1>2. Covers(callgraph, num_begins, TimerMap)
  BY DEF Init, Covers, Names
<1>3. now \in 1 .. MaxTime /\ finalized \in BOOLEAN /\ timer_finalize \in Int
  <2>1. now \in 1 .. MaxTime /\ timer_finalize \in Int
    BY TimerAssumption DEF Init
  <2>2. finalized \in BOOLEAN
    BY DEF Init
  <2> QED BY <2>1, <2>2
<1> QED BY <1>1, <1>2, <1>3, TInvParts

LEMMA NextTInv == TInv /\ [Next]_vars => TInv'
<1> SUFFICES ASSUME TInv, [Next]_vars PROVE TInv'
  OBVIOUS
<1>0. /\ now \in Nat /\ now \in 1 .. MaxTime /\ finalized \in BOOLEAN
      /\ timer_finalize \in Int
      /\ Sound(TimerMap, now) /\ Covers(callgraph, num_begins, TimerMap)
  BY TInvParts, TimerAssumption
<1>1. CASE UNCHANGED vars
  BY <1>1 DEF vars, TInv, TypeOK, CallgraphCovers
<1>2. CASE now < MaxTime /\ Tick
  <2>1. now' = now + 1 /\ now' \in 1 .. MaxTime
    BY <1>0, <1>2, TimerAssumption DEF Tick
  <2>2. Sound(TimerMap', now')
    BY <1>0, <1>2, <2>1, SoundLater DEF Tick
  <2> QED BY <1>0, <1>2, <2>1, <2>2 DEF Tick, TInv, TypeOK, CallgraphCovers, Sound, Covers
<1>3. ASSUME NEW d \in 0 .. MaxDelay, now + d <= MaxTime, now' = now + d, Call(now + d)
      PROVE  TInv'
  <2> DEFINE later == now + d
  <2>1. later \in Nat /\ now <= later /\ now' = later /\ later \in 1 .. MaxTime
    BY <1>0, <1>3, TimerAssumption
  <2> DEFINE Good == /\ Sound(TimerMap', later)
                     /\ Covers(callgraph', num_begins', TimerMap')
                     /\ finalized' \in BOOLEAN /\ timer_finalize' \in Int
  <2>2. ASSUME NEW id \in Ids, BeginTimer(id, later) PROVE Good
    BY <1>0, <2>1, <2>2, BeginCovers DEF BeginTimer, Names, Covers
  <2>3. ASSUME NEW id \in Ids, EndUserTimer(id, later) PROVE Good
    BY <1>0, <2>1, <2>3, EndCovers DEF EndUserTimer, EndTimer, Names
  <2>4. ASSUME Reset(later) PROVE Good
    <3>1. Sound(Cleared(TimerMap), now) /\ DOMAIN Cleared(TimerMap) = DOMAIN TimerMap
      BY <1>0, ClearedSound
    <3>2. Covers(callgraph, 0, Cleared(TimerMap))
      BY <1>0, <3>1, LenProperties DEF Covers
    <3>3. BeginWith(Cleared(TimerMap), 0, Global, later) /\ UNCHANGED <<finalized, timer_finalize>>
      BY <2>4 DEF Reset
    <3>4. /\ Sound(TimerMap', later)
          /\ Covers(callgraph', num_begins', TimerMap')
      BY <1>0, <2>1, <3>1, <3>2, <3>3, BeginCovers DEF Names
    <3> QED BY <1>0, <3>3, <3>4
  <2>5. ASSUME Finalize(later) PROVE Good
    BY <1>0, <2>1, <2>5, EndCovers DEF Finalize, EndTimer, Names
  <2>6. Good
    <3>1. CASE Summarize(later)
      BY <2>5, <3>1 DEF Summarize
    <3> QED BY <1>3, <2>2, <2>3, <2>4, <2>5, <3>1 DEF Call
  <2> HIDE DEF later
  <2> QED BY <2>1, <2>6 DEF TInv, TypeOK, CallgraphCovers, Sound, Covers
<1> QED BY <1>1, <1>2, <1>3 DEF Next

\* Types, stamps that are not ahead of the clock, and times that are not
\* negative, in every reachable state of the timer.
THEOREM TimerTypes == Spec => []TypeOK
<1>1. TInv => TypeOK
  BY DEF TInv
<1> QED BY <1>1, InitTInv, NextTInv, PTL DEF Spec

\* Whatever Begin, End, Reset, Init, Finalize and Summarize calls are made,
\* matched or not, BeginTimer and EndTimer never read the top of an empty
\* callgraph nor look up a timer that is not in TimerMap.
THEOREM CallgraphNeverEmpty == Spec => []CallgraphCovers
<1>1. TInv => CallgraphCovers
  BY DEF TInv
<1> QED BY <1>1, InitTInv, NextTInv, PTL DEF Spec

-----------------------------------------------------------------------------
(* The account beside the timer adds history only.                          *)

LEMMA UseStep == [NextUse]_useVars => [Next]_vars
<1> SUFFICES ASSUME [NextUse]_useVars PROVE [Next]_vars
  OBVIOUS
<1>1. CASE UNCHANGED useVars
  BY <1>1 DEF useVars, vars
<1>2. CASE TickUse
  BY <1>2 DEF TickUse, Next
<1>3. ASSUME NEW d \in 0 .. MaxDelay, UseCall(d) PROVE Next
  <2>1. now + d <= MaxTime /\ now' = now + d /\ Call(now + d)
    BY <1>3 DEF UseCall, Call
  <2> QED BY <2>1 DEF Next
<1> QED BY <1>1, <1>2, <1>3 DEF NextUse

\* The timer under the account is the timer: what is proved of Spec holds in
\* the runs of SpecUse.
THEOREM UseIsTimer == SpecUse => Spec
<1>1. InitUse => Init
  BY DEF InitUse
<1> QED BY <1>1, UseStep, PTL DEF SpecUse, Spec

-----------------------------------------------------------------------------
(* One timer and its account.                                               *)

\* Data of a timer that has not been begun.
NoData ==
  [timings |-> 0, stamp |-> -1, timings_inc |-> 0, stamp_inc |-> -1,
   accumulated |-> 0, count |-> 0]

Record(map, id) == IF id \in DOMAIN map THEN map[id] ELSE NoData

\* Where a timer is in the nest.
How(id, nest) ==
  IF \A i \in 1 .. Len(nest) : nest[i] # id THEN "closed"
  ELSE IF Top(nest) = id THEN "inner" ELSE "outer"

Near(x, c, s) == x - c <= s /\ c - x <= s

\* At time t the data r of a timer agree with its account: charged c, slack
\* s, spanned sp, began be, complete co.
Matches(r, how, t, c, s, sp, be, co) ==
  /\ r.timings_inc = sp /\ r.count = co
  /\ how = "closed" => r.stamp = -1 /\ Near(r.timings, c, s)
  /\ how # "closed" => r.stamp > 0 /\ r.stamp_inc = be /\ be <= t
  /\ how = "outer" => Near(r.timings + r.accumulated, c, s)
  /\ how = "inner" => Near(r.timings + r.accumulated + t - r.stamp, c, s)

\* PauseTimer and ResumeTimer on the data of one timer.
PausedData(r, t) == [r EXCEPT !.accumulated = @ + Increment(t, r.stamp)]
ResumedData(r, t) == [r EXCEPT !.stamp = t]

LEMMA RecordType ==
  ASSUME NEW map, NEW t, Sound(map, t), NEW id
  PROVE  Record(map, id) \in Data
BY DEF Sound, Record, NoData, Data

\* Time passes for a timer that is not innermost.
LEMMA MatchesLater ==
  ASSUME NEW r \in Data, NEW how \in {"closed", "outer"}, NEW t \in Int, NEW u \in Int,
         t <= u, NEW c, NEW s, NEW sp, NEW be \in Int, NEW co,
         Matches(r, how, t, c, s, sp, be, co)
  PROVE  Matches(r, how, u, c, s, sp, be, co)
BY DEF Matches, Data

\* The innermost timer is charged what passes.
LEMMA MatchesTick ==
  ASSUME NEW r \in Data, NEW t \in Int, NEW c \in Int, NEW s \in Int, NEW sp,
         NEW be \in Int, NEW co, Matches(r, "inner", t, c, s, sp, be, co)
  PROVE  Matches(r, "inner", t + 1, c + 1, s, sp, be, co)
BY DEF Matches, Data, Near

\* BeginTimer of a closed timer.
LEMMA MatchesRestart ==
  ASSUME NEW r \in Data, NEW t \in Nat \ {0}, NEW d \in Nat, NEW c \in Int, NEW s \in Int,
         NEW sp, NEW be \in Int, NEW co, Matches(r, "closed", t, c, s, sp, be, co)
  PROVE  Matches(Restarted(r, t), "inner", t + d, c + d, s, sp, t, co)
BY DEF Matches, Data, Near, Restarted

\* PauseTimer of the innermost timer.
LEMMA MatchesPause ==
  ASSUME NEW r \in Data, NEW t \in Nat, NEW d \in Nat, NEW c \in Int, NEW s \in Int,
         NEW sp, NEW be \in Int, NEW co, Matches(r, "inner", t, c, s, sp, be, co)
  PROVE  Matches(PausedData(r, t + d), "outer", t + d, c, s + d, sp, be, co)
BY DEF Matches, Data, Near, Increment, PausedData

\* EndTimer of the innermost timer.
LEMMA MatchesStop ==
  ASSUME NEW r \in Data, NEW t \in Nat, NEW d \in Nat, NEW c \in Int, NEW s \in Int,
         NEW sp \in Int, NEW be \in Int, NEW co \in Int,
         Matches(r, "inner", t, c, s, sp, be, co)
  PROVE  Matches(Stopped(r, t), "closed", t + d, c, s, sp + t - be, be, co + 1)
BY DEF Matches, Data, Near, Increment, Stopped

\* ResumeTimer of the timer that is innermost then.
LEMMA MatchesResume ==
  ASSUME NEW r \in Data, NEW t \in Nat \ {0}, NEW d \in Nat, NEW c \in Int, NEW s \in Int,
         NEW sp, NEW be \in Int, NEW co, Matches(r, "outer", t, c, s, sp, be, co)
  PROVE  Matches(ResumedData(r, t + d), "inner", t + d, c + d, s + d, sp, be, co)
BY DEF Matches, Data, Near, ResumedData

\* Reset's loop, for a closed timer.
LEMMA MatchesZero ==
  ASSUME NEW r \in Data, NEW t, NEW u, NEW c, NEW s, NEW sp, NEW be, NEW co,
         Matches(r, "closed", t, c, s, sp, be, co)
  PROVE  Matches(Zeroed(r), "closed", u, 0, 0, 0, be, 0)
BY DEF Matches, Data, Near, Zeroed

-----------------------------------------------------------------------------
(* The nest of open timers.                                                 *)

Distinct(nest) == \A i, j \in 1 .. Len(nest) : i # j => nest[i] # nest[j]

\* A timer is begun.
LEMMA HowBegun ==
  ASSUME NEW nest \in Seq(Ids), Distinct(nest), NEW id \in Ids, How(id, nest) = "closed"
  PROVE  /\ Append(nest, id) \in Seq(Ids) /\ Distinct(Append(nest, id))
         /\ How(id, Append(nest, id)) = "inner"
         /\ \A x \in Ids \ {id} : How(x, Append(nest, id))
                = IF How(x, nest) = "closed" THEN "closed" ELSE "outer"
<1> DEFINE more == Append(nest, id)
<1>1. /\ more \in Seq(Ids) /\ Len(more) = Len(nest) + 1 /\ Len(nest) \in Nat
      /\ \A i \in 1 .. Len(nest) : more[i] = nest[i]
      /\ more[Len(nest) + 1] = id
  BY AppendProperties, LenProperties
<1>2. \A i \in 1 .. Len(nest) : nest[i] # id
  BY DEF How
<1> HIDE DEF more
<1>3. Distinct(more)
  BY <1>1, <1>2 DEF Distinct
<1>4. How(id, more) = "inner"
  BY <1>1 DEF How, Top
<1>5. ASSUME NEW x \in Ids \ {id}
      PROVE  How(x, more) = IF How(x, nest) = "closed" THEN "closed" ELSE "outer"
  BY <1>1 DEF How, Top
<1> QED BY <1>1, <1>3, <1>4, <1>5 DEF more

LEMMA OuterElements ==
  ASSUME NEW T, NEW nest \in Seq(T), nest # << >>
  PROVE  /\ Len(nest) \in Nat \ {0} /\ Outer(nest) \in Seq(T) /\ Outer(nest) = Popped(nest)
         /\ Len(Outer(nest)) = Len(nest) - 1
         /\ \A i \in 1 .. Len(nest) - 1 : Outer(nest)[i] = nest[i]
<1>1. /\ Len(nest) \in Nat /\ Len(nest) # 0
      /\ \A i \in 1 .. Len(nest) : nest[i] \in T
  BY EmptySeq, LenProperties, ElementOfSeq
<1>2. Outer(nest) = SubSeq(nest, 1, Len(nest) - 1) /\ Popped(nest) = Outer(nest)
  BY DEF Outer, Popped
<1>3. \A i \in 1 .. Len(nest) - 1 : nest[i] \in T
  BY <1>1
<1>4. /\ SubSeq(nest, 1, Len(nest) - 1) \in Seq(T)
      /\ Len(SubSeq(nest, 1, Len(nest) - 1))
           = (IF 1 <= Len(nest) - 1 THEN Len(nest) - 1 - 1 + 1 ELSE 0)
      /\ \A i \in 1 .. Len(nest) - 1 - 1 + 1 :
           SubSeq(nest, 1, Len(nest) - 1)[i] = nest[1 + i - 1]
  <2>1. Len(nest) - 1 \in Int
    BY <1>1
  <2> QED BY <1>3, <2>1, SubSeqProperties
<1>5. \A k \in Nat : k # 0 => k - 1 = IF 1 <= k - 1 THEN k - 1 - 1 + 1 ELSE 0
  OBVIOUS
<1>6. ASSUME NEW i \in 1 .. Len(nest) - 1 PROVE Outer(nest)[i] = nest[i]
  <2>1. i \in 1 .. Len(nest) - 1 - 1 + 1 /\ 1 + i - 1 = i
    BY <1>1
  <2> QED BY <1>2, <1>4, <2>1
<1>7. Len(Outer(nest)) = Len(nest) - 1
  BY <1>1, <1>2, <1>4, <1>5
<1>8. Outer(nest) \in Seq(T)
  BY <1>2, <1>4
<1> QED BY <1>1, <1>2, <1>6, <1>7, <1>8

\* The innermost timer is ended.
LEMMA HowEnded ==
  ASSUME NEW nest \in Seq(Ids), nest # << >>, Distinct(nest)
  PROVE  /\ Distinct(Outer(nest)) /\ How(Top(nest), nest) = "inner"
         /\ How(Top(nest), Outer(nest)) = "closed"
         /\ \A x \in Ids \ {Top(nest)} :
              IF Outer(nest) # << >> /\ x = Top(Outer(nest))
              THEN How(x, nest) = "outer" /\ How(x, Outer(nest)) = "inner"
              ELSE How(x, Outer(nest)) = How(x, nest) /\ How(x, nest) # "inner"
<1> DEFINE less == Outer(nest)
<1>1. /\ Len(nest) \in Nat \ {0} /\ less \in Seq(Ids) /\ Len(less) = Len(nest) - 1
      /\ \A i \in 1 .. Len(nest) - 1 : less[i] = nest[i]
  BY OuterElements
<1>2. less = << >> <=> Len(nest) = 1
  BY <1>1, EmptySeq
<1> HIDE DEF less
<1>3. Distinct(less)
  BY <1>1 DEF Distinct
<1>4. How(Top(nest), nest) = "inner" /\ How(Top(nest), less) = "closed"
  BY <1>1 DEF Distinct, How, Top
<1>5. ASSUME NEW x \in Ids \ {Top(nest)}
      PROVE  IF less # << >> /\ x = Top(less)
             THEN How(x, nest) = "outer" /\ How(x, less) = "inner"
             ELSE How(x, less) = How(x, nest) /\ How(x, nest) # "inner"
  <2>1. CASE less # << >> /\ x = Top(less)
    <3>1. /\ Len(less) \in 1 .. Len(less) /\ Len(less) \in 1 .. Len(nest)
          /\ x = less[Len(less)] /\ x = nest[Len(less)]
      BY <1>1, <1>2, <2>1 DEF Top
    <3> QED BY <1>1, <2>1, <3>1 DEF How, Top
  <2>2. CASE ~ (less # << >> /\ x = Top(less))
    <3>1. less # << >> => less[Len(less)] # x
      BY <2>2 DEF Top
    <3>2. nest[Len(nest)] # x
      BY DEF Top
    <3>3. (\A i \in 1 .. Len(nest) : nest[i] # x) <=> (\A i \in 1 .. Len(less) : less[i] # x)
      BY <1>1, <3>2
    <3>4. less = << >> => \A i \in 1 .. Len(less) : less[i] # x
      <4>1. less = << >> => Len(less) = 0
        BY <1>1, <1>2
      <4> QED BY <4>1
    <3>5. How(x, nest) = IF \A i \in 1 .. Len(nest) : nest[i] # x THEN "closed" ELSE "outer"
      BY <3>2 DEF How, Top
    <3>6. How(x, less) = IF \A i \in 1 .. Len(less) : less[i] # x THEN "closed" ELSE "outer"
      BY <3>1, <3>4 DEF How, Top
    <3> QED BY <2>2, <3>3, <3>5, <3>6
  <2> QED BY <2>1, <2>2
<1> QED BY <1>3, <1>4, <1>5 DEF less

-----------------------------------------------------------------------------
(* The data map again, one timer at a time.                                 *)

LEMMA RecordBegun ==
  ASSUME NEW map, NEW id, NEW t, NEW x
  PROVE  Record(Begun(map, id, t), x)
           = IF x = id THEN Restarted(Record(map, id), t) ELSE Record(map, x)
<1>1. /\ DOMAIN Begun(map, id, t) = DOMAIN map \cup {id}
      /\ \A y \in DOMAIN map \cup {id} : Begun(map, id, t)[y]
           = IF y # id THEN map[y]
             ELSE IF id \in DOMAIN map THEN Restarted(map[id], t) ELSE FreshData(t)
  BY DEF Begun
<1>2. Restarted(NoData, t) = FreshData(t)
  BY DEF Restarted, NoData, FreshData
<1> QED BY <1>1, <1>2 DEF Record

LEMMA RecordPaused ==
  ASSUME NEW map, NEW t, NEW u, Sound(map, u), NEW id \in DOMAIN map, NEW x
  PROVE  Record(Paused(map, id, t), x)
           = IF x = id THEN PausedData(map[id], t) ELSE Record(map, x)
BY DEF Paused, Record, Sound, PausedData

LEMMA RecordResumed ==
  ASSUME NEW map, NEW t, NEW u, Sound(map, u), NEW id \in DOMAIN map, NEW x
  PROVE  Record(Resumed(map, id, t), x)
           = IF x = id THEN ResumedData(map[id], t) ELSE Record(map, x)
BY DEF Resumed, Record, Sound, ResumedData

LEMMA RecordEnded ==
  ASSUME NEW map, NEW t, NEW u, Sound(map, u), NEW id \in DOMAIN map, NEW x
  PROVE  Record(Ended(map, id, t), x)
           = IF x = id THEN Stopped(map[id], t) ELSE Record(map, x)
BY DEF Ended, Record, Sound

LEMMA RecordCleared ==
  ASSUME NEW map, NEW x
  PROVE  Record(Cleared(map), x) = Zeroed(Record(map, x))
BY DEF Cleared, Record, Zeroed, NoData

-----------------------------------------------------------------------------
(* The inductive invariant of the timer beside the account.                 *)

AccountTypes ==
  /\ open \in Seq(Ids) /\ start \in 1 .. now /\ total \in Nat
  /\ charged \in [Ids -> Nat] /\ slack \in [Ids -> Nat] /\ spanned \in [Ids -> Nat]
  /\ began \in [Ids -> Nat] /\ complete \in [Ids -> Nat]

\* The callgraph is the nest of open timers on the global one, and
\* num_begins counts them; all of it is gone after Finalize.
Nested ==
  /\ Distinct(open)
  /\ \A i \in 1 .. Len(open) : open[i] \in DOMAIN TimerMap /\ open[i] \notin HighByteIds
  /\ running => /\ num_begins = Len(open) + 1 /\ Len(callgraph) = Len(open) + 1
                /\ \A i \in 1 .. Len(open) : callgraph[i + 1] = open[i]
  /\ ~ running => open = << >> /\ num_begins = 0 /\ callgraph = << >>

\* The global timer runs since the last Reset without a pause, and Finalize
\* takes its time and a later reading of the clock.
Measured ==
  /\ running => /\ TimerMap[Global].stamp = start /\ TimerMap[Global].timings = 0
                /\ TimerMap[Global].accumulated = 0
                /\ ~ again => timer_finalize = -1
  /\ ~ running => /\ TimerMap[Global].stamp = -1 /\ TimerMap[Global].timings = total
                  /\ timer_finalize - total - start \in 0 .. MaxDelay

Accounted ==
  \A id \in Ids : Matches(Record(TimerMap, id), How(id, open), now, charged[id], slack[id],
                          spanned[id], began[id], complete[id])

Kept == Nested /\ Measured /\ Accounted

UseInv == AccountTypes /\ (proper => Kept)

\* What BeginTimer, EndTimer and Resets find.
LEMMA NestTop ==
  ASSUME TInv, AccountTypes, Nested, open # << >>
  PROVE  /\ Top(open) \in Ids /\ Top(open) \in DOMAIN TimerMap
         /\ Top(open) \notin HighByteIds /\ running
         /\ How(Top(open), open) = "inner" /\ Top(callgraph) = Top(open)
         /\ Len(open) \in Nat \ {0}
<1>1. Len(open) \in Nat /\ Len(open) # 0 /\ \A i \in 1 .. Len(open) : open[i] \in Ids
  BY EmptySeq, LenProperties, ElementOfSeq DEF AccountTypes
<1>2. running
  BY DEF Nested
<1>3. How(Top(open), open) = "inner"
  BY <1>1 DEF How, Top
<1>4. Top(callgraph) = Top(open)
  BY <1>1, <1>2 DEF Nested, Top
<1> QED BY <1>1, <1>2, <1>3, <1>4 DEF Nested, Top

LEMMA NotOpenIsClosed == \A id : IsOpen(id) <=> How(id, open) # "closed"
BY DEF IsOpen, How

-----------------------------------------------------------------------------
(* One lemma for each proper call.                                          *)

LEMMA BeginKept ==
  ASSUME NEW id \in Ids, NEW d \in 0 .. MaxDelay, TInv, TInv', AccountTypes, Kept,
         now' = now + d, BeginTimer(id, now + d),
         running, ~ IsOpen(id), id \notin HighByteIds, AccountBegin(id, d)
  PROVE  AccountTypes' /\ Kept'
<1> DEFINE before == IF open # << >> THEN Paused(TimerMap, Top(open), now + d) ELSE TimerMap
<1>0. /\ now \in Nat \ {0} /\ d \in Nat /\ now + d \in Nat /\ Sound(TimerMap, now)
      /\ Global \notin Ids /\ Global \in DOMAIN TimerMap /\ Global \in DOMAIN TimerMap'
      /\ open \in Seq(Ids) /\ Len(open) \in Nat
      /\ Sound(TimerMap', now')
  <2>1. Sound(TimerMap, now) /\ now \in 1 .. MaxTime
    BY TInvParts
  <2>2. Sound(TimerMap', now')
    BY DEF TInv, TypeOK, Sound
  <2>3. open \in Seq(Ids) /\ Len(open) \in Nat
    BY LenProperties DEF AccountTypes
  <2> QED BY <2>1, <2>2, <2>3, TimerAssumption DEF Sound
<1>1. /\ num_begins' = Len(open) + 2
      /\ callgraph' = Append(callgraph, id)
      /\ TimerMap' = Begun(before, id, now)
      /\ UNCHANGED <<finalized, timer_finalize>>
  <2>1. num_begins = Len(open) + 1 /\ Len(callgraph) = Len(open) + 1
    BY DEF Kept, Nested
  <2>2. MustPush(num_begins + 1, callgraph)
    BY <1>0, <2>1 DEF MustPush
  <2>3. num_begins + 1 > 2 <=> open # << >>
    <3>1. open = << >> <=> Len(open) = 0
      BY <1>0, EmptySeq
    <3> QED BY <1>0, <2>1, <3>1
  <2>4. open # << >> => Top(callgraph) = Top(open)
    BY NestTop DEF Kept
  <2>5. /\ TimerMap' = Begun(IF num_begins + 1 > 2
                             THEN Paused(TimerMap, Top(callgraph), now + d) ELSE TimerMap,
                             id, now)
        /\ num_begins' = num_begins + 1
        /\ callgraph' = IF MustPush(num_begins + 1, callgraph)
                        THEN Append(callgraph, id) ELSE callgraph
        /\ UNCHANGED <<finalized, timer_finalize>>
    BY DEF BeginTimer, BeginWith
  <2>6. TimerMap' = Begun(before, id, now)
    BY <2>3, <2>4, <2>5
  <2> HIDE DEF before
  <2>7. num_begins' = Len(open) + 2
    BY <1>0, <2>1, <2>5
  <2> QED BY <2>2, <2>5, <2>6, <2>7
<1>2. \A x : Record(before, x) =
        IF open # << >> /\ x = Top(open)
        THEN PausedData(TimerMap[Top(open)], now + d)
        ELSE Record(TimerMap, x)
  <2>1. CASE open # << >>
    <3>1. before = Paused(TimerMap, Top(open), now + d)
      BY <2>1
    <3>2. Top(open) \in DOMAIN TimerMap
      BY <2>1, NestTop DEF Kept
    <3> HIDE DEF before
    <3> QED BY <1>0, <2>1, <3>1, <3>2, RecordPaused
  <2>2. CASE open = << >>
    BY <2>2
  <2> QED BY <2>1, <2>2
<1> HIDE DEF before
<1>3. \A x : Record(TimerMap', x) =
        IF x = id THEN Restarted(Record(before, id), now) ELSE Record(before, x)
  BY <1>1, RecordBegun
<1>4. How(id, open) = "closed" /\ (open # << >> => id # Top(open))
  <2>1. How(id, open) = "closed"
    BY NotOpenIsClosed
  <2>2. open # << >> => How(Top(open), open) = "inner"
    BY NestTop DEF Kept
  <2> QED BY <2>1, <2>2
<1>5. /\ open' = Append(open, id) /\ charged' = [charged EXCEPT ![id] = @ + d]
      /\ slack' = Charge(slack, open, d) /\ began' = [began EXCEPT ![id] = now]
      /\ UNCHANGED <<running, start, total, again, spanned, complete>>
  BY DEF AccountBegin
<1>6. /\ open' \in Seq(Ids) /\ Distinct(open') /\ How(id, open') = "inner"
      /\ \A x \in Ids \ {id} :
           How(x, open') = IF How(x, open) = "closed" THEN "closed" ELSE "outer"
  BY <1>0, <1>4, <1>5, HowBegun DEF Kept, Nested
<1>7. /\ charged \in [Ids -> Nat] /\ slack \in [Ids -> Nat] /\ spanned \in [Ids -> Nat]
      /\ began \in [Ids -> Nat] /\ complete \in [Ids -> Nat]
  BY DEF AccountTypes
<1>8. slack' \in [Ids -> Nat]
      /\ \A x \in Ids : slack'[x] = IF open # << >> /\ x = Top(open) THEN slack[x] + d ELSE slack[x]
  <2>1. CASE open # << >>
    <3>1. Top(open) \in Ids
      BY <2>1, NestTop DEF Kept
    <3>2. slack' = [slack EXCEPT ![Top(open)] = slack[Top(open)] + d]
      BY <1>5, <2>1 DEF Charge
    <3>3. slack[Top(open)] + d \in Nat
      BY <1>0, <1>7, <3>1
    <3>4. /\ slack' \in [Ids -> Nat]
          /\ \A x \in Ids : slack'[x] = IF x = Top(open) THEN slack[x] + d ELSE slack[x]
      BY <1>7, <3>1, <3>2, <3>3
    <3> QED BY <2>1, <3>4
  <2>2. CASE open = << >>
    BY <1>5, <1>7, <2>2 DEF Charge
  <2> QED BY <2>1, <2>2
<1>9. AccountTypes'
  <2>1. start' \in 1 .. now' /\ total' \in Nat
    BY <1>0, <1>5 DEF AccountTypes
  <2> QED BY <1>0, <1>5, <1>6, <1>7, <1>8, <2>1 DEF AccountTypes
<1>10. Nested'
  <2>1. /\ callgraph' \in Seq(Names) /\ Len(callgraph') = Len(callgraph) + 1
        /\ \A i \in 1 .. Len(callgraph) : callgraph'[i] = callgraph[i]
        /\ callgraph'[Len(callgraph) + 1] = id
    <3>1. callgraph \in Seq(Names) /\ id \in Names
      BY DEF TInv, TypeOK, Names
    <3> QED BY <1>1, <3>1, AppendProperties
  <2>2. /\ Len(open') = Len(open) + 1
        /\ \A i \in 1 .. Len(open) : open'[i] = open[i]
        /\ open'[Len(open) + 1] = id
    BY <1>0, <1>5, AppendProperties
  <2>3. DOMAIN TimerMap' = DOMAIN TimerMap \cup {id}
    BY <1>1 DEF Begun, before, Paused
  <2>4. Len(callgraph) = Len(open) + 1 /\ \A i \in 1 .. Len(open) : callgraph[i + 1] = open[i]
    BY DEF Kept, Nested
  <2>5. \A i \in 1 .. Len(open') : open'[i] \in DOMAIN TimerMap' /\ open'[i] \notin HighByteIds
    BY <1>0, <2>2, <2>3 DEF Kept, Nested
  <2>6. /\ num_begins' = Len(open') + 1 /\ Len(callgraph') = Len(open') + 1
        /\ \A i \in 1 .. Len(open') : callgraph'[i + 1] = open'[i]
    BY <1>0, <1>1, <2>1, <2>2, <2>4
  <2> QED BY <1>5, <1>6, <2>5, <2>6 DEF Nested
<1>11. Measured'
  <2>1. Record(TimerMap', Global) = Record(TimerMap, Global)
    <3>1. Global # id /\ (open # << >> => Global # Top(open))
      BY <1>0, NestTop DEF Kept
    <3> QED BY <1>2, <1>3, <3>1
  <2>2. TimerMap'[Global] = TimerMap[Global]
    BY <1>0, <2>1 DEF Record
  <2> QED BY <1>1, <1>5, <2>2 DEF Kept, Measured
<1>12. ASSUME NEW x \in Ids
       PROVE  Matches(Record(TimerMap', x), How(x, open'), now', charged'[x], slack'[x],
                      spanned'[x], began'[x], complete'[x])
  <2> DEFINE r == Record(TimerMap, x)
  <2>1. /\ r \in Data /\ charged[x] \in Nat /\ slack[x] \in Nat /\ spanned[x] \in Nat
        /\ began[x] \in Nat /\ complete[x] \in Nat
    BY <1>0, <1>7, RecordType
  <2>2. Matches(r, How(x, open), now, charged[x], slack[x], spanned[x], began[x], complete[x])
    BY DEF Kept, Accounted
  <2>3. CASE x = id
    <3>1. /\ Record(TimerMap', x) = Restarted(r, now) /\ How(x, open') = "inner"
          /\ charged'[x] = charged[x] + d /\ slack'[x] = slack[x] /\ spanned'[x] = spanned[x]
          /\ began'[x] = now /\ complete'[x] = complete[x]
      BY <1>2, <1>3, <1>4, <1>5, <1>6, <1>7, <1>8, <2>3
    <3>2. Matches(Restarted(r, now), "inner", now + d, charged[x] + d, slack[x],
                  spanned[x], now, complete[x])
      <4> HIDE DEF r
      <4>1. Matches(r, "closed", now, charged[x], slack[x], spanned[x], began[x], complete[x])
        BY <1>4, <2>2, <2>3
      <4>2. /\ now \in Nat \ {0} /\ d \in Nat /\ charged[x] \in Int /\ slack[x] \in Int
            /\ began[x] \in Int
        BY <1>0, <2>1
      <4> QED BY <2>1, <4>1, <4>2, MatchesRestart
    <3> QED BY <3>1, <3>2
  <2>4. CASE x # id /\ open # << >> /\ x = Top(open)
    <3>1. How(x, open) = "inner" /\ x \in DOMAIN TimerMap
      BY <2>4, NestTop DEF Kept
    <3>2. Record(TimerMap', x) = PausedData(r, now + d)
      BY <1>2, <1>3, <2>4, <3>1 DEF Record
    <3>3. /\ How(x, open') = "outer" /\ charged'[x] = charged[x] /\ slack'[x] = slack[x] + d
          /\ spanned'[x] = spanned[x] /\ began'[x] = began[x] /\ complete'[x] = complete[x]
      BY <1>5, <1>6, <1>7, <1>8, <2>4, <3>1
    <3>4. Matches(PausedData(r, now + d), "outer", now + d, charged[x], slack[x] + d,
                  spanned[x], began[x], complete[x])
      <4> HIDE DEF r
      <4>1. Matches(r, "inner", now, charged[x], slack[x], spanned[x], began[x], complete[x])
        BY <2>2, <3>1
      <4>2. /\ now \in Nat /\ d \in Nat /\ charged[x] \in Int /\ slack[x] \in Int
            /\ began[x] \in Int
        BY <1>0, <2>1
      <4> QED BY <2>1, <4>1, <4>2, MatchesPause
    <3> QED BY <3>2, <3>3, <3>4
  <2>5. CASE x # id /\ ~ (open # << >> /\ x = Top(open))
    <3>1. How(x, open) \in {"closed", "outer"} /\ How(x, open') = How(x, open)
      <4>1. How(x, open) \in {"closed", "outer"}
        <5>1. CASE open = << >>
          BY <5>1 DEF How
        <5>2. CASE open # << >>
          BY <2>5, <5>2 DEF How
        <5> QED BY <5>1, <5>2
      <4> QED BY <1>6, <2>5, <4>1
    <3>2. /\ Record(TimerMap', x) = r
          /\ charged'[x] = charged[x] /\ slack'[x] = slack[x]
          /\ spanned'[x] = spanned[x] /\ began'[x] = began[x] /\ complete'[x] = complete[x]
      BY <1>2, <1>3, <1>5, <1>7, <1>8, <2>5
    <3>3. Matches(r, How(x, open), now + d, charged[x], slack[x], spanned[x], began[x],
                  complete[x])
      <4> HIDE DEF r
      <4>1. now \in Int /\ now + d \in Int /\ now <= now + d /\ began[x] \in Int
        BY <1>0, <2>1
      <4> QED BY <2>1, <2>2, <3>1, <4>1, MatchesLater
    <3> QED BY <3>1, <3>2, <3>3
  <2> QED BY <2>3, <2>4, <2>5
<1> QED BY <1>9, <1>10, <1>11, <1>12 DEF Kept, Accounted

LEMMA EndKept ==
  ASSUME NEW id \in Ids, NEW d \in 0 .. MaxDelay, TInv, TInv', AccountTypes, Kept,
         now' = now + d, EndTimer(id, now + d),
         open # << >>, Top(open) = id, AccountEnd(id, d)
  PROVE  AccountTypes' /\ Kept'
<1> DEFINE after == Ended(TimerMap, id, now)
           outer == Outer(open)
<1>0. /\ now \in Nat \ {0} /\ d \in Nat /\ now + d \in Nat /\ Sound(TimerMap, now)
      /\ Global \notin Ids /\ Global \in DOMAIN TimerMap /\ Global \in DOMAIN TimerMap'
      /\ open \in Seq(Ids) /\ callgraph \in Seq(Names)
      /\ Sound(TimerMap', now')
  <2>1. Sound(TimerMap, now) /\ now \in 1 .. MaxTime /\ callgraph \in Seq(Names)
    BY TInvParts DEF Covers
  <2>2. Sound(TimerMap', now')
    BY DEF TInv, TypeOK, Sound
  <2>3. open \in Seq(Ids)
    BY DEF AccountTypes
  <2>4. Global \in DOMAIN TimerMap /\ Global \in DOMAIN TimerMap'
    BY <2>1, <2>2 DEF Sound
  <2> QED BY <2>1, <2>2, <2>3, <2>4, TimerAssumption
<1>1. /\ id \in DOMAIN TimerMap /\ id \notin HighByteIds /\ running
      /\ How(id, open) = "inner" /\ Len(open) \in Nat \ {0}
  BY NestTop DEF Kept
<1>2. /\ outer \in Seq(Ids) /\ Len(outer) = Len(open) - 1
      /\ \A i \in 1 .. Len(open) - 1 : outer[i] = open[i]
      /\ (outer = << >> <=> Len(open) = 1)
  <2>1. /\ outer \in Seq(Ids) /\ Len(outer) = Len(open) - 1
        /\ \A i \in 1 .. Len(open) - 1 : outer[i] = open[i]
    BY <1>0, OuterElements
  <2> HIDE DEF outer
  <2>2. outer = << >> <=> Len(outer) = 0
    BY <2>1, EmptySeq
  <2> QED BY <1>1, <2>1, <2>2
<1>3. /\ num_begins = Len(open) + 1 /\ Len(callgraph) = Len(open) + 1
      /\ \A i \in 1 .. Len(open) : callgraph[i + 1] = open[i]
  BY <1>1 DEF Kept, Nested
<1>4. /\ Popped(callgraph) \in Seq(Names) /\ Len(Popped(callgraph)) = Len(open)
      /\ \A i \in 1 .. Len(open) : Popped(callgraph)[i] = callgraph[i]
  <2>1. callgraph # << >>
    BY <1>0, <1>1, <1>3, EmptySeq
  <2>2. /\ Outer(callgraph) \in Seq(Names) /\ Outer(callgraph) = Popped(callgraph)
        /\ Len(Outer(callgraph)) = Len(callgraph) - 1
        /\ \A i \in 1 .. Len(callgraph) - 1 : Outer(callgraph)[i] = callgraph[i]
    BY <1>0, <2>1, OuterElements
  <2>3. Len(callgraph) - 1 = Len(open)
    BY <1>1, <1>3
  <2> QED BY <2>2, <2>3
<1>5. outer # << >> => Top(Popped(callgraph)) = Top(outer) /\ Top(outer) \in Ids
                       /\ Top(outer) \in DOMAIN TimerMap /\ Top(outer) # id
  <2> HIDE DEF outer
  <2> SUFFICES ASSUME outer # << >>
               PROVE  Top(Popped(callgraph)) = Top(outer) /\ Top(outer) \in Ids
                      /\ Top(outer) \in DOMAIN TimerMap /\ Top(outer) # id
    OBVIOUS
  <2>1. Len(open) - 1 \in 1 .. Len(open) /\ Len(open) - 1 \in 1 .. Len(open) - 1
        /\ Len(open) \in 1 .. Len(open) /\ Len(open) - 1 # Len(open)
    BY <1>1, <1>2
  <2>2. Top(outer) = open[Len(open) - 1]
    BY <1>2, <2>1 DEF Top
  <2>3. Top(Popped(callgraph)) = callgraph[Len(open)]
    BY <1>4, <2>1 DEF Top
  <2>4. callgraph[Len(open)] = open[Len(open) - 1]
    <3>1. callgraph[(Len(open) - 1) + 1] = open[Len(open) - 1]
      BY <1>3, <2>1
    <3>2. (Len(open) - 1) + 1 = Len(open)
      BY <1>1
    <3> QED BY <3>1, <3>2
  <2>5. open[Len(open) - 1] \in Ids
    BY <1>0, <2>1, ElementOfSeq
  <2>6. open[Len(open) - 1] \in DOMAIN TimerMap /\ open[Len(open) - 1] # open[Len(open)]
    BY <2>1 DEF Kept, Nested, Distinct
  <2> QED BY <2>2, <2>3, <2>4, <2>5, <2>6 DEF Top
<1>6. /\ num_begins' = Len(open) /\ callgraph' = Popped(callgraph)
      /\ TimerMap' = IF outer # << >> THEN Resumed(after, Top(outer), now + d) ELSE after
      /\ timer_finalize' = timer_finalize
  <2>1. EndKnown(id, now + d) /\ timer_finalize' = timer_finalize
    <3>1. Endable(id)
      BY <1>1 DEF Endable
    <3>2. id # Global
      BY <1>0
    <3> QED BY <3>1, <3>2 DEF EndTimer, EndRefused
  <2>2. /\ callgraph' = Popped(callgraph) /\ num_begins' = num_begins - 1
        /\ TimerMap' = IF num_begins > 2 THEN Resumed(after, Top(Popped(callgraph)), now + d)
                       ELSE after
    BY <2>1 DEF EndKnown
  <2> HIDE DEF outer, after
  <2>3. num_begins > 2 <=> outer # << >>
    BY <1>1, <1>2, <1>3
  <2>4. num_begins' = Len(open)
    BY <1>1, <1>3, <2>2
  <2> QED BY <1>5, <2>1, <2>2, <2>3, <2>4
<1>7. /\ Sound(after, now) /\ DOMAIN after = DOMAIN TimerMap
      /\ \A x : Record(after, x) =
           IF x = id THEN Stopped(Record(TimerMap, id), now) ELSE Record(TimerMap, x)
  <2>1. Sound(after, now) /\ DOMAIN after = DOMAIN TimerMap
    BY <1>0, <1>1, EndedSound
  <2>2. \A x : Record(after, x) =
           IF x = id THEN Stopped(TimerMap[id], now) ELSE Record(TimerMap, x)
    BY <1>0, <1>1, RecordEnded
  <2>3. Record(TimerMap, id) = TimerMap[id]
    BY <1>1 DEF Record
  <2> QED BY <2>1, <2>2, <2>3
<1> HIDE DEF after, outer
<1>8. /\ DOMAIN TimerMap' = DOMAIN TimerMap
      /\ \A x : Record(TimerMap', x) =
           IF x = id THEN Stopped(Record(TimerMap, id), now)
           ELSE IF outer # << >> /\ x = Top(outer)
                THEN ResumedData(Record(TimerMap, x), now + d)
           ELSE Record(TimerMap, x)
  <2>1. CASE outer # << >>
    <3>1. TimerMap' = Resumed(after, Top(outer), now + d) /\ Top(outer) \in DOMAIN after
      BY <1>5, <1>6, <1>7, <2>1
    <3>2. \A x : Record(TimerMap', x) =
            IF x = Top(outer) THEN ResumedData(after[Top(outer)], now + d) ELSE Record(after, x)
      BY <1>7, <3>1, RecordResumed
    <3>3. after[Top(outer)] = Record(TimerMap, Top(outer))
      <4>1. Record(after, Top(outer)) = Record(TimerMap, Top(outer))
        BY <1>5, <1>7, <2>1
      <4> QED BY <3>1, <4>1 DEF Record
    <3>4. DOMAIN TimerMap' = DOMAIN TimerMap
      BY <1>7, <3>1 DEF Resumed
    <3> QED BY <1>5, <1>7, <2>1, <3>2, <3>3, <3>4
  <2>2. CASE outer = << >>
    <3>1. TimerMap' = after
      BY <1>6, <2>2
    <3> QED BY <1>7, <2>2, <3>1
  <2> QED BY <2>1, <2>2
<1>9. /\ open' = outer /\ charged' = Charge(charged, outer, d)
      /\ slack' = Charge(slack, outer, d)
      /\ spanned' = [spanned EXCEPT ![id] = @ + now - began[id]]
      /\ complete' = [complete EXCEPT ![id] = @ + 1]
      /\ UNCHANGED <<running, start, total, again, began>>
  BY DEF AccountEnd, outer
<1>10. /\ charged \in [Ids -> Nat] /\ slack \in [Ids -> Nat] /\ spanned \in [Ids -> Nat]
       /\ began \in [Ids -> Nat] /\ complete \in [Ids -> Nat]
  BY DEF AccountTypes
<1>11. ASSUME NEW f \in [Ids -> Nat]
       PROVE  /\ Charge(f, outer, d) \in [Ids -> Nat]
              /\ \A x \in Ids : Charge(f, outer, d)[x] =
                   IF outer # << >> /\ x = Top(outer) THEN f[x] + d ELSE f[x]
  <2>1. CASE outer # << >>
    <3>1. Top(outer) \in Ids
      BY <1>5, <2>1
    <3>2. Charge(f, outer, d) = [f EXCEPT ![Top(outer)] = f[Top(outer)] + d]
      BY <2>1 DEF Charge
    <3>3. f[Top(outer)] + d \in Nat
      BY <1>0, <3>1
    <3>4. /\ Charge(f, outer, d) \in [Ids -> Nat]
          /\ \A x \in Ids : Charge(f, outer, d)[x] = IF x = Top(outer) THEN f[x] + d ELSE f[x]
      BY <3>1, <3>2, <3>3
    <3> QED BY <2>1, <3>4
  <2>2. CASE outer = << >>
    BY <2>2 DEF Charge
  <2> QED BY <2>1, <2>2
<1>12. /\ charged' \in [Ids -> Nat] /\ slack' \in [Ids -> Nat]
       /\ \A x \in Ids :
            /\ charged'[x] = IF outer # << >> /\ x = Top(outer) THEN charged[x] + d ELSE charged[x]
            /\ slack'[x] = IF outer # << >> /\ x = Top(outer) THEN slack[x] + d ELSE slack[x]
  BY <1>9, <1>10, <1>11
<1>13. /\ Distinct(outer) /\ How(id, outer) = "closed"
       /\ \A x \in Ids \ {id} :
            IF outer # << >> /\ x = Top(outer)
            THEN How(x, open) = "outer" /\ How(x, outer) = "inner"
            ELSE How(x, outer) = How(x, open) /\ How(x, open) # "inner"
  BY <1>0, HowEnded DEF Kept, Nested, outer
<1>14. spanned[id] + now - began[id] \in Nat /\ complete[id] + 1 \in Nat
  <2>1. Matches(Record(TimerMap, id), "inner", now, charged[id], slack[id], spanned[id],
                began[id], complete[id])
    BY <1>1 DEF Kept, Accounted
  <2>2. began[id] <= now
    BY <2>1 DEF Matches
  <2>3. began[id] \in Nat /\ spanned[id] \in Nat /\ complete[id] \in Nat
    BY <1>10
  <2> QED BY <1>0, <2>2, <2>3
<1>15. /\ spanned' \in [Ids -> Nat] /\ complete' \in [Ids -> Nat]
       /\ \A x \in Ids :
            /\ spanned'[x] = IF x = id THEN spanned[id] + now - began[id] ELSE spanned[x]
            /\ complete'[x] = IF x = id THEN complete[id] + 1 ELSE complete[x]
  BY <1>9, <1>10, <1>14
<1>16. AccountTypes'
  <2>1. start' \in 1 .. now' /\ total' \in Nat
    BY <1>0, <1>9 DEF AccountTypes
  <2> QED BY <1>2, <1>9, <1>10, <1>12, <1>15, <2>1 DEF AccountTypes
<1>17. Nested'
  <2>1. \A i \in 1 .. Len(outer) : outer[i] \in DOMAIN TimerMap' /\ outer[i] \notin HighByteIds
    BY <1>1, <1>2, <1>8 DEF Kept, Nested
  <2>2. /\ num_begins' = Len(outer) + 1 /\ Len(callgraph') = Len(outer) + 1
        /\ \A i \in 1 .. Len(outer) : callgraph'[i + 1] = outer[i]
    BY <1>1, <1>2, <1>3, <1>4, <1>6
  <2> QED BY <1>1, <1>9, <1>13, <2>1, <2>2 DEF Nested
<1>18. Measured'
  <2>1. Record(TimerMap', Global) = Record(TimerMap, Global)
    BY <1>0, <1>5, <1>8
  <2>2. TimerMap'[Global] = TimerMap[Global]
    BY <1>0, <2>1 DEF Record
  <2> QED BY <1>1, <1>6, <1>9, <2>2 DEF Kept, Measured
<1>19. ASSUME NEW x \in Ids
       PROVE  Matches(Record(TimerMap', x), How(x, open'), now', charged'[x], slack'[x],
                      spanned'[x], began'[x], complete'[x])
  <2> DEFINE r == Record(TimerMap, x)
  <2>1. /\ r \in Data /\ charged[x] \in Int /\ slack[x] \in Int /\ spanned[x] \in Int
        /\ began[x] \in Int /\ complete[x] \in Int
    <3>1. r \in Data
      BY <1>0, RecordType
    <3> QED BY <1>10, <3>1
  <2>2. Matches(r, How(x, open), now, charged[x], slack[x], spanned[x], began[x], complete[x])
    BY DEF Kept, Accounted
  <2>3. CASE x = id
    <3>1. /\ Record(TimerMap', x) = Stopped(r, now) /\ How(x, open') = "closed"
          /\ charged'[x] = charged[x] /\ slack'[x] = slack[x]
          /\ spanned'[x] = spanned[x] + now - began[x] /\ began'[x] = began[x]
          /\ complete'[x] = complete[x] + 1
      BY <1>5, <1>8, <1>9, <1>12, <1>13, <1>15, <2>3
    <3>2. Matches(r, "inner", now, charged[x], slack[x], spanned[x], began[x], complete[x])
      BY <1>1, <2>2, <2>3
    <3> HIDE DEF r
    <3>3. Matches(Stopped(r, now), "closed", now + d, charged[x], slack[x],
                  spanned[x] + now - began[x], began[x], complete[x] + 1)
      <4>1. now \in Nat /\ d \in Nat
        BY <1>0
      <4> QED BY <2>1, <3>2, <4>1, MatchesStop
    <3> QED BY <3>1, <3>3
  <2>4. CASE x # id /\ outer # << >> /\ x = Top(outer)
    <3>1. /\ Record(TimerMap', x) = ResumedData(r, now + d)
          /\ How(x, open) = "outer" /\ How(x, open') = "inner"
          /\ charged'[x] = charged[x] + d /\ slack'[x] = slack[x] + d
          /\ spanned'[x] = spanned[x] /\ began'[x] = began[x] /\ complete'[x] = complete[x]
      BY <1>8, <1>9, <1>12, <1>13, <1>15, <2>4
    <3> HIDE DEF r
    <3>2. Matches(ResumedData(r, now + d), "inner", now + d, charged[x] + d, slack[x] + d,
                  spanned[x], began[x], complete[x])
      <4>1. now \in Nat \ {0} /\ d \in Nat
        BY <1>0
      <4>2. Matches(r, "outer", now, charged[x], slack[x], spanned[x], began[x], complete[x])
        BY <2>2, <3>1
      <4> QED BY <2>1, <4>1, <4>2, MatchesResume
    <3> QED BY <3>1, <3>2
  <2>5. CASE x # id /\ ~ (outer # << >> /\ x = Top(outer))
    <3>1. /\ Record(TimerMap', x) = r
          /\ How(x, open') = How(x, open) /\ How(x, open) # "inner"
          /\ charged'[x] = charged[x] /\ slack'[x] = slack[x]
          /\ spanned'[x] = spanned[x] /\ began'[x] = began[x] /\ complete'[x] = complete[x]
      BY <1>8, <1>9, <1>12, <1>13, <1>15, <2>5
    <3>2. How(x, open) \in {"closed", "outer"}
      BY <3>1 DEF How
    <3> HIDE DEF r
    <3>3. Matches(r, How(x, open), now + d, charged[x], slack[x], spanned[x], began[x],
                  complete[x])
      <4>1. now \in Int /\ now + d \in Int /\ now <= now + d
        BY <1>0
      <4> QED BY <2>1, <2>2, <3>2, <4>1, MatchesLater
    <3> QED BY <3>1, <3>3
  <2> QED BY <2>3, <2>4, <2>5
<1> QED BY <1>16, <1>17, <1>18, <1>19 DEF Kept, Accounted

LEMMA ResetKept ==
  ASSUME NEW d \in 0 .. MaxDelay, TInv, TInv', AccountTypes, Kept,
         now' = now + d, Reset(now + d), open = << >>, AccountReset
  PROVE  AccountTypes' /\ Kept'
<1>0. /\ now \in Nat \ {0} /\ d \in Nat /\ now + d \in Nat /\ now' = now + d
      /\ Sound(TimerMap, now)
      /\ Global \notin Ids /\ Global \in DOMAIN TimerMap /\ callgraph \in Seq(Names)
  <2>1. Sound(TimerMap, now) /\ now \in 1 .. MaxTime /\ callgraph \in Seq(Names)
    BY TInvParts DEF Covers
  <2>2. Global \in DOMAIN TimerMap
    BY <2>1 DEF Sound
  <2> QED BY <2>1, <2>2, TimerAssumption
<1>1. /\ TimerMap' = Begun(Cleared(TimerMap), Global, now) /\ num_begins' = 1
      /\ callgraph' = IF MustPush(1, callgraph) THEN Append(callgraph, Global) ELSE callgraph
      /\ timer_finalize' = timer_finalize
  <2>1. 0 + 1 = 1 /\ ~ (1 > 2)
    OBVIOUS
  <2> QED BY <2>1 DEF Reset, BeginWith
<1>2. Len(callgraph') = 1
  <2>1. CASE running
    <3>1. Len(open) = 0 /\ Len(callgraph) = Len(open) + 1
      BY <2>1 DEF Kept, Nested
    <3>2. ~ MustPush(1, callgraph)
      BY <3>1 DEF MustPush
    <3> QED BY <1>1, <3>1, <3>2
  <2>2. CASE ~ running
    <3>1. callgraph = << >>
      BY <2>2 DEF Kept, Nested
    <3>2. MustPush(1, callgraph)
      BY <3>1 DEF MustPush
    <3> QED BY <1>1, <3>1, <3>2
  <2> QED BY <2>1, <2>2
<1>3. \A x : Record(TimerMap', x) =
        IF x = Global THEN Restarted(Zeroed(Record(TimerMap, Global)), now)
        ELSE Zeroed(Record(TimerMap, x))
  BY <1>1, RecordBegun, RecordCleared
<1>4. /\ open' = << >> /\ began' = began /\ running' /\ start' = now /\ total' = 0
      /\ charged' = Zeros /\ slack' = Zeros /\ spanned' = Zeros /\ complete' = Zeros
      /\ (again' <=> again \/ ~ running)
  BY DEF AccountReset
<1>5. Zeros \in [Ids -> Nat] /\ \A x \in Ids : Zeros[x] = 0
  BY DEF Zeros
<1>6. AccountTypes'
  <2>1. open' \in Seq(Ids) /\ began' \in [Ids -> Nat]
    BY <1>4 DEF AccountTypes
  <2>2. start' \in 1 .. now' /\ total' \in Nat
    BY <1>0, <1>4
  <2> QED BY <1>4, <1>5, <2>1, <2>2 DEF AccountTypes
<1>7. Nested'
  <2>1. Len(open') = 0
    BY <1>4
  <2> QED BY <1>1, <1>2, <1>4, <2>1 DEF Nested, Distinct
<1>8. Measured'
  <2>1. Record(TimerMap', Global) = TimerMap'[Global]
    BY <1>1 DEF Record, Begun
  <2>2. /\ TimerMap'[Global].stamp = now /\ TimerMap'[Global].timings = 0
        /\ TimerMap'[Global].accumulated = 0
    BY <1>3, <2>1 DEF Restarted, Zeroed
  <2>3. ~ again' => timer_finalize' = -1
    BY <1>1, <1>4 DEF Kept, Measured
  <2> QED BY <1>4, <2>2, <2>3 DEF Measured
<1>9. ASSUME NEW x \in Ids
      PROVE  Matches(Record(TimerMap', x), How(x, open'), now', charged'[x], slack'[x],
                     spanned'[x], began'[x], complete'[x])
  <2>1. How(x, << >>) = "closed"
    BY DEF How
  <2>2. Matches(Record(TimerMap, x), "closed", now, charged[x], slack[x], spanned[x],
                began[x], complete[x])
    BY <2>1 DEF Kept, Accounted
  <2>3. Record(TimerMap, x) \in Data
    BY <1>0, RecordType
  <2>4. Matches(Zeroed(Record(TimerMap, x)), "closed", now', 0, 0, 0, began[x], 0)
    BY <2>2, <2>3, MatchesZero
  <2>5. Record(TimerMap', x) = Zeroed(Record(TimerMap, x))
    BY <1>0, <1>3
  <2> QED BY <1>4, <1>5, <2>1, <2>4, <2>5
<1> QED BY <1>6, <1>7, <1>8, <1>9 DEF Kept, Accounted

LEMMA FinalizeKept ==
  ASSUME NEW d \in 0 .. MaxDelay, TInv, TInv', AccountTypes, Kept,
         now' = now + d, Finalize(now + d), running, open = << >>, AccountFinalize
  PROVE  AccountTypes' /\ Kept'
<1>0. /\ now \in Nat \ {0} /\ d \in Nat /\ now + d \in Nat /\ now' = now + d
      /\ Sound(TimerMap, now)
      /\ Global \notin Ids /\ Global \in DOMAIN TimerMap /\ callgraph \in Seq(Names)
      /\ start \in 1 .. now
  <2>1. Sound(TimerMap, now) /\ now \in 1 .. MaxTime /\ callgraph \in Seq(Names)
    BY TInvParts DEF Covers
  <2>2. Global \in DOMAIN TimerMap
    BY <2>1 DEF Sound
  <2>3. start \in 1 .. now
    BY DEF AccountTypes
  <2> QED BY <2>1, <2>2, <2>3, TimerAssumption
<1>1. Len(open) = 0 /\ num_begins = 1 /\ Len(callgraph) = 1
  <2>1. Len(open) = 0
    OBVIOUS
  <2>2. num_begins = Len(open) + 1 /\ Len(callgraph) = Len(open) + 1
    BY DEF Kept, Nested
  <2> QED BY <2>1, <2>2
<1>2. /\ TimerMap' = Ended(TimerMap, Global, now) /\ num_begins' = 0
      /\ callgraph' = Popped(callgraph) /\ timer_finalize' = now + d
  <2>1. Endable(Global)
    BY <1>0, TimerAssumption DEF Endable
  <2>2. EndKnown(Global, now + d) /\ timer_finalize' = now + d
    BY <2>1 DEF Finalize, EndTimer, EndRefused
  <2>3. ~ (num_begins > 2) /\ num_begins - 1 = 0
    BY <1>1
  <2> QED BY <2>2, <2>3 DEF EndKnown
<1>3. callgraph' = << >>
  <2>1. callgraph # << >>
    BY <1>1
  <2>2. /\ Outer(callgraph) \in Seq(Names) /\ Outer(callgraph) = Popped(callgraph)
        /\ Len(Outer(callgraph)) = Len(callgraph) - 1
    BY <1>0, <2>1, OuterElements
  <2>3. Len(Outer(callgraph)) = 0
    BY <1>1, <2>2
  <2> QED BY <1>2, <2>2, <2>3, EmptySeq
<1>4. \A x : Record(TimerMap', x) =
        IF x = Global THEN Stopped(TimerMap[Global], now) ELSE Record(TimerMap, x)
  BY <1>0, <1>2, RecordEnded
<1>5. /\ ~ running' /\ total' = now - start
      /\ UNCHANGED <<open, start, again, charged, slack, spanned, began, complete>>
  BY DEF AccountFinalize
<1>6. AccountTypes'
  <2>1. start' \in 1 .. now' /\ total' \in Nat
    BY <1>0, <1>5
  <2> QED BY <1>5, <2>1 DEF AccountTypes
<1>7. Nested'
  <2>1. Len(open') = 0 /\ open' = << >>
    BY <1>1, <1>5
  <2> QED BY <1>2, <1>3, <1>5, <2>1 DEF Nested, Distinct
<1>8. Measured'
  <2>1. Global \in DOMAIN TimerMap'
    BY <1>0, <1>2 DEF Ended
  <2>2. TimerMap'[Global] = Stopped(TimerMap[Global], now)
    BY <1>4, <2>1 DEF Record
  <2>3. /\ TimerMap[Global].stamp = start /\ TimerMap[Global].timings = 0
        /\ TimerMap[Global].accumulated = 0
    BY DEF Kept, Measured
  <2>4. 0 + (now - start) + 0 = now - start /\ now + d - (now - start) - start = d
    BY <1>0
  <2>5. TimerMap'[Global].stamp = -1 /\ TimerMap'[Global].timings = now - start
    BY <2>2, <2>3, <2>4 DEF Stopped, Increment
  <2>6. timer_finalize' - total' - start' \in 0 .. MaxDelay
    <3>1. timer_finalize' = now + d /\ total' = now - start /\ start' = start
      BY <1>2, <1>5
    <3>2. timer_finalize' - total' - start' = d
      BY <1>0, <3>1
    <3> QED BY <3>2
  <2> QED BY <1>5, <2>5, <2>6 DEF Measured
<1>9. ASSUME NEW x \in Ids
      PROVE  Matches(Record(TimerMap', x), How(x, open'), now', charged'[x], slack'[x],
                     spanned'[x], began'[x], complete'[x])
  <2>1. How(x, open) = "closed"
    BY DEF How
  <2>2. Matches(Record(TimerMap, x), "closed", now, charged[x], slack[x], spanned[x],
                began[x], complete[x])
    BY <2>1 DEF Kept, Accounted
  <2>3. Record(TimerMap', x) = Record(TimerMap, x)
    BY <1>0, <1>4
  <2>4. Matches(Record(TimerMap, x), "closed", now', charged[x], slack[x], spanned[x],
                began[x], complete[x])
    BY <2>2 DEF Matches
  <2> QED BY <1>5, <2>1, <2>3, <2>4
<1> QED BY <1>6, <1>7, <1>8, <1>9 DEF Kept, Accounted

LEMMA TickKept ==
  ASSUME TInv, AccountTypes, Kept, Tick, charged' = Charge(charged, open, 1),
         UNCHANGED <<open, running, start, total, again, slack, spanned, began, complete>>
  PROVE  AccountTypes' /\ Kept'
<1>0. /\ now \in Nat \ {0} /\ now' = now + 1 /\ Sound(TimerMap, now)
      /\ UNCHANGED <<TimerMap, callgraph, num_begins, timer_finalize>>
      /\ charged \in [Ids -> Nat]
  <2>1. now \in 1 .. MaxTime /\ Sound(TimerMap, now)
    BY TInvParts
  <2>2. charged \in [Ids -> Nat]
    BY DEF AccountTypes
  <2> QED BY <2>1, <2>2, TimerAssumption DEF Tick
<1>1. /\ charged' \in [Ids -> Nat]
      /\ \A x \in Ids : charged'[x] = IF open # << >> /\ x = Top(open) THEN charged[x] + 1
                                      ELSE charged[x]
  <2>1. CASE open # << >>
    <3>1. Top(open) \in Ids
      BY <2>1, NestTop DEF Kept
    <3>2. charged' = [charged EXCEPT ![Top(open)] = charged[Top(open)] + 1]
      BY <2>1 DEF Charge
    <3>3. /\ charged' \in [Ids -> Nat]
          /\ \A x \in Ids : charged'[x] = IF x = Top(open) THEN charged[x] + 1 ELSE charged[x]
      BY <1>0, <3>1, <3>2
    <3> QED BY <2>1, <3>3
  <2>2. CASE open = << >>
    BY <1>0, <2>2 DEF Charge
  <2> QED BY <2>1, <2>2
<1>2. AccountTypes'
  <2>1. start' \in 1 .. now'
    BY <1>0 DEF AccountTypes
  <2> QED BY <1>1, <2>1 DEF AccountTypes
<1>3. Nested' /\ Measured'
  BY <1>0 DEF Kept, Nested, Measured
<1>4. ASSUME NEW x \in Ids
      PROVE  Matches(Record(TimerMap', x), How(x, open'), now', charged'[x], slack'[x],
                     spanned'[x], began'[x], complete'[x])
  <2> DEFINE r == Record(TimerMap, x)
  <2>1. r \in Data /\ charged[x] \in Int /\ slack[x] \in Int /\ began[x] \in Int
    <3>1. r \in Data
      BY <1>0, RecordType
    <3> QED BY <3>1 DEF AccountTypes
  <2>2. Matches(r, How(x, open), now, charged[x], slack[x], spanned[x], began[x], complete[x])
    BY DEF Kept, Accounted
  <2>3. /\ Record(TimerMap', x) = r /\ How(x, open') = How(x, open)
        /\ slack'[x] = slack[x] /\ spanned'[x] = spanned[x] /\ began'[x] = began[x]
        /\ complete'[x] = complete[x]
    BY <1>0
  <2> HIDE DEF r
  <2>4. CASE open # << >> /\ x = Top(open)
    <3>1. How(x, open) = "inner"
      BY <2>4, NestTop DEF Kept
    <3>2. Matches(r, "inner", now + 1, charged[x] + 1, slack[x], spanned[x], began[x],
                  complete[x])
      BY <1>0, <2>1, <2>2, <3>1, MatchesTick
    <3> QED BY <1>0, <1>1, <2>3, <2>4, <3>1, <3>2
  <2>5. CASE ~ (open # << >> /\ x = Top(open))
    <3>1. How(x, open) \in {"closed", "outer"}
      <4>1. CASE open = << >>
        BY <4>1 DEF How
      <4>2. CASE open # << >>
        BY <2>5, <4>2 DEF How
      <4> QED BY <4>1, <4>2
    <3>2. Matches(r, How(x, open), now + 1, charged[x], slack[x], spanned[x], began[x],
                  complete[x])
      <4>1. now \in Int /\ now + 1 \in Int /\ now <= now + 1
        BY <1>0
      <4> QED BY <2>1, <2>2, <3>1, <4>1, MatchesLater
    <3> QED BY <1>0, <1>1, <2>3, <2>5, <3>2
  <2> QED BY <2>4, <2>5
<1> QED BY <1>2, <1>3, <1>4 DEF Kept, Accounted

-----------------------------------------------------------------------------
(* The account agrees with the timer in every state.                        *)

LEMMA InitUseInv == InitUse => TInv /\ UseInv
<1> SUFFICES ASSUME InitUse PROVE TInv /\ UseInv
  OBVIOUS
<1>1. TInv
  BY InitTInv DEF InitUse
<1>2. AccountTypes
  BY DEF InitUse, Init, AccountTypes, Zeros
<1>3. Nested
  BY DEF InitUse, Init, Nested, Distinct
<1>4. Measured
  BY DEF InitUse, Init, Measured, FreshData
<1>5. Accounted
  <2> SUFFICES ASSUME NEW id \in Ids
               PROVE  Matches(Record(TimerMap, id), How(id, open), now, charged[id], slack[id],
                              spanned[id], began[id], complete[id])
    BY DEF Accounted
  <2>1. Record(TimerMap, id) = NoData
    BY TimerAssumption DEF InitUse, Init, Record
  <2>2. How(id, open) = "closed"
    BY DEF InitUse, How
  <2>3. charged[id] = 0 /\ slack[id] = 0 /\ spanned[id] = 0 /\ complete[id] = 0
    BY DEF InitUse, Zeros
  <2>4. Matches(NoData, "closed", now, 0, 0, 0, began[id], 0)
    BY DEF Matches, NoData, Near
  <2> QED BY <2>1, <2>2, <2>3, <2>4
<1> QED BY <1>1, <1>2, <1>3, <1>4, <1>5 DEF UseInv, Kept

\* A call: the account is kept if the call is proper, or it does not matter.
LEMMA CallKept ==
  ASSUME NEW d \in 0 .. MaxDelay, TInv, TInv', UseInv, UseCall(d)
  PROVE  UseInv'
<1>0. now' = now + d /\ now \in Nat /\ d \in Nat
  BY TimerAssumption DEF UseCall, TInv, TypeOK
<1> DEFINE Idle == UNCHANGED account
<1>1. AccountTypes
  BY DEF UseInv
<1>2. ASSUME Idle PROVE AccountTypes'
  <2>1. start' \in 1 .. now'
    BY <1>0, <1>1, <1>2 DEF account, AccountTypes
  <2> QED BY <1>1, <1>2, <2>1 DEF account, AccountTypes
<1>3. ASSUME NEW id \in Ids, BeginTimer(id, now + d),
             Keeps(running /\ ~ IsOpen(id) /\ id \notin HighByteIds, AccountBegin(id, d))
      PROVE  UseInv'
  <2>1. CASE proper /\ running /\ ~ IsOpen(id) /\ id \notin HighByteIds
    <3>1. AccountBegin(id, d)
      BY <1>3, <2>1 DEF Keeps
    <3> QED BY <1>0, <1>1, <1>3, <2>1, <3>1, BeginKept DEF UseInv
  <2>2. CASE ~ (proper /\ running /\ ~ IsOpen(id) /\ id \notin HighByteIds)
    BY <1>2, <1>3, <2>2 DEF Keeps, UseInv
  <2> QED BY <2>1, <2>2
<1>4. ASSUME NEW id \in Ids, EndUserTimer(id, now + d),
             Keeps(open # << >> /\ Top(open) = id, AccountEnd(id, d))
      PROVE  UseInv'
  <2>1. CASE proper /\ open # << >> /\ Top(open) = id
    <3>1. AccountEnd(id, d) /\ EndTimer(id, now + d)
      BY <1>4, <2>1 DEF Keeps, EndUserTimer
    <3> QED BY <1>0, <1>1, <2>1, <3>1, EndKept DEF UseInv
  <2>2. CASE ~ (proper /\ open # << >> /\ Top(open) = id)
    BY <1>2, <1>4, <2>2 DEF Keeps, UseInv
  <2> QED BY <2>1, <2>2
<1>5. ASSUME Reset(now + d), Keeps(open = << >>, AccountReset) PROVE UseInv'
  <2>1. CASE proper /\ open = << >>
    <3>1. AccountReset
      BY <1>5, <2>1 DEF Keeps
    <3> QED BY <1>0, <1>1, <1>5, <2>1, <3>1, ResetKept DEF UseInv
  <2>2. CASE ~ (proper /\ open = << >>)
    BY <1>2, <1>5, <2>2 DEF Keeps, UseInv
  <2> QED BY <2>1, <2>2
<1>6. ASSUME Finalize(now + d), Keeps(running /\ open = << >>, AccountFinalize) PROVE UseInv'
  <2>1. CASE proper /\ running /\ open = << >>
    <3>1. AccountFinalize
      BY <1>6, <2>1 DEF Keeps
    <3> QED BY <1>0, <1>1, <1>6, <2>1, <3>1, FinalizeKept DEF UseInv
  <2>2. CASE ~ (proper /\ running /\ open = << >>)
    BY <1>2, <1>6, <2>2 DEF Keeps, UseInv
  <2> QED BY <2>1, <2>2
<1>7. CASE Summarize(now + d) /\ Keeps(running /\ open = << >>, AccountFinalize)
  BY <1>6, <1>7 DEF Summarize
<1> QED BY <1>3, <1>4, <1>5, <1>6, <1>7 DEF UseCall

LEMMA NextUseInv == TInv /\ UseInv /\ [NextUse]_useVars => TInv' /\ UseInv'
<1> SUFFICES ASSUME TInv, UseInv, [NextUse]_useVars PROVE TInv' /\ UseInv'
  OBVIOUS
<1>0. TInv'
  BY UseStep, NextTInv
<1>1. CASE UNCHANGED useVars
  <2>1. UNCHANGED <<now, TimerMap, callgraph, num_begins, finalized, timer_finalize>>
    BY <1>1 DEF useVars, vars
  <2>2. UNCHANGED <<open, running, start, total, again, charged, slack, spanned, began,
                    complete, proper>>
    BY <1>1 DEF useVars, account
  <2>3. AccountTypes'
    BY <2>1, <2>2 DEF UseInv, AccountTypes
  <2>4. proper' => Kept'
    BY <2>1, <2>2 DEF UseInv, Kept, Nested, Measured, Accounted
  <2> QED BY <1>0, <2>3, <2>4 DEF UseInv
<1>2. CASE TickUse
  <2>1. AccountTypes
    BY DEF UseInv
  <2>2. CASE proper
    BY <1>0, <1>2, <2>1, <2>2, TickKept DEF TickUse, UseInv
  <2>3. CASE ~ proper
    <3>1. /\ now' = now + 1 /\ now \in Nat /\ ~ proper'
          /\ UNCHANGED <<open, start, total, charged, slack, spanned, began, complete>>
      BY <1>2, <2>3 DEF TickUse, Tick, TInv, TypeOK
    <3>2. start' \in 1 .. now'
      BY <2>1, <3>1 DEF AccountTypes
    <3> QED BY <1>0, <2>1, <3>1, <3>2 DEF UseInv, AccountTypes
  <2> QED BY <2>2, <2>3
<1>3. ASSUME NEW d \in 0 .. MaxDelay, UseCall(d) PROVE TInv' /\ UseInv'
  BY <1>0, <1>3, CallKept
<1> QED BY <1>1, <1>2, <1>3 DEF NextUse

LEMMA UseInvariant == SpecUse => [](TInv /\ UseInv)
BY InitUseInv, NextUseInv, PTL DEF SpecUse

\* After any nesting, resets and restarts a closed timer holds the ticks for
\* which it was innermost, up to those spent inside BeginTimer and EndTimer.
THEOREM ExclusiveTimes == SpecUse => []ExclusiveIsCharged
<1>1. TInv /\ UseInv => ExclusiveIsCharged
  <2> SUFFICES ASSUME TInv, UseInv, proper, NEW id \in Ids, Closed(id)
               PROVE  Abs(Total(id) - charged[id]) <= slack[id]
    BY DEF ExclusiveIsCharged
  <2>1. How(id, open) = "closed"
    BY NotOpenIsClosed DEF Closed
  <2>2. Near(Record(TimerMap, id).timings, charged[id], slack[id])
    BY <2>1 DEF UseInv, Kept, Accounted, Matches
  <2>3. Record(TimerMap, id).timings = Total(id)
    BY DEF Record, Total, NoData
  <2>4. charged[id] \in Int /\ slack[id] \in Int
    BY DEF UseInv, AccountTypes
  <2>5. Total(id) \in Int
    <3>1. Record(TimerMap, id) \in Data
      BY TInvParts, RecordType
    <3> QED BY <2>3, <3>1 DEF Data
  <2> QED BY <2>2, <2>3, <2>4, <2>5 DEF Near, Abs
<1> QED BY <1>1, UseInvariant, PTL

\* The inclusive time of a closed timer is the time between its begins and
\* its ends, and its sample count the number of pairs, since the last Reset.
THEOREM InclusiveTimes == SpecUse => []InclusiveIsSpanned
<1>1. TInv /\ UseInv => InclusiveIsSpanned
  BY DEF InclusiveIsSpanned, UseInv, Kept, Accounted, Matches, Record
<1> QED BY <1>1, UseInvariant, PTL

\* A stamp above zero, the test of ElapsedSeconds, tells the open timers.
THEOREM ActiveTimers == SpecUse => []ActiveIsOpen
<1>1. TInv /\ UseInv => ActiveIsOpen
  <2> SUFFICES ASSUME TInv, UseInv, proper, NEW id \in DOMAIN TimerMap \cap Ids
               PROVE  TimerMap[id].stamp > 0 <=> IsOpen(id)
    BY DEF ActiveIsOpen
  <2>1. Matches(TimerMap[id], How(id, open), now, charged[id], slack[id], spanned[id],
                began[id], complete[id])
    BY DEF UseInv, Kept, Accounted, Record
  <2> QED BY <2>1, NotOpenIsClosed DEF Matches
<1> QED BY <1>1, UseInvariant, PTL

\* ElapsedGlobal goes on counting after Finalize until the next Reset.
THEOREM ElapsedGlobalGoesOn == SpecUse => []ElapsedGlobalCounts
<1>1. TInv /\ UseInv => ElapsedGlobalCounts
  <2> SUFFICES ASSUME TInv, UseInv, proper, ~ again
               PROVE  ElapsedGlobal \in now - start - MaxDelay .. now - start
    BY DEF ElapsedGlobalCounts
  <2>1. /\ now \in Nat /\ start \in Nat \ {0} /\ total \in Nat /\ timer_finalize \in Int
        /\ MaxDelay \in Nat
    BY TimerAssumption DEF TInv, TypeOK, UseInv, AccountTypes
  <2>2. CASE running
    <3>1. TimerMap[Global].stamp = start /\ timer_finalize = -1
      BY <2>2 DEF UseInv, Kept, Measured
    <3>2. ElapsedGlobal = now - start
      BY <2>1, <3>1 DEF ElapsedGlobal
    <3> QED BY <2>1, <3>2
  <2>3. CASE ~ running
    <3>1. /\ TimerMap[Global].stamp = -1 /\ TimerMap[Global].timings = total
          /\ timer_finalize - total - start \in 0 .. MaxDelay
      BY <2>3 DEF UseInv, Kept, Measured
    <3>2. timer_finalize > 0
      BY <2>1, <3>1
    <3>3. ElapsedGlobal = total + (now - timer_finalize)
      BY <2>1, <3>1, <3>2 DEF ElapsedGlobal
    <3> QED BY <2>1, <3>1, <3>3
  <2> QED BY <2>2, <2>3
<1> QED BY <1>1, UseInvariant, PTL

-----------------------------------------------------------------------------
(* The exclusive times together.                                            *)

\* What all timers are charged is not more than the global timer runs.
Budget ==
  proper => SumFunctionOnSet(charged, Ids) <= IF running THEN now - start ELSE total

\* Charge, for a timer that is open or for none.
LEMMA ChargeGrows ==
  ASSUME IsFiniteSet(Ids), NEW f \in [Ids -> Nat], NEW nest, nest # << >> => Top(nest) \in Ids,
         NEW d \in Nat
  PROVE  /\ SumFunctionOnSet(f, Ids) \in Int
         /\ SumFunctionOnSet(Charge(f, nest, d), Ids)
              <= SumFunctionOnSet(f, Ids) + d
         /\ nest = << >> => Charge(f, nest, d) = f
<1>1. \A x \in Ids : f[x] \in Int
  OBVIOUS
<1>2. SumFunctionOnSet(f, Ids) \in Int
  BY <1>1, SumType
<1>3. CASE nest = << >>
  BY <1>2, <1>3 DEF Charge
<1>4. CASE nest # << >>
  <2> DEFINE h == [f EXCEPT ![Top(nest)] = @ + d]
  <2>1. /\ h[Top(nest)] = f[Top(nest)] + d
        /\ \A x \in Ids \ {Top(nest)} : h[x] = f[x]
    BY <1>4
  <2>2. Charge(f, nest, d) = h
    BY <1>4 DEF Charge
  <2> HIDE DEF h
  <2>3. SumFunctionOnSet(h, Ids) = SumFunctionOnSet(f, Ids) + d
    BY <1>1, <1>4, <2>1, SumGrows
  <2> QED BY <1>2, <1>4, <2>2, <2>3
<1> QED BY <1>2, <1>3, <1>4

LEMMA InitBudget ==
  ASSUME IsFiniteSet(Ids), InitUse
  PROVE  Budget
<1>1. \A id \in Ids : charged[id] = 0
  BY DEF InitUse, Zeros
<1>2. SumFunctionOnSet(charged, Ids) = 0
  BY <1>1, SumZero
<1> QED BY <1>2 DEF Budget, InitUse, Init

LEMMA NextBudget ==
  ASSUME IsFiniteSet(Ids), TInv, UseInv, Budget, [NextUse]_useVars
  PROVE  Budget'
<1> SUFFICES ASSUME proper'
             PROVE  SumFunctionOnSet(charged', Ids) <= IF running' THEN now' - start' ELSE total'
  BY DEF Budget
<1>0. /\ AccountTypes /\ charged \in [Ids -> Nat] /\ open \in Seq(Ids)
      /\ now \in Nat /\ start \in 1 .. now /\ total \in Nat
  BY TimerAssumption DEF UseInv, AccountTypes, TInv, TypeOK
<1>1. CASE UNCHANGED useVars
  BY <1>1 DEF useVars, vars, account, Budget
<1>2. ASSUME proper PROVE Nested /\ (open # << >> => Top(open) \in Ids /\ running)
  BY <1>0, <1>2, NestTop DEF UseInv, Kept
<1>3. CASE TickUse
  <2>1. /\ proper /\ now' = now + 1 /\ UNCHANGED <<running, start, total, open>>
        /\ charged' = Charge(charged, open, 1)
    BY <1>3 DEF TickUse, Tick
  <2>2. /\ SumFunctionOnSet(charged, Ids) \in Int
        /\ SumFunctionOnSet(charged', Ids) <= SumFunctionOnSet(charged, Ids) + 1
        /\ open = << >> => charged' = charged
    BY <1>0, <1>2, <2>1, ChargeGrows
  <2>3. SumFunctionOnSet(charged', Ids) \in Int
    <3>1. \A id \in Ids : charged'[id] \in Int
      BY <1>0, <1>2, <2>1 DEF Charge
    <3> QED BY <3>1, SumType
  <2> QED BY <1>0, <1>2, <2>1, <2>2, <2>3 DEF Budget
<1>4. ASSUME NEW d \in 0 .. MaxDelay, UseCall(d)
      PROVE  SumFunctionOnSet(charged', Ids) <= IF running' THEN now' - start' ELSE total'
  <2>1. now' = now + d /\ d \in Nat
    BY <1>4, TimerAssumption DEF UseCall
  <2>2. SumFunctionOnSet(charged, Ids) \in Int
    BY <1>0, SumType
  <2>3. ASSUME NEW id \in Ids,
               Keeps(running /\ ~ IsOpen(id) /\ id \notin HighByteIds, AccountBegin(id, d))
        PROVE  SumFunctionOnSet(charged', Ids) <= IF running' THEN now' - start' ELSE total'
    <3>1. proper /\ running /\ charged' = [charged EXCEPT ![id] = @ + d]
          /\ UNCHANGED <<running, start, total>>
      BY <2>3 DEF Keeps, AccountBegin
    <3>2. /\ charged'[id] = charged[id] + d
          /\ \A x \in Ids \ {id} : charged'[x] = charged[x]
          /\ \A x \in Ids : charged[x] \in Int
      BY <1>0, <3>1
    <3>3. SumFunctionOnSet(charged', Ids) = SumFunctionOnSet(charged, Ids) + d
      BY <2>1, <3>2, SumGrows
    <3> QED BY <1>0, <2>1, <2>2, <3>1, <3>3 DEF Budget
  <2>4. ASSUME NEW id \in Ids, Keeps(open # << >> /\ Top(open) = id, AccountEnd(id, d))
        PROVE  SumFunctionOnSet(charged', Ids) <= IF running' THEN now' - start' ELSE total'
    <3>1. /\ proper /\ open # << >> /\ charged' = Charge(charged, Outer(open), d)
          /\ UNCHANGED <<running, start, total>>
      BY <2>4 DEF Keeps, AccountEnd
    <3>2. running
      BY <1>2, <3>1
    <3>3. Outer(open) # << >> => Top(Outer(open)) \in Ids
      <4>1. Outer(open) \in Seq(Ids)
        BY <1>0, <3>1, OuterElements
      <4> QED BY <4>1, EmptySeq, LenProperties, ElementOfSeq DEF Top
    <3>4. SumFunctionOnSet(charged', Ids) <= SumFunctionOnSet(charged, Ids) + d
      BY <1>0, <2>1, <3>1, <3>3, ChargeGrows
    <3>5. SumFunctionOnSet(charged', Ids) \in Int
      <4>1. \A x \in Ids : charged'[x] \in Int
        BY <1>0, <2>1, <3>1, <3>3 DEF Charge
      <4> QED BY <4>1, SumType
    <3> QED BY <1>0, <2>1, <2>2, <3>1, <3>2, <3>4, <3>5 DEF Budget
  <2>5. CASE Keeps(open = << >>, AccountReset)
    <3>1. running' = TRUE /\ start' = now /\ \A x \in Ids : charged'[x] = 0
      BY <2>5 DEF Keeps, AccountReset, Zeros
    <3>2. SumFunctionOnSet(charged', Ids) = 0
      BY <3>1, SumZero
    <3> QED BY <1>0, <2>1, <3>1, <3>2
  <2>6. CASE Keeps(running /\ open = << >>, AccountFinalize)
    <3>1. /\ proper /\ running /\ running' = FALSE /\ total' = now - start
          /\ charged' = charged
      BY <2>6 DEF Keeps, AccountFinalize
    <3> QED BY <1>0, <3>1 DEF Budget
  <2> QED BY <1>4, <2>3, <2>4, <2>5, <2>6 DEF UseCall
<1> QED BY <1>1, <1>3, <1>4 DEF NextUse

\* The exclusive times of finitely many timers fit into the time of the global
\* timer, up to the slack: the rest that Summarize calls unassigned is not
\* negative.
THEOREM SubtimersFit == ASSUME IsFiniteSet(Ids) PROVE SpecUse => []SubtimersFitTotal
<1>1. InitUse => Budget
  BY InitBudget
<1>2. TInv /\ UseInv /\ Budget /\ [NextUse]_useVars => Budget'
  BY NextBudget
<1>3. TInv /\ UseInv /\ Budget => SubtimersFitTotal
  <2> SUFFICES ASSUME TInv, UseInv, Budget, proper, ~ running
               PROVE  /\ TimerMap[Global].timings = total
                      /\ SumFunctionOnSet([id \in Ids |-> Total(id) - slack[id]], Ids) <= total
    BY DEF SubtimersFitTotal
  <2> DEFINE rest == [id \in Ids |-> Total(id) - slack[id]]
  <2>1. /\ TimerMap[Global].timings = total /\ open = << >> /\ total \in Nat
        /\ charged \in [Ids -> Nat] /\ slack \in [Ids -> Nat]
        /\ SumFunctionOnSet(charged, Ids) <= total
    BY DEF UseInv, Kept, Measured, Nested, AccountTypes, Budget
  <2>2. ASSUME NEW id \in Ids
        PROVE  rest[id] \in Int /\ charged[id] \in Int /\ rest[id] <= charged[id]
    <3>1. How(id, open) = "closed"
      BY <2>1 DEF How
    <3>2. Near(Record(TimerMap, id).timings, charged[id], slack[id])
      BY <3>1 DEF UseInv, Kept, Accounted, Matches
    <3>3. Record(TimerMap, id).timings = Total(id)
      BY DEF Record, Total, NoData
    <3>4. Total(id) \in Int
      <4>1. Record(TimerMap, id) \in Data
        BY TInvParts, RecordType
      <4> QED BY <3>3, <4>1 DEF Data
    <3> QED BY <2>1, <3>2, <3>3, <3>4 DEF Near
  <2> HIDE DEF rest
  <2>3. SumFunctionOnSet(rest, Ids) <= SumFunctionOnSet(charged, Ids)
    BY <2>2, SumMonotone
  <2>4. SumFunctionOnSet(rest, Ids) \in Int /\ SumFunctionOnSet(charged, Ids) \in Int
    BY <2>2, SumType
  <2>5. SumFunctionOnSet(rest, Ids) <= total
    BY <2>1, <2>3, <2>4
  <2> QED BY <2>1, <2>5 DEF rest
<1> QED BY <1>1, <1>2, <1>3, UseInvariant, PTL DEF SpecUse
=============================================================================

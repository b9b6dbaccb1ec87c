------------------------- MODULE OcoreProtocolProofs -------------------------
(***************************************************************************)
(* The safety properties of the message protocol, for any number of work   *)
(* and Ocore tasks, any offsets, any buffering by MPI and any number of    *)
(* calls.                                                                  *)
(***************************************************************************)
EXTENDS OcoreProtocol, SequenceTheorems, WellFoundedInduction, TLAPS

Types == {"OCORE_WRITE_NEW", "OCORE_UPDATE_OLD", "OCORE_READ", "OCORE_EXIT"}
HeaderSet == [type : Types, off : Nat]

InCall == {"header", "data"}
Passed == {"exits", "global_barrier", "done"}    \* beyond the work barrier
Left   == {"global_barrier", "done"}             \* an Ocore task beyond its loop

(* What a work task is doing with an Ocore task, and what that does for it. *)
Sends(w, c)  == pc[w] = "header" /\ call[w].op = "write" /\ rank_map[w][call[w].off] = c
Sent(w, c)   == pc[w] = "data" /\ rank_map[w][call[w].off] = c
Waits(w, c)  == pc[w] = "header" /\ call[w].op \in {"read", "pop"} /\ rank_map[w][call[w].off] = c
Serves(c, w) == poll[c] = "recv_data" /\ serving[c].rank = w

Types_OK ==
  /\ DOMAIN rank_map = Work /\ DOMAIN records = Ocore
  /\ distrib_rank \in [Work -> 0 .. numOcoreTasks_ - 1]
  /\ call \in [Work -> [op : {"none", "write", "read", "pop", "finalize"},
                        off : Nat, data : Data \cup {NoBlock}]]
  /\ pc \in [Work -> {"idle", "header", "data", "work_barrier", "exits", "global_barrier", "done"}]
  /\ result \in [Work -> Data \cup {Zero, NoBlock}]
  /\ calls \in [Work -> Nat]
  /\ headers \in [Work -> [Ocore -> Seq(HeaderSet)]]
  /\ blocks \in [Work -> [Ocore -> Seq(Data)]]
  /\ replies \in [Ocore -> [Work -> Seq(Data)]]
  /\ poll \in [Ocore -> {"poll", "recv_data", "send_reply", "global_barrier", "done"}]
  /\ serving \in [Ocore -> [rank : Work, off : Nat]]

(* A work task owns what it says it owns, and its call fits where it is. *)
Task(w) ==
  /\ DOMAIN rank_map[w] \subseteq Offsets
  /\ \A o \in DOMAIN rank_map[w] : rank_map[w][o] \in Ocore
  /\ calls[w] <= MaxCalls[w]
  /\ pc[w] = "idle" => call[w] = Idle
  /\ pc[w] \in InCall => call[w].op \in {"write", "read", "pop"} /\ call[w].off \in DOMAIN rank_map[w]
  /\ pc[w] \in InCall /\ call[w].op = "write" => call[w].data \in Data
  /\ pc[w] = "data" => call[w].op = "write"

(* The last header alone can be other than a write: the read w waits for, or
   the master's exit. *)
Order(w, c) ==
  \A i \in 1 .. Len(headers[w][c]) :
    LET m == headers[w][c][i]
    IN  \/ IsWrite(m)
        \/ /\ i = Len(headers[w][c])
           /\ \/ m.type = "OCORE_READ" /\ Waits(w, c) /\ m.off = HeaderOffset(call[w].off)
              \/ m.type = "OCORE_EXIT" /\ w = Master /\ c \in exits /\ poll[c] \notin Left

(* Every write header has its block, under way or still to be sent. *)
Matched(w, c) ==
  LET offsets == Len(WritesOf(headers[w][c]))
      waiting == Len(blocks[w][c])
  IN  /\ Serves(c, w) /\ Sends(w, c) => offsets = waiting
      /\ ~ Serves(c, w) /\ ~ Sends(w, c) => offsets = waiting
      /\ Serves(c, w) /\ ~ Sends(w, c) => offsets + 1 = waiting
      /\ ~ Serves(c, w) /\ Sends(w, c) => offsets = waiting + 1

(* A reply is the only one, for a read whose header is gone, and holds the
   record as it still is. *)
Reply(w, c) ==
  replies[c][w] # << >> =>
    /\ Waits(w, c) /\ headers[w][c] = << >> /\ ~ Serves(c, w)
    /\ <<w, HeaderOffset(call[w].off)>> \in DOMAIN records[c]
    /\ replies[c][w] = <<records[c][<<w, HeaderOffset(call[w].off)>>]>>

(* A record in rank_map is with its owner, or on its way there. *)
Known(w, c) ==
  \A o \in DOMAIN rank_map[w] : rank_map[w][o] = c =>
    \/ <<w, HeaderOffset(o)>> \in DOMAIN records[c]
    \/ Serves(c, w) /\ serving[c].off = HeaderOffset(o)
    \/ \E i \in 1 .. Len(headers[w][c]) :
         IsWrite(headers[w][c][i]) /\ headers[w][c][i].off = HeaderOffset(o)

(* What MPI does not buffer is waiting only while its sender waits. *)
Unbuffered(w, c) ==
  /\ "header" \notin eager =>
       \A i \in 1 .. Len(headers[w][c]) : IsWrite(headers[w][c][i]) => Sends(w, c)
  /\ "data" \notin eager => (blocks[w][c] # << >> => Sent(w, c))

Pair(w, c) == Order(w, c) /\ Matched(w, c) /\ Reply(w, c) /\ Known(w, c) /\ Unbuffered(w, c)

(* The teardown happens in order. *)
Teardown ==
  /\ exits \subseteq Ocore
  /\ \A c \in Ocore : poll[c] \in Left => c \in exits
  /\ exits # {} => pc[Master] \in Passed
  /\ (\E w \in Work : pc[w] \in Passed) => \A v \in Work : pc[v] \notin InCall \cup {"idle"}

RecordData == \A c \in Ocore : \A k \in DOMAIN records[c] : records[c][k] \in Data

IInv ==
  /\ Types_OK /\ Teardown /\ RecordData /\ aborted \in BOOLEAN
  /\ \A w \in Work : Task(w)
  /\ \A w \in Work, c \in Ocore : Pair(w, c)

-----------------------------------------------------------------------------
(* Constants, and the sequences of headers.                                 *)

LEMMA Constants ==
  /\ NumWork \in Nat /\ numOcoreTasks_ \in Nat /\ NumWork > 0 /\ numOcoreTasks_ > 0
  /\ Offsets \subseteq Nat /\ NoBlock \notin Data \cup {Zero}
  /\ MaxCalls \in [Work -> Nat]
  /\ Master \in Work /\ Work \subseteq Nat /\ Ocore \subseteq Nat
BY ProtocolAssumption DEF Work, Ocore, Master, startingRank_

LEMMA HeaderOffsetType ==
  ASSUME NEW o \in Nat
  PROVE  HeaderOffset(o) \in Nat
BY ProtocolAssumption DEF HeaderOffset

LEMMA OwnerType ==
  ASSUME NEW n \in 0 .. numOcoreTasks_ - 1
  PROVE  /\ RecordedOwner(n) \in Ocore /\ RecordedOwner(n) = n + startingRank_
         /\ NextDistrib(n) \in 0 .. numOcoreTasks_ - 1
BY ProtocolAssumption DEF RecordedOwner, NextDistrib, Ocore, startingRank_

AllWrites(q) == \A i \in 1 .. Len(q) : IsWrite(q[i])

LEMMA WritesOfAll ==
  ASSUME NEW q \in Seq(HeaderSet), AllWrites(q)
  PROVE  WritesOf(q) = q
BY DEF WritesOf, AllWrites

LEMMA WritesOfType ==
  ASSUME NEW q \in Seq(HeaderSet)
  PROVE  WritesOf(q) \in Seq(HeaderSet)
<1>1. CASE q = << >> \/ IsWrite(q[Len(q)])
  <2>1. WritesOf(q) = q
    BY <1>1 DEF WritesOf
  <2> QED BY <2>1
<1>2. CASE ~ (q = << >> \/ IsWrite(q[Len(q)]))
  <2>1. WritesOf(q) = SubSeq(q, 1, Len(q) - 1)
    BY <1>2 DEF WritesOf
  <2>2. SubSeq(q, 1, Len(q) - 1) \in Seq(HeaderSet)
    BY <1>2
  <2> QED BY <2>1, <2>2, Zenon
<1> QED BY <1>1, <1>2

LEMMA WritesOfAppend ==
  ASSUME NEW q \in Seq(HeaderSet), AllWrites(q), NEW m \in HeaderSet
  PROVE  WritesOf(Append(q, m)) = IF IsWrite(m) THEN Append(q, m) ELSE q
<1> DEFINE r == Append(q, m)
<1>1. r \in Seq(HeaderSet) /\ Len(r) = Len(q) + 1 /\ r[Len(r)] = m /\ r # << >>
  OBVIOUS
<1>2. CASE IsWrite(m)
  BY <1>1, <1>2 DEF WritesOf
<1>3. CASE ~ IsWrite(m)
  <2>1. WritesOf(r) = SubSeq(r, 1, Len(r) - 1)
    BY <1>1, <1>3 DEF WritesOf
  <2>2. SubSeq(r, 1, Len(r) - 1) = q
    BY <1>1
  <2> QED BY <1>3, <2>1, <2>2
<1> QED BY <1>2, <1>3

LEMMA WritesOfTail ==
  ASSUME NEW q \in Seq(HeaderSet), q # << >>, IsWrite(Head(q))
  PROVE  /\ WritesOf(q) \in Seq(HeaderSet) /\ WritesOf(q) # << >>
         /\ Head(WritesOf(q)) = Head(q) /\ WritesOf(Tail(q)) = Tail(WritesOf(q))
<1> DEFINE n == Len(q)
<1>1. n \in Nat /\ n > 0 /\ Head(q) = q[1] /\ Tail(q) \in Seq(HeaderSet) /\ Len(Tail(q)) = n - 1
  OBVIOUS
<1>2. CASE IsWrite(q[n])
  <2>1. WritesOf(q) = q
    BY <1>2 DEF WritesOf
  <2>2. n > 1 => Tail(q)[n - 1] = q[n]
    BY <1>1
  <2>3. WritesOf(Tail(q)) = Tail(q)
    <3>1. CASE n = 1
      <4>1. \A t \in Seq(HeaderSet) : Len(t) = 0 => WritesOf(t) = t
        BY DEF WritesOf
      <4>2. Tail(q) \in Seq(HeaderSet) /\ Len(Tail(q)) = 0
        BY <1>1, <3>1
      <4> QED BY <4>1, <4>2, Zenon
    <3>2. CASE n > 1
      <4>1. IsWrite(Tail(q)[Len(Tail(q))])
        BY <1>1, <1>2, <2>2, <3>2
      <4> QED BY <4>1 DEF WritesOf
    <3> QED BY <1>1, <3>1, <3>2
  <2> QED BY <2>1, <2>3
<1>3. CASE ~ IsWrite(q[n])
  <2>1. n > 1
    BY <1>1, <1>3
  <2>2. WritesOf(q) = SubSeq(q, 1, n - 1)
    BY <1>1, <1>3 DEF WritesOf
  <2>3. Tail(q)[n - 1] = q[n] /\ Tail(q) # << >>
    BY <1>1, <2>1
  <2>4. WritesOf(Tail(q)) = SubSeq(Tail(q), 1, n - 2)
    BY <1>1, <1>3, <2>3 DEF WritesOf
  <2>5. SubSeq(q, 1, n - 1) \in Seq(HeaderSet) /\ Len(SubSeq(q, 1, n - 1)) = n - 1
        /\ \A i \in 1 .. n - 1 : SubSeq(q, 1, n - 1)[i] = q[i]
    BY <1>1, <2>1
  <2>6. SubSeq(Tail(q), 1, n - 2) \in Seq(HeaderSet) /\ Len(SubSeq(Tail(q), 1, n - 2)) = n - 2
        /\ \A i \in 1 .. n - 2 : SubSeq(Tail(q), 1, n - 2)[i] = q[i + 1]
    BY <1>1, <2>1
  <2>7. Tail(SubSeq(q, 1, n - 1)) = SubSeq(Tail(q), 1, n - 2)
    BY <1>1, <2>1, <2>5, <2>6
  <2>8. SubSeq(q, 1, n - 1) # << >> /\ Head(SubSeq(q, 1, n - 1)) = SubSeq(q, 1, n - 1)[1]
    <3>1. \A t \in Seq(HeaderSet) : Len(t) > 0 => t # << >> /\ Head(t) = t[1]
      OBVIOUS
    <3>2. Len(SubSeq(q, 1, n - 1)) > 0
      BY <1>1, <2>1, <2>5
    <3> QED BY <2>5, <3>1, <3>2, Zenon
  <2>9. SubSeq(q, 1, n - 1)[1] = Head(q)
    BY <1>1, <2>1, <2>5
  <2> DEFINE p == SubSeq(q, 1, n - 1)
  <2>10. WritesOf(q) = p /\ p \in Seq(HeaderSet) /\ p # << >> /\ Head(p) = Head(q)
    BY <2>2, <2>5, <2>8, <2>9
  <2>11. WritesOf(Tail(q)) = Tail(p)
    BY <2>4, <2>7
  <2> HIDE DEF p
  <2> QED BY <2>10, <2>11, Zenon
<1> QED BY <1>2, <1>3

(* The least of a set of numbers is one of them. *)
LEMMA LeastIn ==
  ASSUME NEW S \in SUBSET Nat, S # {}
  PROVE  Least(S) \in S
<1> DEFINE R == OpToRel(<, Nat)
<1>1. \A x, y \in Nat : y < x => <<y, x>> \in R
  BY DEF OpToRel
<1> HIDE DEF R
<1>2. IsWellFoundedOn(R, Nat)
  BY NatLessThanWellFounded DEF R
<1>3. PICK x \in S : \A y \in S : ~ (<<y, x>> \in R)
  BY <1>2, WFMin
<1>4. \A y \in S : x <= y
  <2> TAKE y \in S
  <2>1. x \in Nat /\ y \in Nat /\ ~ (y < x)
    BY <1>1, <1>3
  <2> QED BY <2>1
<1> QED BY <1>4 DEF Least

(* A pair that a step leaves alone. *)
LEMMA PairFrame ==
  ASSUME NEW v \in Work, NEW d \in Ocore, Pair(v, d),
         headers'[v][d] = headers[v][d], blocks'[v][d] = blocks[v][d],
         replies'[d][v] = replies[d][v], eager' = eager,
         Sends(v, d)' <=> Sends(v, d), Sent(v, d)' <=> Sent(v, d), Waits(v, d)' <=> Waits(v, d),
         Waits(v, d) => call'[v].off = call[v].off,
         Serves(d, v)' <=> Serves(d, v), Serves(d, v) => serving'[d] = serving[d],
         exits \subseteq exits', poll'[d] \in Left => poll[d] \in Left \/ v # Master,
         \A o \in DOMAIN rank_map'[v] : rank_map'[v][o] = d =>
            o \in DOMAIN rank_map[v] /\ rank_map[v][o] = d,
         \A n : <<v, n>> \in DOMAIN records[d] =>
            <<v, n>> \in DOMAIN records'[d] /\ records'[d][<<v, n>>] = records[d][<<v, n>>]
  PROVE  Pair(v, d)'
<1>1. Order(v, d)'
  BY DEF Pair, Order, Left
<1>2. Matched(v, d)'
  BY DEF Pair, Matched
<1>3. Reply(v, d)'
  BY DEF Pair, Reply
<1>4. Known(v, d)'
  BY DEF Pair, Known
<1>5. Unbuffered(v, d)'
  BY DEF Pair, Unbuffered
<1> QED BY <1>1, <1>2, <1>3, <1>4, <1>5 DEF Pair

(* A pair neither of which moves. *)
LEMMA OtherPair ==
  ASSUME NEW v \in Work, NEW d \in Ocore, Pair(v, d),
         rank_map'[v] = rank_map[v], pc'[v] = pc[v], call'[v] = call[v],
         headers'[v][d] = headers[v][d], blocks'[v][d] = blocks[v][d],
         replies'[d][v] = replies[d][v], poll'[d] = poll[d], serving'[d] = serving[d],
         records'[d] = records[d], eager' = eager, exits \subseteq exits'
  PROVE  Pair(v, d)'
<1>1. /\ Sends(v, d)' = Sends(v, d) /\ Sent(v, d)' = Sent(v, d)
      /\ Waits(v, d)' = Waits(v, d) /\ Serves(d, v)' = Serves(d, v)
  BY DEF Sends, Sent, Waits, Serves
<1> QED BY <1>1, PairFrame

LEMMA Queues ==
  ASSUME Types_OK, NEW w \in Work, NEW c \in Ocore
  PROVE  /\ headers[w][c] \in Seq(HeaderSet) /\ Len(headers[w][c]) \in Nat
         /\ blocks[w][c] \in Seq(Data) /\ Len(blocks[w][c]) \in Nat
         /\ replies[c][w] \in Seq(Data) /\ Len(replies[c][w]) \in Nat
<1>1. /\ headers[w][c] \in Seq(HeaderSet) /\ blocks[w][c] \in Seq(Data)
      /\ replies[c][w] \in Seq(Data)
  BY DEF Types_OK
<1> QED BY <1>1

LEMMA InitInvariant == Init => IInv
<1> SUFFICES ASSUME Init PROVE IInv
  OBVIOUS
<1>1. Types_OK
  BY Constants DEF Init, Types_OK, Idle, Call, NoRequest, Request, Master
<1>2. Teardown /\ RecordData /\ aborted \in BOOLEAN
  BY DEF Init, Teardown, RecordData, Passed, Left
<1>3. \A w \in Work : Task(w)
  BY Constants DEF Init, Task, InCall
<1>4. ASSUME NEW w \in Work, NEW c \in Ocore
      PROVE  Pair(w, c)
  <2>1. /\ headers[w][c] = << >> /\ blocks[w][c] = << >> /\ replies[c][w] = << >>
        /\ ~ Serves(c, w) /\ ~ Sends(w, c) /\ DOMAIN rank_map[w] = {}
    BY <1>4 DEF Init, Serves, Sends
  <2>2. WritesOf(<< >>) = << >>
    BY DEF WritesOf
  <2> QED BY <2>1, <2>2 DEF Pair, Order, Matched, Reply, Known, Unbuffered
<1> QED BY <1>1, <1>2, <1>3, <1>4 DEF IInv

-----------------------------------------------------------------------------
(* Work tasks.                                                              *)

(* A work task opens a call and posts its header to rank c. *)
LEMMA PostStep ==
  ASSUME IInv, NEW w \in Work, pc[w] = "idle", NEW c \in Ocore,
         NEW type \in {"OCORE_WRITE_NEW", "OCORE_UPDATE_OLD", "OCORE_READ"},
         NEW op \in {"write", "read", "pop"}, NEW o \in Offsets, NEW d \in Data \cup {NoBlock},
         op = "write" <=> type # "OCORE_READ", op = "write" => d \in Data,
         PostHeader(w, c, type, Call(op, o, d)), CountCall(w), calls[w] < MaxCalls[w],
         \/ rank_map' = rank_map /\ o \in DOMAIN rank_map[w] /\ rank_map[w][o] = c
         \/ /\ o \notin DOMAIN rank_map[w] /\ op = "write"
            /\ rank_map' = [rank_map EXCEPT ![w] =
                             [x \in DOMAIN rank_map[w] \cup {o} |-> IF x = o THEN c ELSE rank_map[w][x]]],
         distrib_rank' \in [Work -> 0 .. numOcoreTasks_ - 1],
         UNCHANGED <<result, exits, blocks, replies, ocoreVars, eager, aborted>>
  PROVE  IInv'
<1> DEFINE m == [type |-> type, off |-> HeaderOffset(o)]
<1>1. Types_OK /\ Teardown /\ RecordData /\ aborted \in BOOLEAN
      /\ (\A v \in Work : Task(v)) /\ (\A v \in Work, e \in Ocore : Pair(v, e))
  BY DEF IInv
<1>2. m \in HeaderSet /\ (IsWrite(m) <=> op = "write") /\ m.off = HeaderOffset(o) /\ m.type = type
  BY Constants, HeaderOffsetType DEF HeaderSet, Types, IsWrite
<1>3. /\ headers' = Post(headers, w, c, m)
      /\ call' = [call EXCEPT ![w] = Call(op, o, d)] /\ pc' = [pc EXCEPT ![w] = "header"]
      /\ calls' = [calls EXCEPT ![w] = @ + 1]
      /\ result' = result /\ exits' = exits /\ blocks' = blocks /\ replies' = replies
      /\ poll' = poll /\ serving' = serving /\ records' = records
      /\ eager' = eager /\ aborted' = aborted
  BY DEF PostHeader, CountCall, Call, ocoreVars
<1> HIDE DEF m
<1>4. /\ \A v \in Work \ {w} : rank_map'[v] = rank_map[v]
      /\ DOMAIN rank_map' = Work /\ DOMAIN rank_map'[w] = DOMAIN rank_map[w] \cup {o}
      /\ rank_map'[w][o] = c
      /\ \A x \in DOMAIN rank_map[w] : rank_map'[w][x] = rank_map[w][x]
  BY <1>1 DEF Types_OK
<1>5. /\ Call(op, o, d) \in [op : {"none", "write", "read", "pop", "finalize"},
                             off : Nat, data : Data \cup {NoBlock}]
      /\ Call(op, o, d).op = op /\ Call(op, o, d).off = o /\ Call(op, o, d).data = d
  BY Constants DEF Call
<1>6. /\ call'[w] = Call(op, o, d) /\ pc'[w] = "header" /\ calls'[w] = calls[w] + 1
      /\ \A v \in Work \ {w} : call'[v] = call[v] /\ pc'[v] = pc[v] /\ calls'[v] = calls[v]
      /\ headers'[w][c] = Append(headers[w][c], m)
      /\ \A v \in Work, e \in Ocore : v # w \/ e # c => headers'[v][e] = headers[v][e]
  BY <1>1, <1>3 DEF Types_OK, Post
<1>7. Types_OK'
  <2>1. /\ call' \in [Work -> [op : {"none", "write", "read", "pop", "finalize"},
                               off : Nat, data : Data \cup {NoBlock}]]
    BY <1>1, <1>3, <1>5 DEF Types_OK
  <2>2. headers' \in [Work -> [Ocore -> Seq(HeaderSet)]]
    BY <1>1, <1>2, <1>3 DEF Types_OK, Post
  <2>3. pc' \in [Work -> {"idle", "header", "data", "work_barrier", "exits", "global_barrier", "done"}]
        /\ calls' \in [Work -> Nat]
    BY <1>1, <1>3 DEF Types_OK
  <2> QED BY <1>1, <1>3, <1>4, <2>1, <2>2, <2>3 DEF Types_OK
<1>8. Teardown'
  <2>1. pc[w] \notin Passed /\ pc'[w] \notin Passed
    BY <1>6 DEF Passed
  <2>2. \A v \in Work : pc'[v] \notin Passed
    BY <1>1, <1>6, <2>1 DEF Teardown
  <2>3. exits = {}
    BY <1>1, <1>6, <2>2, Constants DEF Teardown
  <2> QED BY <1>1, <1>3, <2>2, <2>3 DEF Teardown
<1>9. RecordData'
  BY <1>1, <1>3 DEF RecordData
<1>10. ASSUME NEW v \in Work PROVE Task(v)'
  <2>1. CASE v = w
    <3>1. calls[w] \in Nat /\ MaxCalls[w] \in Nat
      BY <1>1, Constants DEF Types_OK
    <3>2. DOMAIN rank_map'[w] \subseteq Offsets /\ \A x \in DOMAIN rank_map'[w] : rank_map'[w][x] \in Ocore
      BY <1>1, <1>4 DEF Task
    <3>3. calls'[w] <= MaxCalls[w]
      BY <1>6, <3>1
    <3>4. pc'[w] = "header" /\ call'[w].op = op /\ call'[w].off \in DOMAIN rank_map'[w]
          /\ call'[w].data = d
      BY <1>4, <1>5, <1>6
    <3> QED BY <2>1, <3>2, <3>3, <3>4 DEF Task, InCall
  <2>2. CASE v # w
    BY <1>1, <1>4, <1>6, <2>2 DEF Task
  <2> QED BY <2>1, <2>2
<1>11. ASSUME NEW v \in Work, NEW e \in Ocore PROVE Pair(v, e)'
  <2>0. Pair(v, e) /\ Serves(e, v)' = Serves(e, v)
    BY <1>1, <1>3 DEF Serves
  <2>1. CASE v # w
    <3>1. /\ Sends(v, e)' = Sends(v, e) /\ Sent(v, e)' = Sent(v, e) /\ Waits(v, e)' = Waits(v, e)
      BY <1>4, <1>6, <2>1 DEF Sends, Sent, Waits
    <3> QED BY <1>3, <1>4, <1>6, <2>0, <2>1, <3>1, PairFrame
  <2>2. CASE v = w /\ e # c
    <3>1. /\ ~ Sends(w, e) /\ ~ Sent(w, e) /\ ~ Waits(w, e)
          /\ ~ Sends(w, e)' /\ ~ Sent(w, e)' /\ ~ Waits(w, e)'
      BY <1>4, <1>5, <1>6, <2>2 DEF Sends, Sent, Waits
    <3> QED BY <1>3, <1>4, <1>6, <2>0, <2>2, <3>1, PairFrame
  <2>3. CASE v = w /\ e = c
    <3> DEFINE q == headers[w][c]
    <3>1. q \in Seq(HeaderSet) /\ headers'[w][c] = Append(q, m) /\ blocks'[w][c] = blocks[w][c]
          /\ replies'[c][w] = replies[c][w] /\ blocks[w][c] \in Seq(Data)
      BY <1>1, <1>3, <1>6 DEF Types_OK
    <3>2. ~ Sends(w, c) /\ ~ Sent(w, c) /\ ~ Waits(w, c)
      BY DEF Sends, Sent, Waits
    <3>3. AllWrites(q)
      <4>1. w = Master => c \notin exits
        BY <1>1 DEF Teardown, Passed
      <4> QED BY <2>0, <2>3, <3>2, <4>1 DEF Pair, Order, AllWrites
    <3>4. (Sends(w, c)' <=> op = "write") /\ (Waits(w, c)' <=> op # "write")
      BY <1>4, <1>5, <1>6 DEF Sends, Waits
    <3> HIDE DEF q
    <3>5. Order(w, c)'
      BY <1>2, <1>5, <1>6, <3>1, <3>3, <3>4 DEF Order, AllWrites
    <3>6. Matched(w, c)'
      <4>1. WritesOf(q) = q /\ WritesOf(Append(q, m)) = IF op = "write" THEN Append(q, m) ELSE q
        BY <1>2, <3>1, <3>3, WritesOfAll, WritesOfAppend
      <4>2. /\ Serves(c, w) => Len(q) + 1 = Len(blocks[w][c])
            /\ ~ Serves(c, w) => Len(q) = Len(blocks[w][c])
        BY <2>0, <2>3, <3>2, <4>1 DEF Pair, Matched, q
      <4>3. Len(Append(q, m)) = Len(q) + 1 /\ Len(q) \in Nat /\ Len(blocks[w][c]) \in Nat
        BY <3>1
      <4> QED BY <2>0, <2>3, <3>1, <3>4, <4>1, <4>2, <4>3 DEF Matched
    <3>7. Reply(w, c)'
      BY <2>0, <2>3, <3>1, <3>2 DEF Pair, Reply
    <3>8. Known(w, c)'
      <4> SUFFICES ASSUME NEW x \in DOMAIN rank_map'[w], rank_map'[w][x] = c
                   PROVE  \/ <<w, HeaderOffset(x)>> \in DOMAIN records[c]
                          \/ Serves(c, w) /\ serving[c].off = HeaderOffset(x)
                          \/ \E i \in 1 .. Len(Append(q, m)) :
                               IsWrite(Append(q, m)[i]) /\ Append(q, m)[i].off = HeaderOffset(x)
        BY <1>3, <2>0, <2>3, <3>1 DEF Known
      <4>1. Len(Append(q, m)) = Len(q) + 1 /\ Append(q, m)[Len(q) + 1] = m
            /\ \A i \in 1 .. Len(q) : Append(q, m)[i] = q[i]
        BY <3>1
      <4>2. CASE x \in DOMAIN rank_map[w]
        <5>1. rank_map[w][x] = c
          BY <1>4, <4>2
        <5> QED BY <2>0, <2>3, <3>1, <4>1, <4>2, <5>1 DEF Pair, Known, q
      <4>3. CASE x \notin DOMAIN rank_map[w]
        <5>1. x = o /\ op = "write"
          BY <1>4, <4>3
        <5> QED BY <1>2, <3>1, <4>1, <5>1
      <4> QED BY <4>2, <4>3
    <3>9. Unbuffered(w, c)'
      <4>1. "header" \notin eager => Len(q) = 0
        <5> SUFFICES ASSUME "header" \notin eager, Len(q) # 0 PROVE FALSE
          OBVIOUS
        <5>1. 1 \in 1 .. Len(q)
          BY <3>1
        <5>2. IsWrite(q[1])
          BY <3>3, <5>1 DEF AllWrites
        <5> QED BY <2>0, <2>3, <3>2, <5>1, <5>2 DEF Pair, Unbuffered, q
      <4>2. "data" \notin eager => blocks[w][c] = << >>
        BY <2>0, <2>3, <3>2 DEF Pair, Unbuffered
      <4> QED BY <1>2, <1>3, <3>1, <3>4, <4>1, <4>2 DEF Unbuffered
    <3> QED BY <2>3, <3>5, <3>6, <3>7, <3>8, <3>9 DEF Pair
  <2> QED BY <2>1, <2>2, <2>3
<1> QED BY <1>1, <1>3, <1>7, <1>8, <1>9, <1>10, <1>11 DEF IInv

(* A call that ends where it began: an empty read, or an abort. *)
LEMMA CountedStep ==
  ASSUME IInv, NEW w \in Work, calls[w] < MaxCalls[w], calls' = [calls EXCEPT ![w] = @ + 1],
         result' = result \/ result' = [result EXCEPT ![w] = Zero], aborted' \in BOOLEAN,
         UNCHANGED <<rank_map, distrib_rank, call, pc, exits, netVars, ocoreVars, eager>>
  PROVE  IInv'
<1>1. Types_OK /\ Teardown /\ RecordData
      /\ (\A v \in Work : Task(v)) /\ (\A v \in Work, e \in Ocore : Pair(v, e))
  BY DEF IInv
<1>2. /\ rank_map' = rank_map /\ distrib_rank' = distrib_rank /\ call' = call /\ pc' = pc
      /\ exits' = exits /\ headers' = headers /\ blocks' = blocks /\ replies' = replies
      /\ poll' = poll /\ serving' = serving /\ records' = records /\ eager' = eager
  BY DEF netVars, ocoreVars
<1>3. result' \in [Work -> Data \cup {Zero, NoBlock}] /\ calls' \in [Work -> Nat]
  <2>1. result \in [Work -> Data \cup {Zero, NoBlock}] /\ calls \in [Work -> Nat]
    BY <1>1 DEF Types_OK
  <2>2. result' \in [Work -> Data \cup {Zero, NoBlock}]
    BY <2>1
  <2>3. calls' \in [Work -> Nat]
    BY <2>1
  <2> QED BY <2>2, <2>3
<1>4. Types_OK'
  BY <1>1, <1>2, <1>3 DEF Types_OK
<1>5. Teardown' /\ RecordData'
  BY <1>1, <1>2 DEF Teardown, RecordData
<1>6. \A v \in Work, e \in Ocore : Pair(v, e)'
  BY <1>1, <1>2, OtherPair
<1>7. ASSUME NEW v \in Work PROVE Task(v)'
  <2>1. calls'[v] \in Nat /\ calls'[v] <= MaxCalls[v]
    BY <1>1, Constants DEF Types_OK, Task
  <2> QED BY <1>1, <1>2, <2>1 DEF Task
<1> QED BY <1>4, <1>5, <1>6, <1>7 DEF IInv

(* A task's calls and records when nothing of them changes. *)
LEMMA TaskFrame ==
  ASSUME NEW v \in Work, Task(v), rank_map'[v] = rank_map[v], pc'[v] = pc[v],
         call'[v] = call[v], calls'[v] = calls[v]
  PROVE  Task(v)'
BY DEF Task

(* The header's MPI_Send has returned: the block follows. *)
LEMMA SendDataStep ==
  ASSUME IInv, NEW w \in Work, SendData(w),
         NEW c \in Ocore, c = rank_map[w][call[w].off], NEW b \in Data, b = call[w].data
  PROVE  IInv'
<1>1. Types_OK /\ Teardown /\ RecordData /\ aborted \in BOOLEAN
      /\ (\A v \in Work : Task(v)) /\ (\A v \in Work, e \in Ocore : Pair(v, e))
  BY DEF IInv
<1>2. /\ pc[w] = "header" /\ call[w].op = "write"
      /\ "header" \in eager \/ headers[w][c] = << >>
      /\ blocks' = Post(blocks, w, c, b) /\ pc' = [pc EXCEPT ![w] = "data"]
      /\ rank_map' = rank_map /\ distrib_rank' = distrib_rank /\ call' = call
      /\ result' = result /\ calls' = calls /\ exits' = exits /\ headers' = headers
      /\ replies' = replies /\ poll' = poll /\ serving' = serving /\ records' = records
      /\ eager' = eager /\ aborted' = aborted
  BY DEF SendData, ocoreVars, Received
<1>4. Sends(w, c)
  BY <1>2 DEF Sends
<1>5. /\ pc'[w] = "data" /\ \A v \in Work \ {w} : pc'[v] = pc[v]
      /\ blocks'[w][c] = Append(blocks[w][c], b)
      /\ \A v \in Work, e \in Ocore : v # w \/ e # c => blocks'[v][e] = blocks[v][e]
  BY <1>1, <1>2 DEF Types_OK, Post
<1>6. Types_OK'
  <2>1. blocks' \in [Work -> [Ocore -> Seq(Data)]]
    BY <1>1, <1>2 DEF Types_OK, Post
  <2>2. pc' \in [Work -> {"idle", "header", "data", "work_barrier", "exits", "global_barrier", "done"}]
    BY <1>1, <1>2 DEF Types_OK
  <2> QED BY <1>1, <1>2, <2>1, <2>2 DEF Types_OK
<1>7. Teardown'
  <2>1. \A v \in Work : pc[v] \notin Passed
    BY <1>1, <1>2 DEF Teardown, InCall
  <2>2. \A v \in Work : pc'[v] \notin Passed
    BY <1>5, <2>1 DEF Passed
  <2> QED BY <1>1, <1>2, <2>1, <2>2, Constants DEF Teardown
<1>8. RecordData'
  BY <1>1, <1>2 DEF RecordData
<1>9. ASSUME NEW v \in Work PROVE Task(v)'
  <2>1. CASE v = w
    BY <1>1, <1>2, <1>5, <2>1 DEF Task, InCall
  <2>2. CASE v # w
    BY <1>1, <1>2, <1>5, <2>2, TaskFrame
  <2> QED BY <2>1, <2>2
<1>10. ASSUME NEW v \in Work, NEW e \in Ocore PROVE Pair(v, e)'
  <2>0. Pair(v, e) /\ Serves(e, v)' = Serves(e, v)
    BY <1>1, <1>2 DEF Serves
  <2>1. CASE v # w
    <3>1. /\ Sends(v, e)' = Sends(v, e) /\ Sent(v, e)' = Sent(v, e) /\ Waits(v, e)' = Waits(v, e)
      BY <1>2, <1>5, <2>1 DEF Sends, Sent, Waits
    <3> QED BY <1>2, <1>5, <2>0, <2>1, <3>1, PairFrame
  <2>2. CASE v = w /\ e # c
    <3>1. /\ ~ Sends(w, e) /\ ~ Sent(w, e) /\ ~ Waits(w, e)
          /\ ~ Sends(w, e)' /\ ~ Sent(w, e)' /\ ~ Waits(w, e)'
      BY <1>2, <1>5, <2>2 DEF Sends, Sent, Waits
    <3> QED BY <1>2, <1>5, <2>0, <2>2, <3>1, PairFrame
  <2>3. CASE v = w /\ e = c
    <3>1. ~ Sends(w, c)' /\ Sent(w, c)' /\ ~ Waits(w, c) /\ ~ Waits(w, c)'
      BY <1>2, <1>5 DEF Sends, Sent, Waits
    <3>2. /\ Len(blocks'[w][c]) = Len(blocks[w][c]) + 1 /\ Len(blocks[w][c]) \in Nat
          /\ blocks'[w][c] # << >>
      <4>1. blocks[w][c] \in Seq(Data) /\ Len(blocks[w][c]) \in Nat
        BY <1>1, Queues
      <4>2. \A t \in Seq(Data) : Len(Append(t, b)) = Len(t) + 1 /\ Append(t, b) # << >>
        OBVIOUS
      <4> QED BY <1>5, <4>1, <4>2
    <3>3. Order(w, c)'
      BY <1>2, <2>0, <2>3, <3>1 DEF Pair, Order
    <3>4. Matched(w, c)'
      <4>1. (Serves(c, w)' <=> Serves(c, w)) /\ Matched(w, c) /\ headers'[w][c] = headers[w][c]
        BY <1>2, <2>0, <2>3 DEF Pair
      <4> QED BY <1>4, <3>1, <3>2, <4>1 DEF Matched
    <3>5. Reply(w, c)'
      BY <1>2, <2>0, <2>3, <3>1 DEF Pair, Reply
    <3>6. Known(w, c)'
      BY <1>2, <2>0, <2>3 DEF Pair, Known
    <3>7. Unbuffered(w, c)'
      BY <1>2, <3>1 DEF Unbuffered
    <3> QED BY <2>3, <3>3, <3>4, <3>5, <3>6, <3>7 DEF Pair
  <2> QED BY <2>1, <2>2, <2>3
<1> QED BY <1>1, <1>2, <1>6, <1>7, <1>8, <1>9, <1>10 DEF IInv

(* A step of w after which it is in no call, and which neither sends nor
   receives: the end of a write and the steps of Finalize. *)
LEMMA QuietStep ==
  ASSUME IInv, NEW w \in Work, NEW there \in {"idle", "work_barrier", "exits", "global_barrier", "done"},
         pc' = [pc EXCEPT ![w] = there],
         NEW the_call \in {call[w], Idle, Call("finalize", 0, NoBlock)},
         call' = [call EXCEPT ![w] = the_call], there = "idle" => the_call = Idle,
         pc[w] # "header",
         \A c \in Ocore : Sent(w, c) => "data" \in eager \/ blocks[w][c] = << >>,
         Teardown',
         UNCHANGED <<rank_map, distrib_rank, result, calls, exits, netVars, poll, serving,
                     records, eager, aborted>>
  PROVE  IInv'
<1>1. Types_OK /\ Teardown /\ RecordData /\ aborted \in BOOLEAN
      /\ (\A v \in Work : Task(v)) /\ (\A v \in Work, e \in Ocore : Pair(v, e))
  BY DEF IInv
<1>2. /\ headers' = headers /\ blocks' = blocks /\ replies' = replies
      /\ pc'[w] = there /\ \A v \in Work \ {w} : pc'[v] = pc[v] /\ call'[v] = call[v]
  BY <1>1 DEF Types_OK, netVars
<1>3. Types_OK'
  <2>1. the_call \in [op : {"none", "write", "read", "pop", "finalize"},
                      off : Nat, data : Data \cup {NoBlock}]
    BY <1>1 DEF Types_OK, Idle, Call
  <2>2. call' \in [Work -> [op : {"none", "write", "read", "pop", "finalize"},
                            off : Nat, data : Data \cup {NoBlock}]]
    BY <1>1, <2>1 DEF Types_OK
  <2>3. pc' \in [Work -> {"idle", "header", "data", "work_barrier", "exits", "global_barrier", "done"}]
    BY <1>1 DEF Types_OK
  <2> QED BY <1>1, <1>2, <2>2, <2>3 DEF Types_OK
<1>4. RecordData'
  BY <1>1 DEF RecordData
<1>5. ASSUME NEW v \in Work PROVE Task(v)'
  <2>1. CASE v = w
    <3>1. there = "idle" => call'[w] = Idle
      BY <1>1 DEF Types_OK
    <3> QED BY <1>1, <1>2, <2>1, <3>1 DEF Task, InCall
  <2>2. CASE v # w
    BY <1>1, <1>2, <2>2, TaskFrame
  <2> QED BY <2>1, <2>2
<1>6. ASSUME NEW v \in Work, NEW e \in Ocore PROVE Pair(v, e)'
  <2>0. Pair(v, e) /\ Serves(e, v)' = Serves(e, v)
    BY <1>1 DEF Serves
  <2>1. CASE v # w
    <3>1. /\ Sends(v, e)' = Sends(v, e) /\ Sent(v, e)' = Sent(v, e) /\ Waits(v, e)' = Waits(v, e)
      BY <1>2, <2>1 DEF Sends, Sent, Waits
    <3> QED BY <1>2, <2>0, <2>1, <3>1, PairFrame
  <2>2. CASE v = w
    <3>1. /\ ~ Sends(w, e) /\ ~ Waits(w, e) /\ ~ Sends(w, e)' /\ ~ Waits(w, e)' /\ ~ Sent(w, e)'
      BY <1>2 DEF Sends, Waits, Sent
    <3>2. Order(w, e)'
      BY <1>2, <2>0, <2>2, <3>1 DEF Pair, Order
    <3>3. Matched(w, e)' /\ Known(w, e)' /\ Reply(w, e)'
      BY <1>2, <2>0, <2>2, <3>1 DEF Pair, Matched, Known, Reply
    <3>4. Unbuffered(w, e)'
      BY <1>2, <2>0, <2>2, <3>1 DEF Pair, Unbuffered
    <3> QED BY <2>2, <3>2, <3>3, <3>4 DEF Pair
  <2> QED BY <2>1, <2>2
<1> QED BY <1>1, <1>3, <1>4, <1>5, <1>6 DEF IInv

(* The reply arrives. *)
LEMMA ReadReturnsStep ==
  ASSUME IInv, NEW w \in Work, ReadReturns(w),
         NEW c \in Ocore, c = rank_map[w][call[w].off], NEW o \in Offsets, o = call[w].off
  PROVE  IInv'
<1>1. Types_OK /\ Teardown /\ RecordData /\ aborted \in BOOLEAN
      /\ (\A v \in Work : Task(v)) /\ (\A v \in Work, e \in Ocore : Pair(v, e))
  BY DEF IInv
<1>2. /\ pc[w] = "header" /\ call[w].op \in {"read", "pop"} /\ replies[c][w] # << >>
      /\ result' = [result EXCEPT ![w] = Head(replies[c][w])]
      /\ replies' = Take(replies, c, w)
      /\ rank_map' = IF call[w].op = "pop" THEN AfterPop(w) ELSE rank_map
      /\ call' = [call EXCEPT ![w] = Idle] /\ pc' = [pc EXCEPT ![w] = "idle"]
      /\ distrib_rank' = distrib_rank /\ calls' = calls /\ exits' = exits /\ headers' = headers
      /\ blocks' = blocks /\ poll' = poll /\ serving' = serving /\ records' = records
      /\ eager' = eager /\ aborted' = aborted
  BY DEF ReadReturns, ocoreVars
<1>3. /\ DOMAIN rank_map' = Work /\ \A v \in Work \ {w} : rank_map'[v] = rank_map[v]
      /\ DOMAIN rank_map'[w] \subseteq DOMAIN rank_map[w]
      /\ \A x \in DOMAIN rank_map'[w] : rank_map'[w][x] = rank_map[w][x]
  BY <1>1, <1>2 DEF Types_OK, AfterPop
<1>4. /\ pc'[w] = "idle" /\ call'[w] = Idle
      /\ \A v \in Work \ {w} : pc'[v] = pc[v] /\ call'[v] = call[v]
      /\ replies'[c][w] = Tail(replies[c][w])
      /\ \A v \in Work, e \in Ocore : v # w \/ e # c => replies'[e][v] = replies[e][v]
  BY <1>1, <1>2 DEF Types_OK, Take
<1>5. Waits(w, c) /\ \A e \in Ocore : e # c => ~ Waits(w, e)
  BY <1>2 DEF Waits
<1>6. Types_OK'
  <2>1. replies' \in [Ocore -> [Work -> Seq(Data)]] /\ Head(replies[c][w]) \in Data
    BY <1>1, <1>2 DEF Types_OK, Take
  <2>2. result' \in [Work -> Data \cup {Zero, NoBlock}]
    BY <1>1, <1>2, <2>1 DEF Types_OK
  <2>3. /\ pc' \in [Work -> {"idle", "header", "data", "work_barrier", "exits", "global_barrier", "done"}]
        /\ call' \in [Work -> [op : {"none", "write", "read", "pop", "finalize"},
                               off : Nat, data : Data \cup {NoBlock}]]
    BY <1>1, <1>2 DEF Types_OK, Idle, Call
  <2> QED BY <1>1, <1>2, <1>3, <2>1, <2>2, <2>3 DEF Types_OK
<1>7. Teardown'
  <2>1. \A v \in Work : pc[v] \notin Passed
    BY <1>1, <1>2 DEF Teardown, InCall
  <2>2. \A v \in Work : pc'[v] \notin Passed
    BY <1>4, <2>1 DEF Passed
  <2> QED BY <1>1, <1>2, <2>1, <2>2, Constants DEF Teardown
<1>8. RecordData'
  BY <1>1, <1>2 DEF RecordData
<1>9. ASSUME NEW v \in Work PROVE Task(v)'
  <2>1. CASE v = w
    BY <1>1, <1>2, <1>3, <1>4, <2>1 DEF Task, InCall
  <2>2. CASE v # w
    BY <1>1, <1>2, <1>3, <1>4, <2>2, TaskFrame
  <2> QED BY <2>1, <2>2
<1>10. ASSUME NEW v \in Work, NEW e \in Ocore PROVE Pair(v, e)'
  <2>0. Pair(v, e) /\ Serves(e, v)' = Serves(e, v)
    BY <1>1, <1>2 DEF Serves
  <2>1. CASE v # w
    BY <1>2, <1>3, <1>4, <2>0, <2>1, OtherPair
  <2>2. CASE v = w /\ e # c
    <3>1. /\ ~ Sends(w, e) /\ ~ Sent(w, e) /\ ~ Waits(w, e)
          /\ ~ Sends(w, e)' /\ ~ Sent(w, e)' /\ ~ Waits(w, e)'
      BY <1>2, <1>4, <1>5, <2>2 DEF Sends, Sent, Waits
    <3> QED BY <1>2, <1>3, <1>4, <2>0, <2>2, <3>1, PairFrame
  <2>3. CASE v = w /\ e = c
    <3>1. ~ Sends(w, c) /\ ~ Sent(w, c) /\ ~ Sends(w, c)' /\ ~ Sent(w, c)' /\ ~ Waits(w, c)'
      BY <1>2, <1>4 DEF Sends, Sent, Waits
    <3>2. headers[w][c] = << >> /\ replies'[c][w] = << >>
      <4>1. /\ headers[w][c] = << >>
            /\ replies[c][w] = <<records[c][<<w, HeaderOffset(call[w].off)>>]>>
        BY <1>2, <2>0, <2>3 DEF Pair, Reply
      <4>2. \A x : Tail(<<x>>) = << >>
        OBVIOUS
      <4> QED BY <1>2, <1>4, <4>1, <4>2
    <3>3. Order(w, c)' /\ Reply(w, c)'
      BY <1>2, <3>2 DEF Order, Reply
    <3>4. Matched(w, c)'
      BY <1>2, <2>0, <2>3, <3>1 DEF Pair, Matched
    <3>5. Known(w, c)'
      BY <1>2, <1>3, <2>0, <2>3 DEF Pair, Known
    <3>6. Unbuffered(w, c)'
      BY <1>2, <2>0, <2>3, <3>1, <3>2 DEF Pair, Unbuffered
    <3> QED BY <2>3, <3>3, <3>4, <3>5, <3>6 DEF Pair
  <2> QED BY <2>1, <2>2, <2>3
<1> QED BY <1>1, <1>2, <1>6, <1>7, <1>8, <1>9, <1>10 DEF IInv

(* The master sends OCORE_EXIT to rank c. *)
LEMMA SendExitStep ==
  ASSUME IInv, pc[Master] = "exits", NEW c \in Ocore, c \notin exits,
         headers' = Post(headers, Master, c, [type |-> "OCORE_EXIT", off |-> 0]),
         exits' = exits \cup {c},
         UNCHANGED <<rank_map, distrib_rank, call, pc, result, calls, blocks, replies,
                     ocoreVars, eager, aborted>>
  PROVE  IInv'
<1> DEFINE m == [type |-> "OCORE_EXIT", off |-> 0]
<1>1. Types_OK /\ Teardown /\ RecordData /\ aborted \in BOOLEAN
      /\ (\A v \in Work : Task(v)) /\ (\A v \in Work, e \in Ocore : Pair(v, e)) /\ Master \in Work
  BY Constants DEF IInv
<1>2. m \in HeaderSet /\ ~ IsWrite(m) /\ m.type = "OCORE_EXIT"
  BY DEF HeaderSet, Types, IsWrite
<1>3. /\ rank_map' = rank_map /\ distrib_rank' = distrib_rank /\ call' = call /\ pc' = pc
      /\ result' = result /\ calls' = calls /\ blocks' = blocks /\ replies' = replies
      /\ poll' = poll /\ serving' = serving /\ records' = records
      /\ eager' = eager /\ aborted' = aborted
      /\ headers' = Post(headers, Master, c, m)
  BY DEF ocoreVars
<1> HIDE DEF m
<1>4. /\ headers'[Master][c] = Append(headers[Master][c], m)
      /\ \A v \in Work, e \in Ocore : v # Master \/ e # c => headers'[v][e] = headers[v][e]
  BY <1>1, <1>3 DEF Types_OK, Post
<1>5. Types_OK'
  <2>1. headers' \in [Work -> [Ocore -> Seq(HeaderSet)]]
    BY <1>1, <1>2, <1>3 DEF Types_OK, Post
  <2> QED BY <1>1, <1>3, <2>1 DEF Types_OK
<1>6. Teardown'
  BY <1>1, <1>3 DEF Teardown, Passed
<1>7. RecordData' /\ \A v \in Work : Task(v)'
  BY <1>1, <1>3 DEF RecordData, Task
<1>8. ASSUME NEW v \in Work, NEW e \in Ocore PROVE Pair(v, e)'
  <2>0. Pair(v, e)
    BY <1>1
  <2>1. CASE v # Master \/ e # c
    BY <1>3, <1>4, <2>0, <2>1, OtherPair
  <2>2. CASE v = Master /\ e = c
    <3> DEFINE q == headers[v][e]
    <3>1. q \in Seq(HeaderSet) /\ Len(q) \in Nat /\ headers'[v][e] = Append(q, m)
      BY <1>1, <1>4, <2>2, Queues
    <3>2. /\ ~ Sends(v, e) /\ ~ Sent(v, e) /\ ~ Waits(v, e) /\ Serves(e, v)' = Serves(e, v)
          /\ ~ Sends(v, e)' /\ ~ Sent(v, e)' /\ ~ Waits(v, e)' /\ poll[e] \notin Left
      BY <1>1, <1>3, <2>2 DEF Sends, Sent, Waits, Serves, Teardown
    <3>3. AllWrites(q)
      BY <2>0, <2>2, <3>2 DEF Pair, Order, AllWrites
    <3>4. WritesOf(q) = q /\ WritesOf(Append(q, m)) = q
      BY <1>2, <3>1, <3>3, WritesOfAll, WritesOfAppend
    <3>5. /\ Len(Append(q, m)) = Len(q) + 1 /\ Append(q, m)[Len(q) + 1] = m
          /\ \A i \in 1 .. Len(q) : Append(q, m)[i] = q[i]
      BY <3>1
    <3>6. Order(v, e)'
      <4>1. \A i \in 1 .. Len(Append(q, m)) : i \in 1 .. Len(q) \/ i = Len(Append(q, m))
        BY <3>1, <3>5
      <4> QED BY <1>2, <1>3, <2>2, <3>1, <3>2, <3>3, <3>5, <4>1 DEF Order, AllWrites
    <3>7. Matched(v, e)'
      <4>1. headers'[v][e] = Append(q, m) /\ WritesOf(headers[v][e]) = q
        BY <3>1, <3>4
      <4>2. Len(WritesOf(headers'[v][e])) = Len(WritesOf(headers[v][e]))
        BY <3>4, <4>1, Zenon
      <4> HIDE DEF q
      <4> QED BY <1>3, <2>0, <3>2, <4>2 DEF Pair, Matched
    <3>8. Reply(v, e)'
      BY <1>3, <2>0, <3>2 DEF Pair, Reply
    <3>9. Known(v, e)'
      <4> HIDE DEF q
      <4>1. q = headers[v][e]
        BY DEF q
      <4>2. Known(v, e) /\ rank_map' = rank_map /\ records' = records /\ serving' = serving
        BY <1>3, <2>0 DEF Pair
      <4>3. \A i \in 1 .. Len(q) : i \in 1 .. Len(Append(q, m)) /\ headers'[v][e][i] = headers[v][e][i]
        BY <3>1, <3>5, <4>1
      <4>4. Len(headers'[v][e]) = Len(Append(q, m)) /\ Len(headers[v][e]) = Len(q)
        BY <3>1, <4>1, Zenon
      <4> QED BY <3>2, <4>2, <4>3, <4>4 DEF Known
    <3>10. Unbuffered(v, e)'
      <4>1. \A i \in 1 .. Len(Append(q, m)) : i \in 1 .. Len(q) \/ i = Len(q) + 1
        BY <3>1, <3>5
      <4> QED BY <1>2, <1>3, <2>0, <3>1, <3>2, <3>5, <4>1 DEF Pair, Unbuffered
    <3> QED BY <3>6, <3>7, <3>8, <3>9, <3>10 DEF Pair
  <2> QED BY <2>1, <2>2
<1> QED BY <1>1, <1>3, <1>5, <1>6, <1>7, <1>8 DEF IInv

-----------------------------------------------------------------------------
(* Ocore tasks.                                                             *)

LEMMA MatchedInt ==
  ASSUME NEW w \in Work, NEW c \in Ocore, Types_OK
  PROVE  Len(WritesOf(headers[w][c])) \in Nat
<1>1. WritesOf(headers[w][c]) \in Seq(HeaderSet)
  BY Queues, WritesOfType
<1> QED BY <1>1

(* What PollForWork needs to know of the pair whose header it takes. *)
LEMMA HeadOf ==
  ASSUME IInv, NEW c \in Ocore, poll[c] = "poll", NEW w \in Work, headers[w][c] # << >>
  PROVE  LET q == headers[w][c]
         IN  /\ Head(q) = q[1] /\ Head(q) \in HeaderSet /\ Len(q) \in Nat /\ Len(q) > 0
             /\ Tail(q) \in Seq(HeaderSet) /\ Len(Tail(q)) = Len(q) - 1
             /\ \A i \in 1 .. Len(Tail(q)) : Tail(q)[i] = q[i + 1]
             /\ replies[c][w] = << >> /\ ~ Serves(c, w)
             /\ ~ IsWrite(Head(q)) =>
                  /\ Len(q) = 1 /\ WritesOf(q) = << >> /\ Tail(q) = << >>
                  /\ \/ Head(q).type = "OCORE_READ" /\ Waits(w, c)
                        /\ Head(q).off = HeaderOffset(call[w].off)
                     \/ Head(q).type = "OCORE_EXIT" /\ w = Master /\ c \in exits
<1> DEFINE q == headers[w][c]
<1>1. Types_OK /\ Pair(w, c)
  BY DEF IInv
<1>2. q \in Seq(HeaderSet) /\ Len(q) \in Nat /\ q # << >>
  BY <1>1, Queues
<1>3. /\ Head(q) = q[1] /\ Head(q) \in HeaderSet /\ Len(q) > 0
      /\ Tail(q) \in Seq(HeaderSet) /\ Len(Tail(q)) = Len(q) - 1
      /\ \A i \in 1 .. Len(Tail(q)) : Tail(q)[i] = q[i + 1]
  BY <1>2
<1>4. replies[c][w] = << >> /\ ~ Serves(c, w)
  BY <1>1 DEF Pair, Reply, Serves
<1>5. ASSUME ~ IsWrite(Head(q))
      PROVE  /\ Len(q) = 1 /\ WritesOf(q) = << >> /\ Tail(q) = << >>
             /\ \/ Head(q).type = "OCORE_READ" /\ Waits(w, c)
                   /\ Head(q).off = HeaderOffset(call[w].off)
                \/ Head(q).type = "OCORE_EXIT" /\ w = Master /\ c \in exits
  <2>1. 1 \in 1 .. Len(q)
    BY <1>2, <1>3
  <2>2. /\ 1 = Len(q)
        /\ \/ q[1].type = "OCORE_READ" /\ Waits(w, c) /\ q[1].off = HeaderOffset(call[w].off)
           \/ q[1].type = "OCORE_EXIT" /\ w = Master /\ c \in exits
    BY <1>1, <1>3, <1>5, <2>1 DEF Pair, Order
  <2>3. \A t \in Seq(HeaderSet) : Len(t) = 0 => t = << >>
    OBVIOUS
  <2>4. WritesOf(q) = SubSeq(q, 1, Len(q) - 1)
    BY <1>2, <1>3, <1>5, <2>2 DEF WritesOf
  <2>5. WritesOf(q) = << >> /\ Tail(q) = << >>
    <3>1. q \in Seq(HeaderSet) /\ Len(q) = 1
      BY <1>2, <2>2
    <3>2. Tail(q) \in Seq(HeaderSet) /\ Len(Tail(q)) = 0
      BY <1>3, <3>1
    <3>3. \A t \in Seq(HeaderSet) : SubSeq(t, 1, 0) = << >>
      OBVIOUS
    <3>4. Len(q) - 1 = 0
      BY <3>1
    <3>5. WritesOf(q) = SubSeq(q, 1, 0)
      BY <2>4, <3>4, Zenon
    <3> QED BY <2>3, <3>1, <3>2, <3>3, <3>5, Zenon
  <2> QED BY <1>3, <2>2, <2>5
<1> QED BY <1>2, <1>3, <1>4, <1>5

(* The Ocore task takes a header from w and changes only its own state and
   what it sends to w. *)
LEMMA PollRest ==
  ASSUME IInv, NEW c \in Ocore, poll[c] = "poll", NEW w \in Work,
         headers' = Take(headers, w, c), headers[w][c] # << >>,
         NEW there \in {"recv_data", "send_reply", "global_barrier"},
         poll' = [poll EXCEPT ![c] = there],
         NEW req \in [rank : Work, off : Nat], req.rank = w \/ there # "recv_data",
         serving' = [serving EXCEPT ![c] = req],
         replies' \in [Ocore -> [Work -> Seq(Data)]],
         \A v \in Work, e \in Ocore : v # w \/ e # c => replies'[e][v] = replies[e][v],
         there = "global_barrier" => w = Master /\ c \in exits /\ headers'[w][c] = << >>,
         Pair(w, c)',
         UNCHANGED <<workVars, blocks, records, eager, aborted>>
  PROVE  IInv'
<1>1. Types_OK /\ Teardown /\ RecordData /\ aborted \in BOOLEAN
      /\ (\A v \in Work : Task(v)) /\ (\A v \in Work, e \in Ocore : Pair(v, e))
  BY DEF IInv
<1>2. /\ rank_map' = rank_map /\ distrib_rank' = distrib_rank /\ call' = call /\ pc' = pc
      /\ result' = result /\ calls' = calls /\ exits' = exits /\ blocks' = blocks
      /\ records' = records /\ eager' = eager /\ aborted' = aborted
  BY DEF workVars
<1>3. /\ \A v \in Work, e \in Ocore : v # w \/ e # c => headers'[v][e] = headers[v][e]
      /\ poll'[c] = there /\ serving'[c] = req
      /\ \A e \in Ocore \ {c} : poll'[e] = poll[e] /\ serving'[e] = serving[e]
  BY <1>1 DEF Types_OK, Take
<1>4. Types_OK'
  <2>1. headers' \in [Work -> [Ocore -> Seq(HeaderSet)]]
    <3>1. Tail(headers[w][c]) \in Seq(HeaderSet)
      BY <1>1, HeadOf
    <3> QED BY <1>1, <3>1 DEF Types_OK, Take
  <2>2. poll' \in [Ocore -> {"poll", "recv_data", "send_reply", "global_barrier", "done"}]
        /\ serving' \in [Ocore -> [rank : Work, off : Nat]]
    BY <1>1 DEF Types_OK
  <2> QED BY <1>1, <1>2, <2>1, <2>2 DEF Types_OK
<1>5. Teardown'
  BY <1>1, <1>2, <1>3 DEF Teardown, Left
<1>6. RecordData' /\ \A v \in Work : Task(v)'
  BY <1>1, <1>2 DEF RecordData, Task
<1>7. ASSUME NEW v \in Work, NEW e \in Ocore PROVE Pair(v, e)'
  <2>0. Pair(v, e)
    BY <1>1
  <2>1. CASE e # c
    BY <1>2, <1>3, <2>0, <2>1, OtherPair
  <2>2. CASE e = c /\ v # w
    <3>1. /\ Sends(v, c)' = Sends(v, c) /\ Sent(v, c)' = Sent(v, c)
          /\ Waits(v, c)' = Waits(v, c) /\ ~ Serves(c, v) /\ ~ Serves(c, v)'
      BY <1>2, <1>3, <2>2 DEF Sends, Sent, Waits, Serves
    <3>2. poll'[c] \in Left => v # Master
      BY <1>3, <2>2 DEF Left
    <3> QED BY <1>2, <1>3, <2>0, <2>2, <3>1, <3>2, PairFrame
  <2>3. CASE e = c /\ v = w
    BY <2>3
  <2> QED BY <2>1, <2>2, <2>3
<1> QED BY <1>1, <1>2, <1>4, <1>5, <1>6, <1>7 DEF IInv

LEMMA PollWriteStep ==
  ASSUME IInv, NEW c \in Ocore, poll[c] = "poll", NEW w \in Work, headers[w][c] # << >>,
         PollWrite(c, w), headers' = Take(headers, w, c),
         UNCHANGED <<workVars, blocks, records, eager>>
  PROVE  IInv'
<1> DEFINE q == headers[w][c]
           req == Request(w, Head(q).off)
<1>1. Types_OK /\ Pair(w, c)
  BY DEF IInv
<1>2. /\ IsWrite(Head(q)) /\ replies' = replies /\ aborted' = aborted
      /\ poll' = [poll EXCEPT ![c] = "recv_data"] /\ serving' = [serving EXCEPT ![c] = req]
      /\ rank_map' = rank_map /\ call' = call /\ pc' = pc /\ exits' = exits /\ blocks' = blocks
      /\ records' = records /\ eager' = eager
  BY DEF PollWrite, IsWrite, workVars
<1>3. /\ Head(q) = q[1] /\ Head(q) \in HeaderSet /\ Len(q) \in Nat /\ Len(q) > 0
      /\ Len(Tail(q)) = Len(q) - 1 /\ \A i \in 1 .. Len(Tail(q)) : Tail(q)[i] = q[i + 1]
      /\ replies[c][w] = << >> /\ ~ Serves(c, w)
  BY HeadOf
<1>4. q \in Seq(HeaderSet) /\ headers'[w][c] = Tail(q)
  BY <1>1 DEF Types_OK, Take
<1>5. req \in [rank : Work, off : Nat] /\ req.rank = w /\ req.off = q[1].off
  BY <1>3 DEF Request, HeaderSet
<1>6. /\ Sends(w, c)' = Sends(w, c) /\ Sent(w, c)' = Sent(w, c) /\ Waits(w, c)' = Waits(w, c)
      /\ Serves(c, w)' /\ serving'[c] = req /\ poll'[c] = "recv_data"
  BY <1>1, <1>2, <1>5 DEF Types_OK, Sends, Sent, Waits, Serves
<1>7. Order(w, c)'
  <2>1. \A i \in 1 .. Len(Tail(q)) : i + 1 \in 1 .. Len(q) /\ (i + 1 = Len(q) => i = Len(Tail(q)))
    <3> DEFINE n == Len(Tail(q))
    <3>1. n \in Nat /\ Len(q) = n + 1
      BY <1>3
    <3> HIDE DEF n
    <3>2. \A i \in 1 .. n : i + 1 \in 1 .. n + 1 /\ (i + 1 = n + 1 => i = n)
      BY <3>1
    <3> QED BY <3>1, <3>2 DEF n
  <2>2. \A i \in 1 .. Len(q) :
          \/ IsWrite(q[i])
          \/ /\ i = Len(q)
             /\ \/ q[i].type = "OCORE_READ" /\ Waits(w, c) /\ q[i].off = HeaderOffset(call[w].off)
                \/ q[i].type = "OCORE_EXIT" /\ w = Master /\ c \in exits
    BY <1>1 DEF Pair, Order
  <2> SUFFICES ASSUME NEW i \in 1 .. Len(Tail(q))
               PROVE  LET x == Tail(q)[i]
                      IN  \/ IsWrite(x)
                          \/ /\ i = Len(Tail(q))
                             /\ \/ x.type = "OCORE_READ" /\ Waits(w, c) /\ x.off = HeaderOffset(call[w].off)
                                \/ x.type = "OCORE_EXIT" /\ w = Master /\ c \in exits
    <3> HIDE DEF q
    <3>1. Len(headers'[w][c]) = Len(Tail(q)) /\ \A i : headers'[w][c][i] = Tail(q)[i]
      BY <1>4, Zenon
    <3> QED BY <1>2, <1>6, <3>1 DEF Order, Left
  <2>3. Tail(q)[i] = q[i + 1] /\ i + 1 \in 1 .. Len(q) /\ (i + 1 = Len(q) => i = Len(Tail(q)))
    BY <1>3, <2>1
  <2> HIDE DEF q
  <2> QED BY <2>2, <2>3
<1>8. Matched(w, c)'
  <2> DEFINE p == WritesOf(q)
  <2>1. p \in Seq(HeaderSet) /\ p # << >> /\ WritesOf(Tail(q)) = Tail(p)
    BY <1>2, <1>4, WritesOfTail
  <2>2. Len(Tail(p)) = Len(p) - 1 /\ Len(p) \in Nat
    BY <2>1
  <2>3. /\ Len(WritesOf(headers[w][c])) = Len(p)
        /\ Len(WritesOf(headers'[w][c])) = Len(p) - 1
    BY <1>4, <2>1, <2>2, Zenon
  <2>4. Len(blocks[w][c]) \in Nat /\ blocks'[w][c] = blocks[w][c]
    BY <1>1, <1>2, Queues
  <2>5. Matched(w, c)
    BY <1>1 DEF Pair
  <2> HIDE DEF p
  <2> QED BY <1>3, <1>6, <2>2, <2>3, <2>4, <2>5 DEF Matched
<1>9. Reply(w, c)'
  BY <1>2, <1>3 DEF Reply
<1>10. Known(w, c)'
  <2> SUFFICES ASSUME NEW o \in DOMAIN rank_map[w], rank_map[w][o] = c,
                      <<w, HeaderOffset(o)>> \notin DOMAIN records[c], q[1].off # HeaderOffset(o)
               PROVE  \E i \in 1 .. Len(Tail(q)) : IsWrite(Tail(q)[i]) /\ Tail(q)[i].off = HeaderOffset(o)
    BY <1>2, <1>4, <1>5, <1>6 DEF Known
  <2>1. PICK i \in 1 .. Len(q) : IsWrite(q[i]) /\ q[i].off = HeaderOffset(o)
    BY <1>1, <1>3 DEF Pair, Known
  <2>2. i # 1 /\ i - 1 \in 1 .. Len(Tail(q)) /\ i - 1 + 1 = i
    BY <1>3, <2>1
  <2> QED BY <1>3, <2>1, <2>2
<1>11. Unbuffered(w, c)'
  <2>1. \A i \in 1 .. Len(Tail(q)) : i + 1 \in 1 .. Len(q)
    BY <1>3
  <2> QED BY <1>1, <1>2, <1>3, <1>4, <1>6, <2>1 DEF Pair, Unbuffered
<1>12. Pair(w, c)'
  BY <1>7, <1>8, <1>9, <1>10, <1>11 DEF Pair
<1>13. replies' \in [Ocore -> [Work -> Seq(Data)]]
  BY <1>1, <1>2 DEF Types_OK
<1> HIDE DEF req
<1> QED BY <1>2, <1>5, <1>12, <1>13, PollRest

LEMMA PollReadStep ==
  ASSUME IInv, NEW c \in Ocore, poll[c] = "poll", NEW w \in Work, headers[w][c] # << >>,
         PollRead(c, w), headers' = Take(headers, w, c),
         UNCHANGED <<workVars, blocks, records, eager>>
  PROVE  IInv' /\ aborted' = aborted
<1> DEFINE q == headers[w][c]
           key == <<w, Head(q).off>>
<1>1. Types_OK /\ Pair(w, c) /\ RecordData
  BY DEF IInv
<1>2. /\ Head(q).type = "OCORE_READ" /\ ~ IsWrite(Head(q))
      /\ rank_map' = rank_map /\ call' = call /\ pc' = pc /\ exits' = exits /\ blocks' = blocks
      /\ records' = records /\ eager' = eager
  BY DEF PollRead, IsWrite, workVars
<1>3. /\ Len(q) = 1 /\ WritesOf(q) = << >> /\ Tail(q) = << >> /\ Waits(w, c)
      /\ Head(q).off = HeaderOffset(call[w].off) /\ Head(q) = q[1] /\ Head(q) \in HeaderSet
      /\ replies[c][w] = << >> /\ ~ Serves(c, w)
  BY <1>2, HeadOf
<1>4. headers'[w][c] = << >>
  BY <1>1, <1>3 DEF Types_OK, Take
<1>5. key \in DOMAIN records[c] /\ key = <<w, HeaderOffset(call[w].off)>>
  <2>1. call[w].off \in DOMAIN rank_map[w] /\ rank_map[w][call[w].off] = c
    BY <1>3 DEF IInv, Task, Waits, InCall
  <2>2. \A i \in 1 .. Len(q) : ~ IsWrite(q[i])
    BY <1>2, <1>3
  <2> QED BY <1>1, <1>3, <2>1, <2>2 DEF Pair, Known
<1>6. /\ replies' = Post(replies, c, w, records[c][key]) /\ aborted' = aborted
      /\ poll' = [poll EXCEPT ![c] = "send_reply"]
      /\ serving' = [serving EXCEPT ![c] = Request(w, key[2])]
  BY <1>5 DEF PollRead
<1>7. records[c][key] \in Data
  BY <1>1, <1>5 DEF RecordData
<1>8. Request(w, key[2]) \in [rank : Work, off : Nat]
  BY <1>3 DEF Request, HeaderSet
<1> HIDE DEF key
<1>9. /\ replies' \in [Ocore -> [Work -> Seq(Data)]]
      /\ replies'[c][w] = Append(replies[c][w], records[c][key])
      /\ \A v \in Work, e \in Ocore : v # w \/ e # c => replies'[e][v] = replies[e][v]
  BY <1>1, <1>6, <1>7 DEF Types_OK, Post
<1>10. /\ ~ Sends(w, c) /\ ~ Sent(w, c) /\ ~ Sends(w, c)' /\ ~ Sent(w, c)' /\ Waits(w, c)'
       /\ ~ Serves(c, w)'
  BY <1>1, <1>2, <1>3, <1>6 DEF Types_OK, Sends, Sent, Waits, Serves
<1>11. Order(w, c)' /\ Unbuffered(w, c)'
  BY <1>1, <1>2, <1>4, <1>10 DEF Pair, Order, Unbuffered
<1>12. Matched(w, c)'
  <2>1. WritesOf(<< >>) = << >>
    BY DEF WritesOf
  <2>2. Matched(w, c) /\ Len(WritesOf(headers'[w][c])) = Len(WritesOf(headers[w][c]))
        /\ blocks'[w][c] = blocks[w][c]
    BY <1>1, <1>2, <1>3, <1>4, <2>1, Zenon DEF Pair
  <2> QED BY <1>3, <1>10, <2>2 DEF Matched
<1>13. Reply(w, c)'
  <2>1. \A x : Append(<< >>, x) = <<x>>
    OBVIOUS
  <2>2. replies'[c][w] = <<records[c][key]>>
    BY <1>3, <1>9, <2>1, Zenon
  <2> QED BY <1>2, <1>4, <1>5, <1>10, <2>2 DEF Reply
<1>14. Known(w, c)'
  <2>1. \A i \in 1 .. Len(q) : ~ IsWrite(q[i])
    BY <1>2, <1>3
  <2> QED BY <1>1, <1>2, <1>3, <2>1 DEF Pair, Known
<1>15. Pair(w, c)'
  BY <1>11, <1>12, <1>13, <1>14 DEF Pair
<1> QED BY <1>2, <1>6, <1>8, <1>9, <1>15, PollRest

LEMMA PollExitStep ==
  ASSUME IInv, NEW c \in Ocore, poll[c] = "poll", NEW w \in Work, headers[w][c] # << >>,
         PollExit(c, w), headers' = Take(headers, w, c),
         UNCHANGED <<workVars, blocks, records, eager>>
  PROVE  IInv'
<1> DEFINE q == headers[w][c]
<1>1. Types_OK /\ Pair(w, c)
  BY DEF IInv
<1>2. /\ Head(q).type = "OCORE_EXIT" /\ ~ IsWrite(Head(q)) /\ replies' = replies
      /\ serving' = serving /\ aborted' = aborted
      /\ poll' = [poll EXCEPT ![c] = "global_barrier"]
      /\ rank_map' = rank_map /\ call' = call /\ pc' = pc /\ exits' = exits /\ blocks' = blocks
      /\ records' = records /\ eager' = eager
  BY DEF PollExit, IsWrite, workVars
<1>3. /\ Len(q) = 1 /\ WritesOf(q) = << >> /\ Tail(q) = << >> /\ w = Master /\ c \in exits
      /\ Head(q) = q[1] /\ replies[c][w] = << >> /\ ~ Serves(c, w)
  BY <1>2, HeadOf
<1>4. headers'[w][c] = << >>
  BY <1>1, <1>3 DEF Types_OK, Take
<1>5. /\ Sends(w, c)' = Sends(w, c) /\ Sent(w, c)' = Sent(w, c) /\ Waits(w, c)' = Waits(w, c)
      /\ ~ Serves(c, w)'
  BY <1>1, <1>2 DEF Types_OK, Sends, Sent, Waits, Serves
<1>6. Order(w, c)' /\ Unbuffered(w, c)' /\ Reply(w, c)'
  BY <1>1, <1>2, <1>3, <1>4, <1>5 DEF Pair, Order, Unbuffered, Reply
<1>7. Matched(w, c)'
  <2>1. WritesOf(<< >>) = << >>
    BY DEF WritesOf
  <2>2. Matched(w, c) /\ Len(WritesOf(headers'[w][c])) = Len(WritesOf(headers[w][c]))
        /\ blocks'[w][c] = blocks[w][c]
    BY <1>1, <1>2, <1>3, <1>4, <2>1, Zenon DEF Pair
  <2> QED BY <1>3, <1>5, <2>2 DEF Matched
<1>8. Known(w, c)'
  <2>1. \A i \in 1 .. Len(q) : ~ IsWrite(q[i])
    BY <1>2, <1>3
  <2> QED BY <1>1, <1>2, <1>3, <2>1 DEF Pair, Known
<1>9. Pair(w, c)'
  BY <1>6, <1>7, <1>8 DEF Pair
<1>10. /\ replies' \in [Ocore -> [Work -> Seq(Data)]] /\ serving[c] \in [rank : Work, off : Nat]
       /\ serving' = [serving EXCEPT ![c] = serving[c]]
  BY <1>1, <1>2 DEF Types_OK
<1> QED BY <1>2, <1>3, <1>4, <1>9, <1>10, PollRest

(* The block of the header being served arrives. *)
LEMMA StoreDataStep ==
  ASSUME IInv, NEW c \in Ocore, poll[c] = "recv_data",
         NEW w \in Work, w = serving[c].rank, NEW n \in Nat, n = serving[c].off,
         blocks[w][c] # << >>, blocks' = Take(blocks, w, c),
         NEW b \in Data,
         records' = [records EXCEPT ![c] =
                       [k \in DOMAIN records[c] \cup {<<w, n>>} |->
                          IF k = <<w, n>> THEN b ELSE records[c][k]]],
         poll' = [poll EXCEPT ![c] = "poll"], serving' = [serving EXCEPT ![c] = NoRequest],
         UNCHANGED <<workVars, headers, replies, eager, aborted>>
  PROVE  IInv'
<1>1. Types_OK /\ Teardown /\ RecordData /\ aborted \in BOOLEAN
      /\ (\A v \in Work : Task(v)) /\ (\A v \in Work, e \in Ocore : Pair(v, e))
  BY DEF IInv
<1>2. /\ rank_map' = rank_map /\ distrib_rank' = distrib_rank /\ call' = call /\ pc' = pc
      /\ result' = result /\ calls' = calls /\ exits' = exits /\ headers' = headers
      /\ replies' = replies /\ eager' = eager /\ aborted' = aborted
  BY DEF workVars
<1>3. /\ blocks'[w][c] = Tail(blocks[w][c])
      /\ \A v \in Work, e \in Ocore : v # w \/ e # c => blocks'[v][e] = blocks[v][e]
      /\ poll'[c] = "poll" /\ \A e \in Ocore \ {c} : poll'[e] = poll[e] /\ serving'[e] = serving[e]
  BY <1>1 DEF Types_OK, Take
<1>4. /\ DOMAIN records' = Ocore /\ \A e \in Ocore \ {c} : records'[e] = records[e]
      /\ DOMAIN records'[c] = DOMAIN records[c] \cup {<<w, n>>} /\ records'[c][<<w, n>>] = b
      /\ \A k \in DOMAIN records[c] : k # <<w, n>> => records'[c][k] = records[c][k]
  BY <1>1 DEF Types_OK
<1>5. /\ blocks[w][c] \in Seq(Data) /\ Len(blocks[w][c]) \in Nat /\ Len(blocks[w][c]) > 0
      /\ Tail(blocks[w][c]) \in Seq(Data) /\ Len(Tail(blocks[w][c])) = Len(blocks[w][c]) - 1
  <2>1. \A t \in Seq(Data) : t # << >> =>
          Len(t) > 0 /\ Tail(t) \in Seq(Data) /\ Len(Tail(t)) = Len(t) - 1
    OBVIOUS
  <2> QED BY <1>1, <2>1, Queues
<1>6. Types_OK'
  <2>1. blocks' \in [Work -> [Ocore -> Seq(Data)]]
    BY <1>1, <1>5 DEF Types_OK, Take
  <2>2. poll' \in [Ocore -> {"poll", "recv_data", "send_reply", "global_barrier", "done"}]
    BY <1>1 DEF Types_OK
  <2>3. serving' \in [Ocore -> [rank : Work, off : Nat]]
    <3>1. NoRequest \in [rank : Work, off : Nat]
      BY Constants DEF NoRequest, Request, Master
    <3> QED BY <1>1, <3>1 DEF Types_OK
  <2>4. DOMAIN records' = Ocore
    BY <1>4
  <2> QED BY <1>1, <1>2, <2>1, <2>2, <2>3, <2>4 DEF Types_OK
<1>7. Teardown'
  BY <1>1, <1>2, <1>3 DEF Teardown, Left
<1>8. RecordData'
  <2> SUFFICES ASSUME NEW e \in Ocore, NEW k \in DOMAIN records'[e] PROVE records'[e][k] \in Data
    BY DEF RecordData
  <2>1. CASE e # c
    BY <1>1, <1>4, <2>1 DEF RecordData
  <2>2. CASE e = c
    BY <1>1, <1>4, <2>2 DEF RecordData
  <2> QED BY <2>1, <2>2
<1>9. \A v \in Work : Task(v)'
  BY <1>1, <1>2 DEF Task
<1>10. ASSUME NEW v \in Work, NEW e \in Ocore PROVE Pair(v, e)'
  <2>0. Pair(v, e)
    BY <1>1
  <2>1. CASE e # c
    BY <1>2, <1>3, <1>4, <2>0, <2>1, OtherPair
  <2>2. CASE e = c /\ v # w
    <3>1. /\ Sends(v, c)' = Sends(v, c) /\ Sent(v, c)' = Sent(v, c)
          /\ Waits(v, c)' = Waits(v, c) /\ ~ Serves(c, v) /\ ~ Serves(c, v)'
      BY <1>2, <1>3, <2>2 DEF Sends, Sent, Waits, Serves
    <3>2. \A i : <<v, i>> # <<w, n>>
      BY <2>2
    <3>3. poll'[c] \notin Left
      BY <1>3 DEF Left
    <3>4. \A i : <<v, i>> \in DOMAIN records[c] =>
            <<v, i>> \in DOMAIN records'[c] /\ records'[c][<<v, i>>] = records[c][<<v, i>>]
      BY <1>4, <3>2
    <3> QED BY <1>2, <1>3, <2>0, <2>2, <3>1, <3>3, <3>4, PairFrame
  <2>3. CASE e = c /\ v = w
    <3>1. /\ Sends(w, c)' = Sends(w, c) /\ Sent(w, c)' = Sent(w, c)
          /\ Waits(w, c)' = Waits(w, c) /\ Serves(c, w) /\ ~ Serves(c, w)'
      BY <1>2, <1>3 DEF Sends, Sent, Waits, Serves
    <3>2. Order(w, c)'
      BY <1>2, <1>3, <2>0, <2>3, <3>1 DEF Pair, Order, Left
    <3>3. Matched(w, c)'
      <4>1. Len(blocks'[w][c]) = Len(blocks[w][c]) - 1
        BY <1>3, <1>5, Zenon
      <4>2. Matched(w, c) /\ headers' = headers
        BY <1>2, <2>0, <2>3 DEF Pair
      <4>3. Len(WritesOf(headers[w][c])) \in Int
        BY <1>1, MatchedInt
      <4> QED BY <1>5, <3>1, <4>1, <4>2, <4>3 DEF Matched
    <3>4. Reply(w, c)'
      BY <1>2, <2>0, <2>3, <3>1 DEF Pair, Reply
    <3>5. Known(w, c)'
      BY <1>2, <1>4, <2>0, <2>3, <3>1 DEF Pair, Known
    <3>6. Unbuffered(w, c)'
      BY <1>2, <2>0, <2>3, <3>1 DEF Pair, Unbuffered
    <3> QED BY <2>3, <3>2, <3>3, <3>4, <3>5, <3>6 DEF Pair
  <2> QED BY <2>1, <2>2, <2>3
<1> QED BY <1>1, <1>2, <1>6, <1>7, <1>8, <1>9, <1>10 DEF IInv

(* An Ocore task that serves nobody goes on, within its loop or within the
   teardown. *)
LEMMA PollQuiet ==
  ASSUME IInv, NEW c \in Ocore, NEW there \in {"poll", "done"},
         poll' = [poll EXCEPT ![c] = there],
         serving' \in [Ocore -> [rank : Work, off : Nat]],
         \A e \in Ocore \ {c} : serving'[e] = serving[e],
         poll[c] # "recv_data", there = "done" => poll[c] \in Left,
         UNCHANGED <<workVars, netVars, records, eager, aborted>>
  PROVE  IInv'
<1>1. Types_OK /\ Teardown /\ RecordData /\ aborted \in BOOLEAN
      /\ (\A v \in Work : Task(v)) /\ (\A v \in Work, e \in Ocore : Pair(v, e))
  BY DEF IInv
<1>2. /\ rank_map' = rank_map /\ distrib_rank' = distrib_rank /\ call' = call /\ pc' = pc
      /\ result' = result /\ calls' = calls /\ exits' = exits /\ headers' = headers
      /\ blocks' = blocks /\ replies' = replies /\ records' = records
      /\ eager' = eager /\ aborted' = aborted
  BY DEF workVars, netVars
<1>3. poll'[c] = there /\ \A e \in Ocore \ {c} : poll'[e] = poll[e]
  BY <1>1 DEF Types_OK
<1>4. Types_OK'
  BY <1>1, <1>2 DEF Types_OK
<1>5. Teardown'
  BY <1>1, <1>2, <1>3 DEF Teardown, Left
<1>6. RecordData' /\ \A v \in Work : Task(v)'
  BY <1>1, <1>2 DEF RecordData, Task
<1>7. ASSUME NEW v \in Work, NEW e \in Ocore PROVE Pair(v, e)'
  <2>0. Pair(v, e)
    BY <1>1
  <2>1. CASE e # c
    BY <1>2, <1>3, <2>0, <2>1, OtherPair
  <2>2. CASE e = c
    <3>1. /\ Sends(v, c)' = Sends(v, c) /\ Sent(v, c)' = Sent(v, c)
          /\ Waits(v, c)' = Waits(v, c) /\ ~ Serves(c, v) /\ ~ Serves(c, v)'
      BY <1>2, <1>3, <2>2 DEF Sends, Sent, Waits, Serves
    <3>2. poll'[c] \in Left => poll[c] \in Left
      BY <1>3 DEF Left
    <3> QED BY <1>2, <2>0, <2>2, <3>1, <3>2, PairFrame
  <2> QED BY <2>1, <2>2
<1> QED BY <1>1, <1>2, <1>4, <1>5, <1>6, <1>7 DEF IInv

-----------------------------------------------------------------------------
(* Every step, and the properties.                                          *)

LEMMA BeginInvariant ==
  ASSUME IInv, NEW w \in Work, BeginCall(w)
  PROVE  IInv'
<1>1. /\ distrib_rank \in [Work -> 0 .. numOcoreTasks_ - 1] /\ DOMAIN rank_map = Work
      /\ Task(w) /\ distrib_rank[w] \in 0 .. numOcoreTasks_ - 1
  BY DEF IInv, Types_OK
<1>2. /\ DOMAIN rank_map[w] \subseteq Offsets
      /\ \A o \in DOMAIN rank_map[w] : rank_map[w][o] \in Ocore
  BY <1>1 DEF Task
<1>3. ASSUME NEW o \in Offsets, NEW d \in Data, WriteNew(w, o, d)
      PROVE  IInv'
  <2> DEFINE c == distrib_rank[w] + startingRank_
  <2>1. /\ pc[w] = "idle" /\ calls[w] < MaxCalls[w] /\ CountCall(w) /\ o \notin DOMAIN rank_map[w]
        /\ rank_map' = [rank_map EXCEPT ![w] =
                          [x \in DOMAIN rank_map[w] \cup {o} |->
                             IF x = o THEN RecordedOwner(distrib_rank[w]) ELSE rank_map[w][x]]]
        /\ PostHeader(w, c, "OCORE_WRITE_NEW", Call("write", o, d))
        /\ distrib_rank' = [distrib_rank EXCEPT ![w] = NextDistrib(@)]
        /\ UNCHANGED <<result, exits, blocks, replies, ocoreVars, eager, aborted>>
    BY <1>3 DEF WriteNew, CanCall
  <2>2. c \in Ocore /\ RecordedOwner(distrib_rank[w]) = c
        /\ NextDistrib(distrib_rank[w]) \in 0 .. numOcoreTasks_ - 1
    BY <1>1, OwnerType
  <2>3. distrib_rank' \in [Work -> 0 .. numOcoreTasks_ - 1]
    BY <1>1, <2>1, <2>2
  <2> HIDE DEF c
  <2> QED BY <2>1, <2>2, <2>3, PostStep
<1>4. ASSUME NEW o \in Offsets, NEW d \in Data, WriteOld(w, o, d)
      PROVE  IInv'
  <2>1. /\ pc[w] = "idle" /\ calls[w] < MaxCalls[w] /\ CountCall(w) /\ o \in DOMAIN rank_map[w]
        /\ PostHeader(w, rank_map[w][o], "OCORE_UPDATE_OLD", Call("write", o, d))
        /\ rank_map' = rank_map /\ distrib_rank' \in [Work -> 0 .. numOcoreTasks_ - 1]
        /\ UNCHANGED <<result, exits, blocks, replies, ocoreVars, eager, aborted>>
    BY <1>1, <1>4 DEF WriteOld, CanCall
  <2> QED BY <1>2, <2>1, PostStep
<1>5. ASSUME NEW o \in Offsets, ReadKnown(w, o)
      PROVE  IInv'
  <2>1. /\ pc[w] = "idle" /\ calls[w] < MaxCalls[w] /\ CountCall(w) /\ o \in DOMAIN rank_map[w]
        /\ PostHeader(w, rank_map[w][o], "OCORE_READ", Call("read", o, NoBlock))
        /\ rank_map' = rank_map /\ distrib_rank' \in [Work -> 0 .. numOcoreTasks_ - 1]
        /\ UNCHANGED <<result, exits, blocks, replies, ocoreVars, eager, aborted>>
    BY <1>1, <1>5 DEF ReadKnown, CanCall
  <2> QED BY <1>2, <2>1, PostStep
<1>6. ASSUME NEW o \in Offsets, ReadUnknown(w, o)
      PROVE  IInv'
  <2>1. /\ calls[w] < MaxCalls[w] /\ calls' = [calls EXCEPT ![w] = @ + 1]
        /\ result' = result \/ result' = [result EXCEPT ![w] = Zero]
        /\ aborted' \in BOOLEAN
        /\ UNCHANGED <<rank_map, distrib_rank, call, pc, exits, netVars, ocoreVars, eager>>
    BY <1>6 DEF ReadUnknown, CanCall, CountCall, IInv
  <2> QED BY <2>1, CountedStep
<1>7. ASSUME PopRecord(w)
      PROVE  IInv'
  <2>1. /\ pc[w] = "idle" /\ calls[w] < MaxCalls[w] /\ CountCall(w)
        /\ rank_map' = rank_map /\ distrib_rank' = distrib_rank
        /\ UNCHANGED <<result, exits, blocks, replies, ocoreVars, eager>>
    BY <1>7 DEF PopRecord, CanCall
  <2>2. CASE DOMAIN rank_map[w] = {}
    <3>1. aborted' = TRUE /\ UNCHANGED <<headers, call, pc>> /\ calls' = [calls EXCEPT ![w] = @ + 1]
      BY <1>7, <2>1, <2>2 DEF PopRecord, CountCall
    <3> QED BY <2>1, <3>1, CountedStep DEF netVars
  <2>3. CASE DOMAIN rank_map[w] # {}
    <3> DEFINE o == Least(DOMAIN rank_map[w])
    <3>1. o \in DOMAIN rank_map[w]
      BY <1>2, <2>3, LeastIn, Constants
    <3>2. PostHeader(w, rank_map[w][o], "OCORE_READ", Call("pop", o, NoBlock)) /\ aborted' = aborted
      BY <1>7, <2>3 DEF PopRecord
    <3>3. /\ o \in Offsets /\ rank_map[w][o] \in Ocore
          /\ distrib_rank' \in [Work -> 0 .. numOcoreTasks_ - 1]
      BY <1>1, <1>2, <2>1, <3>1
    <3> HIDE DEF o
    <3> QED BY <2>1, <3>1, <3>2, <3>3, PostStep
  <2> QED BY <2>2, <2>3
<1> QED BY <1>3, <1>4, <1>5, <1>6, <1>7 DEF BeginCall

LEMMA WorkInvariant ==
  ASSUME IInv, NEW w \in Work, Finalize(w) \/ WorkStep(w)
  PROVE  IInv'
<1>1. Types_OK /\ Teardown /\ Task(w) /\ Master \in Work
  BY Constants DEF IInv
<1>2. pc[w] \in InCall => call[w].off \in Offsets /\ rank_map[w][call[w].off] \in Ocore
  BY <1>1 DEF Task
<1>3. CASE SendData(w)
  <2>1. call[w].data \in Data /\ rank_map[w][call[w].off] \in Ocore
    BY <1>1, <1>2, <1>3 DEF SendData, Task, InCall
  <2> QED BY <1>3, <2>1, SendDataStep
<1>4. CASE ReadReturns(w)
  <2>1. call[w].off \in Offsets /\ rank_map[w][call[w].off] \in Ocore
    BY <1>2, <1>4 DEF ReadReturns, InCall
  <2> QED BY <1>4, <2>1, ReadReturnsStep
<1>5. CASE WriteReturns(w)
  <2>1. /\ pc[w] = "data" /\ pc' = [pc EXCEPT ![w] = "idle"] /\ call' = [call EXCEPT ![w] = Idle]
        /\ "data" \in eager \/ blocks[w][rank_map[w][call[w].off]] = << >>
        /\ UNCHANGED <<rank_map, distrib_rank, result, calls, exits, netVars, poll, serving,
                       records, eager, aborted>>
    BY <1>5 DEF WriteReturns, Received, ocoreVars
  <2>2. \A v \in Work : pc[v] \notin Passed /\ pc'[v] \notin Passed
    BY <1>1, <2>1 DEF Types_OK, Teardown, InCall, Passed
  <2>3. Teardown'
    BY <1>1, <2>1, <2>2 DEF Teardown
  <2> QED BY <2>1, <2>3, QuietStep DEF Sent
<1>6. CASE Finalize(w)
  <2>1. /\ pc[w] = "idle" /\ pc' = [pc EXCEPT ![w] = "work_barrier"]
        /\ call' = [call EXCEPT ![w] = Call("finalize", 0, NoBlock)]
        /\ UNCHANGED <<rank_map, distrib_rank, result, calls, exits, netVars, poll, serving,
                       records, eager, aborted>>
    BY <1>6 DEF Finalize, ocoreVars
  <2>2. \A v \in Work : pc[v] \notin Passed /\ pc'[v] \notin Passed
    BY <1>1, <2>1 DEF Types_OK, Teardown, InCall, Passed
  <2>3. Teardown'
    BY <1>1, <2>1, <2>2 DEF Teardown
  <2> QED BY <2>1, <2>3, QuietStep DEF Sent
<1>7. CASE LeaveWorkBarrier(w)
  <2> DEFINE there == IF w = Master THEN "exits" ELSE "global_barrier"
  <2>1. /\ pc[w] = "work_barrier" /\ WorkBarrierOpen /\ pc' = [pc EXCEPT ![w] = there]
        /\ call' = call
        /\ UNCHANGED <<rank_map, distrib_rank, result, calls, exits, netVars, poll, serving,
                       records, eager, aborted>>
    BY <1>7 DEF LeaveWorkBarrier, ocoreVars
  <2>2. there \in {"exits", "global_barrier"}
    OBVIOUS
  <2> HIDE DEF there
  <2>3. Teardown'
    <3>1. \A v \in Work : pc'[v] \notin InCall \cup {"idle"}
      BY <1>1, <2>1, <2>2 DEF Types_OK, WorkBarrierOpen, InCall
    <3>2. exits' # {} => pc'[Master] \in Passed
      BY <1>1, <2>1, <2>2 DEF Types_OK, Teardown, Passed
    <3> QED BY <1>1, <2>1, <3>1, <3>2 DEF Teardown
  <2>4. call' = [call EXCEPT ![w] = call[w]]
    BY <1>1, <2>1 DEF Types_OK
  <2> QED BY <2>1, <2>2, <2>3, <2>4, QuietStep DEF Sent
<1>8. CASE WorkDone(w)
  <2>1. /\ pc[w] = "global_barrier" /\ pc' = [pc EXCEPT ![w] = "done"] /\ call' = call
        /\ UNCHANGED <<rank_map, distrib_rank, result, calls, exits, netVars, poll, serving,
                       records, eager, aborted>>
    BY <1>8 DEF WorkDone, ocoreVars
  <2>2. Teardown'
    <3>1. \A v \in Work : pc'[v] \notin InCall \cup {"idle"}
      BY <1>1, <2>1 DEF Types_OK, Teardown, Passed, InCall
    <3>2. exits' # {} => pc'[Master] \in Passed
      BY <1>1, <2>1 DEF Types_OK, Teardown, Passed
    <3> QED BY <1>1, <2>1, <3>1, <3>2 DEF Teardown
  <2>3. call' = [call EXCEPT ![w] = call[w]]
    BY <1>1, <2>1 DEF Types_OK
  <2> QED BY <2>1, <2>2, <2>3, QuietStep DEF Sent
<1>9. CASE w = Master /\ SendExit
  <2>1. /\ pc[Master] = "exits"
        /\ UNCHANGED <<rank_map, distrib_rank, call, result, calls, blocks, replies,
                       ocoreVars, eager, aborted>>
    BY <1>9 DEF SendExit
  <2>2. CASE exits = ExitRanks
    <3>1. /\ pc' = [pc EXCEPT ![w] = "global_barrier"] /\ UNCHANGED <<exits, netVars>>
          /\ UNCHANGED <<poll, serving, records>> /\ pc[w] = "exits"
      BY <1>9, <2>1, <2>2 DEF SendExit, netVars, ocoreVars
    <3>2. Teardown'
      <4>1. \A v \in Work : pc'[v] \notin InCall \cup {"idle"}
        BY <1>1, <3>1 DEF Types_OK, Teardown, Passed, InCall
      <4>2. pc'[Master] \in Passed
        BY <1>1, <1>9, <3>1 DEF Types_OK, Passed
      <4> QED BY <1>1, <3>1, <4>1, <4>2 DEF Teardown
    <3>3. call' = [call EXCEPT ![w] = call[w]]
      BY <1>1, <2>1 DEF Types_OK
    <3> QED BY <2>1, <3>1, <3>2, <3>3, QuietStep DEF Sent
  <2>3. CASE exits # ExitRanks
    <3> DEFINE c == Least(ExitRanks \ exits)
    <3>1. c \in ExitRanks \ exits
      <4>1. exits \subseteq ExitRanks /\ ExitRanks \subseteq Nat
        BY <1>1, Constants DEF Teardown, ExitRanks
      <4>2. ExitRanks \ exits # {} /\ ExitRanks \ exits \subseteq Nat
        BY <2>3, <4>1
      <4> QED BY <4>2, LeastIn
    <3>2. /\ headers' = Post(headers, Master, c, [type |-> "OCORE_EXIT", off |-> 0])
          /\ exits' = exits \cup {c} /\ pc' = pc
      BY <1>9, <2>3 DEF SendExit
    <3> HIDE DEF c
    <3> QED BY <2>1, <3>1, <3>2, SendExitStep DEF ExitRanks
  <2> QED BY <2>2, <2>3
<1> QED BY <1>3, <1>4, <1>5, <1>6, <1>7, <1>8, <1>9 DEF WorkStep

LEMMA OcoreInvariant ==
  ASSUME IInv, NEW c \in Ocore, OcoreStep(c)
  PROVE  IInv'
<1>1. Types_OK
  BY DEF IInv
<1>2. CASE PollForWork(c)
  <2>1. PICK w \in Work : /\ headers[w][c] # << >> /\ headers' = Take(headers, w, c)
                          /\ PollWrite(c, w) \/ PollRead(c, w) \/ PollExit(c, w)
    BY <1>2 DEF PollForWork
  <2>2. poll[c] = "poll" /\ UNCHANGED <<workVars, blocks, records, eager>>
    BY <1>2 DEF PollForWork
  <2> QED BY <2>1, <2>2, PollWriteStep, PollReadStep, PollExitStep
<1>3. CASE StoreData(c)
  <2> DEFINE w == serving[c].rank
             n == serving[c].off
             b == Head(blocks[w][c])
  <2>1. /\ poll[c] = "recv_data" /\ blocks[w][c] # << >> /\ blocks' = Take(blocks, w, c)
        /\ records' = [records EXCEPT ![c] =
                         [k \in DOMAIN records[c] \cup {<<w, n>>} |->
                            IF k = <<w, n>> THEN b ELSE records[c][k]]]
        /\ poll' = [poll EXCEPT ![c] = "poll"] /\ serving' = [serving EXCEPT ![c] = NoRequest]
        /\ UNCHANGED <<workVars, headers, replies, eager, aborted>>
    BY <1>3 DEF StoreData, Source
  <2>2. w \in Work /\ n \in Nat
    BY <1>1 DEF Types_OK
  <2>3. b \in Data
    <3>1. blocks[w][c] \in Seq(Data)
      BY <1>1, <2>2, Queues
    <3> QED BY <2>1, <3>1
  <2> HIDE DEF w, n, b
  <2>4. w = serving[c].rank /\ n = serving[c].off
    BY DEF w, n
  <2> QED BY <2>1, <2>2, <2>3, <2>4, StoreDataStep
<1>4. CASE ReplySent(c)
  <2>1. /\ poll[c] = "send_reply" /\ poll' = [poll EXCEPT ![c] = "poll"]
        /\ serving' = [serving EXCEPT ![c] = NoRequest]
        /\ UNCHANGED <<workVars, netVars, records, eager, aborted>>
    BY <1>4 DEF ReplySent
  <2>2. NoRequest \in [rank : Work, off : Nat]
    BY Constants DEF NoRequest, Request, Master
  <2>3. serving' \in [Ocore -> [rank : Work, off : Nat]]
        /\ \A e \in Ocore \ {c} : serving'[e] = serving[e]
    BY <1>1, <2>1, <2>2 DEF Types_OK
  <2> QED BY <2>1, <2>3, PollQuiet
<1>5. CASE OcoreDone(c)
  <2>1. /\ poll[c] = "global_barrier" /\ poll' = [poll EXCEPT ![c] = "done"] /\ serving' = serving
        /\ UNCHANGED <<workVars, netVars, records, eager, aborted>>
    BY <1>5 DEF OcoreDone
  <2> QED BY <1>1, <2>1, PollQuiet DEF Types_OK, Left
<1> QED BY <1>2, <1>3, <1>4, <1>5 DEF OcoreStep

LEMMA NextInvariant ==
  ASSUME IInv, [Next]_vars
  PROVE  IInv'
<1>1. CASE UNCHANGED vars
  <2>1. /\ rank_map' = rank_map /\ distrib_rank' = distrib_rank /\ call' = call /\ pc' = pc
        /\ result' = result /\ calls' = calls /\ exits' = exits /\ headers' = headers
        /\ blocks' = blocks /\ replies' = replies /\ poll' = poll /\ serving' = serving
        /\ records' = records /\ eager' = eager /\ aborted' = aborted
    BY <1>1 DEF vars
  <2>2. \A v \in Work, e \in Ocore : Pair(v, e)'
    BY <2>1, OtherPair DEF IInv
  <2> QED BY <2>1, <2>2 DEF IInv, Types_OK, Teardown, RecordData, Task
<1>2. CASE Next
  <2>1. Stopped => UNCHANGED vars
    BY DEF Stopped
  <2> QED BY <1>1, <1>2, <2>1, BeginInvariant, WorkInvariant, OcoreInvariant DEF Next
<1> QED BY <1>1, <1>2

THEOREM Invariance == Spec => []IInv
<1>1. Init => IInv
  BY InitInvariant
<1>2. IInv /\ [Next]_vars => IInv'
  BY NextInvariant
<1> QED BY <1>1, <1>2, PTL DEF Spec

(* The offsets and the blocks that the properties speak of. *)
LEMMA OutLengths ==
  ASSUME IInv, NEW w \in Work, NEW c \in Ocore
  PROVE  /\ OutOffsets(w, c) \in Seq(Nat) /\ OutBlocks(w, c) \in Seq(Data)
         /\ Len(OutOffsets(w, c)) = Len(WritesOf(headers[w][c])) + (IF Serves(c, w) THEN 1 ELSE 0)
         /\ Len(OutBlocks(w, c)) = Len(blocks[w][c]) + (IF Sends(w, c) THEN 1 ELSE 0)
         /\ Len(OutOffsets(w, c)) = Len(OutBlocks(w, c))
<1> DEFINE ws == WritesOf(headers[w][c])
           offs == [i \in 1 .. Len(ws) |-> ws[i].off]
           head == IF Serves(c, w) THEN <<serving[c].off>> ELSE << >>
           last == IF Sends(w, c) THEN <<call[w].data>> ELSE << >>
<1>1. Types_OK /\ Task(w) /\ Matched(w, c)
  BY DEF IInv, Pair
<1>2. ws \in Seq(HeaderSet)
  BY <1>1, Queues, WritesOfType
<1>3. OutOffsets(w, c) = head \o offs /\ OutBlocks(w, c) = blocks[w][c] \o last
  BY DEF OutOffsets, OutBlocks, Serves, Sends
<1>4. blocks[w][c] \in Seq(Data) /\ Len(blocks[w][c]) \in Nat
  BY <1>1, Queues
<1> HIDE DEF ws
<1>5. offs \in Seq(Nat) /\ Len(offs) = Len(ws) /\ Len(ws) \in Nat
  <2>1. Len(ws) \in Nat /\ \A i \in 1 .. Len(ws) : ws[i].off \in Nat
    <3>1. Len(ws) \in Nat /\ \A i \in 1 .. Len(ws) : ws[i] \in HeaderSet
      BY <1>2
    <3>2. \A m \in HeaderSet : m.off \in Nat
      BY DEF HeaderSet
    <3> QED BY <3>1, <3>2
  <2> QED BY <2>1
<1>6. head \in Seq(Nat) /\ Len(head) = (IF Serves(c, w) THEN 1 ELSE 0)
  BY <1>1 DEF Types_OK
<1>7. last \in Seq(Data) /\ Len(last) = (IF Sends(w, c) THEN 1 ELSE 0)
  BY <1>1 DEF Task, Sends, InCall
<1> HIDE DEF offs, head, last
<1>8. /\ head \o offs \in Seq(Nat) /\ Len(head \o offs) = Len(head) + Len(offs)
      /\ blocks[w][c] \o last \in Seq(Data)
      /\ Len(blocks[w][c] \o last) = Len(blocks[w][c]) + Len(last)
  BY <1>4, <1>5, <1>6, <1>7, ConcatProperties, Zenon
<1> DEFINE s == IF Serves(c, w) THEN 1 ELSE 0
           t == IF Sends(w, c) THEN 1 ELSE 0
<1>9. Len(ws) + s = Len(blocks[w][c]) + t
  <2>1. /\ Serves(c, w) => s = 1
        /\ ~ Serves(c, w) => s = 0
        /\ Sends(w, c) => t = 1
        /\ ~ Sends(w, c) => t = 0
    OBVIOUS
  <2>2. /\ Serves(c, w) /\ Sends(w, c) => Len(ws) = Len(blocks[w][c])
        /\ ~ Serves(c, w) /\ ~ Sends(w, c) => Len(ws) = Len(blocks[w][c])
        /\ Serves(c, w) /\ ~ Sends(w, c) => Len(ws) + 1 = Len(blocks[w][c])
        /\ ~ Serves(c, w) /\ Sends(w, c) => Len(ws) = Len(blocks[w][c]) + 1
    BY <1>1 DEF Matched, ws
  <2> HIDE DEF s, t
  <2> QED BY <1>4, <1>5, <2>1, <2>2
<1>10. Len(head) = s /\ Len(last) = t /\ s \in Nat /\ t \in Nat
  BY <1>6, <1>7
<1> HIDE DEF s, t
<1>11. Len(head) + Len(offs) = Len(ws) + s /\ Len(blocks[w][c]) + Len(last) = Len(blocks[w][c]) + t
  BY <1>5, <1>10
<1>12. /\ OutOffsets(w, c) \in Seq(Nat) /\ OutBlocks(w, c) \in Seq(Data)
       /\ Len(OutOffsets(w, c)) = Len(ws) + s /\ Len(OutBlocks(w, c)) = Len(blocks[w][c]) + t
       /\ Len(OutOffsets(w, c)) = Len(OutBlocks(w, c))
  BY <1>3, <1>8, <1>9, <1>11, Zenon
<1> QED BY <1>12, Zenon DEF s, t, ws

LEMMA InvariantSuffices ==
  ASSUME IInv
  PROVE  TypeOK /\ HeadersMatchBlocks /\ PullsKnownRecord /\ ExitLeavesNothing
<1>1. Types_OK /\ Teardown /\ RecordData /\ aborted \in BOOLEAN
      /\ (\A v \in Work : Task(v)) /\ (\A v \in Work, e \in Ocore : Pair(v, e))
  BY DEF IInv
<1>2. TypeOK
  <2>1. ASSUME NEW w \in Work
        PROVE  /\ DOMAIN rank_map[w] \subseteq Offsets
               /\ \A o \in DOMAIN rank_map[w] : rank_map[w][o] \in Ocore
               /\ distrib_rank[w] \in 0 .. numOcoreTasks_ - 1
               /\ pc[w] \in {"idle", "header", "data", "work_barrier", "exits",
                             "global_barrier", "done"}
               /\ result[w] \in Data \cup {Zero, NoBlock}
               /\ calls[w] \in 0 .. MaxCalls[w]
    <3>1. calls[w] \in Nat /\ calls[w] <= MaxCalls[w] /\ MaxCalls[w] \in Nat
      BY <1>1, Constants DEF Types_OK, Task
    <3>2. /\ distrib_rank[w] \in 0 .. numOcoreTasks_ - 1
          /\ pc[w] \in {"idle", "header", "data", "work_barrier", "exits", "global_barrier", "done"}
          /\ result[w] \in Data \cup {Zero, NoBlock}
      BY <1>1 DEF Types_OK
    <3>3. Task(w)
      BY <1>1
    <3> QED BY <3>1, <3>2, <3>3 DEF Task
  <2>2. \A c \in Ocore : poll[c] \in {"poll", "recv_data", "send_reply", "global_barrier", "done"}
    BY <1>1 DEF Types_OK
  <2> QED BY <1>1, <2>1, <2>2 DEF TypeOK, Teardown, RecordData
<1>3. HeadersMatchBlocks
  BY OutLengths DEF HeadersMatchBlocks
<1>4. PullsKnownRecord
  <2> SUFFICES ASSUME NEW c \in Ocore, NEW w \in Work, poll[c] = "poll",
                      headers[w][c] # << >>, Head(headers[w][c]).type = "OCORE_READ"
               PROVE  <<w, Head(headers[w][c]).off>> \in DOMAIN records[c]
    BY DEF PullsKnownRecord
  <2> DEFINE q == headers[w][c]
  <2>1. ~ IsWrite(Head(q))
    BY DEF IsWrite
  <2>2. /\ Len(q) = 1 /\ Waits(w, c) /\ Head(q).off = HeaderOffset(call[w].off)
        /\ Head(q) = q[1] /\ ~ Serves(c, w)
    BY <2>1, HeadOf
  <2>3. call[w].off \in DOMAIN rank_map[w] /\ rank_map[w][call[w].off] = c
    BY <1>1, <2>2 DEF Task, Waits, InCall
  <2>4. \A i \in 1 .. Len(q) : ~ IsWrite(q[i])
    BY <2>1, <2>2
  <2> QED BY <1>1, <2>2, <2>3, <2>4 DEF Pair, Known
<1>5. ExitLeavesNothing
  <2> SUFFICES ASSUME NEW c \in Ocore, NEW w \in Work, poll[c] \in Left,
                      ~ {"header", "data"} \subseteq eager
               PROVE  headers[w][c] = << >> /\ blocks[w][c] = << >>
    BY DEF ExitLeavesNothing, Left
  <2>1. pc[w] \notin InCall
    <3>1. pc[Master] \in Passed /\ Master \in Work
      BY <1>1, Constants DEF Teardown
    <3> QED BY <1>1, <3>1 DEF Teardown
  <2>2. ~ Sends(w, c) /\ ~ Sent(w, c) /\ ~ Waits(w, c) /\ ~ Serves(c, w)
    BY <2>1 DEF Sends, Sent, Waits, Serves, InCall, Left
  <2>3. Pair(w, c)
    BY <1>1
  <2>4. AllWrites(headers[w][c])
    BY <2>2, <2>3 DEF Pair, Order, AllWrites
  <2> DEFINE q == headers[w][c]
             b == blocks[w][c]
  <2>5. q \in Seq(HeaderSet) /\ Len(q) \in Nat /\ b \in Seq(Data) /\ Len(b) \in Nat
    BY <1>1, Queues
  <2>6. Len(q) = Len(b)
    <3>1. WritesOf(q) = q
      BY <2>4, <2>5, WritesOfAll
    <3> QED BY <2>2, <2>3, <3>1 DEF Pair, Matched
  <2>7. Len(q) = 0 \/ Len(b) = 0
    <3>1. CASE "header" \notin eager
      <4> SUFFICES ASSUME Len(q) # 0 PROVE FALSE
        OBVIOUS
      <4>1. 1 \in 1 .. Len(q)
        BY <2>5
      <4> QED BY <2>2, <2>3, <2>4, <3>1, <4>1 DEF Pair, Unbuffered, AllWrites
    <3>2. CASE "data" \notin eager
      BY <2>2, <2>3, <3>2 DEF Pair, Unbuffered
    <3> QED BY <3>1, <3>2
  <2> QED BY <2>5, <2>6, <2>7
<1> QED BY <1>2, <1>3, <1>4, <1>5

(* Every variable keeps its type, for any number of tasks and of calls. *)
THEOREM TypeCorrect == Spec => []TypeOK
<1>1. IInv => TypeOK
  BY InvariantSuffices
<1> QED BY <1>1, Invariance, PTL

(* Every header an Ocore task takes or is going to take finds exactly one
   block of the same sender (Write_to_Pool, StoreData). *)
THEOREM BlocksFollowHeaders == Spec => []HeadersMatchBlocks
<1>1. IInv => HeadersMatchBlocks
  BY InvariantSuffices
<1> QED BY <1>1, Invariance, PTL

(* The assertion of PullData never fails: the record of a read request is
   there when the request is served. *)
THEOREM ReadsFindRecords == Spec => []PullsKnownRecord
<1>1. IInv => PullsKnownRecord
  BY InvariantSuffices
<1> QED BY <1>1, Invariance, PTL

(* Unless MPI buffers headers and data, an Ocore task that has left
   PollForWork left nothing behind. *)
THEOREM ExitsClean == Spec => []ExitLeavesNothing
<1>1. IInv => ExitLeavesNothing
  BY InvariantSuffices
<1> QED BY <1>1, Invariance, PTL
=============================================================================

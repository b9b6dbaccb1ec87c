----------------------- MODULE OcoreProtocolRefinement -----------------------
(***************************************************************************)
(* The message protocol implements one private memory per work task, as    *)
(* long as different offsets of the application have different headers.    *)
(***************************************************************************)
EXTENDS OcoreProtocolProofs

(* Offsets that fit into the int that carries them. *)
OffsetsDistinct == \A o, p \in Offsets : HeaderOffset(o) = HeaderOffset(p) => o = p

-----------------------------------------------------------------------------
(* The last block sent under an offset, in two sequences read in parallel.  *)

LastBlock(k, s, b, h, r) ==
  LET hits == {i \in 1 .. k : s[i] = h}
  IN  IF hits = {} THEN r ELSE b[CHOOSE i \in hits : \A j \in hits : j <= i]

(* i is the last position of h among the first k of s. *)
IsLast(i, k, s, h) ==
  i \in 1 .. k /\ s[i] = h /\ \A j \in 1 .. k : s[j] = h => j <= i

(* A set of indices has a greatest one. *)
LEMMA GreatestIn ==
  ASSUME NEW n \in Nat, NEW S \in SUBSET (1 .. n), S # {}
  PROVE  \E i \in S : \A j \in S : j <= i
<1> DEFINE left == {n - i : i \in S}
           R == OpToRel(<, Nat)
<1>1. left \subseteq Nat /\ left # {}
  <2>1. \A i \in S : n - i \in Nat
    OBVIOUS
  <2>2. PICK i \in S : TRUE
    OBVIOUS
  <2>3. n - i \in left
    BY <2>2
  <2> QED BY <2>1, <2>3
<1>2. \A x, y \in Nat : y < x => <<y, x>> \in R
  BY DEF OpToRel
<1> HIDE DEF R
<1>3. IsWellFoundedOn(R, Nat)
  BY NatLessThanWellFounded DEF R
<1>4. PICK x \in left : \A y \in left : ~ (<<y, x>> \in R)
  BY <1>1, <1>3, WFMin
<1>5. PICK i \in S : x = n - i
  BY <1>4
<1>6. ASSUME NEW j \in S PROVE j <= i
  <2>1. n - j \in left /\ n - i \in left
    OBVIOUS
  <2> HIDE DEF left
  <2>2. ~ (n - j < n - i)
    BY <1>1, <1>2, <1>4, <1>5, <2>1
  <2> QED BY <2>2
<1> QED BY <1>6

LEMMA LastBlockAt ==
  ASSUME NEW k \in Nat, NEW s, NEW b, NEW h, NEW r, NEW i, IsLast(i, k, s, h)
  PROVE  LastBlock(k, s, b, h, r) = b[i]
<1> DEFINE hits == {j \in 1 .. k : s[j] = h}
<1>1. i \in hits /\ \A j \in hits : j <= i
  BY DEF IsLast
<1>2. \A n \in hits : (\A j \in hits : j <= n) => n = i
  <2> TAKE n \in hits
  <2> HAVE \A j \in hits : j <= n
  <2>1. n \in Nat /\ i \in Nat /\ i <= n /\ n <= i
    BY <1>1
  <2> QED BY <2>1
<1>3. LastBlock(k, s, b, h, r) =
        IF hits = {} THEN r ELSE b[CHOOSE n \in hits : \A j \in hits : j <= n]
  BY DEF LastBlock
<1> HIDE DEF hits
<1>4. (CHOOSE n \in hits : \A j \in hits : j <= n) = i
  BY <1>1, <1>2
<1> QED BY <1>1, <1>3, <1>4

LEMMA LastBlockNone ==
  ASSUME NEW k \in Nat, NEW s, NEW b, NEW h, NEW r, \A j \in 1 .. k : s[j] # h
  PROVE  LastBlock(k, s, b, h, r) = r
BY DEF LastBlock

LEMMA LastHit ==
  ASSUME NEW k \in Nat, NEW s, NEW h, \E i \in 1 .. k : s[i] = h
  PROVE  \E i : IsLast(i, k, s, h)
<1> DEFINE S == {j \in 1 .. k : s[j] = h}
<1>1. S \in SUBSET (1 .. k) /\ S # {}
  OBVIOUS
<1>2. \E i \in S : \A j \in S : j <= i
  BY <1>1, GreatestIn
<1> QED BY <1>2 DEF IsLast

(* What the owner holds does not matter if a write is under way. *)
LEMMA LastBlockFrame ==
  ASSUME NEW k \in Nat, NEW s, NEW b, NEW h, NEW r, NEW r1, \E i \in 1 .. k : s[i] = h
  PROVE  LastBlock(k, s, b, h, r1) = LastBlock(k, s, b, h, r)
<1>1. PICK i : IsLast(i, k, s, h)
  BY LastHit, Zenon
<1>2. LastBlock(k, s, b, h, r1) = b[i] /\ LastBlock(k, s, b, h, r) = b[i]
  BY <1>1, LastBlockAt
<1> QED BY <1>2

Agree(k, s, t) == \A i \in 1 .. k : t[i] = s[i]

(* Two pairs of sequences with the same contents. *)
LEMMA LastBlockSame ==
  ASSUME NEW k \in Nat, NEW s, NEW b, NEW t, NEW c,
         Agree(k, s, t), Agree(k, b, c), NEW h, NEW r
  PROVE  LastBlock(k, t, c, h, r) = LastBlock(k, s, b, h, r)
<1>1. CASE \E i \in 1 .. k : s[i] = h
  <2>1. PICK i : IsLast(i, k, s, h)
    BY <1>1, LastHit, Zenon
  <2>2. IsLast(i, k, t, h) /\ c[i] = b[i]
    BY <2>1 DEF IsLast, Agree
  <2>3. LastBlock(k, s, b, h, r) = b[i] /\ LastBlock(k, t, c, h, r) = c[i]
    BY <2>1, <2>2, LastBlockAt
  <2> QED BY <2>2, <2>3
<1>2. CASE \A i \in 1 .. k : s[i] # h
  <2>1. \A i \in 1 .. k : t[i] # h
    BY <1>2 DEF Agree
  <2>2. LastBlock(k, s, b, h, r) = r /\ LastBlock(k, t, c, h, r) = r
    BY <1>2, <2>1, LastBlockNone
  <2> QED BY <2>2
<1> QED BY <1>1, <1>2

(* A write is begun. *)
LEMMA LastBlockLonger ==
  ASSUME NEW k \in Nat, NEW s, NEW b, NEW t, NEW c,
         Agree(k, s, t), Agree(k, b, c), NEW h, NEW r
  PROVE  /\ t[k + 1] = h => LastBlock(k + 1, t, c, h, r) = c[k + 1]
         /\ t[k + 1] # h => LastBlock(k + 1, t, c, h, r) = LastBlock(k, s, b, h, r)
<1>0. k + 1 \in Nat /\ \A j \in 1 .. k + 1 : j \in 1 .. k \/ j = k + 1
  OBVIOUS
<1>1. CASE t[k + 1] = h
  <2>1. IsLast(k + 1, k + 1, t, h)
    BY <1>1 DEF IsLast
  <2>2. LastBlock(k + 1, t, c, h, r) = c[k + 1]
    BY <1>0, <2>1, LastBlockAt
  <2> QED BY <1>1, <2>2
<1>2. CASE t[k + 1] # h /\ \E i \in 1 .. k : s[i] = h
  <2>1. PICK i : IsLast(i, k, s, h)
    BY <1>2, LastHit, Zenon
  <2>2. IsLast(i, k + 1, t, h) /\ c[i] = b[i]
    BY <1>0, <1>2, <2>1 DEF IsLast, Agree
  <2>3. LastBlock(k, s, b, h, r) = b[i] /\ LastBlock(k + 1, t, c, h, r) = c[i]
    BY <1>0, <2>1, <2>2, LastBlockAt
  <2> QED BY <1>2, <2>2, <2>3
<1>3. CASE t[k + 1] # h /\ \A i \in 1 .. k : s[i] # h
  <2>1. \A i \in 1 .. k + 1 : t[i] # h
    BY <1>0, <1>3 DEF Agree
  <2>2. LastBlock(k, s, b, h, r) = r /\ LastBlock(k + 1, t, c, h, r) = r
    BY <1>0, <1>3, <2>1, LastBlockNone
  <2> QED BY <1>3, <2>2
<1> QED BY <1>1, <1>2, <1>3

Shift(k, s, t) == \A i \in 1 .. k : t[i] = s[i + 1]

(* The oldest write is stored. *)
LEMMA LastBlockShorter ==
  ASSUME NEW k \in Nat, NEW s, NEW b, NEW t, NEW c,
         Shift(k, s, t), Shift(k, b, c), NEW h, NEW r, NEW r1, s[1] = h => r1 = b[1], s[1] # h => r1 = r
  PROVE  LastBlock(k, t, c, h, r1) = LastBlock(k + 1, s, b, h, r)
<1>0. k + 1 \in Nat /\ 1 \in 1 .. k + 1
      /\ \A j \in 1 .. k + 1 : j = 1 \/ (j - 1 \in 1 .. k /\ (j - 1) + 1 = j)
  OBVIOUS
<1>1. CASE \E i \in 1 .. k : t[i] = h
  <2>1. PICK i : IsLast(i, k, t, h)
    BY <1>1, LastHit, Zenon
  <2>2. \A j \in 1 .. k + 1 : s[j] = h => j <= i + 1
    <3> TAKE j \in 1 .. k + 1
    <3> HAVE s[j] = h
    <3>1. i \in 1 .. k /\ (j = 1 \/ j - 1 <= i)
      BY <1>0, <2>1 DEF IsLast, Shift
    <3> QED BY <3>1
  <2>3. IsLast(i + 1, k + 1, s, h) /\ c[i] = b[i + 1]
    BY <2>1, <2>2 DEF IsLast, Shift
  <2>4. LastBlock(k + 1, s, b, h, r) = b[i + 1] /\ LastBlock(k, t, c, h, r1) = c[i]
    BY <1>0, <2>1, <2>3, LastBlockAt
  <2> QED BY <2>3, <2>4
<1>2. CASE \A i \in 1 .. k : t[i] # h
  <2>1. LastBlock(k, t, c, h, r1) = r1
    BY <1>2, LastBlockNone
  <2>2. \A j \in 1 .. k + 1 : s[j] = h => j = 1
    BY <1>0, <1>2 DEF Shift
  <2>3. CASE s[1] = h
    <3>1. IsLast(1, k + 1, s, h)
      BY <1>0, <2>2, <2>3 DEF IsLast
    <3>2. LastBlock(k + 1, s, b, h, r) = b[1]
      BY <1>0, <3>1, LastBlockAt
    <3> QED BY <2>1, <2>3, <3>2
  <2>4. CASE s[1] # h
    <3>1. \A j \in 1 .. k + 1 : s[j] # h
      BY <2>2, <2>4
    <3>2. LastBlock(k + 1, s, b, h, r) = r
      BY <1>0, <3>1, LastBlockNone
    <3> QED BY <2>1, <2>4, <3>2
  <2> QED BY <2>3, <2>4
<1> QED BY <1>1, <1>2

-----------------------------------------------------------------------------
(* The writes under way, element by element.                                *)

OutAt(w, c) ==
  LET q == WritesOf(headers[w][c])
      b == blocks[w][c]
      s == OutOffsets(w, c)
      t == OutBlocks(w, c)
  IN  /\ DOMAIN s = 1 .. Len(s) /\ DOMAIN t = 1 .. Len(s)
      /\ Len(s) \in Nat /\ Len(q) \in Nat /\ Len(b) \in Nat
      /\ Serves(c, w) => /\ Len(s) = Len(q) + 1 /\ s[1] = serving[c].off
                         /\ \A i \in 1 .. Len(q) : s[i + 1] = q[i].off
      /\ ~ Serves(c, w) => Len(s) = Len(q) /\ \A i \in 1 .. Len(q) : s[i] = q[i].off
      /\ Sends(w, c) => Len(s) = Len(b) + 1 /\ t[Len(b) + 1] = call[w].data
      /\ ~ Sends(w, c) => Len(s) = Len(b)
      /\ \A i \in 1 .. Len(b) : t[i] = b[i]

(* The block w means by header offset h, if c owns the record. *)
Block(w, c, h) ==
  LastBlock(Len(OutOffsets(w, c)), OutOffsets(w, c), OutBlocks(w, c), h, records[c][<<w, h>>])

Described ==
  \A w \in Work, c \in Ocore :
    /\ OutAt(w, c)
    /\ \A o \in DOMAIN rank_map[w] : rank_map[w][o] = c => Latest(w, o) = Block(w, c, HeaderOffset(o))

LEMMA ConcatAt ==
  ASSUME NEW S, NEW s \in Seq(S), NEW t \in Seq(S)
  PROVE  /\ \A i \in 1 .. Len(s) : (s \o t)[i] = s[i]
         /\ \A i \in 1 .. Len(t) : (s \o t)[Len(s) + i] = t[i]
OBVIOUS

LEMMA InvariantDescribes == IInv => Described
<1> SUFFICES ASSUME IInv, NEW w \in Work, NEW c \in Ocore
             PROVE  /\ OutAt(w, c)
                    /\ \A o \in DOMAIN rank_map[w] :
                         rank_map[w][o] = c => Latest(w, o) = Block(w, c, HeaderOffset(o))
  BY DEF Described
<1> DEFINE q == WritesOf(headers[w][c])
           b == blocks[w][c]
           offs == [i \in 1 .. Len(q) |-> q[i].off]
           first == IF Serves(c, w) THEN <<serving[c].off>> ELSE << >>
           last == IF Sends(w, c) THEN <<call[w].data>> ELSE << >>
           s == OutOffsets(w, c)
           t == OutBlocks(w, c)
<1>1. Types_OK /\ Task(w)
  BY DEF IInv
<1>2. q \in Seq(HeaderSet) /\ Len(q) \in Nat /\ b \in Seq(Data) /\ Len(b) \in Nat
  BY <1>1, Queues, WritesOfType, MatchedInt
<1>3. /\ s \in Seq(Nat) /\ t \in Seq(Data) /\ Len(s) = Len(t)
      /\ Serves(c, w) => Len(s) = Len(q) + 1
      /\ ~ Serves(c, w) => Len(s) = Len(q) + 0
      /\ Sends(w, c) => Len(t) = Len(b) + 1
      /\ ~ Sends(w, c) => Len(t) = Len(b) + 0
  BY OutLengths
<1>4. s = first \o offs /\ t = b \o last
  BY DEF OutOffsets, OutBlocks, Serves, Sends
<1>5. DOMAIN s = 1 .. Len(s) /\ DOMAIN t = 1 .. Len(s) /\ Len(s) \in Nat
  <2>1. \A x \in Seq(Nat) : DOMAIN x = 1 .. Len(x) /\ Len(x) \in Nat
    OBVIOUS
  <2>2. \A x \in Seq(Data) : DOMAIN x = 1 .. Len(x)
    OBVIOUS
  <2> HIDE DEF s, t
  <2> QED BY <1>3, <2>1, <2>2
<1> HIDE DEF q, b, s, t
<1>6. offs \in Seq(Nat) /\ Len(offs) = Len(q) /\ \A i \in 1 .. Len(q) : offs[i] = q[i].off
  <2>1. \A i \in 1 .. Len(q) : q[i].off \in Nat
    <3>1. \A i \in 1 .. Len(q) : q[i] \in HeaderSet
      BY <1>2
    <3>2. \A m \in HeaderSet : m.off \in Nat
      BY DEF HeaderSet
    <3> QED BY <3>1, <3>2
  <2> QED BY <1>2, <2>1
<1>7. /\ first \in Seq(Nat)
      /\ Serves(c, w) => Len(first) = 1 /\ first[1] = serving[c].off
      /\ ~ Serves(c, w) => Len(first) = 0
  BY <1>1 DEF Types_OK
<1>8. /\ last \in Seq(Data)
      /\ Sends(w, c) => Len(last) = 1 /\ last[1] = call[w].data
  BY <1>1 DEF Task, Sends, InCall
<1> HIDE DEF offs, first, last
<1>9. /\ \A i \in 1 .. Len(first) : s[i] = first[i]
      /\ \A i \in 1 .. Len(q) : s[Len(first) + i] = offs[i]
      /\ \A i \in 1 .. Len(b) : t[i] = b[i]
      /\ \A i \in 1 .. Len(last) : t[Len(b) + i] = last[i]
  <2>1. /\ \A i \in 1 .. Len(first) : (first \o offs)[i] = first[i]
        /\ \A i \in 1 .. Len(offs) : (first \o offs)[Len(first) + i] = offs[i]
    BY <1>6, <1>7, ConcatAt
  <2>2. /\ \A i \in 1 .. Len(b) : (b \o last)[i] = b[i]
        /\ \A i \in 1 .. Len(last) : (b \o last)[Len(b) + i] = last[i]
    BY <1>2, <1>8, ConcatAt
  <2> QED BY <1>4, <1>6, <2>1, <2>2, Zenon
<1>10. OutAt(w, c)
  <2>1. Serves(c, w) => /\ Len(s) = Len(q) + 1 /\ s[1] = serving[c].off
                        /\ \A i \in 1 .. Len(q) : s[i + 1] = q[i].off
    <3> SUFFICES ASSUME Serves(c, w)
                 PROVE  s[1] = serving[c].off /\ \A i \in 1 .. Len(q) : s[i + 1] = q[i].off
      BY <1>3
    <3>1. Len(first) = 1 /\ first[1] = serving[c].off
      BY <1>7
    <3>2. 1 \in 1 .. 1 /\ \A i \in 1 .. Len(q) : 1 + i = i + 1
      BY <1>2
    <3> QED BY <1>6, <1>9, <3>1, <3>2
  <2>2. ~ Serves(c, w) => Len(s) = Len(q) /\ \A i \in 1 .. Len(q) : s[i] = q[i].off
    <3> SUFFICES ASSUME ~ Serves(c, w)
                 PROVE  Len(s) = Len(q) /\ \A i \in 1 .. Len(q) : s[i] = q[i].off
      OBVIOUS
    <3>1. Len(q) + 0 = Len(q) /\ \A i \in 1 .. Len(q) : Len(first) + i = i
      BY <1>2, <1>7
    <3> QED BY <1>3, <1>6, <1>9, <3>1
  <2>3. Sends(w, c) => Len(s) = Len(b) + 1 /\ t[Len(b) + 1] = call[w].data
    <3> SUFFICES ASSUME Sends(w, c) PROVE t[Len(b) + 1] = call[w].data
      BY <1>3
    <3>1. 1 \in 1 .. Len(last)
      BY <1>8
    <3> QED BY <1>8, <1>9, <3>1
  <2>4. ~ Sends(w, c) => Len(s) = Len(b)
    BY <1>2, <1>3
  <2> QED BY <1>2, <1>5, <1>9, <2>1, <2>2, <2>3, <2>4, Zenon DEF OutAt, q, b, s, t
<1>11. ASSUME NEW o \in DOMAIN rank_map[w], rank_map[w][o] = c
       PROVE  Latest(w, o) = Block(w, c, HeaderOffset(o))
  <2>1. DOMAIN s \cap DOMAIN t = 1 .. Len(s)
    BY <1>5
  <2>2. Block(w, c, HeaderOffset(o)) = LastBlock(Len(s), s, t, HeaderOffset(o), records[c][<<w, HeaderOffset(o)>>])
    BY DEF Block, s, t
  <2> DEFINE hits == {i \in 1 .. Len(s) : s[i] = HeaderOffset(o)}
  <2>3. Latest(w, o) = IF hits = {} THEN records[c][<<w, HeaderOffset(o)>>]
                       ELSE t[CHOOSE i \in hits : \A j \in hits : j <= i]
    <3>1. Latest(w, o) =
            LET hit == {i \in DOMAIN s \cap DOMAIN t : s[i] = HeaderOffset(o)}
            IN  IF hit = {} THEN records[c][<<w, HeaderOffset(o)>>]
                ELSE t[CHOOSE i \in hit : \A j \in hit : j <= i]
      BY <1>11 DEF Latest, s, t
    <3> QED BY <2>1, <3>1
  <2> QED BY <2>2, <2>3 DEF LastBlock
<1> QED BY <1>10, <1>11

-----------------------------------------------------------------------------
(* What a step does to the writes under way between w and c.                *)

(* Nothing. *)
LEMMA OffsetsKept ==
  ASSUME NEW w \in Work, NEW c \in Ocore,
         WritesOf(headers'[w][c]) = WritesOf(headers[w][c]),
         Serves(c, w)' <=> Serves(c, w), Serves(c, w) => serving'[c] = serving[c]
  PROVE  OutOffsets(w, c)' = OutOffsets(w, c)
<1> DEFINE Offs(first, q) == first \o [i \in 1 .. Len(q) |-> q[i].off]
<1>1. CASE Serves(c, w)
  <2>1. OutOffsets(w, c) = Offs(<<serving[c].off>>, WritesOf(headers[w][c]))
    BY <1>1 DEF OutOffsets, Serves
  <2>2. OutOffsets(w, c)' = Offs(<<serving'[c].off>>, WritesOf(headers'[w][c]))
    BY <1>1 DEF OutOffsets, Serves
  <2> HIDE DEF Offs
  <2> QED BY <1>1, <2>1, <2>2, Zenon
<1>2. CASE ~ Serves(c, w)
  <2>1. OutOffsets(w, c) = Offs(<< >>, WritesOf(headers[w][c]))
    BY <1>2 DEF OutOffsets, Serves
  <2>2. OutOffsets(w, c)' = Offs(<< >>, WritesOf(headers'[w][c]))
    BY <1>2 DEF OutOffsets, Serves
  <2> HIDE DEF Offs
  <2> QED BY <1>2, <2>1, <2>2, Zenon
<1> QED BY <1>1, <1>2

LEMMA BlocksKept ==
  ASSUME NEW w \in Work, NEW c \in Ocore, blocks'[w][c] = blocks[w][c],
         Sends(w, c)' <=> Sends(w, c), Sends(w, c) => call'[w] = call[w]
  PROVE  OutBlocks(w, c)' = OutBlocks(w, c)
<1>1. CASE Sends(w, c)
  <2>1. OutBlocks(w, c) = blocks[w][c] \o <<call[w].data>>
    BY <1>1 DEF OutBlocks, Sends
  <2>2. OutBlocks(w, c)' = blocks'[w][c] \o <<call'[w].data>>
    BY <1>1 DEF OutBlocks, Sends
  <2> QED BY <1>1, <2>1, <2>2, Zenon
<1>2. CASE ~ Sends(w, c)
  <2>1. OutBlocks(w, c) = blocks[w][c] \o << >>
    BY <1>2 DEF OutBlocks, Sends
  <2>2. OutBlocks(w, c)' = blocks'[w][c] \o << >>
    BY <1>2 DEF OutBlocks, Sends
  <2> QED BY <1>2, <2>1, <2>2, Zenon
<1> QED BY <1>1, <1>2

LEMMA BlockKept ==
  ASSUME NEW w \in Work, NEW c \in Ocore, NEW h,
         WritesOf(headers'[w][c]) = WritesOf(headers[w][c]), blocks'[w][c] = blocks[w][c],
         Serves(c, w)' <=> Serves(c, w), Serves(c, w) => serving'[c] = serving[c],
         Sends(w, c)' <=> Sends(w, c), Sends(w, c) => call'[w] = call[w],
         records'[c] = records[c]
  PROVE  Block(w, c, h)' = Block(w, c, h)
<1>1. OutOffsets(w, c)' = OutOffsets(w, c)
  BY OffsetsKept
<1>2. OutBlocks(w, c)' = OutBlocks(w, c)
  BY BlocksKept
<1> QED BY <1>1, <1>2, Zenon DEF Block

(* The abstract memory, and when a step leaves it alone. *)
mem == [w \in Work |-> [o \in DOMAIN rank_map[w] |-> Latest(w, o)]]

Means(w, c, h) == \E o \in DOMAIN rank_map[w] : rank_map[w][o] = c /\ HeaderOffset(o) = h

LEMMA MemoryKept ==
  ASSUME Described, Described', \A w \in Work : Task(w), rank_map' = rank_map,
         \A w \in Work, c \in Ocore : \A h : Means(w, c, h) => Block(w, c, h)' = Block(w, c, h)
  PROVE  mem' = mem
<1>1. ASSUME NEW w \in Work, NEW o \in DOMAIN rank_map[w]
      PROVE  Latest(w, o)' = Latest(w, o)
  <2>1. PICK c \in Ocore : rank_map[w][o] = c
    BY DEF Task
  <2>2. Latest(w, o) = Block(w, c, HeaderOffset(o))
    BY <2>1 DEF Described
  <2>3. Latest(w, o)' = Block(w, c, HeaderOffset(o))'
    BY <2>1 DEF Described
  <2>4. Means(w, c, HeaderOffset(o))
    BY <2>1 DEF Means
  <2> QED BY <2>2, <2>3, <2>4
<1> QED BY <1>1 DEF mem

(* A work task between calls has no read and no exit waiting. *)
LEMMA IdleQueue ==
  ASSUME IInv, NEW w \in Work, pc[w] = "idle", NEW c \in Ocore
  PROVE  AllWrites(headers[w][c])
<1>1. Teardown /\ Order(w, c)
  BY DEF IInv, Pair
<1>2. w = Master => c \notin exits
  BY <1>1 DEF Teardown, Passed
<1> QED BY <1>1, <1>2 DEF Order, AllWrites, Waits

LEMMA Posted ==
  ASSUME IInv, NEW w \in Work, NEW c \in Ocore, NEW m, headers' = Post(headers, w, c, m)
  PROVE  headers'[w][c] = Append(headers[w][c], m)
BY DEF IInv, Types_OK, Post

(* Posting a header changes nothing between other pairs. *)
LEMMA PostElsewhere ==
  ASSUME IInv, NEW w \in Work, pc[w] = "idle", NEW c \in Ocore, NEW m, NEW the_call,
         headers' = Post(headers, w, c, m), call' = [call EXCEPT ![w] = the_call],
         pc' = [pc EXCEPT ![w] = "header"], rank_map'[w][the_call.off] = c,
         \A v \in Work \ {w} : rank_map'[v] = rank_map[v],
         UNCHANGED <<blocks, ocoreVars>>,
         NEW v \in Work, NEW e \in Ocore, v # w \/ e # c, NEW h
  PROVE  Block(v, e, h)' = Block(v, e, h)
<1>1. Types_OK
  BY DEF IInv
<1>2. headers'[v][e] = headers[v][e] /\ call'[w] = the_call /\ pc'[w] = "header"
      /\ (v # w => call'[v] = call[v] /\ pc'[v] = pc[v])
  BY <1>1 DEF Types_OK, Post
<1>3. (Serves(e, v)' <=> Serves(e, v)) /\ serving' = serving /\ records' = records /\ blocks' = blocks
  BY DEF Serves, ocoreVars
<1>4. Sends(v, e)' <=> Sends(v, e)
  BY <1>2 DEF Sends
<1>5. Sends(v, e) => call'[v] = call[v]
  BY <1>2 DEF Sends
<1> QED BY <1>2, <1>3, <1>4, <1>5, BlockKept

(* A read is begun. *)
LEMMA PostReadBlocks ==
  ASSUME IInv, NEW w \in Work, pc[w] = "idle", NEW c \in Ocore, NEW n \in Nat, NEW the_call,
         headers' = Post(headers, w, c, [type |-> "OCORE_READ", off |-> n]),
         call' = [call EXCEPT ![w] = the_call], the_call.op # "write",
         pc' = [pc EXCEPT ![w] = "header"], rank_map' = rank_map, rank_map[w][the_call.off] = c,
         UNCHANGED <<blocks, ocoreVars>>
  PROVE  \A v \in Work, e \in Ocore : \A h : Block(v, e, h)' = Block(v, e, h)
<1> DEFINE m == [type |-> "OCORE_READ", off |-> n]
           q == headers[w][c]
<1>1. Types_OK
  BY DEF IInv
<1>2. m \in HeaderSet /\ ~ IsWrite(m)
  BY DEF HeaderSet, Types, IsWrite
<1> SUFFICES ASSUME NEW v \in Work, NEW e \in Ocore, NEW h PROVE Block(v, e, h)' = Block(v, e, h)
  OBVIOUS
<1>3. CASE v # w \/ e # c
  BY <1>3, PostElsewhere
<1>4. CASE v = w /\ e = c
  <2>1. headers'[w][c] = Append(q, m) /\ q \in Seq(HeaderSet)
    <3>1. headers'[w][c] = Append(q, m)
      BY Posted, Zenon
    <3>2. q \in Seq(HeaderSet)
      BY <1>1, Queues
    <3> QED BY <3>1, <3>2, Zenon
  <2> HIDE DEF m
  <2>2. WritesOf(Append(q, m)) = q /\ WritesOf(q) = q
    <3>1. AllWrites(q)
      BY IdleQueue
    <3> HIDE DEF q
    <3> QED BY <1>2, <2>1, <3>1, WritesOfAll, WritesOfAppend
  <2>3. WritesOf(headers'[w][c]) = WritesOf(headers[w][c])
    BY <2>1, <2>2, Zenon
  <2>4. ~ Sends(w, c) /\ ~ Sends(w, c)'
    BY <1>1 DEF Types_OK, Sends
  <2>5. (Serves(c, w)' <=> Serves(c, w)) /\ serving' = serving /\ records' = records /\ blocks' = blocks
    BY DEF Serves, ocoreVars
  <2> QED BY <1>4, <2>3, <2>4, <2>5, BlockKept
<1> QED BY <1>3, <1>4

(* A write is begun. *)
LEMMA PostWriteBlocks ==
  ASSUME IInv, Described, Described', NEW w \in Work, pc[w] = "idle", NEW c \in Ocore,
         NEW type \in {"OCORE_WRITE_NEW", "OCORE_UPDATE_OLD"}, NEW o \in Offsets, NEW d \in Data,
         PostHeader(w, c, type, Call("write", o, d)),
         rank_map'[w][o] = c, \A v \in Work \ {w} : rank_map'[v] = rank_map[v],
         UNCHANGED <<blocks, ocoreVars>>
  PROVE  \A v \in Work, e \in Ocore : \A h :
           Block(v, e, h)' = IF v = w /\ e = c /\ h = HeaderOffset(o) THEN d ELSE Block(v, e, h)
<1> DEFINE m == [type |-> type, off |-> HeaderOffset(o)]
           q == headers[w][c]
<1>1. Types_OK /\ HeaderOffset(o) \in Nat
  BY Constants, HeaderOffsetType DEF IInv
<1>2. m \in HeaderSet /\ IsWrite(m) /\ m.off = HeaderOffset(o)
  BY <1>1 DEF HeaderSet, Types, IsWrite
<1>3. headers' = Post(headers, w, c, m) /\ call' = [call EXCEPT ![w] = Call("write", o, d)]
      /\ pc' = [pc EXCEPT ![w] = "header"]
  BY DEF PostHeader, Call
<1>4. Call("write", o, d).op = "write" /\ Call("write", o, d).off = o /\ Call("write", o, d).data = d
      /\ rank_map'[w][Call("write", o, d).off] = c
  BY DEF Call
<1> HIDE DEF m
<1> SUFFICES ASSUME NEW v \in Work, NEW e \in Ocore, NEW h
             PROVE  Block(v, e, h)' =
                      IF v = w /\ e = c /\ h = HeaderOffset(o) THEN d ELSE Block(v, e, h)
  OBVIOUS
<1>5. CASE v # w \/ e # c
  BY <1>3, <1>4, <1>5, PostElsewhere
<1>6. CASE v = w /\ e = c
  <2> DEFINE k == Len(OutOffsets(w, c))
             s == OutOffsets(w, c)
             b == OutBlocks(w, c)
             t == OutOffsets(w, c)'
             f == OutBlocks(w, c)'
             r == records[c][<<w, h>>]
  <2>1. headers'[w][c] = Append(q, m) /\ q \in Seq(HeaderSet) /\ Len(q) \in Nat
    BY <1>1, <1>3, Queues DEF Types_OK, Post
  <2>2. WritesOf(q) = q /\ WritesOf(headers'[w][c]) = Append(q, m)
    <3>1. AllWrites(q)
      BY IdleQueue
    <3>2. WritesOf(Append(q, m)) = Append(q, m)
      BY <1>2, <2>1, <3>1, WritesOfAppend
    <3>3. WritesOf(q) = q
      BY <2>1, <3>1, WritesOfAll
    <3> QED BY <2>1, <3>2, <3>3, Zenon
  <2>3. Len(Append(q, m)) = Len(q) + 1 /\ Append(q, m)[Len(q) + 1] = m
        /\ \A i \in 1 .. Len(q) : Append(q, m)[i] = q[i]
    BY <2>1
  <2>4. ~ Sends(w, c) /\ Sends(w, c)' /\ call'[w].data = d
    BY <1>1, <1>3, <1>4 DEF Types_OK, Sends
  <2>5. (Serves(c, w)' <=> Serves(c, w)) /\ serving' = serving /\ records' = records
        /\ blocks'[w][c] = blocks[w][c]
    BY DEF Serves, ocoreVars
  <2>6. OutAt(w, c) /\ OutAt(w, c)'
    BY DEF Described
  <2> HIDE DEF q
  <2>7. /\ k \in Nat /\ k = Len(blocks[w][c])
        /\ \A i \in 1 .. Len(blocks[w][c]) : b[i] = blocks[w][c][i]
        /\ Serves(c, w) => /\ k = Len(q) + 1 /\ s[1] = serving[c].off
                           /\ \A i \in 1 .. Len(q) : s[i + 1] = q[i].off
        /\ ~ Serves(c, w) => k = Len(q) /\ \A i \in 1 .. Len(q) : s[i] = q[i].off
    <3>1. WritesOf(headers[w][c]) = q
      BY <2>2 DEF q
    <3> QED BY <2>4, <2>6, <3>1 DEF OutAt
  <2> DEFINE a == Append(q, m)
  <2>8. /\ Len(t) = Len(blocks[w][c]) + 1
        /\ \A i \in 1 .. Len(blocks[w][c]) : f[i] = blocks[w][c][i]
        /\ f[Len(blocks[w][c]) + 1] = d
        /\ Serves(c, w) => /\ t[1] = serving[c].off
                           /\ \A i \in 1 .. Len(a) : t[i + 1] = a[i].off
        /\ ~ Serves(c, w) => \A i \in 1 .. Len(a) : t[i] = a[i].off
    <3>1. WritesOf(headers'[w][c]) = a
      BY <2>2 DEF q
    <3> HIDE DEF a
    <3>2. /\ Len(t) = Len(blocks'[w][c]) + 1
          /\ \A i \in 1 .. Len(blocks'[w][c]) : f[i] = blocks'[w][c][i]
          /\ f[Len(blocks'[w][c]) + 1] = call'[w].data
      BY <2>4, <2>6 DEF OutAt
    <3>3. /\ Serves(c, w)' => /\ t[1] = serving'[c].off
                              /\ \A i \in 1 .. Len(a) : t[i + 1] = a[i].off
          /\ ~ Serves(c, w)' => \A i \in 1 .. Len(a) : t[i] = a[i].off
      BY <2>6, <3>1 DEF OutAt
    <3> QED BY <2>4, <2>5, <3>2, <3>3
  <2> HIDE DEF k, s, b, t, f, r
  <2>9. \A i \in 1 .. k : f[i] = b[i]
    BY <2>7, <2>8
  <2>10. f[k + 1] = d /\ Len(t) = k + 1
    BY <2>7, <2>8
  <2>11. (\A i \in 1 .. k : t[i] = s[i]) /\ t[k + 1] = HeaderOffset(o)
    <3>1. CASE Serves(c, w)
      <4>1. \A i \in 1 .. Len(q) : t[i + 1] = q[i].off
        BY <2>1, <2>3, <2>8, <3>1
      <4>2. \A i \in 1 .. k : i = 1 \/ (i - 1 \in 1 .. Len(q) /\ (i - 1) + 1 = i)
        BY <2>1, <2>7, <3>1
      <4>3. ASSUME NEW i \in 1 .. k PROVE t[i] = s[i]
        <5>1. CASE i = 1
          BY <2>7, <2>8, <3>1, <5>1
        <5>2. CASE i # 1
          <6>1. i - 1 \in 1 .. Len(q) /\ (i - 1) + 1 = i
            BY <4>2, <5>2
          <6>2. t[(i - 1) + 1] = s[(i - 1) + 1]
            BY <2>7, <3>1, <4>1, <6>1
          <6> QED BY <6>1, <6>2
        <5> QED BY <5>1, <5>2
      <4>4. t[k + 1] = HeaderOffset(o)
        BY <1>2, <2>1, <2>3, <2>7, <2>8, <3>1
      <4> QED BY <4>3, <4>4
    <3>2. CASE ~ Serves(c, w)
      <4>1. k = Len(q) /\ Len(a) = k + 1 /\ \A i \in 1 .. k : s[i] = q[i].off
        BY <2>3, <2>7, <3>2
      <4>2. \A i \in 1 .. k + 1 : t[i] = a[i].off
        BY <2>8, <3>2, <4>1
      <4>3. \A i \in 1 .. k : a[i] = q[i] /\ i \in 1 .. k + 1
        BY <2>3, <2>7, <4>1
      <4>4. k + 1 \in 1 .. k + 1 /\ a[k + 1] = m
        BY <2>3, <2>7, <4>1
      <4> HIDE DEF a
      <4> QED BY <1>2, <4>1, <4>2, <4>3, <4>4
    <3> QED BY <3>1, <3>2
  <2>12. /\ t[k + 1] = h => LastBlock(k + 1, t, f, h, r) = f[k + 1]
         /\ t[k + 1] # h => LastBlock(k + 1, t, f, h, r) = LastBlock(k, s, b, h, r)
    <3>1. k \in Nat /\ Agree(k, s, t) /\ Agree(k, b, f)
      BY <2>7, <2>9, <2>11 DEF Agree
    <3> QED BY <3>1, LastBlockLonger
  <2>13. Block(w, c, h) = LastBlock(k, s, b, h, r) /\ Block(w, c, h)' = LastBlock(k + 1, t, f, h, r)
    <3>1. Block(w, c, h)' = LastBlock(Len(t), t, f, h, records'[c][<<w, h>>])
      BY DEF Block, t, f
    <3>2. records'[c][<<w, h>>] = r
      BY <2>5 DEF r
    <3> QED BY <2>10, <3>1, <3>2 DEF Block, k, s, b, r
  <2> QED BY <1>6, <2>10, <2>11, <2>12, <2>13
<1> QED BY <1>5, <1>6

(* The same writes, in other places. *)
LEMMA BlockAgrees ==
  ASSUME NEW w \in Work, NEW c \in Ocore, NEW h, Len(OutOffsets(w, c)) \in Nat,
         Len(OutOffsets(w, c)') = Len(OutOffsets(w, c)),
         Agree(Len(OutOffsets(w, c)), OutOffsets(w, c), OutOffsets(w, c)'),
         Agree(Len(OutOffsets(w, c)), OutBlocks(w, c), OutBlocks(w, c)'),
         records'[c] = records[c]
  PROVE  Block(w, c, h)' = Block(w, c, h)
<1> DEFINE k == Len(OutOffsets(w, c))
           r == records[c][<<w, h>>]
<1>1. Block(w, c, h)' = LastBlock(k, OutOffsets(w, c)', OutBlocks(w, c)', h, r)
  BY DEF Block
<1>2. Block(w, c, h) = LastBlock(k, OutOffsets(w, c), OutBlocks(w, c), h, r)
  BY DEF Block
<1> HIDE DEF k, r
<1>3. k \in Nat /\ Agree(k, OutOffsets(w, c), OutOffsets(w, c)')
      /\ Agree(k, OutBlocks(w, c), OutBlocks(w, c)')
  BY DEF k
<1> QED BY <1>1, <1>2, <1>3, LastBlockSame

(* The block follows its header. *)
LEMMA SendDataBlocks ==
  ASSUME IInv, Described, Described', NEW w \in Work, SendData(w),
         NEW c \in Ocore, c = rank_map[w][call[w].off]
  PROVE  \A v \in Work, e \in Ocore : \A h : Block(v, e, h)' = Block(v, e, h)
<1>1. Types_OK
  BY DEF IInv
<1>2. /\ pc[w] = "header" /\ call[w].op = "write" /\ blocks' = Post(blocks, w, c, call[w].data)
      /\ pc' = [pc EXCEPT ![w] = "data"] /\ rank_map' = rank_map /\ call' = call
      /\ headers' = headers /\ poll' = poll /\ serving' = serving /\ records' = records
  BY DEF SendData, ocoreVars
<1>3. /\ pc'[w] = "data" /\ \A v \in Work \ {w} : pc'[v] = pc[v]
      /\ blocks'[w][c] = Append(blocks[w][c], call[w].data)
      /\ \A v \in Work, e \in Ocore : v # w \/ e # c => blocks'[v][e] = blocks[v][e]
  BY <1>1, <1>2 DEF Types_OK, Post
<1> SUFFICES ASSUME NEW v \in Work, NEW e \in Ocore, NEW h PROVE Block(v, e, h)' = Block(v, e, h)
  OBVIOUS
<1>4. Serves(e, v)' <=> Serves(e, v)
  BY <1>2 DEF Serves
<1>5. CASE v # w \/ e # c
  <2>1. Sends(v, e)' <=> Sends(v, e)
    BY <1>2, <1>3, <1>5 DEF Sends
  <2> QED BY <1>2, <1>3, <1>4, <1>5, <2>1, BlockKept
<1>6. CASE v = w /\ e = c
  <2> DEFINE b == blocks[w][c]
             k == Len(OutOffsets(w, c))
  <2>1. Sends(w, c) /\ ~ Sends(w, c)'
    BY <1>2, <1>3 DEF Sends
  <2>2. OutAt(w, c) /\ OutAt(w, c)'
    BY DEF Described
  <2>3. /\ k \in Nat /\ k = Len(b) + 1 /\ Len(b) \in Nat
        /\ OutBlocks(w, c)[Len(b) + 1] = call[w].data
        /\ \A i \in 1 .. Len(b) : OutBlocks(w, c)[i] = b[i]
    BY <2>1, <2>2 DEF OutAt
  <2>4. /\ Len(Append(b, call[w].data)) = Len(b) + 1
        /\ Append(b, call[w].data)[Len(b) + 1] = call[w].data
        /\ \A i \in 1 .. Len(b) : Append(b, call[w].data)[i] = b[i]
    <3>1. b \in Seq(Data)
      BY <1>1, Queues
    <3> HIDE DEF b
    <3> QED BY <3>1
  <2>5. /\ Len(OutOffsets(w, c)') = Len(blocks'[w][c])
        /\ \A i \in 1 .. Len(blocks'[w][c]) : OutBlocks(w, c)'[i] = blocks'[w][c][i]
    BY <2>1, <2>2 DEF OutAt
  <2>6. Len(OutOffsets(w, c)') = k
    BY <1>3, <2>3, <2>4, <2>5, Zenon
  <2>7. Agree(k, OutBlocks(w, c), OutBlocks(w, c)')
    <3> SUFFICES ASSUME NEW i \in 1 .. k PROVE OutBlocks(w, c)'[i] = OutBlocks(w, c)[i]
      BY DEF Agree
    <3>0. Len(blocks'[w][c]) = k
      BY <2>5, <2>6, Zenon
    <3>1. OutBlocks(w, c)'[i] = Append(b, call[w].data)[i]
      <4>1. OutBlocks(w, c)'[i] = blocks'[w][c][i]
        BY <2>5, <3>0, Zenon
      <4> QED BY <1>3, <4>1, Zenon
    <3> HIDE DEF b, k
    <3>2. i \in 1 .. Len(b) \/ i = Len(b) + 1
      BY <2>3
    <3> QED BY <2>3, <2>4, <3>1, <3>2
  <2>8. OutOffsets(w, c)' = OutOffsets(w, c)
    BY <1>2, <1>4, <1>6, OffsetsKept
  <2>9. Agree(k, OutOffsets(w, c), OutOffsets(w, c)')
    BY <2>8 DEF Agree
  <2> QED BY <1>2, <1>6, <2>3, <2>6, <2>7, <2>9, BlockAgrees
<1> QED BY <1>5, <1>6

(* An Ocore task takes a header: that of a write becomes the request being
   served, any other leaves the writes alone. *)
LEMMA PollBlocks ==
  ASSUME IInv, Described, Described', NEW c \in Ocore, PollForWork(c)
  PROVE  \A v \in Work, e \in Ocore : \A h : Block(v, e, h)' = Block(v, e, h)
<1>1. PICK w \in Work : /\ headers[w][c] # << >> /\ headers' = Take(headers, w, c)
                        /\ PollWrite(c, w) \/ PollRead(c, w) \/ PollExit(c, w)
  BY DEF PollForWork
<1> DEFINE q == headers[w][c]
<1>2. /\ poll[c] = "poll" /\ rank_map' = rank_map /\ call' = call /\ pc' = pc
      /\ blocks' = blocks /\ records' = records /\ Types_OK
  BY DEF PollForWork, workVars, IInv
<1>3. /\ headers'[w][c] = Tail(q)
      /\ \A v \in Work, e \in Ocore : v # w \/ e # c => headers'[v][e] = headers[v][e]
  BY <1>1, <1>2 DEF Types_OK, Take
<1>4. /\ Head(q) = q[1] /\ Head(q) \in HeaderSet /\ q \in Seq(HeaderSet) /\ ~ Serves(c, w)
      /\ ~ IsWrite(Head(q)) => WritesOf(q) = << >> /\ Tail(q) = << >>
  BY <1>1, <1>2, HeadOf, Queues
<1>5. /\ \A e \in Ocore \ {c} : poll'[e] = poll[e] /\ serving'[e] = serving[e]
      /\ poll'[c] = "recv_data" => IsWrite(Head(q)) /\ serving'[c] = Request(w, Head(q).off)
  BY <1>1, <1>2 DEF PollWrite, PollRead, PollExit, Types_OK, IsWrite
<1>6. IsWrite(Head(q)) => poll'[c] = "recv_data" /\ serving'[c] = Request(w, Head(q).off)
  BY <1>1, <1>2 DEF PollWrite, PollRead, PollExit, Types_OK, IsWrite
<1> SUFFICES ASSUME NEW v \in Work, NEW e \in Ocore, NEW h PROVE Block(v, e, h)' = Block(v, e, h)
  OBVIOUS
<1>7. Sends(v, e)' <=> Sends(v, e)
  BY <1>2 DEF Sends
<1>8. CASE v # w \/ e # c
  <2>1. (Serves(e, v)' <=> Serves(e, v)) /\ (Serves(e, v) => serving'[e] = serving[e])
    <3>1. CASE e # c
      BY <1>5, <3>1 DEF Serves
    <3>2. CASE e = c /\ v # w
      <4>1. ~ Serves(c, v)
        BY <1>2 DEF Serves
      <4>2. ~ Serves(c, v)'
        BY <1>5, <3>2 DEF Serves, Request
      <4> QED BY <3>2, <4>1, <4>2
    <3> QED BY <1>8, <3>1, <3>2
  <2> QED BY <1>2, <1>3, <1>7, <1>8, <2>1, BlockKept
<1>9. CASE v = w /\ e = c /\ ~ IsWrite(Head(q))
  <2>1. WritesOf(headers'[w][c]) = WritesOf(headers[w][c])
    <3>1. WritesOf(<< >>) = << >>
      BY DEF WritesOf
    <3> QED BY <1>3, <1>4, <1>9, <3>1, Zenon
  <2>2. ~ Serves(c, w)'
    BY <1>5, <1>9 DEF Serves
  <2> QED BY <1>2, <1>4, <1>7, <1>9, <2>1, <2>2, BlockKept
<1>10. CASE v = w /\ e = c /\ IsWrite(Head(q))
  <2> DEFINE p == WritesOf(q)
             k == Len(OutOffsets(w, c))
             s == OutOffsets(w, c)
             t == OutOffsets(w, c)'
  <2>1. p \in Seq(HeaderSet) /\ p # << >> /\ Head(p) = Head(q) /\ WritesOf(headers'[w][c]) = Tail(p)
    <3>1. WritesOf(Tail(q)) = Tail(p) /\ p \in Seq(HeaderSet) /\ p # << >> /\ Head(p) = Head(q)
      BY <1>1, <1>4, <1>10, WritesOfTail
    <3> QED BY <1>3, <3>1, Zenon
  <2>2. OutAt(w, c) /\ OutAt(w, c)'
    BY DEF Described
  <2>3. Serves(c, w)' /\ serving'[c].off = Head(p).off
    BY <1>6, <1>10, <2>1 DEF Serves, Request
  <2>4. OutBlocks(w, c)' = OutBlocks(w, c)
    BY <1>2, <1>7, <1>10, BlocksKept
  <2>5. k \in Nat /\ k = Len(p) /\ \A i \in 1 .. Len(p) : s[i] = p[i].off
    BY <1>4, <2>2 DEF OutAt
  <2>6. /\ Len(t) = Len(Tail(p)) + 1 /\ t[1] = Head(p).off
        /\ \A i \in 1 .. Len(Tail(p)) : t[i + 1] = Tail(p)[i].off
    <3>1. /\ Len(t) = Len(WritesOf(headers'[w][c])) + 1 /\ t[1] = serving'[c].off
          /\ \A i \in 1 .. Len(WritesOf(headers'[w][c])) : t[i + 1] = WritesOf(headers'[w][c])[i].off
      BY <2>2, <2>3 DEF OutAt
    <3> HIDE DEF p, t
    <3> QED BY <2>1, <2>3, <3>1, Zenon
  <2> HIDE DEF p, k, s, t
  <2>7. /\ Len(p) > 0 /\ Head(p) = p[1] /\ Len(Tail(p)) = Len(p) - 1 /\ Len(p) \in Nat
        /\ \A i \in 1 .. Len(Tail(p)) : Tail(p)[i] = p[i + 1]
    BY <2>1
  <2>8. Len(t) = k
    BY <2>5, <2>6, <2>7
  <2>9. \A i \in 1 .. k : t[i] = s[i]
    <3> TAKE i \in 1 .. k
    <3>1. CASE i = 1
      BY <2>5, <2>6, <2>7, <3>1
    <3>2. CASE i # 1
      <4>1. i - 1 \in 1 .. Len(Tail(p)) /\ (i - 1) + 1 = i /\ i \in 1 .. Len(p)
        BY <2>5, <2>7, <3>2
      <4>2. t[(i - 1) + 1] = p[(i - 1) + 1].off
        BY <2>6, <2>7, <4>1
      <4> QED BY <2>5, <4>1, <4>2
    <3> QED BY <3>1, <3>2
  <2>10. /\ Len(OutOffsets(w, c)) \in Nat /\ Len(OutOffsets(w, c)') = Len(OutOffsets(w, c))
         /\ Agree(Len(OutOffsets(w, c)), OutOffsets(w, c), OutOffsets(w, c)')
         /\ Agree(Len(OutOffsets(w, c)), OutBlocks(w, c), OutBlocks(w, c)')
    BY <2>4, <2>5, <2>8, <2>9 DEF Agree, k, s, t
  <2> QED BY <1>2, <1>10, <2>10, BlockAgrees
<1> QED BY <1>8, <1>9, <1>10

LEMMA WritesOfAt ==
  ASSUME NEW q \in Seq(HeaderSet), NEW i \in 1 .. Len(q), IsWrite(q[i])
  PROVE  i \in 1 .. Len(WritesOf(q)) /\ WritesOf(q)[i] = q[i]
<1>1. CASE IsWrite(q[Len(q)])
  <2>1. WritesOf(q) = q
    BY <1>1 DEF WritesOf
  <2> QED BY <2>1, Zenon
<1>2. CASE ~ IsWrite(q[Len(q)])
  <2>1. WritesOf(q) = SubSeq(q, 1, Len(q) - 1)
    BY <1>2 DEF WritesOf
  <2>2. Len(q) \in Nat /\ i \in 1 .. Len(q) - 1
    BY <1>2
  <2>3. i \in 1 .. Len(SubSeq(q, 1, Len(q) - 1)) /\ SubSeq(q, 1, Len(q) - 1)[i] = q[i]
    BY <2>2
  <2> QED BY <2>1, <2>3, Zenon
<1> QED BY <1>1, <1>2

(* What w means and the owner does not hold is under way. *)
LEMMA UnderWay ==
  ASSUME IInv, Described, NEW w \in Work, NEW c \in Ocore, NEW h, Means(w, c, h),
         <<w, h>> \notin DOMAIN records[c]
  PROVE  \E i \in 1 .. Len(OutOffsets(w, c)) : OutOffsets(w, c)[i] = h
<1> DEFINE q == headers[w][c]
           s == OutOffsets(w, c)
<1>1. Known(w, c) /\ OutAt(w, c) /\ q \in Seq(HeaderSet)
  BY Queues DEF IInv, Pair, Described
<1>2. CASE Serves(c, w) /\ serving[c].off = h
  <2>1. Len(s) \in Nat /\ Len(s) = Len(WritesOf(q)) + 1 /\ Len(WritesOf(q)) \in Nat /\ s[1] = h
    BY <1>1, <1>2 DEF OutAt
  <2> HIDE DEF q, s
  <2>2. 1 \in 1 .. Len(s)
    BY <2>1
  <2> QED BY <2>1, <2>2 DEF s
<1>3. CASE \E i \in 1 .. Len(q) : IsWrite(q[i]) /\ q[i].off = h
  <2>1. PICK i \in 1 .. Len(q) : IsWrite(q[i]) /\ q[i].off = h
    BY <1>3
  <2>2. i \in 1 .. Len(WritesOf(q)) /\ WritesOf(q)[i].off = h
    BY <1>1, <2>1, WritesOfAt
  <2>3. Len(WritesOf(q)) \in Nat /\ Len(s) \in Nat
    BY <1>1 DEF OutAt
  <2>4. CASE Serves(c, w)
    <3>1. Len(s) = Len(WritesOf(q)) + 1 /\ s[i + 1] = h
      BY <1>1, <2>2, <2>4 DEF OutAt
    <3>2. i + 1 \in 1 .. Len(s)
      <4> HIDE DEF q, s
      <4> QED BY <2>2, <2>3, <3>1
    <3> QED BY <3>1, <3>2
  <2>5. CASE ~ Serves(c, w)
    <3>1. Len(s) = Len(WritesOf(q)) /\ s[i] = h
      BY <1>1, <2>2, <2>5 DEF OutAt
    <3> QED BY <2>2, <3>1
  <2> QED BY <2>4, <2>5
<1> QED BY <1>1, <1>2, <1>3 DEF Known, Means

(* The block of the request being served is stored: what w means by its
   offset is now what the owner holds, or still a later write. *)
LEMMA StoreBlocks ==
  ASSUME IInv, Described, Described', NEW c \in Ocore, StoreData(c),
         NEW w \in Work, w = serving[c].rank, NEW n \in Nat, n = serving[c].off
  PROVE  \A v \in Work, e \in Ocore : \A h : Means(v, e, h) => Block(v, e, h)' = Block(v, e, h)
<1>1. Types_OK
  BY DEF IInv
<1>2. /\ poll[c] = "recv_data" /\ blocks[w][c] # << >> /\ blocks' = Take(blocks, w, c)
      /\ records' = [records EXCEPT ![c] =
                       [x \in DOMAIN records[c] \cup {<<w, n>>} |->
                          IF x = <<w, n>> THEN Head(blocks[w][c]) ELSE records[c][x]]]
      /\ poll' = [poll EXCEPT ![c] = "poll"] /\ serving' = [serving EXCEPT ![c] = NoRequest]
      /\ rank_map' = rank_map /\ call' = call /\ pc' = pc /\ headers' = headers
  BY DEF StoreData, Source, workVars
<1>3. /\ blocks'[w][c] = Tail(blocks[w][c])
      /\ \A v \in Work, e \in Ocore : v # w \/ e # c => blocks'[v][e] = blocks[v][e]
      /\ poll'[c] = "poll" /\ \A e \in Ocore \ {c} : poll'[e] = poll[e] /\ serving'[e] = serving[e]
  BY <1>1, <1>2 DEF Types_OK, Take
<1>4. /\ \A e \in Ocore \ {c} : records'[e] = records[e]
      /\ DOMAIN records'[c] = DOMAIN records[c] \cup {<<w, n>>}
      /\ records'[c][<<w, n>>] = Head(blocks[w][c])
      /\ \A x \in DOMAIN records[c] : x # <<w, n>> => records'[c][x] = records[c][x]
  BY <1>1, <1>2 DEF Types_OK
<1>5. Serves(c, w) /\ ~ Serves(c, w)' /\ \A v \in Work : v # w => ~ Serves(c, v) /\ ~ Serves(c, v)'
  BY <1>2, <1>3 DEF Serves
<1> SUFFICES ASSUME NEW v \in Work, NEW e \in Ocore, NEW h, Means(v, e, h)
             PROVE  Block(v, e, h)' = Block(v, e, h)
  OBVIOUS
<1>6. Sends(v, e)' <=> Sends(v, e)
  BY <1>2 DEF Sends
<1>7. CASE e # c
  <2>1. Serves(e, v)' <=> Serves(e, v)
    BY <1>3, <1>7 DEF Serves
  <2> QED BY <1>2, <1>3, <1>4, <1>6, <1>7, <2>1, BlockKept
<1> DEFINE k == Len(OutOffsets(v, c))
           s == OutOffsets(v, c)
           b == OutBlocks(v, c)
           t == OutOffsets(v, c)'
           f == OutBlocks(v, c)'
           r == records[c][<<v, h>>]
           r1 == records'[c][<<v, h>>]
<1>8. CASE e = c
  <2>1. OutAt(v, c) /\ OutAt(v, c)'
    BY DEF Described
  <2>2. /\ Block(v, c, h) = LastBlock(k, s, b, h, r) /\ Block(v, c, h)' = LastBlock(Len(t), t, f, h, r1)
    BY DEF Block
  <2>3. k \in Nat /\ (<<v, h>> \notin DOMAIN records[c] => \E i \in 1 .. k : s[i] = h)
    <3>1. k \in Nat
      BY <2>1 DEF OutAt
    <3>2. Means(v, c, h)
      BY <1>8
    <3>3. <<v, h>> \notin DOMAIN records[c] => \E i \in 1 .. k : s[i] = h
      BY <3>2, UnderWay
    <3> QED BY <3>1, <3>3
  <2>4. <<v, h>> \in DOMAIN records[c] /\ <<v, h>> # <<w, n>> => r1 = r
    BY <1>4
  <2>5. CASE v # w
    <3>1. t = s /\ f = b
      BY <1>2, <1>3, <1>5, <1>6, <1>8, <2>5, OffsetsKept, BlocksKept
    <3> HIDE DEF k, s, b, t, f, r, r1
    <3>2. Len(t) = k
      BY <3>1 DEF k, s
    <3>3. LastBlock(k, s, b, h, r1) = LastBlock(k, s, b, h, r)
      <4>1. CASE r1 = r
        BY <4>1
      <4>2. CASE \E i \in 1 .. k : s[i] = h
        BY <2>3, <4>2, LastBlockFrame
      <4> QED BY <2>3, <2>4, <2>5, <4>1, <4>2
    <3> QED BY <1>8, <2>2, <3>1, <3>2, <3>3
  <2>6. CASE v = w
    <3> DEFINE p == WritesOf(headers[w][c])
               d == blocks[w][c]
    <3>1. /\ k = Len(p) + 1 /\ Len(p) \in Nat /\ s[1] = n
          /\ \A i \in 1 .. Len(p) : s[i + 1] = p[i].off
          /\ \A i \in 1 .. Len(d) : b[i] = d[i]
          /\ Sends(w, c) => k = Len(d) + 1 /\ b[Len(d) + 1] = call[w].data
          /\ ~ Sends(w, c) => k = Len(d)
      BY <1>5, <2>1, <2>6 DEF OutAt
    <3>2. /\ Len(t) = Len(p) /\ \A i \in 1 .. Len(p) : t[i] = p[i].off
          /\ \A i \in 1 .. Len(Tail(d)) : f[i] = Tail(d)[i]
          /\ Sends(w, c) => f[Len(Tail(d)) + 1] = call[w].data
      <4>1. /\ Len(t) = Len(WritesOf(headers'[w][c]))
            /\ \A i \in 1 .. Len(WritesOf(headers'[w][c])) : t[i] = WritesOf(headers'[w][c])[i].off
            /\ \A i \in 1 .. Len(blocks'[w][c]) : f[i] = blocks'[w][c][i]
            /\ Sends(w, c)' => f[Len(blocks'[w][c]) + 1] = call'[w].data
        BY <1>5, <2>1, <2>6 DEF OutAt
      <4>2. headers' = headers /\ call' = call /\ blocks'[w][c] = Tail(d) /\ (Sends(w, c)' <=> Sends(w, c))
        BY <1>2, <1>3, <1>6, <1>8, <2>6
      <4> HIDE DEF t, f, d
      <4> QED BY <4>1, <4>2
    <3>3. /\ Len(d) \in Nat /\ Len(d) > 0 /\ Head(d) = d[1] /\ Len(Tail(d)) = Len(d) - 1
          /\ \A i \in 1 .. Len(Tail(d)) : Tail(d)[i] = d[i + 1]
      <4>1. d \in Seq(Data) /\ d # << >>
        BY <1>1, <1>2, Queues
      <4> HIDE DEF d
      <4> QED BY <4>1
    <3>4. <<v, h>> = <<w, n>> => r1 = d[1]
      BY <1>4, <3>3
    <3> HIDE DEF k, s, b, t, f, r, r1, p, d
    <3>5. Shift(Len(p), s, t)
      BY <3>1, <3>2 DEF Shift
    <3>6. Shift(Len(p), b, f)
      <4> SUFFICES ASSUME NEW i \in 1 .. Len(p) PROVE f[i] = b[i + 1]
        BY DEF Shift
      <4>1. CASE i \in 1 .. Len(Tail(d))
        <5>1. i + 1 \in 1 .. Len(d)
          BY <3>3, <4>1
        <5> QED BY <3>1, <3>2, <3>3, <4>1, <5>1
      <4>2. CASE i \notin 1 .. Len(Tail(d))
        <5>1. Sends(w, c) /\ i = Len(Tail(d)) + 1 /\ i + 1 = Len(d) + 1
          BY <3>1, <3>3, <4>2
        <5> QED BY <3>1, <3>2, <5>1
      <4> QED BY <4>1, <4>2
    <3>7. b[1] = d[1]
      BY <3>1, <3>3
    <3>8. LastBlock(Len(p), t, f, h, r1) = LastBlock(Len(p) + 1, s, b, h, r)
      <4>1. CASE h = n
        <5>1. s[1] = h /\ r1 = b[1]
          BY <2>6, <3>1, <3>4, <3>7, <4>1
        <5> QED BY <3>1, <3>5, <3>6, <5>1, LastBlockShorter
      <4>2. CASE h # n /\ r1 = r
        <5>1. s[1] # h
          BY <3>1, <4>2
        <5> QED BY <3>1, <3>5, <3>6, <4>2, <5>1, LastBlockShorter
      <4>3. CASE h # n /\ \E i \in 1 .. k : s[i] = h
        <5>1. s[1] # h /\ r = r
          BY <3>1, <4>3
        <5>2. LastBlock(Len(p), t, f, h, r) = LastBlock(Len(p) + 1, s, b, h, r)
          BY <3>1, <3>5, <3>6, <5>1, LastBlockShorter
        <5>3. \E i \in 1 .. Len(p) : t[i] = h
          <6>1. PICK i \in 1 .. k : s[i] = h
            BY <4>3
          <6>2. i - 1 \in 1 .. Len(p) /\ (i - 1) + 1 = i
            BY <3>1, <5>1, <6>1
          <6>3. t[i - 1] = s[(i - 1) + 1]
            BY <3>5, <6>2 DEF Shift
          <6> QED BY <6>1, <6>2, <6>3
        <5>4. LastBlock(Len(p), t, f, h, r1) = LastBlock(Len(p), t, f, h, r)
          BY <3>1, <5>3, LastBlockFrame
        <5> QED BY <5>2, <5>4
      <4> QED BY <2>3, <2>4, <4>1, <4>2, <4>3
    <3> QED BY <1>8, <2>2, <3>1, <3>2, <3>8
  <2> QED BY <2>5, <2>6
<1> QED BY <1>7, <1>8

-----------------------------------------------------------------------------
(* Every step of the protocol is a step of the memory or changes nothing.   *)

LEMMA MemType == DOMAIN mem = Work /\ \A w \in Work : DOMAIN mem[w] = DOMAIN rank_map[w]
BY DEF mem

(* The calls are written alike in both. *)
LEMMA SameCalls ==
  /\ \A op, o, d : Memory!Call(op, o, d) = Call(op, o, d)
  /\ Memory!Idle = Idle /\ \A S : Memory!Least(S) = Least(S)
BY DEF Memory!Call, Memory!Idle, Memory!Least, Call, Idle, Least

LEMMA InitRefines == Init => Memory!Init
<1> SUFFICES ASSUME Init PROVE Memory!Init
  OBVIOUS
<1>1. mem = [w \in Work |-> [o \in {} |-> NoBlock]]
  <2>1. \A w \in Work : DOMAIN rank_map[w] = {}
    BY DEF Init
  <2> QED BY <2>1 DEF mem
<1> QED BY <1>1, SameCalls DEF Memory!Init, Init, mem

LEMMA StutterRefines ==
  ASSUME IInv, Described, Described', rank_map' = rank_map,
         \A w \in Work, c \in Ocore : \A h : Means(w, c, h) => Block(w, c, h)' = Block(w, c, h),
         UNCHANGED <<call, result, aborted>>
  PROVE  UNCHANGED Memory!vars
<1>1. mem' = mem
  BY MemoryKept DEF IInv
<1> QED BY <1>1 DEF Memory!vars, mem

LEMMA QuietBlocks ==
  ASSUME IInv, NEW w \in Work, pc[w] # "header",
         \E there : there # "header" /\ pc' = [pc EXCEPT ![w] = there],
         \A v \in Work \ {w} : call'[v] = call[v],
         UNCHANGED <<rank_map, headers, blocks, poll, serving, records>>
  PROVE  \A v \in Work, e \in Ocore : \A h : Block(v, e, h)' = Block(v, e, h)
<1> TAKE v \in Work, e \in Ocore
<1> TAKE h
<1>1. pc'[w] # "header" /\ (v # w => pc'[v] = pc[v])
  BY DEF IInv, Types_OK
<1>2. (Sends(v, e)' <=> Sends(v, e)) /\ (Sends(v, e) => call'[v] = call[v])
  BY <1>1 DEF Sends
<1>3. Serves(e, v)' <=> Serves(e, v)
  BY DEF Serves
<1> QED BY <1>2, <1>3, BlockKept

LEMMA UnchangedBlocks ==
  ASSUME UNCHANGED <<rank_map, call, pc, headers, blocks, poll, serving, records>>
  PROVE  \A v \in Work, e \in Ocore : \A h : Block(v, e, h)' = Block(v, e, h)
<1> TAKE v \in Work, e \in Ocore
<1> TAKE h
<1>1. (Serves(e, v)' <=> Serves(e, v)) /\ (Sends(v, e)' <=> Sends(v, e))
  BY DEF Serves, Sends
<1> QED BY <1>1, BlockKept

LEMMA MemUnchanged ==
  ASSUME IInv, Described, Described', UNCHANGED vars
  PROVE  UNCHANGED Memory!vars
<1>1. UNCHANGED <<rank_map, call, pc, headers, blocks, poll, serving, records, result, aborted>>
  BY DEF vars
<1>2. \A v \in Work, e \in Ocore : \A h : Block(v, e, h)' = Block(v, e, h)
  BY <1>1, UnchangedBlocks
<1> QED BY <1>1, <1>2, StutterRefines

(* An exit is no write. *)
LEMMA ExitBlocks ==
  ASSUME IInv, SendExit
  PROVE  \A v \in Work, e \in Ocore : \A h : Block(v, e, h)' = Block(v, e, h)
<1>1. Types_OK /\ Teardown /\ Master \in Work
  BY Constants DEF IInv
<1>2. pc[Master] = "exits" /\ UNCHANGED <<rank_map, call, blocks, poll, serving, records>>
  BY DEF SendExit, ocoreVars
<1> TAKE v \in Work, e \in Ocore
<1> TAKE h
<1>3. Serves(e, v)' <=> Serves(e, v)
  BY <1>2 DEF Serves
<1>4. \/ pc' = [pc EXCEPT ![Master] = "global_barrier"] /\ headers' = headers
      \/ pc' = pc /\ exits # ExitRanks
         /\ headers' = Post(headers, Master, Least(ExitRanks \ exits), [type |-> "OCORE_EXIT", off |-> 0])
  BY DEF SendExit
<1>5. Sends(v, e)' <=> Sends(v, e)
  BY <1>1, <1>2, <1>4 DEF Types_OK, Sends
<1>6. WritesOf(headers'[v][e]) = WritesOf(headers[v][e])
  <2>1. CASE headers' = headers
    BY <2>1
  <2>2. CASE exits # ExitRanks
             /\ headers' = Post(headers, Master, Least(ExitRanks \ exits), [type |-> "OCORE_EXIT", off |-> 0])
    <3>1. PICK c : c = Least(ExitRanks \ exits)
      OBVIOUS
    <3>2. c \in Ocore \ exits
      <4>1. exits \subseteq ExitRanks /\ ExitRanks \subseteq Nat
        BY <1>1, Constants DEF Teardown, ExitRanks
      <4>2. ExitRanks \ exits # {} /\ ExitRanks \ exits \subseteq Nat
        BY <2>2, <4>1
      <4> QED BY <3>1, <4>2, LeastIn DEF ExitRanks
    <3>3. PICK m : m = [type |-> "OCORE_EXIT", off |-> 0]
      OBVIOUS
    <3>4. m \in HeaderSet /\ ~ IsWrite(m)
      BY <3>3 DEF HeaderSet, Types, IsWrite
    <3>5. headers' = Post(headers, Master, c, m)
      BY <2>2, <3>1, <3>3
    <3>6. CASE v # Master \/ e # c
      <4>1. headers'[v][e] = headers[v][e]
        BY <1>1, <3>5, <3>6 DEF Types_OK, Post
      <4> QED BY <4>1
    <3>7. CASE v = Master /\ e = c
      <4>1. AllWrites(headers[v][e])
        <5>1. Order(v, e)
          BY DEF IInv, Pair
        <5> QED BY <1>2, <3>2, <3>7, <5>1 DEF Order, AllWrites, Waits
      <4>2. headers[v][e] \in Seq(HeaderSet)
        BY <1>1, Queues
      <4>3. WritesOf(Append(headers[v][e], m)) = headers[v][e] /\ WritesOf(headers[v][e]) = headers[v][e]
        BY <3>4, <4>1, <4>2, WritesOfAll, WritesOfAppend
      <4>4. headers'[v][e] = Append(headers[v][e], m)
        BY <3>2, <3>5, <3>7, Posted, <1>1, Zenon
      <4> QED BY <4>3, <4>4, Zenon
    <3> QED BY <3>6, <3>7
  <2> QED BY <1>4, <2>1, <2>2
<1> QED BY <1>2, <1>3, <1>5, <1>6, BlockKept

(* The assertion of PullData holds. *)
LEMMA PollNeverAborts ==
  ASSUME IInv, NEW c \in Ocore, PollForWork(c)
  PROVE  aborted' = aborted
<1>1. PICK w \in Work : /\ headers[w][c] # << >>
                        /\ PollWrite(c, w) \/ PollRead(c, w) \/ PollExit(c, w)
  BY DEF PollForWork
<1>2. poll[c] = "poll"
  BY DEF PollForWork
<1>3. CASE PollWrite(c, w) \/ PollExit(c, w)
  BY <1>3 DEF PollWrite, PollExit
<1>4. CASE PollRead(c, w)
  <2>1. <<w, Head(headers[w][c]).off>> \in DOMAIN records[c]
    BY <1>1, <1>2, <1>4, InvariantSuffices DEF PollRead, PullsKnownRecord
  <2> QED BY <1>4, <2>1 DEF PollRead
<1> QED BY <1>1, <1>3, <1>4

(* A write takes effect in the memory when its header is posted. *)
LEMMA WriteRefines ==
  ASSUME OffsetsDistinct, IInv, Described, Described', NEW w \in Work, pc[w] = "idle", NEW c \in Ocore,
         NEW type \in {"OCORE_WRITE_NEW", "OCORE_UPDATE_OLD"}, NEW o \in Offsets, NEW d \in Data,
         PostHeader(w, c, type, Call("write", o, d)), ~ aborted,
         DOMAIN rank_map' = Work, DOMAIN rank_map'[w] = DOMAIN rank_map[w] \cup {o},
         rank_map'[w][o] = c, \A v \in Work \ {w} : rank_map'[v] = rank_map[v],
         \A x \in DOMAIN rank_map[w] : x # o => rank_map'[w][x] = rank_map[w][x],
         UNCHANGED <<blocks, result, ocoreVars, aborted>>
  PROVE  Memory!BeginWrite(w, o, d)
<1>1. \A v \in Work : Task(v)
  BY DEF IInv
<1>2. \A v \in Work, e \in Ocore : \A h :
        Block(v, e, h)' = IF v = w /\ e = c /\ h = HeaderOffset(o) THEN d ELSE Block(v, e, h)
  BY PostWriteBlocks
<1>3. Latest(w, o)' = d
  <2>1. Latest(w, o)' = Block(w, c, HeaderOffset(o))'
    BY DEF Described
  <2> QED BY <1>2, <2>1
<1>4. ASSUME NEW v \in Work, NEW x \in DOMAIN rank_map[v], v # w \/ x # o
      PROVE  Latest(v, x)' = Latest(v, x)
  <2>1. rank_map[v][x] \in Ocore /\ x \in Offsets
    BY <1>1 DEF Task
  <2>2. PICK e \in Ocore : e = rank_map[v][x]
    BY <2>1
  <2>3. x \in DOMAIN rank_map'[v] /\ rank_map'[v][x] = e
    BY <1>4, <2>2
  <2>4. v # w \/ HeaderOffset(x) # HeaderOffset(o)
    BY <1>4, <2>1 DEF OffsetsDistinct
  <2>5. Latest(v, x)' = Block(v, e, HeaderOffset(x))' /\ Latest(v, x) = Block(v, e, HeaderOffset(x))
    BY <2>2, <2>3 DEF Described
  <2> QED BY <1>2, <2>4, <2>5
<1>5. mem' = [mem EXCEPT ![w] = [x \in DOMAIN mem[w] \cup {o} |-> IF x = o THEN d ELSE mem[w][x]]]
  BY <1>3, <1>4 DEF mem
<1>6. call[w] = Idle /\ call' = [call EXCEPT ![w] = Call("write", o, d)]
  BY <1>1 DEF Task, PostHeader
<1> QED BY <1>5, <1>6, SameCalls DEF Memory!BeginWrite, mem

LEMMA BeginRefines ==
  ASSUME OffsetsDistinct, IInv, Described, Described', NEW w \in Work, BeginCall(w)
  PROVE  [Memory!Next]_(Memory!vars)
<1>1. Types_OK /\ (\A v \in Work : Task(v)) /\ DOMAIN rank_map = Work
      /\ distrib_rank[w] \in 0 .. numOcoreTasks_ - 1
  BY DEF IInv, Types_OK
<1>2. /\ DOMAIN rank_map[w] \subseteq Offsets
      /\ \A o \in DOMAIN rank_map[w] : rank_map[w][o] \in Ocore
  BY <1>1 DEF Task
<1>3. ASSUME NEW o \in Offsets, NEW d \in Data, WriteNew(w, o, d)
      PROVE  Memory!BeginWrite(w, o, d) /\ ~ aborted
  <2> DEFINE c == distrib_rank[w] + startingRank_
  <2>1. c \in Ocore /\ RecordedOwner(distrib_rank[w]) = c
    BY <1>1, OwnerType
  <2>2. /\ pc[w] = "idle" /\ ~ aborted
        /\ PostHeader(w, c, "OCORE_WRITE_NEW", Call("write", o, d))
        /\ UNCHANGED <<blocks, result, ocoreVars, aborted>>
    BY <1>3 DEF WriteNew, CanCall
  <2>3. rank_map' = [rank_map EXCEPT ![w] =
                       [x \in DOMAIN rank_map[w] \cup {o} |-> IF x = o THEN c ELSE rank_map[w][x]]]
    BY <1>3, <2>1 DEF WriteNew
  <2> HIDE DEF c
  <2>4. /\ DOMAIN rank_map' = Work /\ DOMAIN rank_map'[w] = DOMAIN rank_map[w] \cup {o}
        /\ rank_map'[w][o] = c /\ \A v \in Work \ {w} : rank_map'[v] = rank_map[v]
        /\ \A x \in DOMAIN rank_map[w] : x # o => rank_map'[w][x] = rank_map[w][x]
    BY <1>1, <2>3
  <2> QED BY <2>1, <2>2, <2>4, WriteRefines
<1>4. ASSUME NEW o \in Offsets, NEW d \in Data, WriteOld(w, o, d)
      PROVE  Memory!BeginWrite(w, o, d) /\ ~ aborted
  <2>1. /\ pc[w] = "idle" /\ ~ aborted /\ o \in DOMAIN rank_map[w] /\ rank_map' = rank_map
        /\ PostHeader(w, rank_map[w][o], "OCORE_UPDATE_OLD", Call("write", o, d))
        /\ UNCHANGED <<blocks, result, ocoreVars, aborted>>
    BY <1>4 DEF WriteOld, CanCall
  <2>2. PICK c \in Ocore : c = rank_map[w][o]
    BY <1>2, <2>1
  <2>3. /\ DOMAIN rank_map' = Work /\ DOMAIN rank_map'[w] = DOMAIN rank_map[w] \cup {o}
        /\ rank_map'[w][o] = c /\ \A v \in Work \ {w} : rank_map'[v] = rank_map[v]
        /\ \A x \in DOMAIN rank_map[w] : x # o => rank_map'[w][x] = rank_map[w][x]
    BY <1>1, <2>1, <2>2
  <2> QED BY <2>1, <2>2, <2>3, WriteRefines
<1>5. ASSUME NEW o \in Offsets, ReadKnown(w, o)
      PROVE  Memory!BeginRead(w, o) /\ ~ aborted
  <2>1. /\ pc[w] = "idle" /\ ~ aborted /\ o \in DOMAIN rank_map[w] /\ rank_map' = rank_map
        /\ headers' = Post(headers, w, rank_map[w][o],
                           [type |-> "OCORE_READ", off |-> HeaderOffset(o)])
        /\ call' = [call EXCEPT ![w] = Call("read", o, NoBlock)]
        /\ pc' = [pc EXCEPT ![w] = "header"]
        /\ UNCHANGED <<blocks, result, ocoreVars, aborted>>
    BY <1>5 DEF ReadKnown, CanCall, PostHeader, Call
  <2>2. mem' = mem
    <3>1. Call("read", o, NoBlock).op # "write" /\ Call("read", o, NoBlock).off = o
      BY DEF Call
    <3>2. HeaderOffset(o) \in Nat
      BY Constants, HeaderOffsetType
    <3>3. \A v \in Work, e \in Ocore : \A h : Block(v, e, h)' = Block(v, e, h)
      BY <1>2, <2>1, <3>1, <3>2, PostReadBlocks
    <3> QED BY <1>1, <2>1, <3>3, MemoryKept
  <2>3. call[w] = Idle
    BY <1>1, <2>1 DEF Task
  <2> QED BY <2>1, <2>2, <2>3, SameCalls, MemType DEF Memory!BeginRead, mem
<1>6. ASSUME NEW o \in Offsets, ReadUnknown(w, o)
      PROVE  Memory!EmptyRead(w, o) /\ ~ aborted
  <2>1. /\ pc[w] = "idle" /\ ~ aborted /\ o \notin DOMAIN rank_map[w]
        /\ UNCHANGED <<rank_map, call, pc, headers, blocks, poll, serving, records>>
        /\ IF AllowEmpty[w]
           THEN result' = [result EXCEPT ![w] = Zero] /\ UNCHANGED aborted
           ELSE aborted' = TRUE /\ UNCHANGED result
    BY <1>6 DEF ReadUnknown, CanCall, netVars, ocoreVars
  <2>2. mem' = mem
    BY <1>1, <2>1, UnchangedBlocks, MemoryKept
  <2>3. call[w] = Idle
    BY <1>1, <2>1 DEF Task
  <2> QED BY <2>1, <2>2, <2>3, SameCalls, MemType DEF Memory!EmptyRead, mem
<1>7. ASSUME PopRecord(w)
      PROVE  Memory!BeginPop(w) /\ ~ aborted
  <2>1. /\ pc[w] = "idle" /\ ~ aborted /\ rank_map' = rank_map
        /\ UNCHANGED <<blocks, result, ocoreVars>>
    BY <1>7 DEF PopRecord, CanCall
  <2>2. call[w] = Idle /\ DOMAIN mem[w] = DOMAIN rank_map[w]
    BY <1>1, <2>1, MemType DEF Task
  <2>3. CASE DOMAIN rank_map[w] = {}
    <3>1. aborted' = TRUE /\ UNCHANGED <<headers, call, pc>>
      BY <1>7, <2>3 DEF PopRecord
    <3>2. mem' = mem
      BY <1>1, <2>1, <3>1, UnchangedBlocks, MemoryKept DEF ocoreVars
    <3> QED BY <2>1, <2>2, <2>3, <3>1, <3>2, SameCalls DEF Memory!BeginPop, mem
  <2>4. CASE DOMAIN rank_map[w] # {}
    <3> DEFINE o == Least(DOMAIN rank_map[w])
    <3>1. o \in DOMAIN rank_map[w]
      BY <1>2, <2>4, LeastIn, Constants
    <3>2. /\ headers' = Post(headers, w, rank_map[w][o],
                             [type |-> "OCORE_READ", off |-> HeaderOffset(o)])
          /\ call' = [call EXCEPT ![w] = Call("pop", o, NoBlock)]
          /\ pc' = [pc EXCEPT ![w] = "header"] /\ aborted' = aborted
      BY <1>7, <2>4 DEF PopRecord, PostHeader, Call
    <3>3. mem' = mem
      <4> HIDE DEF o
      <4>1. Call("pop", o, NoBlock).op # "write" /\ Call("pop", o, NoBlock).off = o
        BY DEF Call
      <4>2. HeaderOffset(o) \in Nat
        BY <1>2, <3>1, Constants, HeaderOffsetType
      <4>3. \A v \in Work, e \in Ocore : \A h : Block(v, e, h)' = Block(v, e, h)
        BY <1>2, <2>1, <3>1, <3>2, <4>1, <4>2, PostReadBlocks
      <4> QED BY <1>1, <2>1, <4>3, MemoryKept
    <3>4. Memory!Least(DOMAIN mem[w]) = o /\ Memory!Call("pop", o, NoBlock) = Call("pop", o, NoBlock)
      BY <2>2, SameCalls
    <3> QED BY <2>1, <2>2, <2>4, <3>2, <3>3, <3>4, SameCalls DEF Memory!BeginPop, mem
  <2> QED BY <2>3, <2>4
<1> QED BY <1>3, <1>4, <1>5, <1>6, <1>7 DEF BeginCall, Memory!Next

LEMMA WorkRefines ==
  ASSUME IInv, Described, Described', NEW w \in Work, Finalize(w) \/ WorkStep(w)
  PROVE  [Memory!Next]_(Memory!vars)
<1>1. Types_OK /\ (\A v \in Work : Task(v)) /\ (\A v \in Work, e \in Ocore : Pair(v, e))
      /\ Teardown /\ Master \in Work
  BY Constants DEF IInv
<1>2. CASE SendData(w)
  <2>1. call[w].off \in DOMAIN rank_map[w] /\ rank_map[w][call[w].off] \in Ocore
    BY <1>1, <1>2 DEF SendData, Task, InCall
  <2>2. \A v \in Work, e \in Ocore : \A h : Block(v, e, h)' = Block(v, e, h)
    BY <1>2, <2>1, SendDataBlocks
  <2> QED BY <1>2, <2>2, StutterRefines DEF SendData
<1>3. CASE WriteReturns(w)
  <2>1. /\ ~ aborted /\ pc[w] = "data" /\ call' = [call EXCEPT ![w] = Idle]
        /\ pc' = [pc EXCEPT ![w] = "idle"]
        /\ UNCHANGED <<rank_map, result, headers, blocks, poll, serving, records, aborted>>
    BY <1>3 DEF WriteReturns, netVars, ocoreVars
  <2>2. call[w].op = "write"
    BY <1>1, <2>1 DEF Task
  <2>3. mem' = mem
    <3>1. /\ pc[w] # "header" /\ \E there : there # "header" /\ pc' = [pc EXCEPT ![w] = there]
          /\ \A v \in Work \ {w} : call'[v] = call[v]
      BY <1>1, <2>1 DEF Types_OK
    <3>2. \A v \in Work, e \in Ocore : \A h : Block(v, e, h)' = Block(v, e, h)
      BY <2>1, <3>1, QuietBlocks
    <3> QED BY <1>1, <2>1, <3>2, MemoryKept
  <2>4. Memory!EndWrite(w)
    BY <2>1, <2>2, <2>3, SameCalls DEF Memory!EndWrite, mem
  <2> QED BY <2>1, <2>4 DEF Memory!Next
<1>4. CASE ReadReturns(w)
  <2> DEFINE o == call[w].off
             c == rank_map[w][o]
  <2>1. o \in DOMAIN rank_map[w] /\ c \in Ocore
    BY <1>1, <1>4 DEF ReadReturns, Task, InCall
  <2>2. /\ ~ aborted /\ pc[w] = "header" /\ call[w].op \in {"read", "pop"} /\ replies[c][w] # << >>
        /\ result' = [result EXCEPT ![w] = Head(replies[c][w])]
        /\ rank_map' = IF call[w].op = "pop" THEN AfterPop(w) ELSE rank_map
        /\ call' = [call EXCEPT ![w] = Idle] /\ pc' = [pc EXCEPT ![w] = "idle"]
        /\ UNCHANGED <<headers, blocks, poll, serving, records, aborted>>
    BY <1>4 DEF ReadReturns, ocoreVars
  <2>3. Head(replies[c][w]) = mem[w][o]
    <3>1. /\ headers[w][c] = << >> /\ ~ Serves(c, w)
          /\ replies[c][w] = <<records[c][<<w, HeaderOffset(o)>>]>>
      BY <1>1, <2>1, <2>2 DEF Pair, Reply
    <3>2. Head(replies[c][w]) = records[c][<<w, HeaderOffset(o)>>]
      BY <3>1
    <3>3. Len(OutOffsets(w, c)) = 0
      <4>1. WritesOf(headers[w][c]) = << >>
        BY <3>1 DEF WritesOf
      <4>2. OutAt(w, c)
        BY <2>1 DEF Described
      <4> QED BY <3>1, <4>1, <4>2 DEF OutAt
    <3>4. Block(w, c, HeaderOffset(o)) = records[c][<<w, HeaderOffset(o)>>]
      BY <3>3 DEF Block, LastBlock
    <3>5. Latest(w, o) = Block(w, c, HeaderOffset(o))
      BY <2>1 DEF Described
    <3> QED BY <2>1, <3>2, <3>4, <3>5 DEF mem
  <2>4. \A v \in Work, e \in Ocore : \A h : Block(v, e, h)' = Block(v, e, h)
    <3> SUFFICES ASSUME NEW v \in Work, NEW e \in Ocore, NEW h PROVE Block(v, e, h)' = Block(v, e, h)
      OBVIOUS
    <3>1. /\ rank_map'[v] = rank_map[v] \/ v = w
          /\ v # w => pc'[v] = pc[v] /\ call'[v] = call[v]
      BY <1>1, <2>2 DEF Types_OK, AfterPop
    <3>2. pc'[w] = "idle"
      BY <1>1, <2>2 DEF Types_OK
    <3>3. (Sends(v, e)' <=> Sends(v, e)) /\ (Sends(v, e) => call'[v] = call[v])
      BY <2>2, <3>1, <3>2 DEF Sends
    <3>4. Serves(e, v)' <=> Serves(e, v)
      BY <2>2 DEF Serves
    <3> QED BY <2>2, <3>3, <3>4, BlockKept
  <2>5. CASE call[w].op = "read"
    <3>1. mem' = mem
      BY <1>1, <2>2, <2>4, <2>5, MemoryKept
    <3>2. Memory!EndRead(w)
      BY <2>2, <2>3, <2>5, <3>1, SameCalls DEF Memory!EndRead, mem
    <3> QED BY <2>2, <3>2 DEF Memory!Next
  <2>6. CASE call[w].op = "pop"
    <3>1. /\ \A v \in Work \ {w} : rank_map'[v] = rank_map[v]
          /\ DOMAIN rank_map'[w] = DOMAIN rank_map[w] \ {o}
          /\ \A x \in DOMAIN rank_map[w] \ {o} : rank_map'[w][x] = rank_map[w][x]
      BY <1>1, <2>2, <2>6 DEF Types_OK, AfterPop
    <3>2. ASSUME NEW v \in Work, NEW x \in DOMAIN rank_map'[v]
          PROVE  x \in DOMAIN rank_map[v] /\ Latest(v, x)' = Latest(v, x)
      <4>1. x \in DOMAIN rank_map[v] /\ rank_map'[v][x] = rank_map[v][x]
        BY <3>1, <3>2
      <4>2. PICK e \in Ocore : e = rank_map[v][x]
        BY <1>1, <4>1 DEF Task
      <4>3. Latest(v, x)' = Block(v, e, HeaderOffset(x))' /\ Latest(v, x) = Block(v, e, HeaderOffset(x))
        BY <4>1, <4>2, <3>2 DEF Described
      <4> QED BY <2>4, <4>1, <4>3
    <3>3. mem' = [mem EXCEPT ![w] = [x \in DOMAIN mem[w] \ {o} |-> mem[w][x]]]
      <4> HIDE DEF o
      <4>1. mem' = [v \in Work |-> [x \in DOMAIN rank_map'[v] |-> Latest(v, x)']]
        BY DEF mem
      <4>2. \A v \in Work : mem[v] = [x \in DOMAIN rank_map[v] |-> Latest(v, x)]
        BY DEF mem
      <4>3. \A v \in Work \ {w} : mem'[v] = mem[v]
        BY <3>1, <3>2, <4>1, <4>2
      <4>4. mem'[w] = [x \in DOMAIN mem[w] \ {o} |-> mem[w][x]]
        <5>1. mem'[w] = [x \in DOMAIN rank_map[w] \ {o} |-> Latest(w, x)']
          BY <3>1, <4>1, Zenon
        <5>2. \A x \in DOMAIN rank_map[w] \ {o} : Latest(w, x)' = mem[w][x]
          <6> SUFFICES ASSUME NEW x \in DOMAIN rank_map[w] \ {o} PROVE Latest(w, x)' = mem[w][x]
            OBVIOUS
          <6>1. x \in DOMAIN rank_map[w] /\ x \in DOMAIN rank_map'[w]
            BY <3>1
          <6>2. Latest(w, x)' = Latest(w, x)
            BY <3>2, <6>1
          <6>3. mem[w][x] = Latest(w, x)
            BY <4>2, <6>1, Zenon
          <6> QED BY <6>2, <6>3
        <5>3. [x \in DOMAIN rank_map[w] \ {o} |-> Latest(w, x)']
              = [x \in DOMAIN rank_map[w] \ {o} |-> mem[w][x]]
          BY <5>2, Zenon
        <5> QED BY <5>1, <5>3, MemType, Zenon
      <4>5. mem' = [v \in Work |-> mem'[v]] /\ mem = [v \in Work |-> mem[v]]
        BY <4>1, MemType DEF mem
      <4> QED BY <4>3, <4>4, <4>5
    <3>4. Memory!EndRead(w)
      BY <2>2, <2>3, <2>6, <3>3, SameCalls DEF Memory!EndRead, mem
    <3> QED BY <2>2, <3>4 DEF Memory!Next
  <2> QED BY <2>2, <2>5, <2>6
<1>5. CASE Finalize(w)
  <2>1. /\ ~ aborted /\ pc[w] = "idle" /\ call' = [call EXCEPT ![w] = Call("finalize", 0, NoBlock)]
        /\ pc' = [pc EXCEPT ![w] = "work_barrier"]
        /\ UNCHANGED <<rank_map, result, headers, blocks, poll, serving, records, aborted>>
    BY <1>5 DEF Finalize, netVars, ocoreVars
  <2>2. call[w] = Idle
    BY <1>1, <2>1 DEF Task
  <2>3. mem' = mem
    <3>1. /\ pc[w] # "header" /\ \E there : there # "header" /\ pc' = [pc EXCEPT ![w] = there]
          /\ \A v \in Work \ {w} : call'[v] = call[v]
      BY <1>1, <2>1 DEF Types_OK
    <3>2. \A v \in Work, e \in Ocore : \A h : Block(v, e, h)' = Block(v, e, h)
      BY <2>1, <3>1, QuietBlocks
    <3> QED BY <1>1, <2>1, <3>2, MemoryKept
  <2>4. Memory!BeginFinalize(w)
    BY <2>1, <2>2, <2>3, SameCalls DEF Memory!BeginFinalize, mem
  <2> QED BY <2>1, <2>4 DEF Memory!Next
<1>6. CASE LeaveWorkBarrier(w) \/ WorkDone(w)
  <2>1. /\ pc[w] \in {"work_barrier", "global_barrier"} /\ call' = call
        /\ \E there \in {"exits", "global_barrier", "done"} : pc' = [pc EXCEPT ![w] = there]
        /\ UNCHANGED <<rank_map, result, headers, blocks, poll, serving, records, aborted>>
    BY <1>6 DEF LeaveWorkBarrier, WorkDone, netVars, ocoreVars
  <2>2. \A v \in Work, e \in Ocore : \A h : Block(v, e, h)' = Block(v, e, h)
    BY <1>1, <2>1, QuietBlocks
  <2> QED BY <2>1, <2>2, StutterRefines
<1>7. CASE w = Master /\ SendExit
  <2>1. \A v \in Work, e \in Ocore : \A h : Block(v, e, h)' = Block(v, e, h)
    BY <1>7, ExitBlocks
  <2> QED BY <1>7, <2>1, StutterRefines DEF SendExit
<1> QED BY <1>2, <1>3, <1>4, <1>5, <1>6, <1>7 DEF WorkStep

LEMMA OcoreRefines ==
  ASSUME IInv, Described, Described', NEW c \in Ocore, OcoreStep(c)
  PROVE  [Memory!Next]_(Memory!vars)
<1>1. Types_OK
  BY DEF IInv
<1>2. CASE PollForWork(c)
  <2>1. aborted' = aborted
    BY <1>2, PollNeverAborts
  <2>2. \A v \in Work, e \in Ocore : \A h : Block(v, e, h)' = Block(v, e, h)
    BY <1>2, PollBlocks
  <2> QED BY <1>2, <2>1, <2>2, StutterRefines DEF PollForWork, workVars
<1>3. CASE StoreData(c)
  <2>1. serving[c].rank \in Work /\ serving[c].off \in Nat
    BY <1>1 DEF Types_OK
  <2>2. \A v \in Work, e \in Ocore : \A h : Means(v, e, h) => Block(v, e, h)' = Block(v, e, h)
    BY <1>3, <2>1, StoreBlocks
  <2> QED BY <1>3, <2>2, StutterRefines DEF StoreData, workVars
<1>4. CASE ReplySent(c) \/ OcoreDone(c)
  <2>1. /\ poll[c] \in {"send_reply", "global_barrier"}
        /\ \E there \in {"poll", "done"} : poll' = [poll EXCEPT ![c] = there]
        /\ \A e \in Ocore \ {c} : serving'[e] = serving[e]
        /\ UNCHANGED <<rank_map, call, pc, result, headers, blocks, records, aborted>>
    BY <1>1, <1>4 DEF ReplySent, OcoreDone, workVars, netVars, Types_OK
  <2> SUFFICES \A v \in Work, e \in Ocore : \A h : Block(v, e, h)' = Block(v, e, h)
    BY <2>1, StutterRefines
  <2> TAKE v \in Work, e \in Ocore
  <2> TAKE h
  <2>2. (Serves(e, v)' <=> Serves(e, v)) /\ (Serves(e, v) => serving'[e] = serving[e])
    BY <1>1, <2>1 DEF Types_OK, Serves
  <2>3. Sends(v, e)' <=> Sends(v, e)
    BY <2>1 DEF Sends
  <2> QED BY <2>1, <2>2, <2>3, BlockKept
<1> QED BY <1>2, <1>3, <1>4 DEF OcoreStep

(* The protocol implements one private memory per work task: a read returns
   what its task wrote last, however MPI buffers, through all owners and the
   requests of all other tasks (Write, Read, PopRecord, PollForWork). *)
THEOREM ProtocolRefines == ASSUME OffsetsDistinct PROVE Spec => MemorySpec
<1>1. Init => Memory!Init
  BY InitRefines
<1>2. IInv => Described
  BY InvariantDescribes
<1>3. IInv /\ IInv' /\ Described /\ Described' /\ [Next]_vars => [Memory!Next]_(Memory!vars)
  <2> SUFFICES ASSUME IInv, Described, Described', [Next]_vars
               PROVE  [Memory!Next]_(Memory!vars)
    OBVIOUS
  <2>1. CASE UNCHANGED vars
    BY <2>1, MemUnchanged
  <2>2. CASE Next
    <3>1. Stopped => UNCHANGED vars
      BY DEF Stopped
    <3> QED BY <2>1, <2>2, <3>1, BeginRefines, WorkRefines, OcoreRefines DEF Next
  <2> QED BY <2>1, <2>2
<1> QED BY <1>1, <1>2, <1>3, Invariance, PTL DEF Spec, MemorySpec, Memory!Spec
=============================================================================

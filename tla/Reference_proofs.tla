--------------------------- MODULE Reference_proofs ---------------------------
(***************************************************************************)
(* Proofs about the incremental state of the reference models: that what   *)
(* DsV4Decode's prefill leaves is what its decode goes on from, and that   *)
(* Q4Caches computes every position from the same rows however a sequence  *)
(* is cut.                                                                 *)
(*                                                                         *)
(* Both say what the state is after n positions as a function of n alone,  *)
(* and that a step leads from the state after n to the one after n + 1.    *)
(* What is left over from before and never read again is left open.        *)
(***************************************************************************)
EXTENDS DsV4Decode, Q4Caches, Basics, SequenceTheorems

-----------------------------------------------------------------------------
(***************************************************************************)
(* DsV4Decode: the last of a sequence.                                     *)
(***************************************************************************)
\* The last k of one.
LEMMA LastIs ==
    ASSUME NEW s, NEW n \in Nat, IsSeq(s, n), NEW k \in Nat
    PROVE  LastOf(s, k) = [i \in 1 .. Least2(n, k) |-> s[n - Least2(n, k) + i]]
<1>1. Len(s) = n /\ s = [i \in 1 .. n |-> s[i]]
  BY SeqIs DEF IsSeq
<1>2. CASE n <= k
  <2>1. LastOf(s, k) = s /\ Least2(n, k) = n
    BY <1>1, <1>2 DEF LastOf, Least2
  <2>2. \A i \in 1 .. n : n - n + i = i
    OBVIOUS
  <2>3. [i \in 1 .. n |-> s[n - n + i]] = [i \in 1 .. n |-> s[i]]
    BY <2>2
  <2> QED BY <1>1, <2>1, <2>3
<1>3. CASE ~(n <= k)
  <2>1. LastOf(s, k) = SubSeq(s, n - k + 1, n) /\ Least2(n, k) = k
    BY <1>1, <1>3 DEF LastOf, Least2
  <2>2. n - k + 1 \in 1 .. n + 1 /\ n \in (n - k + 1) - 1 .. n
    BY <1>3
  <2>3. SubSeq(s, n - k + 1, n)
          = [i \in 1 .. n - (n - k + 1) + 1 |-> s[(n - k + 1) + i - 1]]
    BY <2>2, SubSeqIs
  <2>4. n - (n - k + 1) + 1 = k /\ \A i \in 1 .. k : (n - k + 1) + i - 1 = n - k + i
    BY <1>3
  <2>5. [i \in 1 .. k |-> s[(n - k + 1) + i - 1]] = [i \in 1 .. k |-> s[n - k + i]]
    BY <2>4
  <2> QED BY <2>1, <2>3, <2>4, <2>5
<1> QED BY <1>2, <1>3

-----------------------------------------------------------------------------
(***************************************************************************)
(* DsV4Decode: the rings.                                                  *)
(***************************************************************************)
Slots == 0 .. Window - 1

\* The row in slot s when q rounds are full and c slots of the next.
RingSlot(q, c, s) ==
    IF s < c THEN Window * q + s
    ELSE IF q = 0 THEN Unwritten
    ELSE Window * (q - 1) + s

\* What a prefill leaves, by rounds.
LEMMA RingAt ==
    ASSUME NEW S \in Nat, NEW s \in Slots
    PROVE  Ring(S)[s] = RingSlot(S \div Window, S % Window, s)
<1> DEFINE q == S \div Window
           c == S % Window
<1>1. Window \in Nat \ {0, 1}
  BY DsV4Assumption
<1>2. q \in Nat /\ c \in 0 .. Window - 1 /\ S = Window * q + c
  BY <1>1, Division
<1>3. Ring(S)[s] = IF S <= Window THEN IF s < S THEN s ELSE Unwritten
                   ELSE IF s >= c THEN S - Window + s - c
                   ELSE S - c + s
  BY DEF Ring, Slots
<1>4. s \in Nat /\ s < Window
  BY <1>1 DEF Slots
<1>5. CASE S < Window
  <2>1. q = 0 /\ c = S
    BY <1>1, <1>5, SmallDivMod
  <2>2. Window * q = 0
    BY <1>1, <2>1
  <2> HIDE DEF q, c
  <2> QED BY <1>1, <1>3, <1>4, <1>5, <2>1, <2>2 DEF RingSlot, q, c
<1>6. CASE S = Window
  <2>1. S = Window * 1 + 0 /\ 0 \in 0 .. Window - 1
    BY <1>1, <1>6
  <2>2. q = 1 /\ c = 0
    BY <1>1, <2>1, DivMod
  <2>3. Window * (q - 1) = 0
    BY <1>1, <2>2
  <2> HIDE DEF q, c
  <2> QED BY <1>1, <1>3, <1>4, <1>6, <2>2, <2>3 DEF RingSlot, q, c
<1>7. CASE S > Window
  <2>1. q >= 1
    BY <1>1, <1>7, SmallDivMod
  <2>2. Window * (q - 1) = Window * q - Window /\ Window * q \in Nat
    BY <1>1, <1>2
  <2> DEFINE wq == Window * q
  <2>3. /\ S = wq + c /\ wq \in Nat /\ Window * (q - 1) = wq - Window
    BY <1>2, <2>2
  <2>4. RingSlot(q, c, s) = IF s < c THEN wq + s ELSE wq - Window + s
    BY <2>1, <1>2, <2>3 DEF RingSlot
  <2> HIDE DEF q, c, wq
  <2>5. Ring(S)[s] = IF s >= c THEN S - Window + s - c ELSE S - c + s
    BY <1>1, <1>3, <1>7
  <2>6. RingSlot(q, c, s) = Ring(S)[s]
    BY <1>1, <1>2, <1>4, <2>3, <2>4, <2>5
  <2> QED BY <2>6 DEF q, c
<1> QED BY <1>1, <1>5, <1>6, <1>7

\* What a prefill leaves, as a function of the slot.
LEMMA RingTyped ==
    ASSUME NEW S \in Nat
    PROVE  Ring(S) = [s \in Slots |-> RingSlot(S \div Window, S % Window, s)]
<1>1. Ring(S) = [s \in Slots |-> Ring(S)[s]]
  BY DEF Ring, Slots
<1>2. [s \in Slots |-> Ring(S)[s]]
        = [s \in Slots |-> RingSlot(S \div Window, S % Window, s)]
  BY RingAt
<1> QED BY <1>1, <1>2

\* Writing the next position to the slot of its remainder gives the ring a
\* prefill of one position more leaves, also when it wraps.
LEMMA RingNext ==
    ASSUME NEW p \in Nat
    PROVE  [Ring(p) EXCEPT ![p % Window] = p] = Ring(p + 1)
<1> DEFINE q == p \div Window
           c == p % Window
           q1 == (p + 1) \div Window
           c1 == (p + 1) % Window
<1>1. Window \in Nat \ {0, 1}
  BY DsV4Assumption
<1>2. q \in Nat /\ c \in 0 .. Window - 1 /\ p = Window * q + c
  BY <1>1, Division
<1>3. \/ q1 = q /\ c1 = c + 1 /\ c + 1 < Window
      \/ q1 = q + 1 /\ c1 = 0 /\ c + 1 = Window
  <2>1. /\ (p % Window) + 1 < Window => /\ (p + 1) \div Window = p \div Window
                                        /\ (p + 1) % Window = (p % Window) + 1
        /\ (p % Window) + 1 = Window => /\ (p + 1) \div Window = (p \div Window) + 1
                                        /\ (p + 1) % Window = 0
        /\ (p % Window) + 1 <= Window
    BY <1>1, NextDivMod
  <2>2. c + 1 < Window \/ c + 1 = Window
    BY <1>1, <1>2
  <2> QED BY <2>1, <2>2
<1>4. Ring(p) = [s \in Slots |-> RingSlot(q, c, s)]
  BY RingTyped
<1>5. Ring(p + 1) = [s \in Slots |-> RingSlot(q1, c1, s)]
  BY RingTyped
<1> HIDE DEF q, c, q1, c1
<1>6. ASSUME NEW s \in Slots
      PROVE  RingSlot(q1, c1, s) = IF s = c THEN p ELSE RingSlot(q, c, s)
  <2>1. s \in Nat /\ s < Window
    BY <1>1 DEF Slots
  <2>2. CASE q1 = q /\ c1 = c + 1 /\ c + 1 < Window
    BY <1>2, <2>1, <2>2 DEF RingSlot
  <2>3. CASE q1 = q + 1 /\ c1 = 0 /\ c + 1 = Window
    <3>1. RingSlot(q1, c1, s) = Window * q + s
      <4>1. q1 # 0 /\ q1 - 1 = q /\ ~(s < c1)
        BY <1>2, <2>1, <2>3
      <4> QED BY <4>1 DEF RingSlot
    <3>2. CASE s = c
      BY <1>2, <3>1, <3>2
    <3>3. CASE s # c
      <4>1. s < c
        BY <1>1, <1>2, <2>1, <2>3, <3>3
      <4> QED BY <3>1, <3>3, <4>1 DEF RingSlot
    <3> QED BY <3>2, <3>3
  <2> QED BY <1>3, <2>2, <2>3
<1>7. [Ring(p) EXCEPT ![c] = p]
        = [s \in Slots |-> IF s = c THEN p ELSE RingSlot(q, c, s)]
  BY <1>4
<1>8. [Ring(p) EXCEPT ![c] = p] = Ring(p + 1)
  BY <1>5, <1>6, <1>7
<1> QED BY <1>8 DEF c

\* The positions of a window.
LEMMA WindowOf ==
    ASSUME NEW p \in Nat
    PROVE  PrefillWindow(p + 1, p) = Greatest(p - Window + 1, 0) .. p
<1>1. Window \in Nat \ {0, 1}
  BY DsV4Assumption
<1> DEFINE low == Greatest(p - Window + 1, 0)
           n == Least(p + 1, Window)
<1>2. low \in Nat /\ n \in Nat /\ low + n = p + 1
  BY <1>1 DEF Greatest, Least
<1> HIDE DEF low, n
<1>3. {m \in {low + k : k \in 0 .. n - 1} : m <= p} = low .. p
  <2>1. ASSUME NEW m \in low .. p
        PROVE  m \in {low + k : k \in 0 .. n - 1}
    <3>1. m - low \in 0 .. n - 1 /\ m = low + (m - low)
      BY <1>2
    <3> QED BY <3>1
  <2>2. ASSUME NEW k \in 0 .. n - 1
        PROVE  low + k \in low .. p
    BY <1>2
  <2> QED BY <1>2, <2>1, <2>2
<1> QED BY <1>3 DEF PrefillWindow, low, n

\* The slots that are attended hold the window, no more and no less.
LEMMA RingWindow ==
    ASSUME NEW p \in Nat
    PROVE  {Ring(p + 1)[s] : s \in WindowSlots(p)} = PrefillWindow(p + 1, p)
<1> DEFINE q == (p + 1) \div Window
           c == (p + 1) % Window
           wq == Window * q
           W == {Ring(p + 1)[s] : s \in WindowSlots(p)}
           low == Greatest(p - Window + 1, 0)
<1>1. Window \in Nat \ {0, 1}
  BY DsV4Assumption
<1>2. q \in Nat /\ c \in 0 .. Window - 1 /\ p + 1 = wq + c
  <2>1. p + 1 \in Nat /\ Window \in Nat \ {0}
    BY <1>1
  <2> QED BY <2>1, Division
<1>3. WindowSlots(p) \subseteq Slots
  BY <1>1 DEF WindowSlots, Slots
<1>4. W = {RingSlot(q, c, s) : s \in WindowSlots(p)}
  BY <1>3, RingAt
<1>5. CASE p + 1 < Window
  <2>1. q = 0 /\ c = p + 1
    BY <1>1, <1>5, SmallDivMod
  <2>2. WindowSlots(p) = 0 .. p
    BY <1>1, <1>5 DEF WindowSlots
  <2>3. ASSUME NEW s \in 0 .. p
        PROVE  RingSlot(q, c, s) = s
    <3>1. Window * 0 = 0
      BY <1>1
    <3> QED BY <2>1, <3>1 DEF RingSlot
  <2> HIDE DEF q, c
  <2>4. W = 0 .. p
    <3>1. {RingSlot(q, c, s) : s \in 0 .. p} = {s : s \in 0 .. p}
      BY <2>3
    <3> QED BY <1>4, <2>2, <3>1
  <2>5. low = 0
    BY <1>1, <1>5 DEF Greatest
  <2> HIDE DEF W, low
  <2> QED BY <2>4, <2>5, WindowOf DEF W, low
<1>6. CASE p + 1 >= Window
  <2>1. q >= 1
    BY <1>1, <1>6, SmallDivMod
  <2>2. WindowSlots(p) = Slots
    BY <1>1, <1>6 DEF WindowSlots, Slots
  <2>3. Window * (q - 1) = wq - Window /\ wq \in Nat
    BY <1>1, <1>2
  <2>4. ASSUME NEW s \in Slots
        PROVE  RingSlot(q, c, s) = IF s < c THEN wq + s ELSE wq - Window + s
    <3>1. q # 0
      BY <1>2, <2>1
    <3> QED BY <2>3, <3>1 DEF RingSlot
  <2>5. low = wq + c - Window
    <3> HIDE DEF q, c, wq
    <3> QED BY <1>1, <1>2, <1>6, <2>3 DEF Greatest
  <2> HIDE DEF q, c, wq, low
  <2>6. ASSUME NEW m \in low .. p
        PROVE  \E s \in Slots : m = RingSlot(q, c, s)
    <3>1. CASE m >= wq
      <4>1. m - wq \in Slots /\ m - wq < c /\ m = wq + (m - wq)
        BY <1>1, <1>2, <2>3, <2>5, <3>1 DEF Slots
      <4> QED BY <4>1, <2>4
    <3>2. CASE m < wq
      <4> DEFINE s == m - wq + Window
      <4>1. s \in Slots /\ ~(s < c) /\ m = wq - Window + s
        BY <1>1, <1>2, <2>3, <2>5, <3>2 DEF Slots
      <4> QED BY <4>1, <2>4
    <3> QED BY <1>2, <2>3, <2>5, <3>1, <3>2
  <2>7. ASSUME NEW s \in Slots
        PROVE  RingSlot(q, c, s) \in low .. p
    BY <1>1, <1>2, <2>3, <2>4, <2>5 DEF Slots
  <2>8. W = low .. p
    BY <1>4, <2>2, <2>6, <2>7
  <2> HIDE DEF W
  <2> QED BY <2>8, WindowOf DEF W, low
<1> QED BY <1>1, <1>5, <1>6

-----------------------------------------------------------------------------
(***************************************************************************)
(* DsV4Decode: compressors.                                                *)
(***************************************************************************)
\* The i-th pooled row.
RowOf(r, i) ==
    PooledRow(r * (i - 1),
              IF Overlap(r) /\ i > 1 THEN GroupOf(r, i - 2) ELSE {},
              GroupOf(r, i - 1))

PooledRows == [at : Int, of : SUBSET (Int \X {"before", "own"})]

GroupsFull(r, n) == IF r = 0 THEN 0 ELSE n \div r

\* What a compressor has to know after n positions: the rows of the full
\* groups, the positions of the open one, and the group before it where rows
\* overlap.  What lies behind the open group's positions is of no account.
Holding(r, c, n) ==
    /\ c.rows = PrefillRows(r, n)
    /\ c.state \in [DOMAIN EmptyState(r) -> Int]
    /\ DOMAIN c = {"rows", "state"}
    /\ r # 0 =>
        /\ \A k \in 0 .. (n % r) - 1 :
              c.state[GroupBase(r) + k] = n - (n % r) + k
        /\ Overlap(r) => \A k \in 0 .. r - 1 :
              c.state[k] = n - (n % r) - r + k

\* How many groups are full is a number.
LEMMA GroupsFullNat ==
    ASSUME NEW r \in Nat, NEW n \in Nat
    PROVE  GroupsFull(r, n) \in Nat
BY Division DEF GroupsFull

\* A group's positions are integers.
LEMMA GroupInts ==
    ASSUME NEW r \in Nat, NEW g \in Int
    PROVE  GroupOf(r, g) \subseteq Int
<1>1. r * g \in Int
  OBVIOUS
<1> QED BY <1>1 DEF GroupOf

\* A pooled row of integers.
LEMMA PooledTyped ==
    ASSUME NEW at \in Int, NEW before \in SUBSET Int, NEW own \in SUBSET Int
    PROVE  PooledRow(at, before, own) \in PooledRows
<1> DEFINE of == {<<p, "before">> : p \in before \ {Unwritten}}
                 \union {<<p, "own">> : p \in own \ {Unwritten}}
<1>1. of \in SUBSET (Int \X {"before", "own"})
  OBVIOUS
<1>2. PooledRow(at, before, own) = [at |-> at, of |-> of]
  BY DEF PooledRow
<1> HIDE DEF of
<1> QED BY <1>1, <1>2 DEF PooledRows

\* A prefill has one pooled row for each full group.
LEMMA RowsTyped ==
    ASSUME NEW r \in Nat, NEW n \in Nat
    PROVE  /\ PrefillRows(r, n) = [i \in 1 .. GroupsFull(r, n) |-> RowOf(r, i)]
           /\ PrefillRows(r, n) \in Seq(PooledRows)
           /\ Len(PrefillRows(r, n)) = GroupsFull(r, n)
<1>1. PrefillRows(r, n) = [i \in 1 .. GroupsFull(r, n) |-> RowOf(r, i)]
  BY DEF PrefillRows, GroupsFull, RowOf
<1>2. ASSUME NEW i \in 1 .. GroupsFull(r, n)
      PROVE  RowOf(r, i) \in PooledRows
  <2>1. i - 1 \in Int /\ i - 2 \in Int /\ r * (i - 1) \in Int
    BY GroupsFullNat
  <2> QED BY <2>1, GroupInts, PooledTyped DEF RowOf
<1>3. GroupsFull(r, n) \in Nat
  BY GroupsFullNat
<1> QED BY <1>1, <1>2, <1>3

\* A row more.
LEMMA RowsNext ==
    ASSUME NEW r \in Nat, NEW n \in Nat, NEW m \in Nat,
           GroupsFull(r, m) = GroupsFull(r, n) + 1
    PROVE  Append(PrefillRows(r, n), RowOf(r, GroupsFull(r, m)))
              = PrefillRows(r, m)
<1> DEFINE k == GroupsFull(r, n)
           s == PrefillRows(r, n)
           x == RowOf(r, k + 1)
<1>1. k \in Nat
  BY GroupsFullNat
<1>2. s = [i \in 1 .. k |-> RowOf(r, i)] /\ s \in Seq(PooledRows) /\ Len(s) = k
  BY RowsTyped
<1>3. PrefillRows(r, m) = [i \in 1 .. k + 1 |-> RowOf(r, i)]
  BY RowsTyped
<1> HIDE DEF s, x, k
<1>4. Append(s, x) = [i \in 1 .. k + 1 |-> IF i = k + 1 THEN x ELSE s[i]]
  BY <1>1, <1>2
<1>5. ASSUME NEW i \in 1 .. k + 1
      PROVE  (IF i = k + 1 THEN x ELSE s[i]) = RowOf(r, i)
  BY <1>1, <1>2 DEF x
<1>6. Append(s, x) = [i \in 1 .. k + 1 |-> RowOf(r, i)]
  BY <1>4, <1>5
<1>7. Append(s, x) = PrefillRows(r, m)
  BY <1>3, <1>6
<1> QED BY <1>7 DEF s, x, k

\* The places of a compressor's state.
LEMMA StateDomain ==
    ASSUME NEW r \in Nat
    PROVE  DOMAIN EmptyState(r)
              = 0 .. IF r = 0 THEN -1 ELSE GroupBase(r) + r - 1
BY DEF EmptyState

\* A prompt that fills a group leaves the state a decode continues from.
LEMMA PrefillHolds ==
    ASSUME NEW r \in Nat, NEW S \in Nat, S >= r
    PROVE  Holding(r, Prefilled(r, S), S)
<1> DEFINE st == PrefillState(r, S)
           c == S % r
           D == DOMAIN EmptyState(r)
<1>1. CASE r = 0
  <2>1. st = EmptyState(r)
    BY <1>1 DEF PrefillState
  <2>2. EmptyState(r) \in [D -> Int]
    BY DEF EmptyState, Unwritten
  <2> QED BY <1>1, <2>1, <2>2 DEF Holding, Prefilled
<1>2. CASE r # 0
  <2>1. c \in 0 .. r - 1 /\ r \in Nat \ {0}
    BY <1>2, Division
  <2>2. D = 0 .. GroupBase(r) + r - 1 /\ GroupBase(r) \in {0, r}
    BY <1>2, StateDomain DEF GroupBase
  <2>3. st = [j \in D |->
                IF j < r /\ (S - c = S \/ Overlap(r)) THEN S - c - r + j
                ELSE IF j - GroupBase(r) \in 0 .. S - (S - c) - 1
                THEN S - c + j - GroupBase(r)
                ELSE Unwritten]
    BY <1>2 DEF PrefillState
  <2> HIDE DEF st, c, D
  <2>4. st \in [D -> Int]
    <3>1. ASSUME NEW j \in D
          PROVE  st[j] \in Int
      BY <2>1, <2>2, <2>3 DEF Unwritten
    <3> QED BY <2>3, <3>1
  <2>5. ASSUME NEW k \in 0 .. c - 1
        PROVE  st[GroupBase(r) + k] = S - c + k
    <3>1. GroupBase(r) + k \in D
      BY <2>1, <2>2
    <3>2. S - c # S
      BY <2>1
    <3>3. ~(GroupBase(r) + k < r /\ Overlap(r))
      BY DEF GroupBase
    <3> DEFINE j == GroupBase(r) + k
    <3>4. j \in D /\ j - GroupBase(r) = k /\ k \in 0 .. S - (S - c) - 1
      BY <2>1, <2>2, <3>1
    <3>5. ~(j < r /\ (S - c = S \/ Overlap(r)))
      BY <3>2, <3>3
    <3>6. S - c + j - GroupBase(r) = S - c + k
      BY <2>1, <2>2
    <3> HIDE DEF j
    <3>7. st[j] = S - c + j - GroupBase(r)
      BY <2>3, <3>4, <3>5
    <3> QED BY <3>6, <3>7 DEF j
  <2>6. ASSUME Overlap(r), NEW k \in 0 .. r - 1
        PROVE  st[k] = S - c - r + k
    <3>1. k \in D
      BY <2>1, <2>2
    <3> QED BY <2>1, <2>3, <2>6, <3>1
  <2> QED BY <2>4, <2>5, <2>6 DEF Holding, Prefilled, st, c, D
<1> QED BY <1>1, <1>2

\* One position more leaves what a prompt of one position more would leave.
LEMMA CollectHolds ==
    ASSUME NEW r \in Nat, NEW p \in Nat, p >= r, NEW c, Holding(r, c, p)
    PROVE  Holding(r, Collected(r, c, p), p + 1)
<1>1. CASE r = 0
  <2>1. PrefillRows(r, p) = PrefillRows(r, p + 1)
    BY <1>1 DEF PrefillRows
  <2> QED BY <1>1, <2>1 DEF Holding, Collected
<1>2. CASE r # 0
  <2> DEFINE q == p \div r
             k == p % r
             rq == r * q
             B == GroupBase(r)
             D == DOMAIN EmptyState(r)
             filled == [c.state EXCEPT ![B + k] = p]
             half(b) == {filled[b + i] : i \in 0 .. r - 1}
             row == PooledRow(p + 1 - r, IF Overlap(r) THEN half(0) ELSE {},
                              half(B))
             new == Collected(r, c, p)
  <2>0. r \in Nat \ {0}
    BY <1>2
  <2>1. q \in Nat /\ k \in 0 .. r - 1 /\ p = rq + k
    BY <2>0, Division
  <2>2. q >= 1 /\ rq \in Nat
    BY <2>0, <2>1, SmallDivMod
  <2>3. D = 0 .. B + r - 1 /\ B \in {0, r} /\ (Overlap(r) => B = r)
    BY <1>2, StateDomain DEF GroupBase
  <2>4. /\ c.rows = PrefillRows(r, p)
        /\ c.state \in [D -> Int]
        /\ DOMAIN c = {"rows", "state"}
        /\ \A i \in 0 .. k - 1 : c.state[B + i] = p - k + i
        /\ Overlap(r) => \A i \in 0 .. r - 1 : c.state[i] = p - k - r + i
    BY <1>2 DEF Holding
  <2>5. new = IF (p + 1) % r # 0
              THEN [c EXCEPT !.state = filled]
              ELSE [rows |-> Append(c.rows, row),
                    state |-> [j \in DOMAIN filled |->
                                IF Overlap(r) /\ j < r THEN filled[r + j]
                                ELSE Unwritten]]
    BY <1>2 DEF Collected
  <2>6. /\ k + 1 < r => (p + 1) \div r = q /\ (p + 1) % r = k + 1
        /\ k + 1 = r => (p + 1) \div r = q + 1 /\ (p + 1) % r = 0
    BY <2>0, NextDivMod
  <2> HIDE DEF q, k, rq, B, D, filled, new
  <2>7. /\ filled \in [D -> Int]
        /\ \A i \in 0 .. k : filled[B + i] = p - k + i
        /\ Overlap(r) => \A i \in 0 .. r - 1 : filled[i] = p - k - r + i
    <3>1. B + k \in D
      BY <2>0, <2>1, <2>3
    <3>2. filled \in [D -> Int]
      BY <2>4, <3>1 DEF filled
    <3>3. ASSUME NEW i \in 0 .. k
          PROVE  filled[B + i] = p - k + i
      <4>1. B + i \in D
        BY <2>0, <2>1, <2>3
      <4>2. CASE i = k
        BY <2>1, <2>4, <3>1, <4>2 DEF filled
      <4>3. CASE i # k
        <5>1. i \in 0 .. k - 1 /\ B + i # B + k
          BY <2>1, <2>3, <4>3
        <5> QED BY <2>4, <4>1, <5>1 DEF filled
      <4> QED BY <4>2, <4>3
    <3>4. ASSUME Overlap(r), NEW i \in 0 .. r - 1
          PROVE  filled[i] = p - k - r + i
      <4>1. i \in D /\ i # B + k
        BY <2>0, <2>1, <2>3, <3>4
      <4> QED BY <2>4, <3>4, <4>1 DEF filled
    <3> QED BY <3>2, <3>3, <3>4
  <2>8. CASE k + 1 < r
    <3>1. (p + 1) \div r = q /\ (p + 1) % r = k + 1
      BY <2>6, <2>8
    <3>2. new = [c EXCEPT !.state = filled]
      BY <2>1, <2>5, <3>1
    <3>3. /\ new.rows = c.rows /\ new.state = filled
          /\ DOMAIN new = {"rows", "state"}
      BY <2>4, <3>2
    <3>4. PrefillRows(r, p + 1) = PrefillRows(r, p)
      BY <2>0, <3>1 DEF PrefillRows, q
    <3>5. ASSUME NEW i \in 0 .. (k + 1) - 1
          PROVE  new.state[B + i] = (p + 1) - (k + 1) + i
      BY <2>1, <2>7, <3>3
    <3>6. ASSUME Overlap(r), NEW i \in 0 .. r - 1
          PROVE  new.state[i] = (p + 1) - (k + 1) - r + i
      BY <2>1, <2>7, <3>3, <3>6
    <3> QED BY <2>4, <2>7, <3>1, <3>3, <3>4, <3>5, <3>6
            DEF Holding, B, D, new
  <2>9. CASE k + 1 = r
    <3>1. (p + 1) \div r = q + 1 /\ (p + 1) % r = 0
      BY <2>6, <2>9
    <3>2. new = [rows |-> Append(c.rows, row),
                 state |-> [j \in D |->
                                IF Overlap(r) /\ j < r THEN filled[r + j]
                                ELSE Unwritten]]
      BY <2>5, <2>7, <3>1
    <3>3. half(B) = GroupOf(r, q)
      <4>1. ASSUME NEW i \in 0 .. r - 1
            PROVE  filled[B + i] = rq + i
        BY <2>1, <2>2, <2>7, <2>9
      <4>2. half(B) = {rq + i : i \in 0 .. r - 1}
        BY <4>1
      <4> QED BY <4>2 DEF GroupOf, rq
    <3>4. Overlap(r) => half(0) = GroupOf(r, q - 1)
      <4>1. ASSUME Overlap(r), NEW i \in 0 .. r - 1
            PROVE  filled[0 + i] = rq - r + i
        BY <2>1, <2>2, <2>7, <4>1
      <4>2. Overlap(r) => half(0) = {rq - r + i : i \in 0 .. r - 1}
        BY <4>1
      <4>3. r * (q - 1) = rq - r
        BY <2>0, <2>1 DEF rq
      <4> QED BY <4>2, <4>3 DEF GroupOf
    <3>5. row = RowOf(r, q + 1)
      <4>1. p + 1 - r = r * ((q + 1) - 1)
        <5>1. (q + 1) - 1 = q
          BY <2>1
        <5>2. p + 1 - r = rq
          BY <2>0, <2>1, <2>2, <2>9
        <5> QED BY <5>1, <5>2 DEF rq
      <4>2. (q + 1) - 2 = q - 1 /\ (q + 1) - 1 = q /\ q + 1 > 1
        BY <2>1, <2>2
      <4> HIDE DEF half
      <4>3. row = PooledRow(r * ((q + 1) - 1),
                            IF Overlap(r) THEN GroupOf(r, q - 1) ELSE {},
                            GroupOf(r, q))
        BY <3>3, <3>4, <4>1
      <4>4. RowOf(r, q + 1) = PooledRow(r * ((q + 1) - 1),
                            IF Overlap(r) THEN GroupOf(r, q - 1) ELSE {},
                            GroupOf(r, q))
        BY <4>2 DEF RowOf
      <4> QED BY <4>3, <4>4
    <3> HIDE DEF row, half
    <3>6. /\ GroupsFull(r, p) = q
          /\ GroupsFull(r, p + 1) = q + 1
      BY <1>2, <3>1 DEF GroupsFull, q
    <3>7. new.rows = PrefillRows(r, p + 1)
      <4>1. Append(PrefillRows(r, p), RowOf(r, q + 1)) = PrefillRows(r, p + 1)
        <5>1. p + 1 \in Nat /\ GroupsFull(r, p + 1) = GroupsFull(r, p) + 1
          BY <3>6
        <5>2. Append(PrefillRows(r, p), RowOf(r, GroupsFull(r, p + 1)))
                = PrefillRows(r, p + 1)
          BY <5>1, RowsNext
        <5> QED BY <3>6, <5>2
      <4> QED BY <2>4, <3>2, <3>5, <4>1
    <3>8. new.state = [j \in D |-> IF Overlap(r) /\ j < r THEN filled[r + j]
                                   ELSE Unwritten]
      BY <3>2
    <3>9. new.state \in [D -> Int]
      <4>1. ASSUME NEW j \in D
            PROVE  new.state[j] \in Int
        <5>1. Overlap(r) /\ j < r => r + j \in D
          BY <2>0, <2>3
        <5> QED BY <2>7, <3>8, <5>1 DEF Unwritten
      <4> QED BY <3>8, <4>1
    <3>10. ASSUME Overlap(r), NEW i \in 0 .. r - 1
           PROVE  new.state[i] = (p + 1) - 0 - r + i
      <4>1. i \in D /\ i < r
        BY <2>0, <2>3
      <4>2. new.state[i] = filled[B + i]
        BY <2>3, <3>8, <3>10, <4>1
      <4>3. filled[B + i] = p - k + i
        <5>1. i \in 0 .. k
          BY <2>0, <2>1, <2>9
        <5> QED BY <2>7, <5>1
      <4> QED BY <2>1, <2>9, <4>2, <4>3
    <3>11. DOMAIN new = {"rows", "state"}
      BY <3>2
    <3> QED BY <1>2, <3>1, <3>7, <3>9, <3>10, <3>11 DEF Holding, D, new
  <2> QED BY <2>0, <2>1, <2>8, <2>9
<1> QED BY <1>1, <1>2

-----------------------------------------------------------------------------
(***************************************************************************)
(* DsV4Decode: the inductive invariant.                                    *)
(***************************************************************************)
\* A layer whose state a decode can go on from after n positions.
Continued(l, st, n) ==
    /\ st.ring = Ring(n)
    /\ Holding(Ratios[l], st.main, n)
    /\ Holding(IndexRatio(Ratios[l]), st.index, n)

Counted ==
    /\ prompt \in Nat /\ pos \in Nat
    /\ prompt <= pos \/ pos = 0

\* The drafter's ring is that of the positions it was given.
Drafting ==
    /\ drafter.n \in 0 .. pos
    /\ drafter.n > 0 => drafter.ring = Ring(drafter.n)
    /\ drafter.saw # {} =>
          drafter.saw = PrefillWindow(drafter.n, drafter.n - 1)

\* Every layer can go on, and what was decoded attended what it should.
Continuing ==
    /\ \A l \in LayerIds : Continued(l, layer[l], pos)
    /\ \A l \in LayerIds : IsSeq(reads[l], pos)
    /\ \A l \in LayerIds : \A p \in prompt .. pos - 1 :
          reads[l][p + 1] = PrefillAttends(Ratios[l], p + 1, p)

DsInv ==
    /\ Counted /\ Drafting
    /\ FillsEveryGroup /\ prompt <= pos => Continuing
    /\ FillsEveryGroup => (failed => PastTable)

\* The tables end somewhere.
LEMMA TableNat == TableLen \in Nat /\ TableLen <= MaxSeqLen
BY DsV4Assumption DEF TableLen, Least

\* A layer's compress ratio, and that of its indexer, which is no larger.
LEMMA RatiosNat ==
    ASSUME NEW l \in LayerIds
    PROVE  /\ Ratios[l] \in Nat
           /\ IndexRatio(Ratios[l]) \in Nat
           /\ IndexRatio(Ratios[l]) <= Ratios[l]
<1>1. Ratios[l] \in Nat
  BY DsV4Assumption DEF LayerIds
<1> QED BY <1>1 DEF IndexRatio, Indexed

\* Writing a position to a layer that can go on.
LEMMA WrittenContinues ==
    ASSUME NEW l \in LayerIds, NEW p \in Nat, p >= Ratios[l],
           Continued(l, layer[l], p)
    PROVE  Continued(l, Written(l, p), p + 1)
<1>1. /\ Written(l, p).ring = [Ring(p) EXCEPT ![p % Window] = p]
      /\ Written(l, p).main = Collected(Ratios[l], layer[l].main, p)
      /\ Written(l, p).index = Collected(IndexRatio(Ratios[l]), layer[l].index, p)
  BY DEF Written, Continued
<1>2. Written(l, p).ring = Ring(p + 1)
  BY <1>1, RingNext
<1>3. Holding(Ratios[l], Written(l, p).main, p + 1)
  BY <1>1, RatiosNat, CollectHolds DEF Continued
<1>4. Holding(IndexRatio(Ratios[l]), Written(l, p).index, p + 1)
  <2>1. p >= IndexRatio(Ratios[l])
    BY RatiosNat
  <2>2. Holding(IndexRatio(Ratios[l]), layer[l].index, p)
    BY DEF Continued
  <2> QED BY <1>1, <2>1, <2>2, RatiosNat, CollectHolds
<1> QED BY <1>2, <1>3, <1>4 DEF Continued

\* The groups a decode attends are those a prompt that ends here would, and
\* their rows are there.
LEMMA SameGroups ==
    ASSUME NEW l \in LayerIds, NEW p \in Nat, p >= Ratios[l], Ratios[l] # 0,
           Continued(l, Written(l, p), p + 1)
    PROVE  /\ GroupsRead(l, p) = PrefillGroups(Ratios[l], p + 1, p)
           /\ \A g \in GroupsRead(l, p) : g \in 0 .. ((p + 1) \div Ratios[l]) - 1
<1> DEFINE r == Ratios[l]
           n == (p + 1) \div r
<1>1. r \in Nat \ {0} /\ p + 1 \in Nat /\ p + 1 >= r
  BY RatiosNat
<1>2. n \in Nat /\ n >= 1
  BY <1>1, SmallDivMod, Division
<1>3. GroupsRead(l, p) = DecodeGroups(r, Len(Written(l, p).index.rows), p)
  BY <1>1 DEF GroupsRead
<1>4. BestGroups(n) \subseteq 0 .. n - 1
  BY DEF BestGroups
<1>5. CASE Indexed(r)
  <2>1. r = 4 /\ IndexRatio(r) = 4
    BY <1>5 DEF Indexed, IndexRatio
  <2>2. Written(l, p).index.rows = PrefillRows(4, p + 1)
    BY <2>1 DEF Continued, Holding
  <2>3. Len(PrefillRows(4, p + 1)) = n
    BY <1>1, <2>1, RowsTyped DEF GroupsFull
  <2>4. GroupsRead(l, p) = BestGroups(n)
    BY <1>3, <1>5, <2>2, <2>3 DEF DecodeGroups
  <2>5. PrefillGroups(r, p + 1, p) = {g \in BestGroups(n) : g < n}
    BY <1>5 DEF PrefillGroups
  <2> HIDE DEF n, r
  <2>6. {g \in BestGroups(n) : g < n} = BestGroups(n)
    BY <1>2, <1>4
  <2> QED BY <1>4, <2>4, <2>5, <2>6 DEF r, n
<1>6. CASE ~Indexed(r)
  <2>1. GroupsRead(l, p) = 0 .. Greatest(n, 1) - 1
    BY <1>3, <1>6 DEF DecodeGroups
  <2>2. PrefillGroups(r, p + 1, p) = {g \in 0 .. Greatest(n, 1) - 1 : g < n}
    BY <1>6 DEF PrefillGroups
  <2> HIDE DEF n, r
  <2>3. Greatest(n, 1) = n
    BY <1>2 DEF Greatest
  <2>4. {g \in 0 .. n - 1 : g < n} = 0 .. n - 1
    BY <1>2
  <2> QED BY <2>1, <2>2, <2>3, <2>4 DEF n, r
<1> QED BY <1>5, <1>6

\* A decoded position attends what it would attend as the last of a prompt.
LEMMA SameReads ==
    ASSUME NEW l \in LayerIds, NEW p \in Nat, p >= Ratios[l],
           Continued(l, Written(l, p), p + 1)
    PROVE  /\ InBounds(l, p)
           /\ DecodeAttends(l, p) = PrefillAttends(Ratios[l], p + 1, p)
<1> DEFINE r == Ratios[l]
           rows == PrefillRows(r, p + 1)
<1>1. Written(l, p).ring = Ring(p + 1) /\ Written(l, p).main.rows = rows
  BY DEF Continued, Holding
<1>2. {Written(l, p).ring[s] : s \in WindowSlots(p)} = PrefillWindow(p + 1, p)
  BY <1>1, RingWindow
<1>3. GroupsRead(l, p) = IF r = 0 THEN {} ELSE PrefillGroups(r, p + 1, p)
  BY SameGroups DEF GroupsRead
<1>4. InBounds(l, p)
  <2>1. r # 0 => Len(rows) = (p + 1) \div r
    <3>1. r \in Nat /\ p + 1 \in Nat
      BY RatiosNat
    <3> QED BY <3>1, RowsTyped DEF GroupsFull
  <2>2. r = 0 => GroupsRead(l, p) = {}
    BY <1>3
  <2>3. r # 0 => \A g \in GroupsRead(l, p) : g < (p + 1) \div r
    <3> SUFFICES ASSUME r # 0, NEW g \in GroupsRead(l, p)
                 PROVE  g < (p + 1) \div r
      OBVIOUS
    <3>1. g \in 0 .. ((p + 1) \div r) - 1
      BY SameGroups
    <3>2. (p + 1) \div r \in Nat
      <4>1. r \in Nat \ {0} /\ p + 1 \in Nat
        BY RatiosNat
      <4> QED BY <4>1, Division
    <3> QED BY <3>1, <3>2
  <2> QED BY <1>1, <2>1, <2>2, <2>3 DEF InBounds
<1>5. DecodeAttends(l, p) = PrefillAttends(r, p + 1, p)
  <2> HIDE DEF r, rows
  <2>1. DecodeAttends(l, p)
          = Attended(PrefillWindow(p + 1, p), rows,
                     IF r = 0 THEN {} ELSE PrefillGroups(r, p + 1, p))
    BY <1>1, <1>2, <1>3 DEF DecodeAttends
  <2> QED BY <2>1 DEF PrefillAttends, rows
<1> QED BY <1>4, <1>5

\* The indexer's ranking is fixed, and with it what a prompt attends.
LEMMA AttendsFixed ==
    ASSUME ranking' = ranking, NEW CONSTANT r, NEW CONSTANT S, NEW CONSTANT p
    PROVE  PrefillAttends(r, S, p)' = PrefillAttends(r, S, p)
BY DEF PrefillAttends, PrefillGroups, BestGroups

\* Nothing was computed and nothing can have failed.
LEMMA DsInitInv == DsInit => DsInv
<1> SUFFICES ASSUME DsInit PROVE DsInv
  OBVIOUS
<1>1. Counted /\ Drafting
  BY DEF DsInit, Counted, Drafting
<1>2. ASSUME FillsEveryGroup PROVE Continuing
  <2>1. ASSUME NEW l \in LayerIds
        PROVE  Continued(l, layer[l], 0)
    <3>1. 0 >= Ratios[l] /\ 0 >= IndexRatio(Ratios[l])
      BY <1>2, RatiosNat DEF FillsEveryGroup, DsInit
    <3>2. layer[l] = NoLayer(Ratios[l])
      BY DEF DsInit
    <3>3. Holding(Ratios[l], Prefilled(Ratios[l], 0), 0)
      BY <3>1, RatiosNat, PrefillHolds
    <3>4. Holding(IndexRatio(Ratios[l]), Prefilled(IndexRatio(Ratios[l]), 0), 0)
      BY <3>1, RatiosNat, PrefillHolds
    <3> QED BY <3>2, <3>3, <3>4 DEF Continued, NoLayer
  <2>2. ASSUME NEW l \in LayerIds
        PROVE  IsSeq(reads[l], 0)
    BY DEF IsSeq, DsInit
  <2>3. pos = 0 /\ prompt = 0
    BY DEF DsInit
  <2> QED BY <2>1, <2>2, <2>3 DEF Continuing
<1>3. ~failed
  BY DEF DsInit
<1> QED BY <1>1, <1>2, <1>3 DEF DsInv

\* A prompt leaves what a decode can go on from.
LEMMA PrefillInv ==
    ASSUME DsInv, NEW S \in 1 .. MaxSeqLen, DsPrefill(S)
    PROVE  DsInv'
<1>0. S \in Nat /\ S > 0
  BY DsV4Assumption
<1>1. /\ pos = 0 /\ prompt' = S /\ pos' = S
      /\ ~failed' /\ drafter' = drafter
  BY DEF DsPrefill
<1>2. Counted'
  BY <1>0, <1>1 DEF Counted, DsInv
<1>3. Drafting'
  BY <1>0, <1>1 DEF Drafting, DsInv
<1>4. ASSUME FillsEveryGroup' PROVE Continuing'
  <2>1. ASSUME NEW l \in LayerIds
        PROVE  Continued(l, layer'[l], S)
    <3>1. S >= Ratios[l] /\ S >= IndexRatio(Ratios[l])
      BY <1>0, <1>1, <1>4, RatiosNat DEF FillsEveryGroup
    <3>2. layer'[l] = [ring |-> Ring(S), main |-> Prefilled(Ratios[l], S),
                       index |-> Prefilled(IndexRatio(Ratios[l]), S)]
      BY DEF DsPrefill
    <3>3. Holding(Ratios[l], Prefilled(Ratios[l], S), S)
      BY <1>0, <3>1, RatiosNat, PrefillHolds
    <3>4. Holding(IndexRatio(Ratios[l]), Prefilled(IndexRatio(Ratios[l]), S), S)
      BY <1>0, <3>1, RatiosNat, PrefillHolds
    <3> QED BY <3>2, <3>3, <3>4 DEF Continued
  <2>2. ASSUME NEW l \in LayerIds
        PROVE  IsSeq(reads'[l], S)
    BY DEF IsSeq, DsPrefill
  <2> QED BY <1>0, <1>1, <2>1, <2>2 DEF Continuing
<1> QED BY <1>1, <1>2, <1>3, <1>4 DEF DsInv

\* A prompt longer than the tables leaves nothing computed.
LEMMA PrefillFailsInv ==
    ASSUME DsInv, NEW S \in 1 .. MaxSeqLen, PrefillFails(S)
    PROVE  DsInv'
<1>0. S \in Nat /\ S > 0 /\ S > TableLen
  BY DsV4Assumption DEF PrefillFails
<1>1. pos' = 0 /\ pos = 0 /\ prompt' = S /\ drafter' = drafter
  BY DEF PrefillFails
<1>2. Counted' /\ Drafting'
  BY <1>0, <1>1 DEF Counted, Drafting, DsInv
<1>3. ~(prompt' <= pos')
  BY <1>0, <1>1
<1>4. PastTable'
  BY <1>0, <1>1, TableNat DEF PastTable, Greatest, TableLen
<1> QED BY <1>2, <1>3, <1>4 DEF DsInv

\* A decode attends what it should and leaves what the next one needs.
LEMMA DecodeInv ==
    ASSUME DsInv, DecodeStep
    PROVE  DsInv'
<1>1. /\ pos \in Nat /\ pos > 0 /\ pos' = pos + 1 /\ prompt' = prompt
      /\ prompt <= pos /\ ~failed' /\ drafter' = drafter
  BY TableNat DEF DecodeStep, DsInv, Counted
<1>2. Counted'
  BY <1>1 DEF Counted, DsInv
<1>3. Drafting'
  BY <1>1 DEF Drafting, DsInv
<1>4. ASSUME FillsEveryGroup' PROVE Continuing'
  <2>1. FillsEveryGroup /\ Continuing
    BY <1>1, <1>4 DEF FillsEveryGroup, DsInv
  <2>2. prompt \in Nat /\ prompt <= pos
    BY <1>1 DEF DsInv, Counted
  <2>3. ASSUME NEW l \in LayerIds
        PROVE  /\ Continued(l, layer'[l], pos + 1)
               /\ IsSeq(reads'[l], pos + 1)
               /\ \A p \in prompt .. pos :
                     reads'[l][p + 1] = PrefillAttends(Ratios[l], p + 1, p)
    <3>1. pos >= Ratios[l]
      BY <1>1, <2>1, <2>2, RatiosNat DEF FillsEveryGroup
    <3>2. Continued(l, Written(l, pos), pos + 1)
      BY <1>1, <2>1, <3>1, WrittenContinues DEF Continuing
    <3>3. layer'[l] = Written(l, pos)
      BY DEF DecodeStep
    <3>4. reads'[l] = Append(reads[l], PrefillAttends(Ratios[l], pos + 1, pos))
      <4>1. reads'[l] = Append(reads[l], DecodeAttends(l, pos))
        BY DEF DecodeStep
      <4> QED BY <1>1, <3>1, <3>2, <4>1, SameReads
    <3>5. IsSeq(reads[l], pos)
      BY <2>1 DEF Continuing
    <3> DEFINE e == PrefillAttends(Ratios[l], pos + 1, pos)
    <3> HIDE DEF e
    <3>6. /\ IsSeq(reads'[l], pos + 1)
          /\ \A i \in 1 .. pos : reads'[l][i] = reads[l][i]
          /\ reads'[l][pos + 1] = e
      BY <1>1, <3>4, <3>5, AppendIs DEF e
    <3>7. ASSUME NEW p \in prompt .. pos
          PROVE  reads'[l][p + 1] = PrefillAttends(Ratios[l], p + 1, p)
      <4>1. CASE p = pos
        BY <3>6, <4>1 DEF e
      <4>2. CASE p # pos
        <5>1. p \in prompt .. pos - 1 /\ p + 1 \in 1 .. pos
          BY <1>1, <2>2, <4>2
        <5>2. reads[l][p + 1] = PrefillAttends(Ratios[l], p + 1, p)
          BY <2>1, <5>1 DEF Continuing
        <5> QED BY <3>6, <5>1, <5>2
      <4> QED BY <4>1, <4>2
    <3> QED BY <3>2, <3>3, <3>6, <3>7
  <2>5. \A l \in LayerIds : Continued(l, layer[l], pos)'
    BY <1>1, <2>3
  <2>6. \A l \in LayerIds : IsSeq(reads[l], pos)'
    BY <1>1, <2>3 DEF IsSeq
  <2>7. ranking' = ranking
    BY DEF DecodeStep
  <2>8. ASSUME NEW l \in LayerIds, NEW p \in prompt' .. pos' - 1
        PROVE  reads'[l][p + 1] = PrefillAttends(Ratios[l], p + 1, p)'
    <3>1. p \in prompt .. pos
      BY <1>1, <2>2, <2>8
    <3>2. reads'[l][p + 1] = PrefillAttends(Ratios[l], p + 1, p)
      BY <2>3, <3>1
    <3> QED BY <2>7, <3>2, AttendsFixed
  <2> QED BY <2>5, <2>6, <2>8 DEF Continuing
<1> QED BY <1>1, <1>2, <1>3, <1>4 DEF DsInv

\* What leaves the layers alone and raises only past the tables.
LEMMA LayersKept ==
    ASSUME DsInv, Drafting', UNCHANGED <<prompt, pos, layer, reads, ranking>>,
           FillsEveryGroup' => (failed' => PastTable')
    PROVE  DsInv'
<1>1. /\ prompt' = prompt /\ pos' = pos /\ layer' = layer /\ reads' = reads
      /\ ranking' = ranking
  OBVIOUS
<1>2. Counted' <=> Counted
  BY <1>1 DEF Counted
<1>3. FillsEveryGroup' <=> FillsEveryGroup
  BY <1>1 DEF FillsEveryGroup
<1>4. Continuing => Continuing'
  <2> SUFFICES ASSUME Continuing PROVE Continuing'
    OBVIOUS
  <2>1. \A l \in LayerIds : Continued(l, layer[l], pos)'
    BY <1>1 DEF Continuing
  <2>2. \A l \in LayerIds : IsSeq(reads[l], pos)'
    BY <1>1 DEF Continuing
  <2>3. ASSUME NEW l \in LayerIds, NEW p \in prompt' .. pos' - 1
        PROVE  reads'[l][p + 1] = PrefillAttends(Ratios[l], p + 1, p)'
    <3>1. reads'[l][p + 1] = PrefillAttends(Ratios[l], p + 1, p)
      BY <1>1 DEF Continuing
    <3> QED BY <1>1, <3>1, AttendsFixed
  <2> QED BY <1>1, <2>1, <2>2, <2>3 DEF Continuing
<1> QED BY <1>1, <1>2, <1>3, <1>4 DEF DsInv

\* A decode past the tables writes nothing.
LEMMA PastTableInv ==
    ASSUME DsInv, DecodePastTable
    PROVE  DsInv'
<1>1. UNCHANGED <<prompt, pos, layer, reads, ranking, drafter>>
  BY DEF DecodePastTable
<1>2. pos \in Nat /\ prompt \in Nat /\ pos >= TableLen
  BY TableNat DEF DecodePastTable, DsInv, Counted
<1>3. Drafting'
  BY <1>1 DEF Drafting, DsInv
<1>4. PastTable'
  BY <1>1, <1>2, TableNat DEF PastTable, Greatest, TableLen
<1> QED BY <1>1, <1>3, <1>4, LayersKept

\* A decode raises an IndexError only where a prompt filled no group of some layer.
LEMMA FailsInv ==
    ASSUME DsInv, DecodeFails
    PROVE  DsInv'
<1>1. /\ pos \in Nat /\ pos > 0 /\ pos' = pos /\ prompt' = prompt
      /\ prompt <= pos /\ drafter' = drafter
  BY TableNat DEF DecodeFails, DsInv, Counted
<1>2. Counted' /\ Drafting'
  BY <1>1 DEF Counted, Drafting, DsInv
<1>3. ~FillsEveryGroup'
  <2> SUFFICES ASSUME FillsEveryGroup'
               PROVE  FALSE
    OBVIOUS
  <2>1. FillsEveryGroup /\ Continuing
    BY <1>1 DEF FillsEveryGroup, DsInv
  <2>2. PICK l \in LayerIds : ~InBounds(l, pos)
    BY DEF DecodeFails
  <2>3. pos >= Ratios[l]
    BY <1>1, <2>1, RatiosNat DEF FillsEveryGroup, DsInv, Counted
  <2>4. Continued(l, Written(l, pos), pos + 1)
    BY <1>1, <2>1, <2>3, WrittenContinues DEF Continuing
  <2> QED BY <1>1, <2>2, <2>3, <2>4, SameReads
<1> QED BY <1>2, <1>3 DEF DsInv

\* The drafter's ring follows the positions it is given.
LEMMA DraftingNext ==
    ASSUME DsInv, SetupDrafter \/ DraftStep
    PROVE  Drafting'
<1>0. pos \in Nat /\ pos > 0 /\ pos' = pos
  BY DEF DsInv, Counted, SetupDrafter, DraftStep
<1>1. CASE SetupDrafter
  BY <1>0, <1>1 DEF SetupDrafter, Drafting
<1>2. CASE DraftStep
  <2> DEFINE ring == [drafter.ring EXCEPT ![(pos - 1) % Window] = pos - 1]
  <2>1. drafter' = [ring |-> ring, n |-> pos,
                    saw |-> IF BlockInTable
                            THEN {ring[s] : s \in WindowSlots(pos - 1)} ELSE {}]
    BY <1>2 DEF DraftStep
  <2>2. /\ drafter.n \in {pos - 1, pos} /\ drafter.n > 0
        /\ drafter.ring = Ring(drafter.n)
    BY <1>2 DEF DraftStep, DsInv, Drafting
  <2>3. pos - 1 \in Nat /\ (pos - 1) + 1 = pos
    BY <1>0
  <2>4. [Ring(pos - 1) EXCEPT ![(pos - 1) % Window] = pos - 1] = Ring(pos)
    BY <2>3, RingNext
  <2>5. ring = Ring(pos)
    <3>1. CASE drafter.n = pos - 1
      BY <2>2, <2>4, <3>1
    <3>2. CASE drafter.n = pos
      <4> DEFINE before == Ring(pos - 1)
                 x == (pos - 1) % Window
                 v == pos - 1
      <4>1. [before EXCEPT ![x] = v] = Ring(pos) /\ drafter.ring = Ring(pos)
        BY <2>2, <2>4, <3>2
      <4>2. [[before EXCEPT ![x] = v] EXCEPT ![x] = v] = [before EXCEPT ![x] = v]
        <5> HIDE DEF before, x, v
        <5> QED OBVIOUS
      <4> QED BY <4>1, <4>2
    <3> QED BY <2>2, <3>1, <3>2
  <2>6. {Ring(pos)[s] : s \in WindowSlots(pos - 1)} = PrefillWindow(pos, pos - 1)
    BY <2>3, RingWindow
  <2> HIDE DEF ring
  <2>7. /\ drafter'.n = pos /\ drafter'.ring = Ring(pos)
        /\ drafter'.saw \in {PrefillWindow(pos, pos - 1), {}}
    BY <2>1, <2>5, <2>6
  <2> QED BY <1>0, <2>7 DEF Drafting
<1> QED BY <1>1, <1>2

\* A draft raises only where its block is past the tables.
LEMMA DraftRaises ==
    ASSUME DsInv, SetupDrafter \/ DraftStep, failed'
    PROVE  PastTable'
<1>1. DraftStep /\ ~BlockInTable
  BY DEF SetupDrafter, DraftStep
<1>2. drafter'.n = pos' /\ pos' = pos /\ pos \in Nat
  BY <1>1 DEF DraftStep, DsInv, Counted
<1>3. pos + DraftBlock > TableLen
  BY <1>1, <1>2, TableNat, DsV4Assumption DEF BlockInTable
<1> QED BY <1>2, <1>3 DEF PastTable, TableLen

\* Every step keeps the invariant.
LEMMA DsNextInv ==
    ASSUME DsInv, [DsNext]_dsVars
    PROVE  DsInv'
<1>1. CASE \E S \in 1 .. MaxSeqLen : DsPrefill(S) \/ PrefillFails(S)
  BY <1>1, PrefillInv, PrefillFailsInv
<1>2. CASE DecodeStep
  BY <1>2, DecodeInv
<1>3. CASE DecodeFails
  BY <1>3, FailsInv
<1>4. CASE DecodePastTable
  BY <1>4, PastTableInv
<1>5. CASE SetupDrafter \/ DraftStep
  <2>1. UNCHANGED <<prompt, pos, layer, reads, ranking>>
    BY <1>5 DEF SetupDrafter, DraftStep
  <2>2. failed' => PastTable'
    BY <1>5, DraftRaises
  <2> QED BY <1>5, <2>1, <2>2, DraftingNext, LayersKept
<1>6. CASE UNCHANGED dsVars
  <2>1. UNCHANGED <<prompt, pos, layer, reads, ranking>>
        /\ drafter' = drafter /\ failed' = failed
    BY <1>6 DEF dsVars
  <2>2. Drafting'
    BY <2>1 DEF DsInv, Drafting
  <2>3. FillsEveryGroup' => (failed' => PastTable')
    BY <2>1 DEF DsInv, FillsEveryGroup, PastTable
  <2> QED BY <2>1, <2>2, <2>3, LayersKept
<1> QED BY <1>1, <1>2, <1>3, <1>4, <1>5, <1>6 DEF DsNext

\* Decoding continues a prefill, for every window, compress ratios, choice of
\* the indexer, prompt that fills a group of every layer, and number of steps
\* within the rotary tables: the state that MLA.prefill and Compressor leave is
\* the one decode goes on from.  Nothing raises before the tables end, which
\* may be long before the context does.
THEOREM AlwaysContinuesPrefill == DsSpec => []ContinuesPrefill
<1>1. DsInit => DsInv
  BY DsInitInv
<1>2. DsInv /\ [DsNext]_dsVars => DsInv'
  BY DsNextInv
<1>3. DsInv => ContinuesPrefill
  <2> SUFFICES ASSUME DsInv, FillsEveryGroup
               PROVE  /\ failed => PastTable
                      /\ \A l \in LayerIds : \A p \in prompt .. pos - 1 :
                           reads[l][p + 1] = PrefillAttends(Ratios[l], p + 1, p)
                      /\ drafter.saw # {} =>
                           drafter.saw = PrefillWindow(drafter.n, drafter.n - 1)
    BY DEF ContinuesPrefill
  <2>1. ASSUME NEW l \in LayerIds, NEW p \in prompt .. pos - 1
        PROVE  reads[l][p + 1] = PrefillAttends(Ratios[l], p + 1, p)
    <3>1. prompt <= pos
      BY DEF DsInv, Counted
    <3> QED BY <3>1 DEF DsInv, Continuing
  <2> QED BY <2>1 DEF DsInv, Drafting
<1> QED BY <1>1, <1>2, <1>3, PTL DEF DsSpec

-----------------------------------------------------------------------------
(***************************************************************************)
(* Q4Caches: windows of rows.                                              *)
(***************************************************************************)
RowAt(j) == IF j >= 0 THEN j ELSE NoRow

\* The last len rows of n, none where there were fewer.
Aligned(s, n, len) == s = [i \in 1 .. len |-> RowAt(n - len + i - 1)]

\* Its length.
LEMMA AlignedSeq ==
    ASSUME NEW n \in Nat, NEW len \in Nat, NEW s, Aligned(s, n, len)
    PROVE  IsSeq(s, len) /\ Len(s) = len /\ DOMAIN s = 1 .. len
<1>1. IsSeq(s, len)
  BY DEF Aligned, IsSeq
<1> QED BY <1>1, SeqIs

\* What a convolution takes of them are the last positions at their taps,
\* however much room the window has in front of them.
LEMMA AlignedComputed ==
    ASSUME NEW n \in Nat, NEW len \in Nat, NEW s, Aligned(s, n, len)
    PROVE  Computed(s) = {<<d, n - 1 - d>> : d \in 0 .. Least2(n, len) - 1}
<1> DEFINE W == {<<d, n - 1 - d>> : d \in 0 .. Least2(n, len) - 1}
           D == {j \in DOMAIN s : s[j] # NoRow}
<1>1. Len(s) = len /\ DOMAIN s = 1 .. len
  BY AlignedSeq
<1>2. \A i \in 1 .. len : s[i] = RowAt(n - len + i - 1)
  BY DEF Aligned
<1>3. ASSUME NEW i \in D
      PROVE  <<len - i, s[i]>> \in W
  <2>1. i \in 1 .. len /\ s[i] # NoRow
    BY <1>1
  <2>2. n - len + i - 1 >= 0 /\ s[i] = n - len + i - 1
    BY <1>2, <2>1 DEF RowAt
  <2>3. len - i \in 0 .. Least2(n, len) - 1 /\ n - 1 - (len - i) = s[i]
    BY <2>1, <2>2 DEF Least2
  <2> QED BY <2>3
<1>4. ASSUME NEW d \in 0 .. Least2(n, len) - 1
      PROVE  \E i \in D : <<len - i, s[i]>> = <<d, n - 1 - d>>
  <2>1. len - d \in 1 .. len /\ n - len + (len - d) - 1 = n - 1 - d
        /\ n - 1 - d >= 0 /\ len - (len - d) = d
    BY DEF Least2
  <2>2. s[len - d] = n - 1 - d
    BY <1>2, <2>1 DEF RowAt
  <2>3. len - d \in D
    BY <1>1, <2>1, <2>2 DEF NoRow
  <2> QED BY <2>1, <2>2, <2>3
<1>5. Computed(s) = {<<len - i, s[i]>> : i \in D}
  BY <1>1 DEF Computed
<1> HIDE DEF D
<1>6. {<<len - i, s[i]>> : i \in D} = W
  BY <1>3, <1>4
<1> QED BY <1>5, <1>6

\* The last k of a window are a window.
LEMMA AlignedLast ==
    ASSUME NEW n \in Nat, NEW len \in Nat, NEW s, Aligned(s, n, len), NEW k \in Nat
    PROVE  Aligned(LastOf(s, k), n, Least2(len, k))
<1> DEFINE m == Least2(len, k)
<1>1. LastOf(s, k) = [i \in 1 .. m |-> s[len - m + i]]
  BY AlignedSeq, LastIs
<1>2. m \in Nat /\ m <= len
  BY DEF Least2
<1> HIDE DEF m
<1>3. ASSUME NEW i \in 1 .. m
      PROVE  s[len - m + i] = RowAt(n - m + i - 1)
  <2>1. len - m + i \in 1 .. len /\ n - len + (len - m + i) - 1 = n - m + i - 1
    BY <1>2
  <2>2. s[len - m + i] = RowAt(n - len + (len - m + i) - 1)
    BY <2>1 DEF Aligned
  <2> QED BY <2>1, <2>2
<1>4. LastOf(s, k) = [i \in 1 .. m |-> RowAt(n - m + i - 1)]
  BY <1>1, <1>3
<1> QED BY <1>4 DEF Aligned, m

\* The positions a .. b - 1.
LEMMA PositionsAligned ==
    ASSUME NEW b \in Nat, NEW a \in 0 .. b
    PROVE  /\ Aligned(Positions(a, b - 1), b, b - a)
           /\ Positions(a, b - 1) = [i \in 1 .. b - a |-> a + i - 1]
           /\ IsSeq(Positions(a, b - 1), b - a)
<1>1. Positions(a, b - 1) = [i \in 1 .. b - a |-> a + i - 1]
  BY DEF Positions
<1>2. ASSUME NEW i \in 1 .. b - a
      PROVE  a + i - 1 = RowAt(b - (b - a) + i - 1)
  <2>1. b - (b - a) + i - 1 = a + i - 1 /\ a + i - 1 >= 0
    OBVIOUS
  <2> QED BY <2>1 DEF RowAt
<1>3. [i \in 1 .. b - a |-> a + i - 1]
        = [i \in 1 .. b - a |-> RowAt(b - (b - a) + i - 1)]
  BY <1>2
<1> QED BY <1>1, <1>3 DEF Aligned, IsSeq

\* A window that is continued.
LEMMA AlignedConcat ==
    ASSUME NEW n \in Nat, NEW len \in Nat, NEW s, Aligned(s, n, len), NEW m \in Nat
    PROVE  Aligned(s \o Positions(n, n + m - 1), n + m, len + m)
<1> DEFINE t == Positions(n, n + m - 1)
<1>1. t = [i \in 1 .. m |-> n + i - 1] /\ IsSeq(t, m)
  <2>1. n + m \in Nat /\ n \in 0 .. n + m /\ (n + m) - n = m
    OBVIOUS
  <2>2. /\ Positions(n, (n + m) - 1) = [i \in 1 .. (n + m) - n |-> n + i - 1]
        /\ IsSeq(Positions(n, (n + m) - 1), (n + m) - n)
    BY <2>1, PositionsAligned
  <2> QED BY <2>1, <2>2
<1> HIDE DEF t
<1> DEFINE u == s \o t
<1>2. /\ IsSeq(u, len + m)
      /\ \A i \in 1 .. len : u[0 + i] = s[i]
      /\ \A i \in 1 .. m : u[len + i] = t[i]
  <2>1. IsSeq(s, len)
    BY AlignedSeq
  <2>2. len \in Nat /\ m \in Nat /\ IsSeq(t, m)
    BY <1>1
  <2>3. /\ IsSeq(s \o t, len + m)
        /\ Behind(s \o t, 0, s, len)
        /\ Behind(s \o t, len, t, m)
    BY <2>1, <2>2, ConcatIs
  <2>4. IsSeq(u, len + m) /\ Behind(u, 0, s, len) /\ Behind(u, len, t, m)
    BY <2>3
  <2> HIDE DEF u
  <2> QED BY <2>4 DEF Behind
<1> HIDE DEF u
<1>3. ASSUME NEW i \in 1 .. len + m
      PROVE  u[i] = RowAt((n + m) - (len + m) + i - 1)
  <2>0. (n + m) - (len + m) + i - 1 = n - len + i - 1
    OBVIOUS
  <2>1. CASE i <= len
    <3>1. s[i] = RowAt(n - len + i - 1)
      BY <2>1 DEF Aligned
    <3>2. u[0 + i] = s[i] /\ 0 + i = i
      BY <1>2, <2>1
    <3> QED BY <2>0, <3>1, <3>2
  <2>2. CASE ~(i <= len)
    <3>1. i - len \in 1 .. m /\ n - len + i - 1 >= 0
      BY <2>2
    <3>2. u[len + (i - len)] = t[i - len] /\ t[i - len] = n + (i - len) - 1
      BY <1>1, <1>2, <3>1
    <3>4. len + (i - len) = i /\ n + (i - len) - 1 = n - len + i - 1
      OBVIOUS
    <3>3. RowAt(n - len + i - 1) = n - len + i - 1
      BY <3>1 DEF RowAt
    <3> QED BY <2>0, <3>2, <3>3, <3>4
  <2> QED BY <2>1, <2>2
<1>4. u = [i \in 1 .. len + m |-> RowAt((n + m) - (len + m) + i - 1)]
  BY <1>2, <1>3 DEF IsSeq
<1> QED BY <1>4 DEF Aligned, t, u

\* A position more.
LEMMA AlignedAppend ==
    ASSUME NEW n \in Nat, NEW len \in Nat, NEW s, Aligned(s, n, len)
    PROVE  Aligned(Append(s, n), n + 1, len + 1)
<1>1. IsSeq(s, len)
  BY AlignedSeq
<1>2. Append(s, n) = [i \in 1 .. len + 1 |-> IF i = len + 1 THEN n ELSE s[i]]
  BY <1>1, AppendIs
<1>3. ASSUME NEW i \in 1 .. len + 1
      PROVE  (IF i = len + 1 THEN n ELSE s[i])
                = RowAt((n + 1) - (len + 1) + i - 1)
  <2>0. (n + 1) - (len + 1) + i - 1 = n - len + i - 1
    OBVIOUS
  <2>1. CASE i = len + 1
    BY <2>1 DEF RowAt
  <2>2. CASE i # len + 1
    <3>1. s[i] = RowAt(n - len + i - 1)
      BY <2>2 DEF Aligned
    <3> QED BY <2>0, <2>2, <3>1
  <2> QED BY <2>1, <2>2
<1>4. Append(s, n) = [i \in 1 .. len + 1 |-> RowAt((n + 1) - (len + 1) + i - 1)]
  BY <1>2, <1>3
<1> QED BY <1>4 DEF Aligned

\* All positions and one more.
LEMMA PositionsNext ==
    ASSUME NEW n \in Nat
    PROVE  Append(Positions(0, n - 1), n) = Positions(0, n)
<1>1. /\ Positions(0, n - 1) = [i \in 1 .. n |-> 0 + i - 1]
      /\ IsSeq(Positions(0, n - 1), n)
  <2>1. 0 \in 0 .. n /\ n - 0 = n
    OBVIOUS
  <2> QED BY <2>1, PositionsAligned
<1>2. Positions(0, n) = [i \in 1 .. n + 1 |-> 0 + i - 1]
  BY DEF Positions
<1> DEFINE s == Positions(0, n - 1)
<1>3. Append(s, n) = [i \in 1 .. n + 1 |-> IF i = n + 1 THEN n ELSE s[i]]
  BY <1>1, AppendIs
<1>4. ASSUME NEW i \in 1 .. n + 1
      PROVE  (IF i = n + 1 THEN n ELSE s[i]) = 0 + i - 1
  <2> HIDE DEF s
  <2> QED BY <1>1 DEF s
<1> QED BY <1>2, <1>3, <1>4

-----------------------------------------------------------------------------
(***************************************************************************)
(* Q4Caches: blocks and what a position attends.                           *)
(***************************************************************************)
\* The key of the b-th block.
KeyAt(b) == [at |-> b * Ratio - Ratio,
             of |-> Positions(b * Ratio - Ratio, b * Ratio - 1)]

\* A block's key depends on its own positions, wherever the sequence ends.
LEMMA BlockKeyIs ==
    ASSUME NEW S \in Nat, NEW b \in Nat \ {0}, b * Ratio <= S
    PROVE  BlockKey(Positions(0, S - 1), b * Ratio) = KeyAt(b)
<1> DEFINE e == b * Ratio
           s == Positions(0, S - 1)
<1>1. Ratio \in Nat \ {0, 1}
  BY Q4Assumption
<1>2. e \in Nat /\ e >= Ratio
  <2>1. b - 1 \in Nat /\ (b - 1) * Ratio \in Nat
    BY <1>1
  <2>2. b * Ratio = (b - 1) * Ratio + Ratio
    BY <1>1
  <2> DEFINE k == (b - 1) * Ratio
  <2>3. k \in Nat /\ e = k + Ratio
    BY <2>1, <2>2
  <2> HIDE DEF k, e
  <2> QED BY <1>1, <2>3
<1>3. s = [i \in 1 .. S |-> 0 + i - 1] /\ IsSeq(s, S)
  <2>1. 0 \in 0 .. S /\ S - 0 = S
    OBVIOUS
  <2> QED BY <2>1, PositionsAligned
<1>4. e <= S
  OBVIOUS
<1> HIDE DEF e, s
<1>5. e - Ratio + 1 \in 1 .. S + 1 /\ e \in (e - Ratio + 1) - 1 .. S
  BY <1>1, <1>2, <1>4
<1>6. SubSeq(s, e - Ratio + 1, e)
        = [i \in 1 .. e - (e - Ratio + 1) + 1 |-> s[(e - Ratio + 1) + i - 1]]
  <2> DEFINE a == e - Ratio + 1
  <2>1. a \in 1 .. S + 1 /\ e \in a - 1 .. S /\ IsSeq(s, S)
    BY <1>3, <1>5
  <2> HIDE DEF a
  <2>2. SubSeq(s, a, e) = [i \in 1 .. e - a + 1 |-> s[a + i - 1]]
    BY <2>1, SubSeqIs
  <2> QED BY <2>2 DEF a
<1>7. e - (e - Ratio + 1) + 1 = Ratio /\ (e - 1) - (e - Ratio) + 1 = Ratio
  BY <1>1, <1>2
<1>8. ASSUME NEW i \in 1 .. Ratio
      PROVE  s[(e - Ratio + 1) + i - 1] = (e - Ratio) + i - 1
  <2>1. (e - Ratio + 1) + i - 1 \in 1 .. S
    BY <1>1, <1>2, <1>4
  <2>2. s[(e - Ratio + 1) + i - 1] = 0 + ((e - Ratio + 1) + i - 1) - 1
    BY <1>3, <2>1
  <2> QED BY <1>1, <1>2, <2>2
<1>9. SubSeq(s, e - Ratio + 1, e) = Positions(e - Ratio, e - 1)
  BY <1>6, <1>7, <1>8 DEF Positions
<1>10. BlockKey(s, e) = [at |-> e - Ratio, of |-> Positions(e - Ratio, e - 1)]
  BY <1>9 DEF BlockKey
<1> QED BY <1>10 DEF KeyAt, e, s

\* How many blocks are whole, and that their positions are there.
LEMMA BlocksOf ==
    ASSUME NEW S \in Nat
    PROVE  /\ S \div Ratio \in Nat
           /\ Ratio * (S \div Ratio) \in Nat
           /\ Ratio * (S \div Ratio) <= S
           /\ \A b \in 1 .. S \div Ratio : b * Ratio <= S
<1> DEFINE q == S \div Ratio
           k == Ratio * q
<1>1. Ratio \in Nat \ {0, 1}
  BY Q4Assumption
<1>2. q \in Nat /\ S % Ratio \in 0 .. Ratio - 1 /\ S = k + (S % Ratio)
  BY <1>1, Division
<1>3. k \in Nat
  BY <1>1, <1>2
<1>4. k <= S
  <2> HIDE DEF k, q
  <2> QED BY <1>1, <1>2, <1>3
<1>5. ASSUME NEW b \in 1 .. q
      PROVE  b * Ratio <= S
  <2>1. Ratio * b <= k /\ Ratio * b \in Nat
    <3>1. b \in Nat /\ b <= q
      BY <1>2
    <3> HIDE DEF q
    <3> QED BY <1>1, <1>2, <3>1, ProductGrows
  <2>2. b * Ratio = Ratio * b
    BY <1>1, <1>2
  <2> HIDE DEF k
  <2> QED BY <1>3, <1>4, <2>1, <2>2
<1> QED BY <1>2, <1>3, <1>4, <1>5

\* The keys of the whole blocks.
LEMMA BlockKeysIs ==
    ASSUME NEW S \in Nat
    PROVE  /\ BlockKeys(S) = [b \in 1 .. S \div Ratio |-> KeyAt(b)]
           /\ IsSeq(BlockKeys(S), S \div Ratio)
           /\ Len(BlockKeys(S)) = S \div Ratio
<1>1. ASSUME NEW b \in 1 .. S \div Ratio
      PROVE  BlockKey(Positions(0, S - 1), b * Ratio) = KeyAt(b)
  <2>1. b \in Nat \ {0} /\ b * Ratio <= S
    BY BlocksOf
  <2> QED BY <2>1, BlockKeyIs
<1>2. BlockKeys(S) = [b \in 1 .. S \div Ratio |-> KeyAt(b)]
  BY <1>1 DEF BlockKeys
<1>3. IsSeq(BlockKeys(S), S \div Ratio)
  BY <1>2 DEF IsSeq
<1> QED BY <1>2, <1>3, BlocksOf, SeqIs

\* One position more: a key is added when a block is whole.
LEMMA BlockKeysNext ==
    ASSUME NEW p \in Nat
    PROVE  BlockKeys(p + 1)
              = IF (p + 1) % Ratio = 0
                THEN Append(BlockKeys(p), BlockKey(Positions(0, p), p + 1))
                ELSE BlockKeys(p)
<1> DEFINE q == p \div Ratio
           q1 == (p + 1) \div Ratio
           c1 == (p + 1) % Ratio
<1>1. Ratio \in Nat \ {0, 1}
  BY Q4Assumption
<1>2. q \in Nat /\ q1 \in Nat
  BY BlocksOf
<1>3. /\ (p % Ratio) + 1 < Ratio => q1 = q /\ c1 = (p % Ratio) + 1
      /\ (p % Ratio) + 1 = Ratio => q1 = q + 1 /\ c1 = 0
      /\ (p % Ratio) + 1 <= Ratio
  BY <1>1, NextDivMod
<1>4. p % Ratio \in 0 .. Ratio - 1
  BY <1>1, Division
<1>5. /\ BlockKeys(p) = [b \in 1 .. q |-> KeyAt(b)] /\ IsSeq(BlockKeys(p), q)
      /\ BlockKeys(p + 1) = [b \in 1 .. q1 |-> KeyAt(b)]
  <2>1. p + 1 \in Nat
    OBVIOUS
  <2>2. BlockKeys(p + 1) = [b \in 1 .. q1 |-> KeyAt(b)]
    BY <2>1, BlockKeysIs
  <2> QED BY <2>2, BlockKeysIs
<1>6. CASE (p % Ratio) + 1 < Ratio
  BY <1>1, <1>3, <1>4, <1>5, <1>6
<1>7. CASE (p % Ratio) + 1 = Ratio
  <2>1. q1 = q + 1 /\ c1 = 0
    BY <1>3, <1>7
  <2>2. p + 1 = q1 * Ratio
    <3>1. p + 1 = Ratio * q1 + ((p + 1) % Ratio)
      BY <1>1, Division
    <3>2. Ratio * q1 = q1 * Ratio /\ Ratio * q1 \in Nat
      BY <1>1, <1>2
    <3> QED BY <2>1, <3>1, <3>2
  <2>3. BlockKey(Positions(0, p), p + 1) = KeyAt(q + 1)
    <3>1. (p + 1) - 1 = p /\ p + 1 \in Nat /\ q1 \in Nat \ {0} /\ q1 * Ratio <= p + 1
      BY <1>2, <2>1, <2>2
    <3>2. BlockKey(Positions(0, (p + 1) - 1), q1 * Ratio) = KeyAt(q1)
      BY <3>1, BlockKeyIs
    <3> QED BY <2>1, <2>2, <3>1, <3>2
  <2> DEFINE s == BlockKeys(p)
             x == KeyAt(q + 1)
  <2> HIDE DEF q, q1, c1, x
  <2>4. Append(s, x) = [b \in 1 .. q + 1 |-> IF b = q + 1 THEN x ELSE s[b]]
    BY <1>2, <1>5, AppendIs
  <2>5. ASSUME NEW b \in 1 .. q + 1
        PROVE  (IF b = q + 1 THEN x ELSE s[b]) = KeyAt(b)
    <3>1. CASE b = q + 1
      BY <3>1 DEF x
    <3>2. CASE b # q + 1
      BY <1>2, <1>5, <3>2
    <3> QED BY <3>1, <3>2
  <2>6. Append(s, x) = BlockKeys(p + 1)
    BY <1>5, <2>1, <2>4, <2>5
  <2> QED BY <2>1, <2>3, <2>6 DEF x, c1
<1> QED BY <1>1, <1>3, <1>4, <1>6, <1>7

\* A position attends nothing behind it, so it attends the same in every
\* sequence that holds it.
LEMMA AttendsBefore ==
    ASSUME NEW p \in Nat, NEW n \in Nat, p < n
    PROVE  /\ SelectedSlots(BestBlocks((p + 1) \div Ratio), p, n) \subseteq 0 .. p
           /\ SelectedSlots(BestBlocks((p + 1) \div Ratio), p, n)
                = SelectedSlots(BestBlocks((p + 1) \div Ratio), p, p + 1)
<1> DEFINE q == (p + 1) \div Ratio
           tail == q * Ratio
           B == BestBlocks(q)
           All == {Ratio * b + o : b \in B, o \in 0 .. Ratio - 1}
                  \union {tail + o : o \in 0 .. Least2(Ratio - 2, p - tail)}
<1>1. Ratio \in Nat \ {0, 1}
  BY Q4Assumption
<1>2. q \in Nat /\ tail \in Nat /\ tail <= p + 1 /\ tail = Ratio * q
  <2>1. p + 1 \in Nat
    OBVIOUS
  <2>2. q \in Nat /\ Ratio * q \in Nat /\ Ratio * q <= p + 1
    BY <2>1, BlocksOf
  <2>3. q * Ratio = Ratio * q
    BY <1>1, <2>2
  <2> QED BY <2>2, <2>3
<1>3. B \subseteq 0 .. q - 1
  BY DEF BestBlocks
<1>4. ASSUME NEW b \in B, NEW o \in 0 .. Ratio - 1
      PROVE  Ratio * b + o \in 0 .. p
  <2>1. b \in Nat /\ b + 1 <= q /\ b + 1 \in Nat
    BY <1>2, <1>3
  <2>2. /\ Ratio * b \in Nat /\ Ratio * (b + 1) = Ratio * b + Ratio
        /\ Ratio * (b + 1) <= Ratio * q
    <3>1. Ratio * (b + 1) <= Ratio * q
      <4> HIDE DEF q
      <4> QED BY <1>1, <1>2, <2>1, ProductGrows
    <3> QED BY <1>1, <2>1, <3>1
  <2> DEFINE rb == Ratio * b
  <2>3. rb \in Nat /\ rb + Ratio <= tail
    BY <1>2, <2>2
  <2> HIDE DEF rb, tail, q
  <2>4. rb + o \in 0 .. p
    BY <1>1, <1>2, <2>3
  <2> QED BY <2>4 DEF rb
<1>5. ASSUME NEW o \in 0 .. Least2(Ratio - 2, p - tail)
      PROVE  tail + o \in 0 .. p
  <2> HIDE DEF tail, q
  <2> QED BY <1>1, <1>2 DEF Least2
<1>6. All \subseteq 0 .. p
  <2> HIDE DEF tail, B
  <2> QED BY <1>4, <1>5
<1>7. /\ SelectedSlots(B, p, n) = {s \in All : s < n}
      /\ SelectedSlots(B, p, p + 1) = {s \in All : s < p + 1}
  BY DEF SelectedSlots
<1> HIDE DEF All, B
<1>8. {s \in All : s < n} = All /\ {s \in All : s < p + 1} = All
  <2>1. ASSUME NEW s \in All
        PROVE  s < n /\ s < p + 1
    BY <1>6
  <2> QED BY <2>1
<1> QED BY <1>6, <1>7, <1>8 DEF B

-----------------------------------------------------------------------------
(***************************************************************************)
(* Q4Caches: growing arrays.                                               *)
(***************************************************************************)
\* A buffer that has the rows as its first elements.
Fronts(buf, rows, n) == \A i \in 1 .. n : buf[i] = rows[i]

\* n rows, and a buffer that has them in front, if there is one.
ArrayOk(a, n) ==
    /\ IsSeq(a.rows, n)
    /\ \E len \in Nat :
        /\ IsSeq(a.buf, len)
        /\ len # 0 => len >= n /\ Fronts(a.buf, a.rows, n)

\* An array that has no buffer yet.
LEMMA ArrayIs ==
    ASSUME NEW s, NEW n \in Nat, IsSeq(s, n)
    PROVE  ArrayOk(Array(s), n) /\ Array(s).rows = s
<1>1. IsSeq(<<>>, 0)
  BY DEF IsSeq
<1> QED BY <1>1 DEF ArrayOk, Array

\* Appending a row adds it behind the others, and neither a row nor the place
\* of one is lost when the buffer grows or when it has room.
LEMMA AppendedIs ==
    ASSUME NEW a, NEW n \in Nat, ArrayOk(a, n), NEW x
    PROVE  /\ Appended(a, <<x>>).rows = Append(a.rows, x)
           /\ ArrayOk(Appended(a, <<x>>), n + 1)
<1> DEFINE rows == a.rows
           cap == Max2(n + 1, Max2(2 * Max2(Len(a.buf), n), MinCap))
           buf == IF n + 1 > Len(a.buf) THEN rows \o NoRows(cap - n) ELSE a.buf
           all == [i \in DOMAIN buf |->
                      IF i \in n + 1 .. n + 1 THEN <<x>>[i - n] ELSE buf[i]]
<1>1. IsSeq(rows, n) /\ Len(rows) = n
  BY SeqIs DEF ArrayOk
<1>2. PICK had \in Nat : /\ IsSeq(a.buf, had)
                         /\ had # 0 => had >= n /\ Fronts(a.buf, rows, n)
  BY DEF ArrayOk
<1>3. Len(a.buf) = had
  BY <1>2, SeqIs
<1>4. cap \in Nat /\ cap >= n + 1
  BY <1>3, Q4Assumption DEF Max2
<1>5. Appended(a, <<x>>) = [rows |-> SubSeq(all, 1, n + 1), buf |-> all]
  BY <1>1 DEF Appended
<1>6. \E len \in Nat : IsSeq(buf, len) /\ len >= n + 1 /\ Fronts(buf, rows, n)
  <2>1. CASE n + 1 > had
    <3> DEFINE more == NoRows(cap - n)
    <3>1. buf = rows \o more
      BY <1>3, <2>1
    <3>2. IsSeq(more, cap - n) /\ cap - n \in Nat
      BY <1>4 DEF IsSeq, NoRows
    <3> HIDE DEF rows, buf, cap, more
    <3>3. IsSeq(rows \o more, n + (cap - n)) /\ Behind(rows \o more, 0, rows, n)
      BY <1>1, <3>2, ConcatIs
    <3>4. n + (cap - n) = cap
      BY <1>4
    <3>5. IsSeq(buf, cap) /\ Behind(buf, 0, rows, n)
      BY <3>1, <3>3, <3>4
    <3>6. ASSUME NEW i \in 1 .. n
          PROVE  buf[i] = rows[i]
      <4>1. 0 + i = i
        OBVIOUS
      <4>2. buf[0 + i] = rows[i]
        BY <3>5 DEF Behind
      <4> QED BY <4>1, <4>2
    <3> QED BY <1>4, <3>5, <3>6 DEF Fronts
  <2>2. CASE ~(n + 1 > had)
    <3>1. buf = a.buf
      BY <1>3, <2>2
    <3> HIDE DEF rows, buf, cap
    <3>2. had >= n + 1 /\ had # 0
      BY <2>2
    <3> QED BY <1>2, <3>1, <3>2
  <2> QED BY <2>1, <2>2
<1> HIDE DEF buf, cap, rows
<1>7. PICK len \in Nat : IsSeq(buf, len) /\ len >= n + 1 /\ Fronts(buf, rows, n)
  BY <1>6
<1>8. DOMAIN buf = 1 .. len
  BY <1>7, SeqIs
<1>9. /\ all = [i \in 1 .. len |-> IF i = n + 1 THEN x ELSE buf[i]]
      /\ IsSeq(all, len)
  <2>1. ASSUME NEW i \in 1 .. len
        PROVE  (IF i \in n + 1 .. n + 1 THEN <<x>>[i - n] ELSE buf[i])
                  = IF i = n + 1 THEN x ELSE buf[i]
    OBVIOUS
  <2>2. all = [i \in 1 .. len |-> IF i = n + 1 THEN x ELSE buf[i]]
    BY <1>8, <2>1
  <2> HIDE DEF all
  <2> QED BY <2>2 DEF IsSeq
<1> HIDE DEF all
<1>10. SubSeq(all, 1, n + 1) = [i \in 1 .. n + 1 |-> all[i]]
  <2>1. 1 \in 1 .. len + 1 /\ n + 1 \in 1 - 1 .. len
    BY <1>7
  <2>2. SubSeq(all, 1, n + 1) = [i \in 1 .. (n + 1) - 1 + 1 |-> all[1 + i - 1]]
    BY <1>9, <2>1, SubSeqIs
  <2>3. (n + 1) - 1 + 1 = n + 1 /\ \A i \in 1 .. n + 1 : 1 + i - 1 = i
    OBVIOUS
  <2> QED BY <2>2, <2>3
<1>11. Append(rows, x) = [i \in 1 .. n + 1 |-> IF i = n + 1 THEN x ELSE rows[i]]
  BY <1>1, AppendIs
<1>12. ASSUME NEW i \in 1 .. n + 1
       PROVE  all[i] = IF i = n + 1 THEN x ELSE rows[i]
  <2>1. i \in 1 .. len
    BY <1>7
  <2>2. all[i] = IF i = n + 1 THEN x ELSE buf[i]
    BY <1>9, <2>1
  <2>3. i # n + 1 => buf[i] = rows[i]
    BY <1>7 DEF Fronts
  <2> QED BY <2>2, <2>3
<1>13. SubSeq(all, 1, n + 1) = Append(rows, x)
  BY <1>10, <1>11, <1>12
<1>14. IsSeq(SubSeq(all, 1, n + 1), n + 1)
  BY <1>10 DEF IsSeq
<1>15. Fronts(all, SubSeq(all, 1, n + 1), n + 1)
  BY <1>10 DEF Fronts
<1> DEFINE new == SubSeq(all, 1, n + 1)
           after == Appended(a, <<x>>)
<1>16. after.rows = new /\ after.buf = all
  <2> HIDE DEF new
  <2> QED BY <1>5 DEF new
<1> HIDE DEF new, after
<1>17. ArrayOk(after, n + 1)
  <2>1. IsSeq(after.rows, n + 1) /\ Fronts(after.buf, after.rows, n + 1)
    BY <1>14, <1>15, <1>16 DEF new
  <2> QED BY <1>7, <1>9, <1>16, <2>1 DEF ArrayOk
<1> QED BY <1>13, <1>16, <1>17 DEF new, after, rows

-----------------------------------------------------------------------------
(***************************************************************************)
(* Q4Caches: what a layer holds and has computed after n positions.        *)
(***************************************************************************)
\* What position p is computed from, as the last of a sequence.
RowFrom(kind, p) == ComputedFrom(kind, p, p + 1)

\* The window may have more room than there are rows, or no more than there
\* are: a prompt that is shorter than it leaves it short.
HoldsLinear(c, n) ==
    /\ \E len \in Nat : /\ Aligned(c.conv, n, len)
                        /\ len <= ConvKernel - 1
                        /\ len >= Least2(n, ConvKernel - 1)
    /\ c.gdn = Positions(0, n - 1)

HoldsFull(c, n) ==
    /\ ArrayOk(c.k, n) /\ c.k.rows = Positions(0, n - 1)
    /\ ArrayOk(c.tok_k, n) /\ c.tok_k.rows = Positions(0, n - 1)
    /\ ArrayOk(c.ck, n \div Ratio) /\ c.ck.rows = BlockKeys(n)

\* The window of the n-gram features starts full of rows that are not there.
History(c) == IF c.conv = <<>> THEN NoRows(ConvHistory) ELSE c.conv

HoldsPle(c, n) ==
    /\ Aligned(History(c), n, ConvHistory)
    /\ c.conv = <<>> => n = 0

Holds(kind, c, n) ==
    /\ kind = "linear" => HoldsLinear(c, n)
    /\ kind = "full" => HoldsFull(c, n)
    /\ kind = "ple" => HoldsPle(c, n)

\* Every position was computed from what the last of a sequence is.
Saw(kind, rows, n) == rows = [i \in 1 .. n |-> RowFrom(kind, i - 1)]

At(kind, st, n) == Holds(kind, st.c, n) /\ Saw(kind, st.seen, n)

\* What a position is computed from does not depend on what comes behind it.
LEMMA FromAny ==
    ASSUME NEW kind \in {"linear", "full", "ple"},
           NEW p \in Nat, NEW n \in Nat, p < n
    PROVE  ComputedFrom(kind, p, n) = RowFrom(kind, p)
<1>1. CASE kind = "linear"
  BY <1>1 DEF RowFrom, ComputedFrom
<1>2. CASE kind = "ple"
  BY <1>2 DEF RowFrom, ComputedFrom
<1>3. CASE kind = "full"
  <2> DEFINE q == (p + 1) \div Ratio
  <2>1. SelectedSlots(BestBlocks(q), p, n) = SelectedSlots(BestBlocks(q), p, p + 1)
    BY AttendsBefore
  <2>2. q \in Nat /\ q <= n \div Ratio /\ n \div Ratio \in Nat
    <3>1. Ratio \in Nat \ {0, 1} /\ p + 1 \in Nat
      BY Q4Assumption
    <3>2. q \in Nat /\ n \div Ratio \in Nat /\ Ratio * q <= p + 1
      BY <3>1, BlocksOf
    <3> DEFINE m == n \div Ratio
    <3>3. n = Ratio * m + (n % Ratio) /\ n % Ratio \in 0 .. Ratio - 1
      BY <3>1, Division
    <3>4. CASE q >= m + 1
      <4>1. m + 1 \in Nat /\ m \in Nat
        BY <3>2
      <4>2. Ratio * (m + 1) <= Ratio * q /\ Ratio * (m + 1) \in Nat
        <5> HIDE DEF q, m
        <5> QED BY <3>1, <3>2, <3>4, <4>1, ProductGrows
      <4>3. Ratio * (m + 1) = Ratio * m + Ratio /\ Ratio * m \in Nat
        BY <3>1, <4>1
      <4> DEFINE rm == Ratio * m
                 rq == Ratio * q
                 c == n % Ratio
      <4>4. /\ rm \in Nat /\ rm + Ratio <= rq /\ rq <= p + 1
            /\ n = rm + c /\ c \in 0 .. Ratio - 1
        BY <3>2, <3>3, <4>2, <4>3
      <4>5. rq \in Nat
        BY <3>1, <3>2
      <4> HIDE DEF rm, rq, c
      <4> QED BY <3>1, <4>4, <4>5
    <3> HIDE DEF q, m
    <3> QED BY <3>2, <3>4 DEF m
  <2>3. /\ BlockKeys(n) = [b \in 1 .. n \div Ratio |-> KeyAt(b)]
        /\ IsSeq(BlockKeys(n), n \div Ratio)
    BY BlockKeysIs
  <2>4. /\ BlockKeys(p + 1) = [b \in 1 .. q |-> KeyAt(b)]
        /\ IsSeq(BlockKeys(p + 1), q)
    <3>1. p + 1 \in Nat
      OBVIOUS
    <3> QED BY <3>1, BlockKeysIs
  <2> HIDE DEF q
  <2>5. ASSUME NEW s, NEW len \in Nat, IsSeq(s, len), q <= len,
               \A b \in 1 .. len : s[b] = KeyAt(b)
        PROVE  SubSeq(s, 1, q) = [b \in 1 .. q |-> KeyAt(b)]
    <3>1. 1 \in 1 .. len + 1 /\ q \in 1 - 1 .. len
      BY <2>2, <2>5
    <3>2. SubSeq(s, 1, q) = [b \in 1 .. q - 1 + 1 |-> s[1 + b - 1]]
      BY <2>5, <3>1, SubSeqIs
    <3>3. q - 1 + 1 = q
      BY <2>2
    <3>4. ASSUME NEW b \in 1 .. q
          PROVE  s[1 + b - 1] = KeyAt(b)
      <4>1. 1 + b - 1 = b /\ b \in 1 .. len
        BY <2>2, <2>5
      <4> QED BY <2>5, <4>1
    <3> QED BY <3>2, <3>3, <3>4
  <2>6. SubSeq(BlockKeys(n), 1, q) = SubSeq(BlockKeys(p + 1), 1, q)
    BY <2>2, <2>3, <2>4, <2>5
  <2>7. ASSUME NEW m
        PROVE  ComputedFrom(kind, p, m)
                = [k |-> SelectedSlots(BestBlocks(q), p, m),
                   blocks |-> SubSeq(BlockKeys(m), 1, q)]
    BY <1>3 DEF ComputedFrom, q
  <2> QED BY <2>1, <2>6, <2>7 DEF RowFrom
<1> QED BY <1>1, <1>2, <1>3

\* Saying one position more.
LEMMA SawNext ==
    ASSUME NEW kind, NEW rows, NEW n \in Nat, Saw(kind, rows, n), NEW e,
           e = RowFrom(kind, n)
    PROVE  Saw(kind, Append(rows, e), n + 1)
<1>1. IsSeq(rows, n)
  BY DEF Saw, IsSeq
<1>2. Append(rows, e) = [i \in 1 .. n + 1 |-> IF i = n + 1 THEN e ELSE rows[i]]
  BY <1>1, AppendIs
<1>3. ASSUME NEW i \in 1 .. n + 1
      PROVE  (IF i = n + 1 THEN e ELSE rows[i]) = RowFrom(kind, i - 1)
  <2>1. CASE i = n + 1
    <3>1. i - 1 = n
      BY <2>1
    <3> QED BY <2>1, <3>1
  <2>2. CASE i # n + 1
    <3>1. i \in 1 .. n
      BY <2>2
    <3> QED BY <2>2, <3>1 DEF Saw
  <2> QED BY <2>1, <2>2
<1>4. Append(rows, e) = [i \in 1 .. n + 1 |-> RowFrom(kind, i - 1)]
  BY <1>2, <1>3
<1> QED BY <1>4 DEF Saw

\* A linear layer's step.
LEMMA LinearKeeps ==
    ASSUME NEW c, NEW n \in Nat, HoldsLinear(c, n)
    PROVE  /\ HoldsLinear(LinearStep(c, n), n + 1)
           /\ LinearReads(c, n) = RowFrom("linear", n)
<1> DEFINE K == ConvKernel - 1
           s == Append(c.conv, n)
<1>1. K \in Nat /\ K >= 1 /\ ConvKernel = K + 1
  BY Q4Assumption
<1>2. PICK len \in Nat : Aligned(c.conv, n, len) /\ len <= K /\ len >= Least2(n, K)
  BY DEF HoldsLinear
<1>3. Aligned(s, n + 1, len + 1)
  BY <1>2, AlignedAppend
<1>4. Append(c.gdn, n) = Positions(0, n)
  BY PositionsNext DEF HoldsLinear
<1> HIDE DEF K, s
<1>5. HoldsLinear(LinearStep(c, n), n + 1)
  <2> DEFINE m == Least2(len + 1, K)
  <2>1. n + 1 \in Nat /\ len + 1 \in Nat
    OBVIOUS
  <2>2. Aligned(LastOf(s, K), n + 1, m)
    BY <1>1, <1>3, <2>1, AlignedLast
  <2>3. m \in Nat /\ m <= K /\ m >= Least2(n + 1, K)
    BY <1>1, <1>2 DEF Least2
  <2>4. /\ LinearStep(c, n).conv = LastOf(s, K)
        /\ LinearStep(c, n).gdn = Positions(0, (n + 1) - 1)
    <3>1. (n + 1) - 1 = n
      OBVIOUS
    <3> QED BY <1>4, <3>1 DEF LinearStep, s, K
  <2> HIDE DEF m
  <2> QED BY <2>2, <2>3, <2>4 DEF HoldsLinear, K
<1>6. Computed(LastOf(s, ConvKernel))
        = {<<d, (n + 1) - 1 - d>> : d \in 0 .. Least2(n + 1, ConvKernel) - 1}
  <2>1. n + 1 \in Nat /\ len + 1 \in Nat /\ ConvKernel \in Nat
    BY <1>1
  <2>2. Aligned(LastOf(s, ConvKernel), n + 1, Least2(len + 1, ConvKernel))
    BY <1>3, <2>1, AlignedLast
  <2>3. /\ Least2(len + 1, ConvKernel) \in Nat
        /\ Least2(n + 1, Least2(len + 1, ConvKernel)) = Least2(n + 1, ConvKernel)
    BY <1>1, <1>2 DEF Least2
  <2> QED BY <2>1, <2>2, <2>3, AlignedComputed
<1>7. Computed(Positions(Max2(0, n - ConvKernel + 1), n))
        = {<<d, (n + 1) - 1 - d>> : d \in 0 .. Least2(n + 1, ConvKernel) - 1}
  <2> DEFINE a == Max2(0, n - ConvKernel + 1)
  <2>1. /\ n + 1 \in Nat /\ a \in 0 .. n + 1 /\ (n + 1) - a \in Nat
        /\ Least2(n + 1, (n + 1) - a) = Least2(n + 1, ConvKernel)
        /\ (n + 1) - 1 = n
    BY <1>1 DEF Max2, Least2
  <2> HIDE DEF a
  <2>2. Aligned(Positions(a, (n + 1) - 1), n + 1, (n + 1) - a)
    BY <2>1, PositionsAligned
  <2>3. Computed(Positions(a, (n + 1) - 1))
          = {<<d, (n + 1) - 1 - d>> : d \in 0 .. Least2(n + 1, (n + 1) - a) - 1}
    BY <2>1, <2>2, AlignedComputed
  <2> QED BY <2>1, <2>3 DEF a
<1>8. LinearReads(c, n) = RowFrom("linear", n)
  <2>1. RowFrom("linear", n)
          = [conv |-> Computed(Positions(Max2(0, n - ConvKernel + 1), n)),
             gdn |-> Positions(0, n)]
    BY DEF RowFrom, ComputedFrom
  <2> QED BY <1>4, <1>6, <1>7, <2>1 DEF LinearReads, s
<1> QED BY <1>5, <1>8

\* A full layer's step.
LEMMA FullKeeps ==
    ASSUME NEW c, NEW n \in Nat, HoldsFull(c, n)
    PROVE  /\ HoldsFull(FullStep(c, n), n + 1)
           /\ FullReads(c, n) = RowFrom("full", n)
<1> DEFINE after == FullStep(c, n)
           q == (n + 1) \div Ratio
           sel == SelectedSlots(BestBlocks(q), n, n + 1)
<1>0. (n + 1) - 1 = n /\ n + 1 \in Nat
  OBVIOUS
<1>1. /\ ArrayOk(Appended(c.k, <<n>>), n + 1)
      /\ Appended(c.k, <<n>>).rows = Positions(0, n)
  <2>1. ArrayOk(c.k, n) /\ c.k.rows = Positions(0, n - 1)
    BY DEF HoldsFull
  <2> QED BY <2>1, AppendedIs, PositionsNext
<1>2. /\ ArrayOk(Appended(c.tok_k, <<n>>), n + 1)
      /\ Appended(c.tok_k, <<n>>).rows = Positions(0, n)
  <2>1. ArrayOk(c.tok_k, n) /\ c.tok_k.rows = Positions(0, n - 1)
    BY DEF HoldsFull
  <2> QED BY <2>1, AppendedIs, PositionsNext
<1>3. /\ after.k = Appended(c.k, <<n>>)
      /\ after.tok_k = Appended(c.tok_k, <<n>>)
      /\ after.ck = IF (n + 1) % Ratio = 0
                    THEN Appended(c.ck,
                           <<BlockKey(Appended(c.tok_k, <<n>>).rows, n + 1)>>)
                    ELSE c.ck
  BY DEF FullStep
<1> HIDE DEF after
<1>4. ArrayOk(after.ck, q) /\ after.ck.rows = BlockKeys(n + 1)
  <2>1. n \div Ratio \in Nat /\ ArrayOk(c.ck, n \div Ratio)
        /\ c.ck.rows = BlockKeys(n)
    BY BlocksOf DEF HoldsFull
  <2>2. Ratio \in Nat \ {0} /\ n % Ratio \in 0 .. Ratio - 1
    BY Q4Assumption, Division
  <2>3. /\ (n % Ratio) + 1 < Ratio => /\ (n + 1) \div Ratio = n \div Ratio
                                      /\ (n + 1) % Ratio = (n % Ratio) + 1
        /\ (n % Ratio) + 1 = Ratio => /\ (n + 1) \div Ratio = (n \div Ratio) + 1
                                      /\ (n + 1) % Ratio = 0
        /\ (n % Ratio) + 1 <= Ratio
    BY <2>2, NextDivMod
  <2>4. CASE (n + 1) % Ratio = 0
    <3>1. q = (n \div Ratio) + 1
      BY <2>2, <2>3, <2>4
    <3> DEFINE x == BlockKey(Positions(0, n), n + 1)
    <3>2. after.ck = Appended(c.ck, <<x>>)
      BY <1>2, <1>3, <2>4
    <3> HIDE DEF x
    <3>3. /\ Appended(c.ck, <<x>>).rows = Append(c.ck.rows, x)
          /\ ArrayOk(Appended(c.ck, <<x>>), (n \div Ratio) + 1)
      BY <2>1, AppendedIs
    <3>4. BlockKeys(n + 1) = Append(BlockKeys(n), x)
      BY <2>4, BlockKeysNext DEF x
    <3> QED BY <2>1, <3>1, <3>2, <3>3, <3>4
  <2>5. CASE (n + 1) % Ratio # 0
    <3>1. q = n \div Ratio
      BY <2>2, <2>3, <2>5
    <3>2. after.ck = c.ck
      BY <1>3, <2>5
    <3>3. BlockKeys(n + 1) = BlockKeys(n)
      BY <2>5, BlockKeysNext
    <3> QED BY <2>1, <3>1, <3>2, <3>3
  <2> QED BY <2>4, <2>5
<1>5. HoldsFull(after, n + 1)
  BY <1>0, <1>1, <1>2, <1>3, <1>4 DEF HoldsFull
<1>6. Len(after.k.rows) = n + 1 /\ after.k.rows = [i \in 1 .. n + 1 |-> 0 + i - 1]
  <2>1. 0 \in 0 .. n + 1 /\ (n + 1) - 0 = n + 1
    OBVIOUS
  <2>2. /\ Positions(0, (n + 1) - 1) = [i \in 1 .. (n + 1) - 0 |-> 0 + i - 1]
        /\ IsSeq(Positions(0, (n + 1) - 1), (n + 1) - 0)
    BY <1>0, <2>1, PositionsAligned
  <2>3. /\ after.k.rows = [i \in 1 .. n + 1 |-> 0 + i - 1]
        /\ IsSeq(after.k.rows, n + 1)
    BY <1>0, <1>1, <1>3, <2>1, <2>2
  <2> QED BY <1>0, <2>3, SeqIs
<1>7. Len(after.ck.rows) = q
  BY <1>0, <1>4, BlockKeysIs
<1>8. FullReads(c, n) = [k |-> {after.k.rows[s + 1] : s \in sel},
                         blocks |-> after.ck.rows]
  BY <1>0, <1>6, <1>7 DEF FullReads, after
<1>9. {after.k.rows[s + 1] : s \in sel} = sel
  <2>1. sel \subseteq 0 .. n
    <3>1. n < n + 1
      OBVIOUS
    <3> QED BY <1>0, <3>1, AttendsBefore
  <2>2. ASSUME NEW s \in sel
        PROVE  after.k.rows[s + 1] = s
    <3>1. s + 1 \in 1 .. n + 1 /\ 0 + (s + 1) - 1 = s
      BY <2>1
    <3> QED BY <1>6, <3>1
  <2> QED BY <2>2
<1>10. SubSeq(BlockKeys(n + 1), 1, q) = BlockKeys(n + 1)
  <2>1. q \in Nat /\ IsSeq(BlockKeys(n + 1), q)
    BY <1>0, BlocksOf, BlockKeysIs
  <2> DEFINE s == BlockKeys(n + 1)
  <2> HIDE DEF s, q
  <2>2. 1 \in 1 .. q + 1 /\ q \in 1 - 1 .. q
    BY <2>1
  <2>3. SubSeq(s, 1, q) = [i \in 1 .. q - 1 + 1 |-> s[1 + i - 1]]
    <3>1. IsSeq(s, q)
      BY <2>1 DEF s
    <3> QED BY <2>1, <2>2, <3>1, SubSeqIs
  <2>4. q - 1 + 1 = q /\ \A i \in 1 .. q : 1 + i - 1 = i
    BY <2>1
  <2>5. s = [i \in 1 .. q |-> s[i]]
    BY <2>1 DEF IsSeq, s
  <2>6. SubSeq(s, 1, q) = s
    BY <2>3, <2>4, <2>5
  <2> QED BY <2>6 DEF s
<1>11. RowFrom("full", n) = [k |-> sel, blocks |-> SubSeq(BlockKeys(n + 1), 1, q)]
  BY DEF RowFrom, ComputedFrom
<1>12. FullReads(c, n) = RowFrom("full", n)
  <2> HIDE DEF sel, q
  <2> QED BY <1>4, <1>8, <1>9, <1>10, <1>11
<1> QED BY <1>5, <1>12 DEF after

\* A step of a layer.
LEMMA StepKeeps ==
    ASSUME NEW kind \in {"linear", "full"}, NEW st, NEW n \in Nat, At(kind, st, n)
    PROVE  At(kind, Step(kind, st, n), n + 1)
<1>1. CASE kind = "linear"
  <2>1. HoldsLinear(st.c, n) /\ Saw("linear", st.seen, n)
    BY <1>1 DEF At, Holds
  <2>2. /\ HoldsLinear(LinearStep(st.c, n), n + 1)
        /\ Saw("linear", Append(st.seen, LinearReads(st.c, n)), n + 1)
    BY <2>1, LinearKeeps, SawNext
  <2>3. /\ Step(kind, st, n).c = LinearStep(st.c, n)
        /\ Step(kind, st, n).seen = Append(st.seen, LinearReads(st.c, n))
    BY <1>1 DEF Step
  <2> QED BY <1>1, <2>2, <2>3 DEF At, Holds
<1>2. CASE kind = "full"
  <2>1. HoldsFull(st.c, n) /\ Saw("full", st.seen, n)
    BY <1>2 DEF At, Holds
  <2>2. /\ HoldsFull(FullStep(st.c, n), n + 1)
        /\ Saw("full", Append(st.seen, FullReads(st.c, n)), n + 1)
    BY <2>1, FullKeeps, SawNext
  <2>3. /\ Step(kind, st, n).c = FullStep(st.c, n)
        /\ Step(kind, st, n).seen = Append(st.seen, FullReads(st.c, n))
    BY <1>2 DEF Step
  <2> QED BY <1>2, <2>2, <2>3 DEF At, Holds
<1> QED BY <1>1, <1>2

-----------------------------------------------------------------------------
(***************************************************************************)
(* Q4Caches: steps one after the other.                                    *)
(***************************************************************************)
\* f[i] is what i steps lead to.
StepsOn(kind, st, n, f, s) ==
    f = [i \in 0 .. s |-> IF i = 0 THEN st ELSE Step(kind, f[i - 1], n + i - 1)]

\* There is such a function for every number of steps.
LEMMA StepsExist ==
    ASSUME NEW kind, NEW st, NEW n \in Nat, NEW s \in Nat
    PROVE  \E f : StepsOn(kind, st, n, f, s)
<1> DEFINE Good(k) == \E f : StepsOn(kind, st, n, f, k)
           Bad == {k \in Nat : ~Good(k)}
<1>1. Good(0)
  <2> DEFINE f == [i \in 0 .. 0 |-> st]
  <2>1. [i \in 0 .. 0 |-> IF i = 0 THEN st ELSE Step(kind, f[i - 1], n + i - 1)]
          = [i \in 0 .. 0 |-> st]
    <3>1. \A i \in 0 .. 0 : i = 0
      OBVIOUS
    <3> QED BY <3>1
  <2>2. StepsOn(kind, st, n, f, 0)
    BY <2>1 DEF StepsOn
  <2> QED BY <2>2
<1>2. ASSUME NEW k \in Nat, Good(k)
      PROVE  Good(k + 1)
  <2>1. PICK f : StepsOn(kind, st, n, f, k)
    BY <1>2
  <2> DEFINE h == [i \in 0 .. k + 1 |->
                      IF i = k + 1 THEN Step(kind, f[k], n + k) ELSE f[i]]
  <2>2. ASSUME NEW i \in 0 .. k + 1
        PROVE  h[i] = IF i = 0 THEN st ELSE Step(kind, h[i - 1], n + i - 1)
    <3>1. CASE i = k + 1
      <4>1. h[i] = Step(kind, f[k], n + k)
        BY <3>1
      <4>2. h[k] = f[k] /\ i - 1 = k /\ n + i - 1 = n + k /\ i # 0
        BY <3>1
      <4> QED BY <4>1, <4>2
    <3>2. CASE i # k + 1
      <4>1. i \in 0 .. k
        BY <3>2
      <4>2. h[i] = f[i]
        BY <3>2
      <4>3. f[i] = IF i = 0 THEN st ELSE Step(kind, f[i - 1], n + i - 1)
        BY <2>1, <4>1 DEF StepsOn
      <4>4. i # 0 => h[i - 1] = f[i - 1]
        BY <4>1
      <4> QED BY <4>2, <4>3, <4>4
    <3> QED BY <3>1, <3>2
  <2>3. h = [i \in 0 .. k + 1 |-> h[i]]
    OBVIOUS
  <2> HIDE DEF h
  <2>4. h = [i \in 0 .. k + 1 |->
                IF i = 0 THEN st ELSE Step(kind, h[i - 1], n + i - 1)]
    BY <2>2, <2>3
  <2>5. StepsOn(kind, st, n, h, k + 1)
    BY <2>4 DEF StepsOn
  <2> QED BY <2>5
<1> HIDE DEF Good
<1>3. Bad = {}
  <2> SUFFICES ASSUME Bad # {}
               PROVE  FALSE
    OBVIOUS
  <2>1. Bad \in SUBSET Nat
    OBVIOUS
  <2>2. PICK m \in Bad : \A k \in Bad : m <= k
    <3> HIDE DEF Bad
    <3> QED BY <2>1, SmallestOf
  <2>3. m \in Nat /\ ~Good(m) /\ m # 0
    BY <1>1
  <2>4. m - 1 \in Nat /\ (m - 1) + 1 = m
    BY <2>3
  <2>5. Good(m - 1)
    BY <2>2, <2>4
  <2> QED BY <1>2, <2>3, <2>4, <2>5
<1>4. Good(s)
  BY <1>3
<1> QED BY <1>4 DEF Good

\* Each step adds a position, so s of them add s.
LEMMA SteppedKeeps ==
    ASSUME NEW kind \in {"linear", "full"}, NEW st, n_ctx \in Nat,
           NEW s \in Nat, At(kind, st, n_ctx)
    PROVE  At(kind, Stepped(kind, st, s), n_ctx + s)
<1> DEFINE f == CHOOSE f : StepsOn(kind, st, n_ctx, f, s)
           Bad == {i \in 0 .. s : ~At(kind, f[i], n_ctx + i)}
<1>1. Stepped(kind, st, s) = f[s]
  BY DEF Stepped, StepsOn
<1>2. StepsOn(kind, st, n_ctx, f, s)
  BY StepsExist
<1> HIDE DEF f
<1>3. /\ f[0] = st
      /\ \A i \in 1 .. s : f[i] = Step(kind, f[i - 1], n_ctx + i - 1)
  <2>1. \A i \in 0 .. s :
          f[i] = IF i = 0 THEN st ELSE Step(kind, f[i - 1], n_ctx + i - 1)
    BY <1>2 DEF StepsOn
  <2> QED BY <2>1
<1>4. Bad = {}
  <2> SUFFICES ASSUME Bad # {}
               PROVE  FALSE
    OBVIOUS
  <2>1. Bad \in SUBSET Nat
    OBVIOUS
  <2>2. PICK m \in Bad : \A k \in Bad : m <= k
    <3> HIDE DEF Bad
    <3> QED BY <2>1, SmallestOf
  <2>3. m \in 0 .. s /\ ~At(kind, f[m], n_ctx + m) /\ m # 0
    <3>1. n_ctx + 0 = n_ctx
      OBVIOUS
    <3>2. At(kind, f[0], n_ctx + 0)
      BY <1>3, <3>1
    <3> QED BY <3>2
  <2>4. m - 1 \in 0 .. s /\ m \in 1 .. s /\ ~(m <= m - 1)
    BY <2>3
  <2>5. At(kind, f[m - 1], n_ctx + (m - 1))
    BY <2>2, <2>4
  <2>6. /\ n_ctx + (m - 1) \in Nat /\ (n_ctx + (m - 1)) + 1 = n_ctx + m
        /\ n_ctx + m - 1 = n_ctx + (m - 1)
    BY <2>4
  <2>7. f[m] = Step(kind, f[m - 1], n_ctx + (m - 1))
    BY <1>3, <2>4, <2>6
  <2>8. At(kind, f[m], n_ctx + m)
    BY <2>5, <2>6, <2>7, StepKeeps
  <2> QED BY <2>3, <2>8
<1>5. s \in 0 .. s
  OBVIOUS
<1> QED BY <1>1, <1>4, <1>5

-----------------------------------------------------------------------------
(***************************************************************************)
(* Q4Caches: a prompt.                                                     *)
(***************************************************************************)
\* A prompt leaves what the next position needs.
LEMMA PromptHolds ==
    ASSUME NEW kind \in {"linear", "full"}, NEW S \in Nat
    PROVE  At(kind, Prompt(kind, S), S)
<1> DEFINE all == Positions(0, S - 1)
           st == Prompt(kind, S)
<1>1. Aligned(all, S, S) /\ IsSeq(all, S)
  <2>1. 0 \in 0 .. S /\ S - 0 = S
    OBVIOUS
  <2>2. /\ Aligned(Positions(0, S - 1), S, S - 0)
        /\ IsSeq(Positions(0, S - 1), S - 0)
    BY <2>1, PositionsAligned
  <2> QED BY <2>1, <2>2
<1>2. Saw(kind, st.seen, S)
  <2>1. ASSUME NEW i \in 1 .. S
        PROVE  ComputedFrom(kind, i - 1, S) = RowFrom(kind, i - 1)
    <3>1. i - 1 \in Nat /\ i - 1 < S /\ kind \in {"linear", "full", "ple"}
      OBVIOUS
    <3> QED BY <3>1, FromAny
  <2>2. st.seen = [i \in 1 .. S |-> ComputedFrom(kind, i - 1, S)]
    BY DEF Prompt
  <2> QED BY <2>1, <2>2 DEF Saw
<1>3. CASE kind = "linear"
  <2> DEFINE K == ConvKernel - 1
  <2>1. st.c = [conv |-> LastOf(all, K), gdn |-> all]
    BY <1>3 DEF Prompt
  <2>2. K \in Nat
    BY Q4Assumption
  <2> HIDE DEF K, all
  <2>3. Aligned(LastOf(all, K), S, Least2(S, K))
    BY <1>1, <2>2, AlignedLast
  <2>4. Least2(S, K) \in Nat /\ Least2(S, K) <= K
    BY <2>2 DEF Least2
  <2>5. Least2(S, K) >= Least2(S, K)
    BY <2>4
  <2>6. st.c.conv = LastOf(all, K) /\ st.c.gdn = all
    BY <2>1
  <2>7. HoldsLinear(st.c, S)
    BY <2>3, <2>4, <2>5, <2>6 DEF HoldsLinear, K, all
  <2> QED BY <1>2, <1>3, <2>7 DEF At, Holds
<1>4. CASE kind = "full"
  <2>1. st.c = [k |-> Array(all), tok_k |-> Array(all), ck |-> Array(BlockKeys(S))]
    BY <1>4 DEF Prompt
  <2>2. ArrayOk(Array(all), S) /\ Array(all).rows = all
    BY <1>1, ArrayIs
  <2>3. /\ ArrayOk(Array(BlockKeys(S)), S \div Ratio)
        /\ Array(BlockKeys(S)).rows = BlockKeys(S)
    BY BlocksOf, BlockKeysIs, ArrayIs
  <2> HIDE DEF all
  <2>4. HoldsFull(st.c, S)
    BY <2>1, <2>2, <2>3 DEF HoldsFull, all
  <2> QED BY <1>2, <1>4, <2>4 DEF At, Holds
<1> QED BY <1>3, <1>4

-----------------------------------------------------------------------------
(***************************************************************************)
(* Q4Caches: the n-gram features.                                          *)
(***************************************************************************)
\* The row under the k-th tap at position p.
TapRow(k, p) == RowAt(p - ConvHistory + (k - 1) * NGram)

\* Where the taps lie.
LEMMA TapsBounds ==
    /\ ConvHistory \in Nat /\ ConvHistory > 0
    /\ \A k \in 1 .. Taps : (k - 1) * NGram \in 0 .. ConvHistory
<1>1. NGram \in Nat /\ NGram >= 2 /\ Taps \in Nat /\ Taps >= 2
  BY Q4Assumption
<1>2. Taps - 1 \in Nat /\ NGram * 1 = NGram /\ NGram * 1 <= NGram * (Taps - 1)
  BY <1>1, ProductGrows
<1>3. (Taps - 1) * NGram = NGram * (Taps - 1) /\ NGram * (Taps - 1) \in Nat
  BY <1>1, <1>2
<1>4. ASSUME NEW k \in 1 .. Taps
      PROVE  (k - 1) * NGram \in 0 .. ConvHistory
  <2>1. k - 1 \in Nat /\ k - 1 <= Taps - 1
    BY <1>1
  <2>2. NGram * (k - 1) \in Nat /\ NGram * (k - 1) <= NGram * (Taps - 1)
    BY <1>1, <1>2, <2>1, ProductGrows
  <2>3. (k - 1) * NGram = NGram * (k - 1)
    BY <1>1, <2>1
  <2> QED BY <1>3, <2>2, <2>3 DEF ConvHistory
<1>5. ConvHistory \in Nat /\ ConvHistory > 0
  <2>1. ConvHistory = NGram * (Taps - 1)
    BY <1>3 DEF ConvHistory
  <2> QED BY <1>1, <1>2, <1>3, <2>1
<1> QED BY <1>4, <1>5

\* What the convolution takes at a position does not depend on how much of
\* what is before it came in the same chunk.
LEMMA TapsAre ==
    ASSUME NEW n \in Nat, NEW s \in Nat, NEW history,
           Aligned(history, n, ConvHistory), NEW i \in 1 .. s
    PROVE  TapsOf(history, Positions(n, n + s - 1), i)
              = Computed([k \in 1 .. Taps |-> TapRow(k, n + i - 1)])
<1> DEFINE all == history \o Positions(n, n + s - 1)
           H == ConvHistory
<1>1. H \in Nat /\ H > 0
  BY TapsBounds
<1>2. Aligned(all, n + s, H + s)
  BY <1>1, AlignedConcat
<1>3. \A j \in 1 .. H + s : all[j] = RowAt((n + s) - (H + s) + j - 1)
  <2> HIDE DEF all, H
  <2> QED BY <1>2 DEF Aligned
<1> HIDE DEF all
<1>4. ASSUME NEW k \in 1 .. Taps
      PROVE  all[(k - 1) * NGram + i] = TapRow(k, n + i - 1)
  <2> DEFINE o == (k - 1) * NGram
  <2>1. o \in 0 .. H
    BY TapsBounds
  <2> HIDE DEF o, H
  <2>2. o + i \in 1 .. H + s
        /\ (n + s) - (H + s) + (o + i) - 1 = n + i - 1 - H + o
    BY <1>1, <2>1
  <2>3. all[o + i] = RowAt(n + i - 1 - H + o)
    BY <1>3, <2>2
  <2>4. TapRow(k, n + i - 1) = RowAt(n + i - 1 - H + o)
    <3>1. TapRow(k, n + i - 1) = RowAt((n + i - 1) - H + o)
      BY DEF TapRow, o, H
    <3>2. (n + i - 1) - H + o = n + i - 1 - H + o
      BY <1>1, <2>1
    <3> QED BY <3>1, <3>2
  <2>5. all[o + i] = TapRow(k, n + i - 1)
    BY <2>3, <2>4
  <2> QED BY <2>5 DEF o
<1>5. [k \in 1 .. Taps |-> all[(k - 1) * NGram + i]]
        = [k \in 1 .. Taps |-> TapRow(k, n + i - 1)]
  BY <1>4
<1> QED BY <1>5 DEF TapsOf, all

\* Two texts that read the same backwards.
SameBack(h, i, g, j, sh) == \A k \in 0 .. sh : h[i - k] = g[j - k]

\* What is shifted in depends on the tokens up to that far back.
LEMMA ShiftedSame ==
    ASSUME NEW sh \in Nat, NEW i \in Nat, NEW j \in Nat, i > sh, j > sh,
           NEW h, NEW g, SameBack(h, i, g, j, sh)
    PROVE  Shifted(h, sh, i) = Shifted(g, sh, j)
<1>1. h[i - sh] = g[j - sh]
  BY DEF SameBack
<1>2. (\A a \in i - sh .. i - 1 : h[a] # Eos)
        <=> (\A b \in j - sh .. j - 1 : g[b] # Eos)
  <2>1. ASSUME \A a \in i - sh .. i - 1 : h[a] # Eos,
               NEW b \in j - sh .. j - 1
        PROVE  g[b] # Eos
    <3>1. j - b \in 0 .. sh /\ j - (j - b) = b
          /\ i - (j - b) \in i - sh .. i - 1
      OBVIOUS
    <3>2. h[i - (j - b)] = g[j - (j - b)]
      BY <3>1 DEF SameBack
    <3> QED BY <2>1, <3>1, <3>2
  <2>2. ASSUME \A b \in j - sh .. j - 1 : g[b] # Eos,
               NEW a \in i - sh .. i - 1
        PROVE  h[a] # Eos
    <3>1. i - a \in 0 .. sh /\ i - (i - a) = a
          /\ j - (i - a) \in j - sh .. j - 1
      OBVIOUS
    <3>2. h[i - (i - a)] = g[j - (i - a)]
      BY <3>1 DEF SameBack
    <3> QED BY <2>2, <3>1, <3>2
  <2> QED BY <2>1, <2>2
<1> QED BY <1>1, <1>2 DEF Shifted

\* Nothing is shifted in from before the text, nor where an end of a text is.
LEMMA ShiftedNone ==
    ASSUME NEW sh \in Nat, NEW i \in Nat, NEW h
    PROVE  /\ ~(i > sh) /\ sh # 0 => Shifted(h, sh, i) = Eos
           /\ h[i - sh] = Eos => Shifted(h, sh, i) = Eos
BY DEF Shifted

\* The text, and ends of texts before it.
TextAt(j) == IF j >= 1 THEN text[j] ELSE Eos

\* The tokens of a chunk of s positions behind len of context.
Reads(tokens, len, n, s) ==
    /\ len \in Nat
    /\ len = NGram - 1 \/ (len = n /\ len < NGram - 1)
    /\ \A k \in 1 .. len + s : tokens[k] = TextAt(n - len + k)

\* However much context there is, it is all an n-gram needs.
LEMMA NGramsAre ==
    ASSUME NEW n \in Nat, NEW s \in Nat, NEW i \in 1 .. s,
           NEW tokens, NEW len, Reads(tokens, len, n, s),
           NEW whole, \A j \in 1 .. n + i : whole[j] = TextAt(j)
    PROVE  NGramOf(tokens, len + i) = NGramOf(whole, n + i)
<1>1. len \in Nat /\ NGram \in Nat /\ NGram >= 2
  BY Q4Assumption DEF Reads
<1>2. ASSUME NEW sh \in 0 .. NGram - 1
      PROVE  Shifted(tokens, sh, len + i) = Shifted(whole, sh, n + i)
  <2>1. CASE n + i > sh
    <3>1. len + i > sh /\ len + i \in Nat /\ n + i \in Nat
      BY <1>1, <2>1 DEF Reads
    <3>2. ASSUME NEW k \in 0 .. sh
          PROVE  tokens[len + i - k] = whole[n + i - k]
      <4>1. len + i - k \in 1 .. len + s /\ n - len + (len + i - k) = n + i - k
            /\ n + i - k \in 1 .. n + i
        BY <1>1, <2>1, <3>1
      <4>2. tokens[len + i - k] = TextAt(n + i - k)
        BY <4>1 DEF Reads
      <4> QED BY <4>1, <4>2
    <3>3. SameBack(tokens, len + i, whole, n + i, sh)
      BY <1>1, <3>1, <3>2 DEF SameBack
    <3> QED BY <2>1, <3>1, <3>3, ShiftedSame
  <2>2. CASE ~(n + i > sh)
    <3>1. sh # 0 /\ sh \in Nat /\ n + i \in Nat /\ len + i \in Nat
      BY <1>1, <2>2
    <3>2. Shifted(whole, sh, n + i) = Eos
      BY <2>2, <3>1, ShiftedNone
    <3>3. CASE len = n /\ len < NGram - 1
      BY <2>2, <3>1, <3>2, <3>3, ShiftedNone
    <3>4. CASE len = NGram - 1
      <4>1. len + i - sh \in 1 .. len + s
            /\ n - len + (len + i - sh) = n + i - sh /\ ~(n + i - sh >= 1)
        BY <1>1, <2>2, <3>1, <3>4
      <4>2. tokens[len + i - sh] = TextAt(n + i - sh)
        BY <4>1 DEF Reads
      <4>3. TextAt(n + i - sh) = Eos
        BY <4>1 DEF TextAt
      <4>4. tokens[(len + i) - sh] = Eos
        <5>1. (len + i) - sh = len + i - sh
          BY <1>1, <3>1
        <5> QED BY <4>2, <4>3, <5>1
      <4> QED BY <3>1, <3>2, <4>4, ShiftedNone
    <3> QED BY <3>3, <3>4 DEF Reads
  <2> QED BY <2>1, <2>2
<1> QED BY <1>2 DEF NGramOf

\* The tokens before the next are the text's last.
Context == ple_ctx = LastOf(SubSeq(text, 1, n_ctx), NGram - 1)

Texts ==
    /\ text \in [1 .. MaxPositions -> 0 .. MaxPositions]
    /\ n_ctx \in 0 .. MaxPositions

\* A part of the text.
LEMMA PartOfText ==
    ASSUME Texts, NEW a \in 1 .. MaxPositions + 1,
           NEW b \in a - 1 .. MaxPositions
    PROVE  /\ IsSeq(SubSeq(text, a, b), b - a + 1)
           /\ \A i \in 1 .. b - a + 1 : SubSeq(text, a, b)[i] = TextAt(a + i - 1)
<1>1. IsSeq(text, MaxPositions) /\ MaxPositions \in Nat
  BY Q4Assumption DEF Texts, IsSeq
<1> DEFINE part == SubSeq(text, a, b)
<1>2. /\ part = [i \in 1 .. b - a + 1 |-> text[a + i - 1]]
      /\ IsSeq(part, b - a + 1)
  BY <1>1, SubSeqIs
<1> HIDE DEF part
<1>3. ASSUME NEW i \in 1 .. b - a + 1
      PROVE  part[i] = TextAt(a + i - 1)
  <2>1. part[i] = text[a + i - 1]
    BY <1>2
  <2>2. a + i - 1 >= 1
    OBVIOUS
  <2> QED BY <2>1, <2>2 DEF TextAt
<1> QED BY <1>2, <1>3 DEF part

\* What the n-grams of a chunk are made of: the last tokens of the text, or
\* ends of texts before its first, and the chunk.
LEMMA ChunkReads ==
    ASSUME Texts, Context, NEW s \in Nat, n_ctx + s <= MaxPositions,
           NEW before,
           before = IF ple_ctx = <<>> THEN [i \in 1 .. NGram - 1 |-> Eos]
                    ELSE ple_ctx
    PROVE  Reads(before \o SubSeq(text, n_ctx + 1, n_ctx + s), Len(before),
                 n_ctx, s)
<1> DEFINE pre == SubSeq(text, 1, n_ctx)
           new == SubSeq(text, n_ctx + 1, n_ctx + s)
           m == Least2(n_ctx, NGram - 1)
<1>0. /\ MaxPositions \in Nat /\ NGram \in Nat /\ NGram >= 2
      /\ n_ctx \in Nat /\ n_ctx <= MaxPositions
  BY Q4Assumption DEF Texts
<1>1. IsSeq(pre, n_ctx) /\ \A i \in 1 .. n_ctx : pre[i] = TextAt(i)
  <2>1. /\ 1 \in 1 .. MaxPositions + 1 /\ n_ctx \in 1 - 1 .. MaxPositions
        /\ n_ctx - 1 + 1 = n_ctx
    BY <1>0
  <2>2. /\ IsSeq(pre, n_ctx - 1 + 1)
        /\ \A i \in 1 .. n_ctx - 1 + 1 : pre[i] = TextAt(1 + i - 1)
    BY <2>1, PartOfText
  <2>3. ASSUME NEW i \in 1 .. n_ctx
        PROVE  pre[i] = TextAt(i)
    <3>1. 1 + i - 1 = i
      OBVIOUS
    <3> HIDE DEF pre
    <3>2. pre[i] = TextAt(1 + i - 1)
      BY <2>1, <2>2
    <3> QED BY <3>1, <3>2
  <2> QED BY <2>1, <2>2, <2>3
<1>2. IsSeq(new, s) /\ \A i \in 1 .. s : new[i] = TextAt(n_ctx + i)
  <2> DEFINE a == n_ctx + 1
             b == n_ctx + s
  <2>1. a \in 1 .. MaxPositions + 1 /\ b \in a - 1 .. MaxPositions
        /\ b - a + 1 = s
    BY <1>0
  <2>2. IsSeq(SubSeq(text, a, b), b - a + 1)
        /\ \A i \in 1 .. b - a + 1 : SubSeq(text, a, b)[i] = TextAt(a + i - 1)
    <3> HIDE DEF a, b
    <3> QED BY <2>1, PartOfText
  <2> DEFINE t == SubSeq(text, a, b)
  <2>3. ASSUME NEW i \in 1 .. s
        PROVE  t[i] = TextAt(n_ctx + i)
    <3>1. a + i - 1 = n_ctx + i
      BY <1>0
    <3> HIDE DEF a, b
    <3>2. t[i] = TextAt(a + i - 1)
      BY <2>1, <2>2
    <3> QED BY <3>1, <3>2
  <2>4. IsSeq(t, s)
    BY <2>1, <2>2
  <2> QED BY <2>3, <2>4
<1> HIDE DEF pre, new
<1>3. m \in Nat /\ m <= n_ctx /\ m <= NGram - 1 /\ NGram - 1 \in Nat
  BY <1>0 DEF Least2
<1>4. ple_ctx = [i \in 1 .. m |-> pre[n_ctx - m + i]]
  <2>1. ple_ctx = LastOf(pre, NGram - 1)
    BY DEF Context, pre
  <2>2. LastOf(pre, NGram - 1) = [i \in 1 .. m |-> pre[n_ctx - m + i]]
    <3> DEFINE K == NGram - 1
    <3>1. K \in Nat
      BY <1>3
    <3> HIDE DEF K
    <3>2. LastOf(pre, K) = [i \in 1 .. Least2(n_ctx, K) |->
                              pre[n_ctx - Least2(n_ctx, K) + i]]
      BY <1>0, <1>1, <3>1, LastIs
    <3> QED BY <3>2 DEF K
  <2> QED BY <2>1, <2>2
<1>5. IsSeq(ple_ctx, m)
  BY <1>4 DEF IsSeq
<1>6. ASSUME NEW len \in Nat, len = NGram - 1 \/ (len = n_ctx /\ len < NGram - 1),
             IsSeq(before, len),
             \A i \in 1 .. len : before[i] = TextAt(n_ctx - len + i)
      PROVE  Reads(before \o new, len, n_ctx, s)
  <2>1. Behind(before \o new, 0, before, len) /\ Behind(before \o new, len, new, s)
    BY <1>2, <1>6, ConcatIs
  <2> DEFINE tokens == before \o new
  <2> HIDE DEF tokens
  <2>2. ASSUME NEW k \in 1 .. len + s
        PROVE  tokens[k] = TextAt(n_ctx - len + k)
    <3>1. CASE k <= len
      <4>1. k \in 1 .. len /\ 0 + k = k
        BY <3>1
      <4>2. tokens[0 + k] = before[k]
        BY <2>1, <4>1 DEF Behind, tokens
      <4> QED BY <1>6, <4>1, <4>2
    <3>2. CASE ~(k <= len)
      <4>1. k - len \in 1 .. s /\ len + (k - len) = k
            /\ n_ctx + (k - len) = n_ctx - len + k
        BY <1>0, <3>2
      <4>2. tokens[len + (k - len)] = new[k - len]
        BY <2>1, <4>1 DEF Behind, tokens
      <4>3. new[k - len] = TextAt(n_ctx + (k - len))
        BY <1>2, <4>1
      <4> QED BY <4>1, <4>2, <4>3
    <3> QED BY <3>1, <3>2
  <2> QED BY <1>6, <2>2 DEF Reads, tokens
<1>7. CASE n_ctx = 0
  <2>1. m = 0
    BY <1>0, <1>7 DEF Least2
  <2>2. ple_ctx = <<>>
    BY <1>4, <2>1
  <2> DEFINE len == NGram - 1
  <2>3. before = [i \in 1 .. len |-> Eos]
    BY <2>2
  <2>4. len \in Nat
    BY <1>3
  <2> HIDE DEF len
  <2>5. IsSeq(before, len)
    BY <2>3 DEF IsSeq
  <2>6. ASSUME NEW i \in 1 .. len
        PROVE  before[i] = TextAt(n_ctx - len + i)
    <3>1. ~(n_ctx - len + i >= 1)
      BY <1>7, <2>4
    <3> QED BY <2>3, <3>1 DEF TextAt
  <2>7. Reads(before \o new, len, n_ctx, s)
    BY <1>6, <2>4, <2>5, <2>6 DEF len
  <2> QED BY <2>4, <2>5, <2>7, SeqIs DEF new
<1>8. CASE n_ctx # 0
  <2>1. m # 0 /\ (m = NGram - 1 \/ (m = n_ctx /\ m < NGram - 1))
    BY <1>0, <1>8 DEF Least2
  <2>2. ple_ctx # <<>>
    <3>1. Len(ple_ctx) = m
      BY <1>3, <1>5, SeqIs
    <3>2. Len(<<>>) = 0
      OBVIOUS
    <3> QED BY <2>1, <3>1, <3>2
  <2>3. before = ple_ctx
    BY <2>2
  <2> HIDE DEF m
  <2>4. ASSUME NEW i \in 1 .. m
        PROVE  before[i] = TextAt(n_ctx - m + i)
    <3>1. n_ctx - m + i \in 1 .. n_ctx
      BY <1>0, <1>3
    <3> QED BY <1>1, <1>4, <2>3, <3>1
  <2>5. Reads(before \o new, m, n_ctx, s)
    BY <1>3, <1>5, <1>6, <2>1, <2>3, <2>4
  <2> QED BY <1>3, <1>5, <2>3, <2>5, SeqIs DEF new
<1> QED BY <1>7, <1>8

\* A row of the n-gram features is what the last of a text would be.
LEMMA PleRow ==
    ASSUME Texts, NEW n \in Nat, NEW s \in Nat, n + s <= MaxPositions,
           NEW history, Aligned(history, n, ConvHistory),
           NEW tokens, NEW len, Reads(tokens, len, n, s), NEW i \in 1 .. s
    PROVE  [ngram |-> NGramOf(tokens, len + i),
            conv |-> TapsOf(history, Positions(n, n + s - 1), i)]
              = RowFrom("ple", n + i - 1)
<1> DEFINE p == n + i - 1
           whole == SubSeq(text, 1, p + 1)
<1>1. p \in Nat /\ p + 1 = n + i /\ p + 1 \in Nat /\ MaxPositions \in Nat
      /\ p + 1 <= MaxPositions
  BY Q4Assumption
<1>2. TapsOf(history, Positions(n, n + s - 1), i)
        = Computed([k \in 1 .. Taps |-> TapRow(k, p)])
  BY TapsAre
<1> HIDE DEF p
<1>3. TapsOf(NoRows(ConvHistory), Positions(0, p), p + 1)
        = Computed([k \in 1 .. Taps |-> TapRow(k, p)])
  <2>1. Aligned(NoRows(ConvHistory), 0, ConvHistory)
    <3>1. ASSUME NEW j \in 1 .. ConvHistory
          PROVE  RowAt(0 - ConvHistory + j - 1) = NoRow
      BY TapsBounds DEF RowAt
    <3> QED BY <3>1 DEF Aligned, NoRows
  <2> DEFINE e == p + 1
  <2>2. e \in Nat /\ e \in 1 .. e /\ 0 + e - 1 = p
    BY <1>1
  <2> HIDE DEF e
  <2>3. TapsOf(NoRows(ConvHistory), Positions(0, 0 + e - 1), e)
          = Computed([k \in 1 .. Taps |-> TapRow(k, 0 + e - 1)])
    BY <2>1, <2>2, TapsAre
  <2> QED BY <2>2, <2>3 DEF e
<1>4. \A j \in 1 .. n + i : whole[j] = TextAt(j)
  <2>1. /\ 1 \in 1 .. MaxPositions + 1 /\ p + 1 \in 1 - 1 .. MaxPositions
        /\ (p + 1) - 1 + 1 = n + i
    BY <1>1
  <2>2. \A j \in 1 .. (p + 1) - 1 + 1 : whole[j] = TextAt(1 + j - 1)
    BY <2>1, PartOfText
  <2> SUFFICES ASSUME NEW j \in 1 .. n + i
               PROVE  whole[j] = TextAt(j)
    OBVIOUS
  <2>3. 1 + j - 1 = j
    OBVIOUS
  <2> HIDE DEF whole
  <2>4. whole[j] = TextAt(1 + j - 1)
    BY <2>1, <2>2
  <2> QED BY <2>3, <2>4
<1>5. NGramOf(tokens, len + i) = NGramOf(whole, p + 1)
  <2> HIDE DEF whole
  <2> QED BY <1>1, <1>4, NGramsAre
<1>6. RowFrom("ple", p)
        = [ngram |-> NGramOf(whole, p + 1),
           conv |-> TapsOf(NoRows(ConvHistory), Positions(0, p), p + 1)]
  BY DEF RowFrom, ComputedFrom
<1>7. [ngram |-> NGramOf(tokens, len + i),
       conv |-> TapsOf(history, Positions(n, n + s - 1), i)]
        = RowFrom("ple", p)
  BY <1>2, <1>3, <1>5, <1>6
<1> QED BY <1>7 DEF p

\* Rows that are seen after others.
LEMMA SawMore ==
    ASSUME NEW kind, NEW rows, NEW n \in Nat, Saw(kind, rows, n),
           NEW more, NEW s \in Nat, IsSeq(more, s),
           \A i \in 1 .. s : more[i] = RowFrom(kind, n + i - 1)
    PROVE  Saw(kind, rows \o more, n + s)
<1>1. IsSeq(rows, n)
  BY DEF Saw, IsSeq
<1> DEFINE all == rows \o more
<1>2. IsSeq(all, n + s) /\ Behind(all, 0, rows, n) /\ Behind(all, n, more, s)
  BY <1>1, ConcatIs
<1> HIDE DEF all
<1>3. ASSUME NEW i \in 1 .. n + s
      PROVE  all[i] = RowFrom(kind, i - 1)
  <2>1. CASE i <= n
    <3>1. i \in 1 .. n /\ 0 + i = i
      BY <2>1
    <3>2. all[0 + i] = rows[i]
      BY <1>2, <3>1 DEF Behind
    <3>3. rows[i] = RowFrom(kind, i - 1)
      BY <3>1 DEF Saw
    <3> QED BY <3>1, <3>2, <3>3
  <2>2. CASE ~(i <= n)
    <3>1. i - n \in 1 .. s /\ n + (i - n) = i /\ n + (i - n) - 1 = i - 1
      BY <2>2
    <3>2. all[n + (i - n)] = more[i - n]
      BY <1>2, <3>1 DEF Behind
    <3>3. more[i - n] = RowFrom(kind, n + (i - n) - 1)
      BY <3>1
    <3> QED BY <3>1, <3>2, <3>3
  <2> QED BY <2>1, <2>2
<1>4. all = [i \in 1 .. n + s |-> RowFrom(kind, i - 1)]
  BY <1>2, <1>3 DEF IsSeq
<1> QED BY <1>4 DEF Saw, all

\* A chunk of the n-gram features.
LEMMA PleKeeps ==
    ASSUME Texts, Context, NEW s \in Nat \ {0}, n_ctx + s <= MaxPositions,
           NEW st, At("ple", st, n_ctx)
    PROVE  At("ple", PleChunk(st, s), n_ctx + s)
<1> DEFINE before == IF ple_ctx = <<>> THEN [i \in 1 .. NGram - 1 |-> Eos]
                     ELSE ple_ctx
           tokens == before \o SubSeq(text, n_ctx + 1, n_ctx + s)
           rows == Positions(n_ctx, n_ctx + s - 1)
           history == History(st.c)
           H == ConvHistory
           more == [i \in 1 .. s |->
                      [ngram |-> NGramOf(tokens, Len(before) + i),
                       conv |-> TapsOf(history, rows, i)]]
           after == PleChunk(st, s)
<1>0. n_ctx \in Nat /\ s \in Nat /\ s > 0 /\ H \in Nat /\ H > 0
  BY TapsBounds DEF Texts
<1>1. after = [c |-> [conv |-> LastOf(history \o rows, H)],
               seen |-> st.seen \o more]
  BY DEF PleChunk, History
<1>2. Aligned(history, n_ctx, H) /\ Saw("ple", st.seen, n_ctx)
  BY DEF At, Holds, HoldsPle
<1>3. Reads(tokens, Len(before), n_ctx, s)
  BY <1>0, ChunkReads
<1>4. ASSUME NEW i \in 1 .. s
      PROVE  more[i] = RowFrom("ple", n_ctx + i - 1)
  <2> DEFINE len == Len(before)
  <2>1. more[i] = [ngram |-> NGramOf(tokens, len + i),
                   conv |-> TapsOf(history, rows, i)]
    OBVIOUS
  <2>2. Reads(tokens, len, n_ctx, s)
    BY <1>3
  <2> HIDE DEF more, tokens, history, before, len
  <2>3. [ngram |-> NGramOf(tokens, len + i), conv |-> TapsOf(history, rows, i)]
          = RowFrom("ple", n_ctx + i - 1)
    BY <1>0, <1>2, <2>2, PleRow
  <2> QED BY <2>1, <2>3
<1>5. IsSeq(more, s)
  BY DEF IsSeq
<1> HIDE DEF more, tokens, before, history
<1>6. Saw("ple", st.seen \o more, n_ctx + s)
  BY <1>0, <1>2, <1>4, <1>5, SawMore
<1>7. Aligned(LastOf(history \o rows, H), n_ctx + s, H)
  <2>1. Aligned(history \o rows, n_ctx + s, H + s)
    BY <1>0, <1>2, AlignedConcat
  <2>2. n_ctx + s \in Nat /\ H + s \in Nat /\ Least2(H + s, H) = H
    BY <1>0 DEF Least2
  <2> HIDE DEF rows, H
  <2>3. Aligned(LastOf(history \o rows, H), n_ctx + s, Least2(H + s, H))
    BY <1>0, <2>1, <2>2, AlignedLast
  <2> QED BY <2>2, <2>3
<1>8. after.c.conv # <<>>
  <2>1. Len(after.c.conv) = H
    <3>1. n_ctx + s \in Nat
      BY <1>0
    <3> HIDE DEF rows, H, after
    <3> QED BY <1>0, <1>1, <1>7, <3>1, AlignedSeq
  <2>2. Len(<<>>) = 0
    OBVIOUS
  <2> HIDE DEF after, H
  <2> QED BY <1>0, <2>1, <2>2
<1> HIDE DEF after, rows
<1>9. HoldsPle(after.c, n_ctx + s)
  BY <1>1, <1>7, <1>8 DEF HoldsPle, History
<1>10. At("ple", after, n_ctx + s)
  BY <1>1, <1>6, <1>9 DEF At, Holds
<1> QED BY <1>10 DEF after

-----------------------------------------------------------------------------
(***************************************************************************)
(* Q4Caches: the inductive invariant.                                      *)
(***************************************************************************)
\* The end of the text before position n.
Ending(n) == [i \in 1 .. Least2(n, NGram - 1) |->
                TextAt(n - Least2(n, NGram - 1) + i)]

\* It is what a slice of the text's last tokens is.
LEMMA EndingIs ==
    ASSUME Texts, NEW n \in 0 .. MaxPositions
    PROVE  LastOf(SubSeq(text, 1, n), NGram - 1) = Ending(n)
<1> DEFINE pre == SubSeq(text, 1, n)
           m == Least2(n, NGram - 1)
<1>0. MaxPositions \in Nat /\ NGram - 1 \in Nat /\ n \in Nat /\ n <= MaxPositions
  BY Q4Assumption
<1>1. /\ 1 \in 1 .. MaxPositions + 1 /\ n \in 1 - 1 .. MaxPositions
      /\ n - 1 + 1 = n
  BY <1>0
<1>2. /\ IsSeq(pre, n - 1 + 1)
      /\ \A i \in 1 .. n - 1 + 1 : pre[i] = TextAt(1 + i - 1)
  BY <1>1, PartOfText
<1> HIDE DEF pre
<1>3. ASSUME NEW i \in 1 .. n
      PROVE  pre[i] = TextAt(i)
  <2>1. 1 + i - 1 = i
    OBVIOUS
  <2>2. pre[i] = TextAt(1 + i - 1)
    BY <1>1, <1>2
  <2> QED BY <2>1, <2>2
<1>4. IsSeq(pre, n)
  BY <1>1, <1>2
<1>5. LastOf(pre, NGram - 1) = [i \in 1 .. m |-> pre[n - m + i]]
  <2> DEFINE K == NGram - 1
  <2>1. K \in Nat
    BY <1>0
  <2> HIDE DEF K
  <2>2. LastOf(pre, K) = [i \in 1 .. Least2(n, K) |-> pre[n - Least2(n, K) + i]]
    BY <1>0, <1>4, <2>1, LastIs
  <2> QED BY <2>2 DEF K
<1>6. m \in Nat /\ m <= n
  BY <1>0 DEF Least2
<1> HIDE DEF m
<1>7. ASSUME NEW i \in 1 .. m
      PROVE  pre[n - m + i] = TextAt(n - m + i)
  <2>1. n - m + i \in 1 .. n
    BY <1>0, <1>6
  <2> QED BY <1>3, <2>1
<1>8. LastOf(pre, NGram - 1) = [i \in 1 .. m |-> TextAt(n - m + i)]
  BY <1>5, <1>7
<1> QED BY <1>8 DEF Ending, pre, m

\* A chunk that is shorter than the context leaves part of what was there.
LEMMA ContextNext ==
    ASSUME Texts, Context, NEW s \in Nat, n_ctx + s <= MaxPositions
    PROVE  LastOf(ple_ctx \o SubSeq(text, n_ctx + 1, n_ctx + s), NGram - 1)
              = LastOf(SubSeq(text, 1, n_ctx + s), NGram - 1)
<1> DEFINE K == NGram - 1
           m == Least2(n_ctx, K)
           new == SubSeq(text, n_ctx + 1, n_ctx + s)
           all == ple_ctx \o new
           M == Least2(n_ctx + s, K)
<1>0. /\ MaxPositions \in Nat /\ K \in Nat
      /\ n_ctx \in Nat /\ n_ctx <= MaxPositions
  BY Q4Assumption DEF Texts
<1>1. ple_ctx = [i \in 1 .. m |-> TextAt(n_ctx - m + i)]
  <2>1. n_ctx \in 0 .. MaxPositions
    BY <1>0
  <2> QED BY <2>1, EndingIs DEF Context, Ending
<1>2. IsSeq(new, s) /\ \A i \in 1 .. s : new[i] = TextAt(n_ctx + i)
  <2> DEFINE a == n_ctx + 1
             b == n_ctx + s
  <2>1. a \in 1 .. MaxPositions + 1 /\ b \in a - 1 .. MaxPositions
        /\ b - a + 1 = s
    BY <1>0
  <2> DEFINE t == SubSeq(text, a, b)
  <2>2. IsSeq(t, b - a + 1) /\ \A i \in 1 .. b - a + 1 : t[i] = TextAt(a + i - 1)
    <3> HIDE DEF a, b
    <3> QED BY <2>1, PartOfText
  <2>3. ASSUME NEW i \in 1 .. s
        PROVE  t[i] = TextAt(n_ctx + i)
    <3>1. a + i - 1 = n_ctx + i
      BY <1>0
    <3> HIDE DEF a, b
    <3>2. t[i] = TextAt(a + i - 1)
      BY <2>1, <2>2
    <3> QED BY <3>1, <3>2
  <2>4. IsSeq(t, s)
    BY <2>1, <2>2
  <2> QED BY <2>3, <2>4
<1>3. m \in Nat /\ m <= n_ctx /\ M \in Nat /\ M <= m + s /\ Least2(m + s, K) = M
  BY <1>0 DEF Least2
<1>4. IsSeq(ple_ctx, m)
  BY <1>1 DEF IsSeq
<1> HIDE DEF m, M, new, K
<1>5. IsSeq(all, m + s) /\ Behind(all, 0, ple_ctx, m) /\ Behind(all, m, new, s)
  BY <1>2, <1>3, <1>4, ConcatIs
<1> HIDE DEF all
<1>6. ASSUME NEW i \in 1 .. m + s
      PROVE  all[i] = TextAt(n_ctx - m + i)
  <2>1. CASE i <= m
    <3>1. i \in 1 .. m /\ 0 + i = i
      BY <2>1
    <3>2. all[0 + i] = ple_ctx[i]
      BY <1>5, <3>1 DEF Behind
    <3> QED BY <1>1, <3>1, <3>2
  <2>2. CASE ~(i <= m)
    <3>1. i - m \in 1 .. s /\ m + (i - m) = i /\ n_ctx + (i - m) = n_ctx - m + i
      BY <1>0, <1>3, <2>2
    <3>2. all[m + (i - m)] = new[i - m]
      BY <1>5, <3>1 DEF Behind
    <3> QED BY <1>2, <3>1, <3>2
  <2> QED BY <2>1, <2>2
<1>7. LastOf(all, K) = [i \in 1 .. M |-> all[m + s - M + i]]
  <2>1. m + s \in Nat
    BY <1>3
  <2>2. LastOf(all, K)
          = [i \in 1 .. Least2(m + s, K) |->
                all[(m + s) - Least2(m + s, K) + i]]
    BY <1>0, <1>5, <2>1, LastIs
  <2>3. (m + s) - M = m + s - M
    BY <1>3
  <2> QED BY <1>3, <2>2, <2>3
<1>8. ASSUME NEW i \in 1 .. M
      PROVE  all[m + s - M + i] = TextAt((n_ctx + s) - M + i)
  <2>1. m + s - M + i \in 1 .. m + s
        /\ n_ctx - m + (m + s - M + i) = (n_ctx + s) - M + i
    BY <1>0, <1>3
  <2>2. all[m + s - M + i] = TextAt(n_ctx - m + (m + s - M + i))
    BY <1>6, <2>1
  <2> QED BY <2>1, <2>2
<1>9. LastOf(all, K) = Ending(n_ctx + s)
  <2>1. LastOf(all, K) = [i \in 1 .. M |-> TextAt((n_ctx + s) - M + i)]
    BY <1>7, <1>8
  <2> QED BY <2>1 DEF Ending, M, K
<1>10. LastOf(SubSeq(text, 1, n_ctx + s), K) = Ending(n_ctx + s)
  <2>1. n_ctx + s \in 0 .. MaxPositions
    BY <1>0
  <2> QED BY <2>1, EndingIs DEF K
<1>11. LastOf(all, K) = LastOf(SubSeq(text, 1, n_ctx + s), K)
  BY <1>9, <1>10
<1> QED BY <1>11 DEF all, new, K

Q4Inv ==
    /\ Texts
    /\ Context
    /\ \A e \in Entries : At(Kinds[e], Before(e), n_ctx)

\* What an entry is.
LEMMA KindOf ==
    ASSUME NEW e \in Entries
    PROVE  Kinds[e] \in {"linear", "full", "ple"}
BY Q4Assumption DEF Entries

\* The text and the indexer's ranking stay, and with them what a position is
\* computed from.
LEMMA RowFixed ==
    ASSUME text' = text, rank' = rank, NEW CONSTANT kind, NEW CONSTANT p
    PROVE  RowFrom(kind, p)' = RowFrom(kind, p)
BY DEF RowFrom, ComputedFrom, BestBlocks

\* A state nothing was computed in.
LEMMA Q4InitInv == Q4Init => Q4Inv
<1> SUFFICES ASSUME Q4Init
             PROVE  Q4Inv
  OBVIOUS
<1>1. Texts
  BY Q4Assumption DEF Q4Init, Texts
<1>2. Context
  <2>1. Least2(0, NGram - 1) = 0 /\ 0 \in 0 .. MaxPositions
    BY Q4Assumption DEF Least2
  <2>2. Ending(0) = <<>>
    BY <2>1 DEF Ending
  <2>3. LastOf(SubSeq(text, 1, 0), NGram - 1) = Ending(0)
    BY <1>1, <2>1, EndingIs
  <2> QED BY <2>2, <2>3 DEF Context, Q4Init
<1>3. ASSUME NEW e \in Entries
      PROVE  At(Kinds[e], Before(e), 0)
  <2>1. Before(e).c = NoCache(Kinds[e]) /\ Before(e).seen = <<>>
    BY <1>3 DEF Before, Q4Init
  <2>2. Saw(Kinds[e], Before(e).seen, 0)
    BY <2>1 DEF Saw
  <2>3. Positions(0, 0 - 1) = <<>>
    BY DEF Positions
  <2>4. CASE Kinds[e] = "linear"
    <3> DEFINE K == ConvKernel - 1
    <3>1. K \in Nat /\ Least2(0, K) = 0
      BY Q4Assumption DEF Least2
    <3>2. Aligned(NoRows(K), 0, K)
      <4>1. ASSUME NEW j \in 1 .. K
            PROVE  RowAt(0 - K + j - 1) = NoRow
        BY <3>1 DEF RowAt
      <4> QED BY <4>1 DEF Aligned, NoRows
    <3>3. Before(e).c = [conv |-> NoRows(K), gdn |-> <<>>]
      BY <2>1, <2>4 DEF NoCache
    <3> HIDE DEF K
    <3>4. Before(e).c.conv = NoRows(K) /\ Before(e).c.gdn = <<>>
      BY <3>3
    <3>5. HoldsLinear(Before(e).c, 0)
      BY <2>3, <3>1, <3>2, <3>4 DEF HoldsLinear, K
    <3> QED BY <2>2, <2>4, <3>5 DEF At, Holds
  <2>5. CASE Kinds[e] = "full"
    <3>1. Before(e).c = [k |-> Array(<<>>), tok_k |-> Array(<<>>),
                         ck |-> Array(<<>>)]
      BY <2>1, <2>5 DEF NoCache
    <3>2. 0 \div Ratio = 0
      <4>1. 0 \in Nat /\ Ratio \in Nat \ {0} /\ 0 < Ratio
        BY Q4Assumption
      <4> QED BY <4>1, SmallDivMod
    <3>3. IsSeq(<<>>, 0)
      BY DEF IsSeq
    <3>4. ArrayOk(Array(<<>>), 0) /\ Array(<<>>).rows = <<>>
      BY <3>3, ArrayIs
    <3>5. BlockKeys(0) = <<>>
      BY <3>2, BlockKeysIs
    <3>6. HoldsFull(Before(e).c, 0)
      BY <2>3, <3>1, <3>2, <3>4, <3>5 DEF HoldsFull
    <3> QED BY <2>2, <2>5, <3>6 DEF At, Holds
  <2>6. CASE Kinds[e] = "ple"
    <3>1. Before(e).c.conv = <<>>
      BY <2>1, <2>6 DEF NoCache
    <3>2. Aligned(NoRows(ConvHistory), 0, ConvHistory)
      <4>1. ASSUME NEW j \in 1 .. ConvHistory
            PROVE  RowAt(0 - ConvHistory + j - 1) = NoRow
        BY TapsBounds DEF RowAt
      <4> QED BY <4>1 DEF Aligned, NoRows
    <3>3. HoldsPle(Before(e).c, 0)
      BY <3>1, <3>2 DEF HoldsPle, History
    <3> QED BY <2>2, <2>6, <3>3 DEF At, Holds
  <2> QED BY <2>4, <2>5, <2>6, KindOf
<1> QED BY <1>1, <1>2, <1>3 DEF Q4Inv, Q4Init

\* The end of a step.
LEMMA Becomes ==
    ASSUME Q4Inv, NEW s \in Nat, n_ctx + s <= MaxPositions, Advance(s),
           \A e \in Entries : /\ Holds(Kinds[e], cache'[e], n_ctx + s)
                              /\ Saw(Kinds[e], seen'[e], n_ctx + s)
    PROVE  Q4Inv'
<1>1. n_ctx' = n_ctx + s /\ text' = text /\ rank' = rank
  BY DEF Advance
<1>2. n_ctx \in Nat /\ n_ctx' \in 0 .. MaxPositions
  BY <1>1, Q4Assumption DEF Q4Inv, Texts
<1>3. Texts'
  BY <1>1, <1>2 DEF Q4Inv, Texts
<1>4. Context'
  <2>1. ple_ctx' = LastOf(SubSeq(text, 1, n_ctx + s), NGram - 1)
    BY ContextNext DEF Advance, Q4Inv
  <2> QED BY <1>1, <2>1 DEF Context
<1>5. ASSUME NEW e \in Entries
      PROVE  At(Kinds[e], Before(e), n_ctx)'
  <2>1. Saw(Kinds[e], seen[e], n_ctx)'
    <3>1. seen'[e] = [i \in 1 .. n_ctx + s |-> RowFrom(Kinds[e], i - 1)]
      BY DEF Saw
    <3>2. \A i \in 1 .. n_ctx + s :
            RowFrom(Kinds[e], i - 1)' = RowFrom(Kinds[e], i - 1)
      BY <1>1, RowFixed
    <3>3. seen'[e] = [i \in 1 .. n_ctx' |-> RowFrom(Kinds[e], i - 1)']
      BY <1>1, <3>1, <3>2
    <3> QED BY <3>3 DEF Saw
  <2>2. Holds(Kinds[e], cache'[e], n_ctx')
    BY <1>1
  <2> QED BY <2>1, <2>2 DEF At, Before
<1> QED BY <1>3, <1>4, <1>5 DEF Q4Inv

\* A prompt, computed at once.
LEMMA Q4PrefillInv ==
    ASSUME Q4Inv, NEW S \in 1 .. MaxPositions, Prefill(S)
    PROVE  Q4Inv'
<1>1. S \in Nat \ {0} /\ n_ctx = 0 /\ n_ctx + S = S /\ S <= MaxPositions
      /\ Advance(S)
  BY Q4Assumption DEF Prefill
<1>2. ASSUME NEW e \in Entries
      PROVE  /\ Holds(Kinds[e], cache'[e], n_ctx + S)
             /\ Saw(Kinds[e], seen'[e], n_ctx + S)
  <2> DEFINE st == IF Kinds[e] = "ple" THEN PleChunk(Before(e), S)
                   ELSE Prompt(Kinds[e], S)
  <2>1. cache'[e] = st.c /\ seen'[e] = st.seen
    BY DEF Prefill, Become
  <2>2. At(Kinds[e], st, n_ctx + S)
    <3>1. CASE Kinds[e] = "ple"
      BY <1>1, <3>1, PleKeeps DEF Q4Inv
    <3>2. CASE Kinds[e] # "ple"
      BY <1>1, <3>2, KindOf, PromptHolds
    <3> QED BY <3>1, <3>2
  <2> HIDE DEF st
  <2> QED BY <2>1, <2>2 DEF At
<1> QED BY <1>1, <1>2, Becomes

\* Some positions more.
LEMMA Q4ExtendInv ==
    ASSUME Q4Inv, NEW s \in 1 .. MaxPositions, ExtendBy(s)
    PROVE  Q4Inv'
<1>1. /\ s \in Nat \ {0} /\ n_ctx \in Nat /\ n_ctx + s <= MaxPositions
      /\ Advance(s)
  BY Q4Assumption DEF ExtendBy, Q4Inv, Texts
<1>2. ASSUME NEW e \in Entries
      PROVE  /\ Holds(Kinds[e], cache'[e], n_ctx + s)
             /\ Saw(Kinds[e], seen'[e], n_ctx + s)
  <2> DEFINE st == IF Kinds[e] = "ple" THEN PleChunk(Before(e), s)
                   ELSE Stepped(Kinds[e], Before(e), s)
  <2>1. cache'[e] = st.c /\ seen'[e] = st.seen
    BY DEF ExtendBy, Become
  <2>2. At(Kinds[e], st, n_ctx + s)
    <3>1. CASE Kinds[e] = "ple"
      BY <1>1, <3>1, PleKeeps DEF Q4Inv
    <3>2. CASE Kinds[e] # "ple"
      <4>1. Kinds[e] \in {"linear", "full"} /\ At(Kinds[e], Before(e), n_ctx)
        BY <3>2, KindOf DEF Q4Inv
      <4>2. At(Kinds[e], Stepped(Kinds[e], Before(e), s), n_ctx + s)
        BY <1>1, <4>1, SteppedKeeps
      <4> QED BY <3>2, <4>2
    <3> QED BY <3>1, <3>2
  <2> HIDE DEF st
  <2> QED BY <2>1, <2>2 DEF At
<1> QED BY <1>1, <1>2, Becomes

\* Every step keeps the invariant.
LEMMA Q4NextInv ==
    ASSUME Q4Inv, [Q4Next]_q4Vars
    PROVE  Q4Inv'
<1>1. CASE \E S \in 1 .. MaxPositions : Prefill(S)
  BY <1>1, Q4PrefillInv
<1>2. CASE \E s \in 1 .. MaxPositions : ExtendBy(s)
  BY <1>2, Q4ExtendInv
<1>3. CASE UNCHANGED q4Vars
  <2>1. /\ text' = text /\ rank' = rank /\ n_ctx' = n_ctx /\ ple_ctx' = ple_ctx
        /\ cache' = cache /\ seen' = seen
    BY <1>3 DEF q4Vars
  <2>2. Texts' /\ Context'
    BY <2>1 DEF Q4Inv, Texts, Context
  <2>3. ASSUME NEW e \in Entries
        PROVE  At(Kinds[e], Before(e), n_ctx)'
    <3>1. Holds(Kinds[e], cache[e], n_ctx) /\ Saw(Kinds[e], seen[e], n_ctx)
      BY DEF Q4Inv, At, Before
    <3>2. Saw(Kinds[e], seen[e], n_ctx)'
      <4>1. seen[e] = [i \in 1 .. n_ctx |-> RowFrom(Kinds[e], i - 1)]
        BY <3>1 DEF Saw
      <4>2. \A i \in 1 .. n_ctx :
              RowFrom(Kinds[e], i - 1)' = RowFrom(Kinds[e], i - 1)
        BY <2>1, RowFixed
      <4>3. seen'[e] = [i \in 1 .. n_ctx' |-> RowFrom(Kinds[e], i - 1)']
        BY <2>1, <4>1, <4>2
      <4> QED BY <4>3 DEF Saw
    <3>3. Holds(Kinds[e], cache'[e], n_ctx')
      BY <2>1, <3>1
    <3> QED BY <3>2, <3>3 DEF At, Before
  <2> QED BY <2>2, <2>3 DEF Q4Inv
<1> QED BY <1>1, <1>2, <1>3 DEF Q4Next

\* What a window of the last k rows gives a convolution.
LEMMA LastWindow ==
    ASSUME NEW n \in Nat, NEW k \in Nat
    PROVE  Computed(LastOf(Positions(0, n - 1), k))
              = {<<d, n - 1 - d>> : d \in 0 .. Least2(n, k) - 1}
<1> DEFINE s == Positions(0, n - 1)
<1>1. Aligned(s, n, n)
  <2>1. 0 \in 0 .. n /\ n - 0 = n
    OBVIOUS
  <2>2. Aligned(Positions(0, n - 1), n, n - 0)
    BY <2>1, PositionsAligned
  <2> QED BY <2>1, <2>2
<1> HIDE DEF s
<1>2. Aligned(LastOf(s, k), n, Least2(n, k))
  BY <1>1, AlignedLast
<1>3. Least2(n, k) \in Nat /\ Least2(n, Least2(n, k)) = Least2(n, k)
  BY DEF Least2
<1>4. Computed(LastOf(s, k))
        = {<<d, n - 1 - d>> : d \in 0 .. Least2(n, Least2(n, k)) - 1}
  BY <1>2, <1>3, AlignedComputed
<1> QED BY <1>3, <1>4 DEF s

\* The invariant says what CachesExact does.
LEMMA Q4Exact == Q4Inv => CachesExact
<1> SUFFICES ASSUME Q4Inv, NEW e \in Entries
             PROVE  /\ Len(seen[e]) = n_ctx
                    /\ \A p \in 0 .. n_ctx - 1 :
                          seen[e][p + 1] = ComputedFrom(Kinds[e], p, n_ctx)
                    /\ Kinds[e] = "linear" =>
                        /\ Computed(cache[e].conv)
                            = Computed(LastOf(Positions(0, n_ctx - 1),
                                              ConvKernel - 1))
                        /\ cache[e].gdn = Positions(0, n_ctx - 1)
                    /\ Kinds[e] = "full" =>
                        /\ cache[e].k.rows = Positions(0, n_ctx - 1)
                        /\ cache[e].tok_k.rows = Positions(0, n_ctx - 1)
                        /\ cache[e].ck.rows = BlockKeys(n_ctx)
                    /\ Kinds[e] = "ple" =>
                        Computed(cache[e].conv)
                            = Computed(LastOf(Positions(0, n_ctx - 1),
                                              ConvHistory))
  BY KindOf DEF CachesExact
<1>1. n_ctx \in Nat
  BY Q4Assumption DEF Q4Inv, Texts
<1>2. Holds(Kinds[e], cache[e], n_ctx) /\ Saw(Kinds[e], seen[e], n_ctx)
  BY DEF Q4Inv, At, Before
<1>3. Len(seen[e]) = n_ctx
  <2>1. IsSeq(seen[e], n_ctx)
    BY <1>2 DEF Saw, IsSeq
  <2> QED BY <1>1, <2>1, SeqIs
<1>4. ASSUME NEW p \in 0 .. n_ctx - 1
      PROVE  seen[e][p + 1] = ComputedFrom(Kinds[e], p, n_ctx)
  <2>1. p \in Nat /\ p < n_ctx /\ p + 1 \in 1 .. n_ctx /\ (p + 1) - 1 = p
    BY <1>1
  <2>2. seen[e][p + 1] = RowFrom(Kinds[e], (p + 1) - 1)
    BY <1>2, <2>1 DEF Saw
  <2> QED BY <1>1, <2>1, <2>2, KindOf, FromAny
<1>5. ASSUME Kinds[e] = "linear"
      PROVE  /\ Computed(cache[e].conv)
                 = Computed(LastOf(Positions(0, n_ctx - 1), ConvKernel - 1))
             /\ cache[e].gdn = Positions(0, n_ctx - 1)
  <2> DEFINE K == ConvKernel - 1
  <2>1. K \in Nat
    BY Q4Assumption
  <2>2. HoldsLinear(cache[e], n_ctx)
    BY <1>2, <1>5 DEF Holds
  <2>3. PICK len \in Nat : /\ Aligned(cache[e].conv, n_ctx, len)
                           /\ len <= K /\ len >= Least2(n_ctx, K)
    BY <2>2 DEF HoldsLinear
  <2> HIDE DEF K
  <2>4. Least2(n_ctx, len) = Least2(n_ctx, K)
    BY <1>1, <2>1, <2>3 DEF Least2
  <2>5. Computed(cache[e].conv)
          = {<<d, n_ctx - 1 - d>> : d \in 0 .. Least2(n_ctx, len) - 1}
    BY <1>1, <2>3, AlignedComputed
  <2>6. Computed(LastOf(Positions(0, n_ctx - 1), K))
          = {<<d, n_ctx - 1 - d>> : d \in 0 .. Least2(n_ctx, K) - 1}
    BY <1>1, <2>1, LastWindow
  <2> QED BY <2>2, <2>4, <2>5, <2>6 DEF HoldsLinear, K
<1>6. ASSUME Kinds[e] = "full"
      PROVE  /\ cache[e].k.rows = Positions(0, n_ctx - 1)
             /\ cache[e].tok_k.rows = Positions(0, n_ctx - 1)
             /\ cache[e].ck.rows = BlockKeys(n_ctx)
  BY <1>2, <1>6 DEF Holds, HoldsFull
<1>7. ASSUME Kinds[e] = "ple"
      PROVE  Computed(cache[e].conv)
                = Computed(LastOf(Positions(0, n_ctx - 1), ConvHistory))
  <2> DEFINE H == ConvHistory
  <2>1. H \in Nat /\ HoldsPle(cache[e], n_ctx)
    BY <1>2, <1>7, TapsBounds DEF Holds
  <2> HIDE DEF H
  <2>2. Computed(LastOf(Positions(0, n_ctx - 1), H))
          = {<<d, n_ctx - 1 - d>> : d \in 0 .. Least2(n_ctx, H) - 1}
    BY <1>1, <2>1, LastWindow
  <2>3. CASE cache[e].conv = <<>>
    <3>1. Least2(n_ctx, H) = 0
      BY <2>1, <2>3 DEF HoldsPle, Least2
    <3>2. Computed(cache[e].conv) = {}
      <4>1. {j \in DOMAIN <<>> : <<>>[j] # NoRow} = {}
        OBVIOUS
      <4> QED BY <2>3, <4>1 DEF Computed
    <3> QED BY <2>2, <3>1, <3>2 DEF H
  <2>4. CASE cache[e].conv # <<>>
    <3>1. Aligned(cache[e].conv, n_ctx, H)
      BY <2>1, <2>4 DEF HoldsPle, History, H
    <3>2. Computed(cache[e].conv)
            = {<<d, n_ctx - 1 - d>> : d \in 0 .. Least2(n_ctx, H) - 1}
      BY <1>1, <2>1, <3>1, AlignedComputed
    <3> QED BY <2>2, <3>2 DEF H
  <2> QED BY <2>3, <2>4
<1> QED BY <1>3, <1>4, <1>5, <1>6, <1>7

\* However a sequence is cut into a prompt, chunks and single steps, each
\* layer computes each position from what one prompt of all of them would,
\* for every model of these layer types, text and ranking of the blocks: what
\* Qwen4ExpState keeps between two calls of _forward is enough.
THEOREM AlwaysCachesExact == Q4Spec => []CachesExact
<1>1. Q4Init => Q4Inv
  BY Q4InitInv
<1>2. Q4Inv /\ [Q4Next]_q4Vars => Q4Inv'
  BY Q4NextInv
<1> QED BY <1>1, <1>2, Q4Exact, PTL DEF Q4Spec

===============================================================================

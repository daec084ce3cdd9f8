--------------------------- MODULE Scheduler_proofs ---------------------------
(***************************************************************************)
(* Proofs about Scheduler, for every capacity, chunk and block size, limit *)
(* on concurrency and set of requests: its five invariants, that one pass  *)
(* of pump is enough, and that it implements RequestService.               *)
(*                                                                         *)
(* OnePlace, ArrivalOrder and ReservationHeld are not inductive.  That a   *)
(* request leaves one place for another needs the four places to be        *)
(* disjoint and free of repetition (Apart); the order of the queue has to  *)
(* be kept apart for the two lists it is made of (Order); that advance     *)
(* finds its sequence running needs the entries of a snapshot to be of     *)
(* different sequences (Snapshot); and that a reservation lasts needs what *)
(* a request may still write, from the day it is queued (Held).            *)
(*                                                                         *)
(* The blocks behind a reservation are those of KVBlocks, whose safety is  *)
(* proved first, for every pool size, block size and set of sequences.     *)
(* Its invariant is inductive only as a whole: that a freed id is not      *)
(* already in the heap needs TablesMatchOwners, and that an allocated id   *)
(* had no owner needs FreeOrOwned.                                         *)
(***************************************************************************)
EXTENDS Scheduler, SequenceTheorems, Basics

-----------------------------------------------------------------------------
(***************************************************************************)
(* KVBlocks.                                                               *)
(***************************************************************************)
\* The inductive invariant of runtime/blocks.py.
KVInv == KVTypeOK /\ FreeOrOwned /\ TablesMatchOwners

\* Popping free ids for a sequence: the pool stays consistent, the sequence
\* owns what it owned and the popped ids, and nobody else is affected.
LEMMA TakeLemma ==
    ASSUME NEW U, NEW pool \in Pool(U), Consistent(pool, U),
           NEW s \in SeqIds, NEW ids \in SUBSET pool.free
    PROVE  /\ Take(pool, s, ids) \in Pool(U)
           /\ Consistent(Take(pool, s, ids), U)
           /\ OwnedBy(Take(pool, s, ids), U, s) = OwnedBy(pool, U, s) \union ids
           /\ \A t \in SeqIds \ {s} :
                 OwnedBy(Take(pool, s, ids), U, t) = OwnedBy(pool, U, t)
<1> DEFINE after == Take(pool, s, ids)
<1>1. DOMAIN pool.owner = U /\ pool.free \subseteq U
  BY DEF Pool
<1>2. /\ after.free = pool.free \ ids
      /\ after.owner = [i \in U |-> IF i \in ids THEN s ELSE pool.owner[i]]
  BY <1>1 DEF Take
<1>3. after = [free |-> after.free, owner |-> after.owner]
  BY <1>1, <1>2 DEF Take
<1>4. after.owner \in [U -> SeqIds \union {NoSeq}] /\ after.free \in SUBSET U
  BY <1>1, <1>2 DEF Pool
<1>5. after \in Pool(U)
  BY <1>3, <1>4 DEF Pool
<1>6. NoSeq # s
  BY KVAssumption
<1>7. Consistent(after, U)
  BY <1>2, <1>6 DEF Consistent
<1>8. OwnedBy(after, U, s) = OwnedBy(pool, U, s) \union ids
  BY <1>1, <1>2 DEF OwnedBy
<1>9. \A t \in SeqIds \ {s} : OwnedBy(after, U, t) = OwnedBy(pool, U, t)
  <2> SUFFICES ASSUME NEW t \in SeqIds \ {s}, NEW i \in U
               PROVE  after.owner[i] = t <=> pool.owner[i] = t
    BY DEF OwnedBy
  <2>1. t # NoSeq
    BY KVAssumption
  <2> QED
    BY <1>2, <2>1 DEF Consistent
<1> QED
  BY <1>5, <1>7, <1>8, <1>9

\* Pushing a sequence's own ids back: the pool stays consistent, the sequence
\* owns what is left, and nobody else is affected.
LEMMA PutBackLemma ==
    ASSUME NEW U, NEW pool \in Pool(U), Consistent(pool, U),
           NEW s \in SeqIds, NEW ids \in SUBSET U, MayFree(pool, s, ids)
    PROVE  /\ PutBack(pool, ids) \in Pool(U)
           /\ Consistent(PutBack(pool, ids), U)
           /\ OwnedBy(PutBack(pool, ids), U, s) = OwnedBy(pool, U, s) \ ids
           /\ \A t \in SeqIds \ {s} :
                 OwnedBy(PutBack(pool, ids), U, t) = OwnedBy(pool, U, t)
<1> DEFINE after == PutBack(pool, ids)
<1>1. DOMAIN pool.owner = U /\ pool.free \subseteq U
  BY DEF Pool
<1>2. /\ after.free = pool.free \union ids
      /\ after.owner = [i \in U |-> IF i \in ids THEN NoSeq ELSE pool.owner[i]]
  BY <1>1 DEF PutBack
<1>3. after = [free |-> after.free, owner |-> after.owner]
  BY <1>1, <1>2 DEF PutBack
<1>4. after.owner \in [U -> SeqIds \union {NoSeq}] /\ after.free \in SUBSET U
  BY <1>1, <1>2 DEF Pool
<1>5. after \in Pool(U)
  BY <1>3, <1>4 DEF Pool
<1>6. \A t \in SeqIds : t # NoSeq
  BY KVAssumption
<1>7. Consistent(after, U)
  BY <1>2 DEF Consistent
<1>8. OwnedBy(after, U, s) = OwnedBy(pool, U, s) \ ids
  BY <1>2, <1>6 DEF OwnedBy
<1>9. \A t \in SeqIds \ {s} : OwnedBy(after, U, t) = OwnedBy(pool, U, t)
  <2> SUFFICES ASSUME NEW t \in SeqIds \ {s}, NEW i \in U
               PROVE  after.owner[i] = t <=> pool.owner[i] = t
    BY DEF OwnedBy
  <2> QED
    BY <1>2, <1>6 DEF MayFree
<1> QED
  BY <1>5, <1>7, <1>8, <1>9

-----------------------------------------------------------------------------
\* Fresh pools and no tables satisfy the invariant.
LEMMA InitInv == KVInit => KVInv
<1> SUFFICES ASSUME KVInit PROVE KVInv
  OBVIOUS
<1>1. \A U : FreshPool(U) \in Pool(U) /\ Consistent(FreshPool(U), U)
  BY DEF FreshPool, Pool, Consistent
<1>2. \A U : \A s \in SeqIds : OwnedBy(FreshPool(U), U, s) = {}
  BY KVAssumption DEF FreshPool, OwnedBy
<1>3. KVTypeOK
  BY <1>1 DEF KVInit, KVTypeOK
<1>4. FreeOrOwned
  BY <1>1 DEF KVInit, FreeOrOwned
<1>5. TablesMatchOwners
  BY <1>2 DEF KVInit, TablesMatchOwners, SlotIds
<1> QED
  BY <1>3, <1>4, <1>5 DEF KVInv

\* LowestFree returns free ids.
LEMMA LowestIsFree ==
    ASSUME NEW pool, NEW n, NEW ids \in LowestFree(pool, n)
    PROVE  ids \in SUBSET pool.free
BY DEF LowestFree

\* new_sequence with both allocations done.
LEMMA NewSequenceInv ==
    ASSUME KVInv, NEW s \in SeqIds, NEW tokens, NEW useState,
           NewSequence(s, tokens, useState)
    PROVE  KVInv'
<1> USE DEF KVInv
<1>1. PICK ids \in LowestFree(kv, BlocksForTokens(tokens)) :
         kv' = Take(kv, s, ids) /\ blocks' = [blocks EXCEPT ![s] = ids]
  BY DEF NewSequence
<1>2. ids \in SUBSET kv.free /\ kv \in Pool(Blocks) /\ Consistent(kv, Blocks)
  BY <1>1, LowestIsFree DEF KVTypeOK, FreeOrOwned
<1>3. /\ kv' \in Pool(Blocks)
      /\ Consistent(kv', Blocks)
      /\ OwnedBy(kv', Blocks, s) = OwnedBy(kv, Blocks, s) \union ids
      /\ \A t \in SeqIds \ {s} : OwnedBy(kv', Blocks, t) = OwnedBy(kv, Blocks, t)
  BY <1>1, <1>2, TakeLemma
<1>4. /\ s \notin tables /\ slot[s] = NoSlot
      /\ OwnedBy(kv, Blocks, s) = {}
  BY DEF NewSequence, TablesMatchOwners
<1>5. ids \subseteq Blocks
  BY <1>2 DEF Pool
<1>6. \A t \in SeqIds : blocks'[t] = OwnedBy(kv', Blocks, t)
  BY <1>1, <1>3, <1>4 DEF TablesMatchOwners, KVTypeOK
<1>7. /\ state' \in Pool(Slots)
      /\ Consistent(state', Slots)
      /\ slot' \in [SeqIds -> Slots \union {NoSlot}]
      /\ \A t \in SeqIds : SlotIds(slot'[t]) = OwnedBy(state', Slots, t)
      /\ \A t \in SeqIds \ {s} : slot'[t] = slot[t]
  <2>1. CASE UNCHANGED <<state, slot>>
    BY <2>1 DEF KVTypeOK, FreeOrOwned, TablesMatchOwners
  <2>2. CASE \E sl \in Slots : /\ {sl} \in LowestFree(state, 1)
                               /\ state' = Take(state, s, {sl})
                               /\ slot' = [slot EXCEPT ![s] = sl]
    <3>1. PICK sl \in Slots : /\ {sl} \in LowestFree(state, 1)
                              /\ state' = Take(state, s, {sl})
                              /\ slot' = [slot EXCEPT ![s] = sl]
      BY <2>2
    <3>2. /\ {sl} \in SUBSET state.free /\ state \in Pool(Slots)
          /\ Consistent(state, Slots)
      BY <3>1, LowestIsFree DEF KVTypeOK, FreeOrOwned
    <3>3. /\ state' \in Pool(Slots)
          /\ Consistent(state', Slots)
          /\ OwnedBy(state', Slots, s) = OwnedBy(state, Slots, s) \union {sl}
          /\ \A t \in SeqIds \ {s} :
                OwnedBy(state', Slots, t) = OwnedBy(state, Slots, t)
      BY <3>1, <3>2, TakeLemma
    <3>4. sl # NoSlot
      BY KVAssumption DEF Slots
    <3>5. slot \in [SeqIds -> Slots \union {NoSlot}]
      BY DEF KVTypeOK
    <3>6. OwnedBy(state, Slots, s) = {}
      BY <1>4 DEF TablesMatchOwners, SlotIds
    <3> QED
      BY <3>1, <3>3, <3>4, <3>5, <3>6 DEF TablesMatchOwners, SlotIds
  <2> QED
    BY <2>1, <2>2 DEF NewSequence
<1>8. tables' = tables \union {s}
  BY DEF NewSequence
<1>9. KVTypeOK'
  BY <1>1, <1>3, <1>5, <1>7, <1>8 DEF KVTypeOK
<1>10. FreeOrOwned'
  BY <1>3, <1>7 DEF FreeOrOwned
<1>11. TablesMatchOwners'
  BY <1>1, <1>6, <1>7, <1>8 DEF TablesMatchOwners, KVTypeOK
<1> QED
  BY <1>9, <1>10, <1>11

\* new_sequence rolled back: the pool is what it was.
LEMMA NewSequenceNoSlotInv ==
    ASSUME KVInv, NEW s \in SeqIds, NEW tokens, NewSequenceNoSlot(s, tokens)
    PROVE  KVInv'
<1> USE DEF KVInv
<1>1. PICK ids \in LowestFree(kv, BlocksForTokens(tokens)) :
         /\ MayFree(Take(kv, s, ids), s, ids)
         /\ kv' = PutBack(Take(kv, s, ids), ids)
  BY DEF NewSequenceNoSlot
<1>2. ids \in SUBSET kv.free /\ kv \in Pool(Blocks) /\ Consistent(kv, Blocks)
  BY <1>1, LowestIsFree DEF KVTypeOK, FreeOrOwned
<1> DEFINE taken == Take(kv, s, ids)
<1>3. /\ taken \in Pool(Blocks)
      /\ Consistent(taken, Blocks)
      /\ OwnedBy(taken, Blocks, s) = OwnedBy(kv, Blocks, s) \union ids
      /\ \A t \in SeqIds \ {s} : OwnedBy(taken, Blocks, t) = OwnedBy(kv, Blocks, t)
  BY <1>2, TakeLemma
<1>4. ids \in SUBSET Blocks
  BY <1>2 DEF Pool
<1> HIDE DEF taken
<1>5. /\ kv' \in Pool(Blocks)
      /\ Consistent(kv', Blocks)
      /\ OwnedBy(kv', Blocks, s) = OwnedBy(taken, Blocks, s) \ ids
      /\ \A t \in SeqIds \ {s} : OwnedBy(kv', Blocks, t) = OwnedBy(taken, Blocks, t)
  BY <1>1, <1>3, <1>4, PutBackLemma DEF taken
<1>6. OwnedBy(kv, Blocks, s) \intersect ids = {}
  BY <1>2, KVAssumption DEF OwnedBy, Consistent
<1>7. \A t \in SeqIds : OwnedBy(kv', Blocks, t) = OwnedBy(kv, Blocks, t)
  BY <1>3, <1>5, <1>6
<1>8. UNCHANGED <<state, tables, blocks, slot>>
  BY DEF NewSequenceNoSlot
<1> QED
  BY <1>5, <1>7, <1>8 DEF KVTypeOK, FreeOrOwned, TablesMatchOwners

\* grow.
LEMMA GrowInv ==
    ASSUME KVInv, NEW s \in SeqIds, NEW tokens, Grow(s, tokens)
    PROVE  KVInv'
<1> USE DEF KVInv
<1> DEFINE missing == BlocksForTokens(tokens) - Cardinality(blocks[s])
<1>1. PICK ids \in LowestFree(kv, missing) :
         /\ kv' = Take(kv, s, ids)
         /\ blocks' = [blocks EXCEPT ![s] = @ \union ids]
  BY DEF Grow
<1>2. ids \in SUBSET kv.free /\ kv \in Pool(Blocks) /\ Consistent(kv, Blocks)
  BY <1>1, LowestIsFree DEF KVTypeOK, FreeOrOwned
<1>3. /\ kv' \in Pool(Blocks)
      /\ Consistent(kv', Blocks)
      /\ OwnedBy(kv', Blocks, s) = OwnedBy(kv, Blocks, s) \union ids
      /\ \A t \in SeqIds \ {s} : OwnedBy(kv', Blocks, t) = OwnedBy(kv, Blocks, t)
  BY <1>1, <1>2, TakeLemma
<1>4. ids \subseteq Blocks
  BY <1>2 DEF Pool
<1>5. s \in tables /\ UNCHANGED <<state, tables, slot>>
  BY DEF Grow
<1>6. KVTypeOK'
  BY <1>1, <1>3, <1>4, <1>5 DEF KVTypeOK
<1>7. FreeOrOwned'
  BY <1>3, <1>5 DEF FreeOrOwned
<1>8. TablesMatchOwners'
  BY <1>1, <1>3, <1>5 DEF TablesMatchOwners, KVTypeOK
<1> QED
  BY <1>6, <1>7, <1>8

\* free_sequence.
LEMMA FreeSequenceInv ==
    ASSUME KVInv, NEW s \in SeqIds, FreeSequence(s)
    PROVE  KVInv'
<1> USE DEF KVInv
<1>1. /\ MayFree(kv, s, blocks[s])
      /\ kv' = PutBack(kv, blocks[s])
      /\ MayFree(state, s, SlotIds(slot[s]))
      /\ state' = PutBack(state, SlotIds(slot[s]))
      /\ tables' = tables \ {s}
      /\ blocks' = [blocks EXCEPT ![s] = {}]
      /\ slot' = [slot EXCEPT ![s] = NoSlot]
  BY DEF FreeSequence
<1>2. /\ kv \in Pool(Blocks) /\ Consistent(kv, Blocks)
      /\ state \in Pool(Slots) /\ Consistent(state, Slots)
      /\ blocks[s] \in SUBSET Blocks /\ SlotIds(slot[s]) \in SUBSET Slots
  BY DEF KVTypeOK, FreeOrOwned, SlotIds
<1>3. /\ kv' \in Pool(Blocks)
      /\ Consistent(kv', Blocks)
      /\ OwnedBy(kv', Blocks, s) = OwnedBy(kv, Blocks, s) \ blocks[s]
      /\ \A t \in SeqIds \ {s} : OwnedBy(kv', Blocks, t) = OwnedBy(kv, Blocks, t)
  BY <1>1, <1>2, PutBackLemma
<1>4. /\ state' \in Pool(Slots)
      /\ Consistent(state', Slots)
      /\ OwnedBy(state', Slots, s) = OwnedBy(state, Slots, s) \ SlotIds(slot[s])
      /\ \A t \in SeqIds \ {s} : OwnedBy(state', Slots, t) = OwnedBy(state, Slots, t)
  BY <1>1, <1>2, PutBackLemma
<1>5. OwnedBy(kv', Blocks, s) = {} /\ OwnedBy(state', Slots, s) = {}
  BY <1>3, <1>4 DEF TablesMatchOwners
<1>6. KVTypeOK'
  BY <1>1, <1>3, <1>4 DEF KVTypeOK
<1>7. FreeOrOwned'
  BY <1>3, <1>4 DEF FreeOrOwned
<1>8. TablesMatchOwners'
  BY <1>1, <1>3, <1>4, <1>5 DEF TablesMatchOwners, KVTypeOK, SlotIds
<1> QED
  BY <1>6, <1>7, <1>8

\* A step that leaves the coordinator alone.
LEMMA KVStutterInv == KVInv /\ UNCHANGED kvVars => KVInv'
BY DEF KVInv, KVTypeOK, FreeOrOwned, TablesMatchOwners, Consistent, OwnedBy,
       kvVars

\* Every step of the coordinator preserves the invariant.
LEMMA NextInv == KVInv /\ [KVNext]_kvVars => KVInv'
<1> SUFFICES ASSUME KVInv, [KVNext]_kvVars PROVE KVInv'
  OBVIOUS
<1>1. ASSUME NEW s \in SeqIds, NEW tokens, NEW useState,
             NewSequence(s, tokens, useState)
      PROVE  KVInv'
  BY <1>1, NewSequenceInv
<1>2. ASSUME NEW s \in SeqIds, NEW tokens, NewSequenceNoSlot(s, tokens)
      PROVE  KVInv'
  BY <1>2, NewSequenceNoSlotInv
<1>3. ASSUME NEW s \in SeqIds, NEW tokens, Grow(s, tokens)
      PROVE  KVInv'
  BY <1>3, GrowInv
<1>4. ASSUME NEW s \in SeqIds, FreeSequence(s)
      PROVE  KVInv'
  BY <1>4, FreeSequenceInv
<1>5. CASE UNCHANGED kvVars
  BY <1>5, KVStutterInv
<1> QED
  BY <1>1, <1>2, <1>3, <1>4, <1>5 DEF KVNext

\* Two registered sequences share nothing, because each id has one owner.
LEMMA InvNoSharing == KVInv => NoSharing
BY DEF KVInv, KVTypeOK, TablesMatchOwners, NoSharing, OwnedBy

\* A step takes nothing from a sequence that stays registered.
LEMMA StepHeld ==
    ASSUME KVTypeOK, [KVNext]_kvVars, NEW s \in tables \intersect tables'
    PROVE  blocks[s] \subseteq blocks'[s] /\ slot'[s] = slot[s]
<1> USE DEF KVTypeOK
<1>1. ASSUME NEW t \in SeqIds, NEW tokens, NEW useState,
             NewSequence(t, tokens, useState)
      PROVE  blocks[s] \subseteq blocks'[s] /\ slot'[s] = slot[s]
  <2>1. t # s
    BY <1>1 DEF NewSequence
  <2> QED
    BY <1>1, <2>1 DEF NewSequence
<1>2. ASSUME NEW t \in SeqIds, NEW tokens, NewSequenceNoSlot(t, tokens)
      PROVE  blocks[s] \subseteq blocks'[s] /\ slot'[s] = slot[s]
  BY <1>2 DEF NewSequenceNoSlot
<1>3. ASSUME NEW t \in SeqIds, NEW tokens, Grow(t, tokens)
      PROVE  blocks[s] \subseteq blocks'[s] /\ slot'[s] = slot[s]
  BY <1>3 DEF Grow
<1>4. ASSUME NEW t \in SeqIds, FreeSequence(t)
      PROVE  blocks[s] \subseteq blocks'[s] /\ slot'[s] = slot[s]
  <2>1. t # s
    BY <1>4 DEF FreeSequence
  <2> QED
    BY <1>4, <2>1 DEF FreeSequence
<1>5. CASE UNCHANGED kvVars
  BY <1>5 DEF kvVars
<1> QED
  BY <1>1, <1>2, <1>3, <1>4, <1>5 DEF KVNext

-----------------------------------------------------------------------------
\* Type correctness of the allocators and the coordinator.
THEOREM KVTypeCorrect == KVSpec => []KVTypeOK
<1>1. KVInv => KVTypeOK
  BY DEF KVInv
<1> QED
  BY <1>1, InitInv, NextInv, PTL DEF KVSpec

\* Heap and owner dict agree for ever, in both allocators.
THEOREM FreeOrOwnedAlways == KVSpec => []FreeOrOwned
<1>1. KVInv => FreeOrOwned
  BY DEF KVInv
<1> QED
  BY <1>1, InitInv, NextInv, PTL DEF KVSpec

\* Tables list exactly what the allocators say is owned: nothing is stranded
\* by a failed call, and free_sequence never finds an id that is not its own.
THEOREM TablesMatchOwnersAlways == KVSpec => []TablesMatchOwners
<1>1. KVInv => TablesMatchOwners
  BY DEF KVInv
<1> QED
  BY <1>1, InitInv, NextInv, PTL DEF KVSpec

\* No two registered sequences ever share a block or a slot.
THEOREM NoSharingEver == KVSpec => []NoSharing
BY InitInv, NextInv, InvNoSharing, PTL DEF KVSpec

\* A registered sequence keeps its blocks and its slot until it is freed.
THEOREM HeldUntilFreedHolds == KVSpec => HeldUntilFreed
<1>1. KVTypeOK /\ [KVNext]_kvVars => [Keeps]_kvVars
  BY StepHeld DEF Keeps
<1> QED
  BY <1>1, KVTypeCorrect, PTL DEF KVSpec, HeldUntilFreed

-----------------------------------------------------------------------------
(***************************************************************************)
(* Sequences without repetition: the deque, the skipped list, the running  *)
(* dict and the done list.                                                 *)
(***************************************************************************)
Sorted(s) == \A i, j \in DOMAIN s : i < j => s[i] < s[j]

\* t is s without the element at i: what popleft and removing a dict key do.
Without(t, s, i) ==
    /\ Len(t) = Len(s) - 1
    /\ \A j \in 1 .. Len(t) : t[j] = IF j < i THEN s[j] ELSE s[j + 1]

\* The elements of a sequence, by position.
LEMMA ToSetFacts ==
    ASSUME NEW S, NEW s \in Seq(S)
    PROVE  /\ DOMAIN s = 1 .. Len(s) /\ Len(s) \in Nat
           /\ \A x : x \in ToSet(s) <=> \E i \in 1 .. Len(s) : s[i] = x
           /\ \A i \in 1 .. Len(s) : s[i] \in S
BY DEF ToSet

\* popleft takes the element at 1.
LEMMA TailWithout ==
    ASSUME NEW S, NEW s \in Seq(S), s # <<>>
    PROVE  /\ Tail(s) \in Seq(S) /\ Without(Tail(s), s, 1)
           /\ Head(s) = s[1] /\ 1 \in 1 .. Len(s) /\ Head(s) \in S
<1>1. Tail(s) \in Seq(S) /\ Len(Tail(s)) = Len(s) - 1 /\ Len(s) \in Nat \ {0}
  BY EmptySeq, HeadTailProperties
<1>2. \A i \in 1 .. Len(Tail(s)) : Tail(s)[i] = s[i + 1]
  BY HeadTailProperties
<1>3. Head(s) = s[1] /\ 1 \in 1 .. Len(s)
  BY <1>1
<1>4. Without(Tail(s), s, 1)
  BY <1>1, <1>2 DEF Without
<1> QED BY <1>1, <1>3, <1>4, HeadTailProperties

\* RemoveAt takes the element at i.
LEMMA RemoveAtWithout ==
    ASSUME NEW S, NEW s \in Seq(S), NEW i \in 1 .. Len(s)
    PROVE  RemoveAt(s, i) \in Seq(S) /\ Without(RemoveAt(s, i), s, i)
<1> DEFINE a == SubSeq(s, 1, i - 1)
           b == SubSeq(s, i + 1, Len(s))
<1>1. Len(s) \in Nat /\ i \in Nat /\ \A k \in 1 .. Len(s) : s[k] \in S
  BY ToSetFacts
<1>2. /\ a \in Seq(S) /\ Len(a) = i - 1
      /\ \A k \in 1 .. i - 1 : a[k] = s[k]
  <2>1. 1 \in Int /\ i - 1 \in Int /\ \A k \in 1 .. i - 1 : s[k] \in S
    BY <1>1
  <2>2. /\ a \in Seq(S) /\ Len(a) = IF 1 <= i - 1 THEN i - 1 - 1 + 1 ELSE 0
        /\ \A k \in 1 .. i - 1 - 1 + 1 : a[k] = s[1 + k - 1]
    BY <2>1, SubSeqProperties
  <2> QED BY <1>1, <2>2
<1>3. /\ b \in Seq(S) /\ Len(b) = Len(s) - i
      /\ \A k \in 1 .. Len(s) - i : b[k] = s[i + k]
  <2>1. i + 1 \in Int /\ Len(s) \in Int /\ \A k \in i + 1 .. Len(s) : s[k] \in S
    BY <1>1
  <2>2. /\ b \in Seq(S)
        /\ Len(b) = IF i + 1 <= Len(s) THEN Len(s) - (i + 1) + 1 ELSE 0
        /\ \A k \in 1 .. Len(s) - (i + 1) + 1 : b[k] = s[i + 1 + k - 1]
    BY <2>1, SubSeqProperties
  <2> QED BY <1>1, <2>2
<1> HIDE DEF a, b
<1>4. /\ a \o b \in Seq(S) /\ Len(a \o b) = Len(a) + Len(b)
      /\ \A k \in 1 .. Len(a) + Len(b) :
            (a \o b)[k] = IF k <= Len(a) THEN a[k] ELSE b[k - Len(a)]
  BY <1>2, <1>3, ConcatProperties
<1>5. RemoveAt(s, i) = a \o b
  BY DEF RemoveAt, a, b
<1>6. Len(a \o b) = Len(s) - 1
  BY <1>1, <1>2, <1>3, <1>4
<1>7. ASSUME NEW k \in 1 .. Len(s) - 1
      PROVE  (a \o b)[k] = IF k < i THEN s[k] ELSE s[k + 1]
  <2>1. k \in 1 .. Len(a) + Len(b)
    BY <1>1, <1>2, <1>3
  <2>2. CASE k < i
    <3>1. k <= Len(a) /\ k \in 1 .. i - 1
      BY <1>1, <1>2, <2>2
    <3> QED BY <1>2, <1>4, <2>1, <2>2, <3>1
  <2>3. CASE ~(k < i)
    <3>1. ~(k <= Len(a)) /\ k - Len(a) \in 1 .. Len(s) - i
          /\ i + (k - Len(a)) = k + 1
      BY <1>1, <1>2, <2>3
    <3> QED BY <1>3, <1>4, <2>1, <2>3, <3>1
  <2> QED BY <2>2, <2>3
<1> QED BY <1>4, <1>5, <1>6, <1>7 DEF Without

\* Taking one element out of a sequence without repetition.
LEMMA WithoutFacts ==
    ASSUME NEW S, NEW s \in Seq(S), NEW t \in Seq(S), NEW i \in 1 .. Len(s),
           Without(t, s, i), IsInjective(s)
    PROVE  ToSet(t) = ToSet(s) \ {s[i]} /\ IsInjective(t)
<1>1. /\ Len(s) \in Nat /\ Len(t) \in Nat /\ Len(t) = Len(s) - 1
      /\ DOMAIN s = 1 .. Len(s) /\ DOMAIN t = 1 .. Len(t) /\ i \in Nat
  BY ToSetFacts DEF Without
<1> DEFINE at(j) == IF j < i THEN j ELSE j + 1
<1>2. \A j \in 1 .. Len(t) : t[j] = s[at(j)] /\ at(j) \in 1 .. Len(s) /\ at(j) # i
  BY <1>1 DEF Without
<1>3. \A j, k \in 1 .. Len(t) : at(j) = at(k) => j = k
  BY <1>1
<1>4. \A k \in 1 .. Len(s) : k # i => \E j \in 1 .. Len(t) : at(j) = k
  <2> SUFFICES ASSUME NEW k \in 1 .. Len(s), k # i
               PROVE  \E j \in 1 .. Len(t) : at(j) = k
    OBVIOUS
  <2>1. CASE k < i
    BY <1>1, <2>1
  <2>2. CASE k > i
    <3>1. k - 1 \in 1 .. Len(t) /\ at(k - 1) = k
      BY <1>1, <2>2
    <3> QED BY <3>1
  <2> QED BY <1>1, <2>1, <2>2
<1>5. \A j, k \in 1 .. Len(s) : s[j] = s[k] => j = k
  BY <1>1 DEF IsInjective
<1> HIDE DEF at
<1>6. IsInjective(t)
  <2>1. ASSUME NEW j \in 1 .. Len(t), NEW k \in 1 .. Len(t), t[j] = t[k]
        PROVE  j = k
    <3>1. s[at(j)] = s[at(k)]
      BY <1>2, <2>1
    <3>2. at(j) = at(k)
      BY <1>2, <1>5, <3>1
    <3> QED BY <1>3, <3>2
  <2>2. DOMAIN t = 1 .. Len(t)
    BY <1>1
  <2> QED BY <2>1, <2>2 DEF IsInjective
<1>7. ASSUME NEW x PROVE x \in ToSet(t) <=> x \in ToSet(s) /\ x # s[i]
  <2>1. x \in ToSet(t) <=> \E j \in 1 .. Len(t) : t[j] = x
    BY ToSetFacts
  <2>2. x \in ToSet(s) <=> \E j \in 1 .. Len(s) : s[j] = x
    BY ToSetFacts
  <2>3. ASSUME x \in ToSet(t) PROVE x \in ToSet(s) /\ x # s[i]
    <3>1. PICK j \in 1 .. Len(t) : t[j] = x
      BY <2>1, <2>3
    <3>2. x = s[at(j)] /\ at(j) \in 1 .. Len(s) /\ at(j) # i
      BY <1>2, <3>1
    <3> QED BY <1>5, <2>2, <3>2
  <2>4. ASSUME x \in ToSet(s), x # s[i] PROVE x \in ToSet(t)
    <3>1. PICK k \in 1 .. Len(s) : s[k] = x
      BY <2>2, <2>4
    <3>2. PICK j \in 1 .. Len(t) : at(j) = k
      BY <1>4, <2>4, <3>1
    <3> QED BY <1>2, <2>1, <3>1, <3>2
  <2> QED BY <2>3, <2>4
<1> QED BY <1>6, <1>7

\* Taking one element out keeps the order of the others.
LEMMA WithoutSorted ==
    ASSUME NEW S, NEW s \in Seq(S), NEW t \in Seq(S), NEW i \in 1 .. Len(s),
           Without(t, s, i), Sorted(s)
    PROVE  Sorted(t)
<1>1. /\ Len(s) \in Nat /\ Len(t) \in Nat /\ Len(t) = Len(s) - 1
      /\ DOMAIN s = 1 .. Len(s) /\ DOMAIN t = 1 .. Len(t) /\ i \in Nat
  BY ToSetFacts DEF Without
<1> SUFFICES ASSUME NEW j \in 1 .. Len(t), NEW k \in 1 .. Len(t), j < k
             PROVE  t[j] < t[k]
  BY <1>1 DEF Sorted
<1> DEFINE at(m) == IF m < i THEN m ELSE m + 1
<1>2. /\ t[j] = s[at(j)] /\ t[k] = s[at(k)]
      /\ at(j) \in 1 .. Len(s) /\ at(k) \in 1 .. Len(s) /\ at(j) < at(k)
  BY <1>1 DEF Without
<1> HIDE DEF at
<1> QED BY <1>1, <1>2 DEF Sorted

\* Appending a new element.
LEMMA AppendFacts ==
    ASSUME NEW S, NEW s \in Seq(S), NEW x \in S
    PROVE  /\ Append(s, x) \in Seq(S)
           /\ Len(Append(s, x)) = Len(s) + 1
           /\ ToSet(Append(s, x)) = ToSet(s) \union {x}
           /\ IsInjective(s) /\ x \notin ToSet(s) => IsInjective(Append(s, x))
           /\ S \subseteq Int /\ Sorted(s) /\ (\A y \in ToSet(s) : y < x)
                 => Sorted(Append(s, x))
<1> DEFINE t == Append(s, x)
<1>1. /\ t \in Seq(S) /\ Len(t) = Len(s) + 1
      /\ \A i \in 1 .. Len(s) : t[i] = s[i]
      /\ t[Len(s) + 1] = x
  BY AppendProperties
<1>2. /\ Len(s) \in Nat /\ DOMAIN s = 1 .. Len(s) /\ DOMAIN t = 1 .. Len(t)
      /\ \A i \in 1 .. Len(s) : s[i] \in ToSet(s)
  BY <1>1, ToSetFacts
<1> HIDE DEF t
<1>3. \A i \in 1 .. Len(t) : i \in 1 .. Len(s) \/ i = Len(s) + 1
  BY <1>1, <1>2
<1>4. ASSUME NEW y PROVE y \in ToSet(t) <=> y \in ToSet(s) \/ y = x
  <2>1. y \in ToSet(t) <=> \E j \in 1 .. Len(t) : t[j] = y
    BY <1>1, ToSetFacts
  <2>2. y \in ToSet(s) <=> \E j \in 1 .. Len(s) : s[j] = y
    BY ToSetFacts
  <2>3. Len(s) + 1 \in 1 .. Len(t) /\ \A j \in 1 .. Len(s) : j \in 1 .. Len(t)
    BY <1>1, <1>2
  <2> QED BY <1>1, <1>3, <2>1, <2>2, <2>3
<1>5. ASSUME IsInjective(s), x \notin ToSet(s) PROVE IsInjective(t)
  BY <1>1, <1>2, <1>3, <1>5 DEF IsInjective
<1>6. ASSUME S \subseteq Int, Sorted(s), \A y \in ToSet(s) : y < x
      PROVE  Sorted(t)
  <2> SUFFICES ASSUME NEW j \in 1 .. Len(t), NEW k \in 1 .. Len(t), j < k
               PROVE  t[j] < t[k]
    BY <1>2 DEF Sorted
  <2>1. j \in 1 .. Len(s) /\ t[j] = s[j]
    BY <1>1, <1>2
  <2>2. CASE k \in 1 .. Len(s)
    BY <1>1, <1>2, <1>6, <2>1, <2>2 DEF Sorted
  <2>3. CASE k = Len(s) + 1
    BY <1>1, <1>2, <1>6, <2>1, <2>3
  <2> QED BY <1>3, <2>2, <2>3
<1> QED BY <1>1, <1>4, <1>5, <1>6 DEF t

\* Joining two sequences.
LEMMA ConcatFacts ==
    ASSUME NEW S, NEW s \in Seq(S), NEW t \in Seq(S)
    PROVE  /\ s \o t \in Seq(S)
           /\ Len(s \o t) = Len(s) + Len(t)
           /\ ToSet(s \o t) = ToSet(s) \union ToSet(t)
           /\ S \subseteq Int /\ Sorted(s) /\ Sorted(t)
              /\ (\A x \in ToSet(s), y \in ToSet(t) : x < y) => Sorted(s \o t)
<1> DEFINE u == s \o t
<1>1. /\ u \in Seq(S) /\ Len(u) = Len(s) + Len(t)
      /\ \A i \in 1 .. Len(s) + Len(t) :
            u[i] = IF i <= Len(s) THEN s[i] ELSE t[i - Len(s)]
  BY ConcatProperties
<1>2. /\ Len(s) \in Nat /\ Len(t) \in Nat
      /\ DOMAIN s = 1 .. Len(s) /\ DOMAIN t = 1 .. Len(t)
      /\ DOMAIN u = 1 .. Len(u)
      /\ \A i \in 1 .. Len(s) : s[i] \in ToSet(s)
      /\ \A i \in 1 .. Len(t) : t[i] \in ToSet(t)
  BY <1>1, ToSetFacts
<1> HIDE DEF u
<1>3. /\ \A i \in 1 .. Len(s) : i \in 1 .. Len(u) /\ u[i] = s[i]
      /\ \A i \in 1 .. Len(t) :
            Len(s) + i \in 1 .. Len(u) /\ u[Len(s) + i] = t[i]
  <2>1. ASSUME NEW i \in 1 .. Len(t)
        PROVE  Len(s) + i \in 1 .. Len(u) /\ u[Len(s) + i] = t[i]
    <3>1. /\ Len(s) + i \in 1 .. Len(s) + Len(t) /\ ~(Len(s) + i <= Len(s))
          /\ (Len(s) + i) - Len(s) = i
      BY <1>2
    <3> QED BY <1>1, <3>1
  <2> QED BY <1>1, <1>2, <2>1
<1>4. \A i \in 1 .. Len(u) :
         i \in 1 .. Len(s) \/ \E k \in 1 .. Len(t) : i = Len(s) + k
  <2> SUFFICES ASSUME NEW i \in 1 .. Len(u), i \notin 1 .. Len(s)
               PROVE  \E k \in 1 .. Len(t) : i = Len(s) + k
    OBVIOUS
  <2>1. i - Len(s) \in 1 .. Len(t) /\ i = Len(s) + (i - Len(s))
    BY <1>1, <1>2
  <2> QED BY <2>1
<1>5. ASSUME NEW y PROVE y \in ToSet(u) <=> y \in ToSet(s) \/ y \in ToSet(t)
  <2>1. y \in ToSet(u) <=> \E j \in 1 .. Len(u) : u[j] = y
    BY <1>1, ToSetFacts
  <2>2. y \in ToSet(s) <=> \E j \in 1 .. Len(s) : s[j] = y
    BY ToSetFacts
  <2>3. y \in ToSet(t) <=> \E j \in 1 .. Len(t) : t[j] = y
    BY ToSetFacts
  <2> QED BY <1>3, <1>4, <2>1, <2>2, <2>3
<1>6. ASSUME S \subseteq Int, Sorted(s), Sorted(t),
             \A x \in ToSet(s), y \in ToSet(t) : x < y
      PROVE  Sorted(u)
  <2> SUFFICES ASSUME NEW j \in 1 .. Len(u), NEW k \in 1 .. Len(u), j < k
               PROVE  u[j] < u[k]
    BY <1>2 DEF Sorted
  <2>1. CASE k \in 1 .. Len(s)
    <3>1. j \in 1 .. Len(s)
      BY <1>2, <2>1
    <3> QED BY <1>2, <1>3, <1>6, <2>1, <3>1 DEF Sorted
  <2>2. CASE k \notin 1 .. Len(s) /\ j \in 1 .. Len(s)
    <3>1. PICK m \in 1 .. Len(t) : k = Len(s) + m
      BY <1>4, <2>2
    <3> QED BY <1>2, <1>3, <1>6, <2>2, <3>1
  <2>3. CASE k \notin 1 .. Len(s) /\ j \notin 1 .. Len(s)
    <3>1. PICK m \in 1 .. Len(t) : k = Len(s) + m
      BY <1>4, <2>3
    <3>2. PICK l \in 1 .. Len(t) : j = Len(s) + l
      BY <1>4, <2>3
    <3>3. l < m
      BY <1>2, <3>1, <3>2
    <3> QED BY <1>2, <1>3, <1>6, <3>1, <3>2, <3>3 DEF Sorted
  <2> QED BY <2>1, <2>2, <2>3
<1> QED BY <1>1, <1>5, <1>6 DEF u

-----------------------------------------------------------------------------
(***************************************************************************)
(* blocks_for_tokens: the ceiling of tokens / block size.                  *)
(***************************************************************************)
\* The quotient and remainder of a division by the block size.
LEMMA BlockDivision ==
    ASSUME NEW a \in Nat, NEW b \in Nat \ {0}
    PROVE  /\ a \div b \in Nat
           /\ (a \div b) * b <= a
           /\ a < (a \div b) * b + b
OBVIOUS

\* Multiplying by the block size keeps order by a whole block.
LEMMA BlockMonotone ==
    ASSUME NEW a \in Nat, NEW c \in Nat, NEW b \in Nat \ {0}, a < c
    PROVE  a * b + b <= c * b
<1>1. PICK d \in Nat : c = a + 1 + d
  <2>1. c - a - 1 \in Nat /\ c = a + 1 + (c - a - 1)
    OBVIOUS
  <2> QED BY <2>1
<1>2. c * b = a * b + b + d * b
  BY <1>1
<1>3. d * b \in Nat /\ a * b \in Nat
  OBVIOUS
<1> QED BY <1>2, <1>3

\* Enough blocks for the tokens asked for.
LEMMA BlocksCover ==
    ASSUME NEW t \in Nat
    PROVE  BlocksForTokens(t) \in Nat /\ t <= BlocksForTokens(t) * BlockSize
<1>1. BlockSize \in Nat \ {0}
  BY KVAssumption
<1>2. CASE t > 0
  <2> DEFINE q == (t + BlockSize - 1) \div BlockSize
  <2>1. t + BlockSize - 1 \in Nat
    BY <1>1
  <2>2. q \in Nat /\ t + BlockSize - 1 < q * BlockSize + BlockSize
    BY <1>1, <2>1, BlockDivision
  <2>3. BlocksForTokens(t) = q
    BY <1>2 DEF BlocksForTokens
  <2> HIDE DEF q
  <2>4. t <= q * BlockSize
    <3>1. q * BlockSize \in Nat
      BY <1>1, <2>2
    <3> QED BY <1>1, <2>2, <3>1
  <2> QED BY <2>2, <2>3, <2>4
<1>3. CASE ~(t > 0)
  BY <1>1, <1>3 DEF BlocksForTokens
<1> QED BY <1>2, <1>3

\* A whole number of blocks is its own ceiling: admission asks the
\* coordinator for WorstBlocks * BlockSize tokens and gets WorstBlocks blocks.
LEMMA BlocksExact ==
    ASSUME NEW k \in Nat
    PROVE  BlocksForTokens(k * BlockSize) = k
<1>1. BlockSize \in Nat \ {0}
  BY KVAssumption
<1>2. CASE k = 0
  BY <1>1, <1>2 DEF BlocksForTokens
<1>3. CASE k > 0
  <2> DEFINE a == k * BlockSize + BlockSize - 1
             q == a \div BlockSize
  <2>1. k * BlockSize \in Nat /\ k * BlockSize > 0
    <3>1. k * BlockSize >= BlockSize
      <4>1. 0 * BlockSize + BlockSize <= k * BlockSize
        BY <1>1, <1>3, BlockMonotone
      <4> QED BY <1>1, <4>1
    <3> QED BY <1>1, <3>1
  <2>2. BlocksForTokens(k * BlockSize) = q
    BY <2>1 DEF BlocksForTokens
  <2>3. a \in Nat
    BY <1>1, <2>1
  <2>4. q \in Nat /\ q * BlockSize <= a /\ a < q * BlockSize + BlockSize
        /\ q * BlockSize \in Nat
    BY <1>1, <2>3, BlockDivision
  <2>5. ~(q < k)
    <3> SUFFICES ASSUME q < k PROVE FALSE
      OBVIOUS
    <3>1. q * BlockSize + BlockSize <= k * BlockSize
      BY <1>1, <2>4, BlockMonotone
    <3> HIDE DEF q
    <3> QED BY <1>1, <2>1, <2>4, <3>1
  <2>6. ~(k < q)
    <3> SUFFICES ASSUME k < q PROVE FALSE
      OBVIOUS
    <3>1. k * BlockSize + BlockSize <= q * BlockSize
      BY <1>1, <2>4, BlockMonotone
    <3> HIDE DEF q
    <3> QED BY <1>1, <2>1, <2>4, <3>1
  <2> HIDE DEF q
  <2> QED BY <2>2, <2>4, <2>5, <2>6
<1> QED BY <1>2, <1>3

-----------------------------------------------------------------------------
(***************************************************************************)
(* The heap of free ids.                                                   *)
(***************************************************************************)
\* A nonempty finite set of numbers has a largest one.
LEMMA LargestOf ==
    ASSUME NEW S, IsFiniteSet(S), S # {}, \A x \in S : x \in Int
    PROVE  \E m \in S : \A y \in S : y <= m
<1>1. \A D \in SUBSET SUBSET S :
         D # {} => \E x \in D : \A y \in D : y \subseteq x => y = x
  BY MinimalSubset
<1> DEFINE up(x) == {y \in S : x <= y}
           C == {up(x) : x \in S}
<1>2. C \in SUBSET SUBSET S /\ C # {}
  OBVIOUS
<1>3. PICK u \in C : \A v \in C : v \subseteq u => v = u
  <2> HIDE DEF C
  <2> QED BY <1>1, <1>2
<1>4. PICK m \in S : u = up(m)
  BY <1>3
<1>5. ASSUME NEW y \in S, ~(y <= m) PROVE FALSE
  <2>1. y \in Int /\ m \in Int /\ m < y
    BY <1>5
  <2>2. up(y) \subseteq up(m)
    <3> SUFFICES ASSUME NEW x \in S, y <= x PROVE m <= x
      OBVIOUS
    <3> QED BY <2>1
  <2>3. m \in up(m) /\ m \notin up(y)
    BY <2>1
  <2>4. up(y) \in C
    OBVIOUS
  <2> HIDE DEF up, C
  <2> QED BY <1>3, <1>4, <2>2, <2>3, <2>4
<1> QED BY <1>5

\* As many pops of the heap as there are free ids succeed: the lowest n of a
\* finite set of numbers exist.
LEMMA LowestExists ==
    ASSUME NEW pool, pool.free \in SUBSET Int, IsFiniteSet(pool.free),
           NEW n \in Nat, n <= Cardinality(pool.free)
    PROVE  LowestFree(pool, n) # {}
<1>0. Cardinality(pool.free) \in Nat
  BY FS_CardinalityType
<1> DEFINE F == pool.free
           low(X) == \A x \in X, y \in F \ X : x < y
           C == {X \in SUBSET F : low(X) /\ n <= Cardinality(X)}
<1>1. F \in C
  OBVIOUS
<1>2. PICK X \in C : \A Y \in C : Y \subseteq X => Y = X
  <2>1. C \in SUBSET SUBSET F /\ C # {}
    BY <1>1
  <2> HIDE DEF C
  <2> QED BY <2>1, MinimalSubset
<1>3. X \in SUBSET F /\ IsFiniteSet(X) /\ Cardinality(X) \in Nat /\ low(X)
      /\ n <= Cardinality(X)
  <2>1. X \in SUBSET F /\ low(X) /\ n <= Cardinality(X)
    BY <1>2
  <2>2. IsFiniteSet(X)
    BY <2>1, FS_Subset
  <2>3. Cardinality(X) \in Nat
    BY <2>2, FS_CardinalityType
  <2> HIDE DEF low, C
  <2> QED BY <2>1, <2>2, <2>3
<1>4. Cardinality(X) = n
  <2> SUFFICES ASSUME n < Cardinality(X) PROVE FALSE
    <3>1. n <= Cardinality(X) /\ Cardinality(X) \in Nat
      BY <1>3
    <3> HIDE DEF low, C
    <3> QED BY <3>1
  <2>1. X # {}
    BY FS_EmptySet
  <2>2. PICK m \in X : \A y \in X : y <= m
    BY <1>3, <2>1, LargestOf
  <2> DEFINE Y == X \ {m}
  <2>3. Cardinality(Y) = Cardinality(X) - 1
    BY <1>3, FS_RemoveElement
  <2>4. n <= Cardinality(Y)
    BY <1>3, <2>3
  <2>5. low(Y)
    <3> SUFFICES ASSUME NEW x \in Y, NEW y \in F \ Y PROVE x < y
      OBVIOUS
    <3>1. CASE y \in X
      <4>1. y = m /\ x # m /\ x <= m /\ x \in Int /\ m \in Int
        BY <1>3, <2>2, <3>1
      <4> QED BY <4>1
    <3>2. CASE y \notin X
      BY <1>3, <3>2
    <3> QED BY <3>1, <3>2
  <2>6. Y \in C /\ Y \subseteq X /\ Y # X
    BY <1>3, <2>4, <2>5
  <2> HIDE DEF Y, C
  <2> QED BY <1>2, <2>6
<1> QED BY <1>3, <1>4 DEF LowestFree

-----------------------------------------------------------------------------
(***************************************************************************)
(* The inductive invariant.                                                *)
(***************************************************************************)
\* The four places a request can be in: none twice, none in two, and no id
\* that has not been handed out.
Apart ==
    /\ IsInjective(waiting) /\ IsInjective(skipped)
    /\ IsInjective(running) /\ IsInjective(done)
    /\ ToSet(waiting) \intersect ToSet(skipped) = {}
    /\ ToSet(waiting) \intersect ToSet(running) = {}
    /\ ToSet(waiting) \intersect ToSet(done) = {}
    /\ ToSet(skipped) \intersect ToSet(running) = {}
    /\ ToSet(skipped) \intersect ToSet(done) = {}
    /\ ToSet(running) \intersect ToSet(done) = {}
    /\ \A x \in ToSet(waiting) \union ToSet(skipped) \union ToSet(running)
                  \union ToSet(done) : x < nextSeq

\* Between them the places have all the ids handed out so far.
Counted ==
    /\ Len(waiting) + Len(skipped) + Len(running) + Len(done) = nextSeq
    /\ ToSet(waiting) \union ToSet(skipped) \union ToSet(running)
         \union ToSet(done) = 0 .. nextSeq - 1

\* Both halves of the queue are in arrival order, and pump's skipped list
\* goes before what it has not looked at.
Order ==
    /\ Sorted(skipped) /\ Sorted(waiting)
    /\ \A x \in ToSet(skipped), y \in ToSet(waiting) : x < y

\* A snapshot exists only while it is executed; its entries are of different
\* sequences, all of them running.
Snapshot ==
    /\ pc # "exec" => todo = <<>>
    /\ \A i \in DOMAIN todo : todo[i].seq \in ToSet(running)
    /\ \A i, j \in DOMAIN todo : todo[i].seq = todo[j].seq => i = j

\* A request still queued has done nothing and has something to do.
Untouched(r) == r.position = 0 /\ r.generated = 0 /\ r.maxNew > 0

\* What a running sequence holds, and how far it can have come.
Reserved(s) ==
    /\ Cardinality(blocks[s]) = WorstBlocks(s)
    /\ req[s].position <= req[s].promptLen
    /\ req[s].generated < req[s].maxNew
    /\ slot[s] # NoSlot <=> req[s].useState

Held ==
    /\ tables = ToSet(running)
    /\ \A s \in tables : Reserved(s)
    /\ \A s \in ToSet(waiting) \union ToSet(skipped) : Untouched(req[s])

\* What holds of the scheduler also inside the server, which forgets finished
\* requests and may use up an id without a request.
EngineInv == KVInv /\ SchedTypeOK /\ Apart /\ Order /\ Snapshot /\ Held

SchedInv == EngineInv /\ Counted

-----------------------------------------------------------------------------
\* The types of the queues, spelled out.
LEMMA QueueTypes ==
    ASSUME SchedTypeOK
    PROVE  /\ waiting \in Seq(SeqIds) /\ Len(waiting) \in Nat
           /\ skipped \in Seq(SeqIds) /\ Len(skipped) \in Nat
           /\ running \in Seq(SeqIds) /\ Len(running) \in Nat
           /\ done \in Seq(SeqIds) /\ Len(done) \in Nat
           /\ nextSeq \in Nat /\ SeqIds \subseteq Nat
           /\ ToSet(waiting) \subseteq SeqIds /\ ToSet(skipped) \subseteq SeqIds
           /\ ToSet(running) \subseteq SeqIds /\ ToSet(done) \subseteq SeqIds
           /\ DOMAIN running = 1 .. Len(running)
           /\ DOMAIN waiting = 1 .. Len(waiting)
<1>1. /\ waiting \in Seq(SeqIds) /\ skipped \in Seq(SeqIds)
      /\ running \in Seq(SeqIds) /\ done \in Seq(SeqIds)
      /\ nextSeq \in Nat /\ SeqIds \subseteq Nat
  BY SchedulerAssumption DEF SchedTypeOK
<1>2. \A s \in Seq(SeqIds) : /\ Len(s) \in Nat /\ DOMAIN s = 1 .. Len(s)
                             /\ ToSet(s) \subseteq SeqIds
  <2> SUFFICES ASSUME NEW s \in Seq(SeqIds)
               PROVE  /\ Len(s) \in Nat /\ DOMAIN s = 1 .. Len(s)
                      /\ \A x \in ToSet(s) : x \in SeqIds
    OBVIOUS
  <2> QED BY ToSetFacts
<1> QED BY <1>1, <1>2

\* A record of a request: its sizes are numbers.
LEMMA RequestTypes ==
    ASSUME NEW r \in Request
    PROVE  /\ r.promptLen \in Nat /\ r.maxNew \in Nat /\ r.useState \in BOOLEAN
           /\ r.position \in Nat /\ r.generated \in Nat
<1>1. /\ r.promptLen \in PromptLens \union {0}
      /\ r.maxNew \in MaxNews \union {0}
  BY DEF Request
<1>2. r.useState \in BOOLEAN /\ r.position \in Nat /\ r.generated \in Nat
  BY DEF Request
<1>3. \A x \in PromptLens \union MaxNews \union {0} : x \in Nat
  BY SchedulerAssumption
<1> QED BY <1>1, <1>2, <1>3

\* The worst case of a request is a number of blocks.
LEMMA WorstBlocksNat ==
    ASSUME SchedTypeOK, NEW s \in SeqIds
    PROVE  WorstBlocks(s) \in Nat
<1>1. req[s] \in Request
  BY DEF SchedTypeOK
<1>2. req[s].promptLen + req[s].maxNew \in Nat
  BY <1>1, RequestTypes
<1> QED BY <1>2, BlocksCover DEF WorstBlocks

\* The empty sequence has no elements and repeats none.
LEMMA EmptyFacts ==
    /\ ToSet(<<>>) = {} /\ IsInjective(<<>>) /\ Sorted(<<>>) /\ Len(<<>>) = 0
    /\ \A S : <<>> \in Seq(S)
BY DEF ToSet, IsInjective, Sorted

\* An engine that has just started satisfies the invariant.
LEMMA SchedInitInv ==
    ASSUME Init
    PROVE  SchedInv
<1>1. KVInv
  BY InitInv DEF Init
<1>2. \A s \in SeqIds : NewRequest(0, 0, FALSE) \in Request
  BY DEF NewRequest, Request
<1>3. SchedTypeOK
  BY <1>2, EmptyFacts DEF Init, SchedTypeOK
<1>4. Apart /\ Counted /\ Order
  BY EmptyFacts DEF Init, Apart, Counted, Order
<1>5. Snapshot
  BY DEF Init, Snapshot
<1>6. Held
  BY EmptyFacts DEF Init, KVInit, Held
<1> QED BY <1>1, <1>3, <1>4, <1>5, <1>6 DEF SchedInv, EngineInv

\* submit.
LEMMA AddInv ==
    ASSUME EngineInv, NEW p \in PromptLens, NEW m \in MaxNews,
           NEW u \in UseStates, Add(p, m, u)
    PROVE  EngineInv' /\ (Counted => Counted')
<1>1. /\ nextSeq \in SeqIds
      /\ waiting' = Append(waiting, nextSeq)
      /\ req' = [req EXCEPT ![nextSeq] = NewRequest(p, m, u)]
      /\ nextSeq' = nextSeq + 1
      /\ UNCHANGED kvVars
      /\ skipped' = skipped /\ running' = running /\ done' = done
      /\ todo' = todo /\ pc' = pc
  BY DEF Add
<1>2. SchedTypeOK /\ Apart /\ Order /\ Snapshot /\ Held /\ KVInv
  BY DEF EngineInv
<1>3. KVInv'
  BY <1>1, <1>2, KVStutterInv
<1>4. \A x \in ToSet(waiting) \union ToSet(skipped) \union ToSet(running)
                 \union ToSet(done) : x \in Nat /\ x < nextSeq
  BY <1>2, QueueTypes DEF Apart
<1>5. nextSeq \in Nat /\ nextSeq \notin ToSet(waiting) \union ToSet(skipped)
         \union ToSet(running) \union ToSet(done)
  BY <1>2, <1>4, QueueTypes
<1>6. /\ waiting' \in Seq(SeqIds) /\ Len(waiting') = Len(waiting) + 1
      /\ ToSet(waiting') = ToSet(waiting) \union {nextSeq}
      /\ IsInjective(waiting')
      /\ Sorted(waiting')
  <2>1. waiting \in Seq(SeqIds) /\ SeqIds \subseteq Int
    BY <1>2, QueueTypes
  <2>2. /\ IsInjective(waiting) /\ nextSeq \notin ToSet(waiting)
        /\ Sorted(waiting) /\ \A y \in ToSet(waiting) : y < nextSeq
    BY <1>2, <1>4, <1>5 DEF Apart, Order
  <2>3. Sorted(waiting')
    BY <1>1, <2>1, <2>2, AppendFacts
  <2> QED BY <1>1, <2>1, <2>2, <2>3, AppendFacts
<1>7. NewRequest(p, m, u) \in Request /\ Untouched(NewRequest(p, m, u))
  BY SchedulerAssumption DEF NewRequest, Request, Untouched
<1>8. SchedTypeOK'
  BY <1>1, <1>2, <1>5, <1>6, <1>7 DEF SchedTypeOK
<1>9. Apart' /\ (Counted => Counted')
  <2>1. 0 .. nextSeq' - 1 = (0 .. nextSeq - 1) \union {nextSeq}
    BY <1>1, <1>5
  <2>2. Counted =>
           Len(waiting') + Len(skipped') + Len(running') + Len(done') = nextSeq'
    BY <1>1, <1>2, <1>6, QueueTypes DEF Counted
  <2>3. Counted => Counted'
    BY <1>1, <1>2, <1>5, <1>6, <2>1, <2>2 DEF Counted
  <2>4. Apart'
    BY <1>1, <1>2, <1>4, <1>5, <1>6, QueueTypes DEF Apart
  <2> QED BY <2>3, <2>4
<1>10. Order'
  BY <1>1, <1>2, <1>4, <1>6 DEF Order
<1>11. Snapshot'
  BY <1>1, <1>2 DEF Snapshot
<1>12. Held'
  <2>1. \A s \in SeqIds \ {nextSeq} : req'[s] = req[s]
    BY <1>1, <1>2 DEF SchedTypeOK
  <2>2. \A s \in tables : s \in SeqIds /\ s # nextSeq
    BY <1>2, <1>5, QueueTypes DEF Held
  <2>3. \A s \in tables : Reserved(s)'
    BY <1>1, <1>2, <2>1, <2>2 DEF Held, Reserved, WorstBlocks, kvVars
  <2>4. req'[nextSeq] = NewRequest(p, m, u)
    BY <1>1, <1>2 DEF SchedTypeOK
  <2>5. \A s \in ToSet(waiting') \union ToSet(skipped') : Untouched(req'[s])
    BY <1>1, <1>2, <1>5, <1>6, <1>7, <2>1, <2>4, QueueTypes DEF Held
  <2> QED BY <1>1, <1>2, <2>3, <2>5 DEF Held, kvVars
<1> QED BY <1>3, <1>8, <1>9, <1>10, <1>11, <1>12 DEF EngineInv

\* Leaving the running dict, by an abort or at the end of advance: the
\* sequence is freed and becomes done, and nothing else moves.
LEMMA LeaveFacts ==
    ASSUME EngineInv, NEW i \in DOMAIN running, FreeSequence(running[i]),
           running' = RemoveAt(running, i), done' = Append(done, running[i]),
           UNCHANGED <<waiting, skipped, nextSeq>>
    PROVE  /\ KVInv' /\ Apart' /\ (Counted => Counted')
           /\ running' \in Seq(SeqIds) /\ done' \in Seq(SeqIds)
           /\ running[i] \in ToSet(running) /\ running[i] \in SeqIds
           /\ ToSet(running') = ToSet(running) \ {running[i]}
           /\ ToSet(done') = ToSet(done) \union {running[i]}
           /\ Len(running') = Len(running) - 1
           /\ tables' = tables \ {running[i]}
           /\ \A s \in SeqIds \ {running[i]} :
                 blocks'[s] = blocks[s] /\ slot'[s] = slot[s]
<1> DEFINE x == running[i]
<1>1. SchedTypeOK /\ Apart /\ KVInv
  BY DEF EngineInv
<1>2. i \in 1 .. Len(running) /\ x \in ToSet(running) /\ x \in SeqIds
      /\ x \notin ToSet(done)
  BY <1>1, QueueTypes, ToSetFacts DEF Apart
<1>3. KVInv'
  BY <1>1, <1>2, FreeSequenceInv
<1>4. running' \in Seq(SeqIds) /\ Without(running', running, i)
  BY <1>1, <1>2, QueueTypes, RemoveAtWithout
<1>5. /\ ToSet(running') = ToSet(running) \ {x} /\ IsInjective(running')
      /\ Len(running') = Len(running) - 1
  <2>1. ToSet(running') = ToSet(running) \ {x} /\ IsInjective(running')
    BY <1>1, <1>2, <1>4, QueueTypes, WithoutFacts DEF Apart
  <2> QED BY <1>4, <2>1 DEF Without
<1>6. /\ done' \in Seq(SeqIds) /\ ToSet(done') = ToSet(done) \union {x}
      /\ IsInjective(done') /\ Len(done') = Len(done) + 1
  BY <1>1, <1>2, QueueTypes, AppendFacts DEF Apart
<1>7. Apart' /\ (Counted => Counted')
  <2>1. Counted =>
           Len(waiting') + Len(skipped') + Len(running') + Len(done') = nextSeq'
    BY <1>1, <1>5, <1>6, QueueTypes DEF Counted
  <2> HIDE DEF x
  <2>2. Counted => Counted'
    BY <1>1, <1>2, <1>5, <1>6, <2>1 DEF Counted
  <2>3. Apart'
    BY <1>1, <1>2, <1>5, <1>6, QueueTypes DEF Apart
  <2> QED BY <2>2, <2>3
<1>8. /\ tables' = tables \ {x}
      /\ \A s \in SeqIds \ {x} : blocks'[s] = blocks[s] /\ slot'[s] = slot[s]
  BY <1>1, <1>2 DEF FreeSequence, KVInv, KVTypeOK
<1> QED BY <1>2, <1>3, <1>4, <1>5, <1>6, <1>7, <1>8

\* abort of a running request.
LEMMA AbortRunningInv ==
    ASSUME EngineInv, NEW i \in DOMAIN running, AbortRunning(i)
    PROVE  EngineInv' /\ (Counted => Counted')
<1>1. /\ pc = "idle" /\ FreeSequence(running[i])
      /\ running' = RemoveAt(running, i) /\ done' = Append(done, running[i])
      /\ waiting' = waiting /\ skipped' = skipped /\ req' = req
      /\ todo' = todo /\ pc' = pc /\ nextSeq' = nextSeq
  BY DEF AbortRunning
<1>2. SchedTypeOK /\ Order /\ Snapshot /\ Held
  BY DEF EngineInv
<1>3. /\ KVInv' /\ Apart' /\ (Counted => Counted')
      /\ running' \in Seq(SeqIds) /\ done' \in Seq(SeqIds)
      /\ ToSet(running') = ToSet(running) \ {running[i]}
      /\ tables' = tables \ {running[i]}
      /\ \A s \in SeqIds \ {running[i]} :
            blocks'[s] = blocks[s] /\ slot'[s] = slot[s]
  BY <1>1, LeaveFacts
<1>4. SchedTypeOK'
  BY <1>1, <1>2, <1>3 DEF SchedTypeOK
<1>5. Order'
  BY <1>1, <1>2 DEF Order
<1>6. Snapshot'
  BY <1>1, <1>2 DEF Snapshot
<1>7. Held'
  <2>1. \A s \in tables' : s \in SeqIds \ {running[i]} /\ Reserved(s)
    BY <1>2, <1>3, QueueTypes DEF Held
  <2>2. \A s \in tables' : Reserved(s)'
    BY <1>1, <1>3, <2>1 DEF Reserved, WorstBlocks
  <2> QED BY <1>1, <1>2, <1>3, <2>2 DEF Held
<1> QED BY <1>3, <1>4, <1>5, <1>6, <1>7 DEF EngineInv

\* abort of a waiting request.
LEMMA AbortWaitingInv ==
    ASSUME EngineInv, NEW i \in DOMAIN waiting, AbortWaiting(i)
    PROVE  EngineInv' /\ (Counted => Counted')
<1> DEFINE x == waiting[i]
<1>1. /\ pc = "idle"
      /\ waiting' = RemoveAt(waiting, i) /\ done' = Append(done, x)
      /\ UNCHANGED kvVars /\ running' = running /\ skipped' = skipped
      /\ req' = req /\ todo' = todo /\ pc' = pc /\ nextSeq' = nextSeq
  BY DEF AbortWaiting
<1>2. SchedTypeOK /\ Apart /\ Order /\ Snapshot /\ Held /\ KVInv
  BY DEF EngineInv
<1>3. KVInv'
  BY <1>1, <1>2, KVStutterInv
<1>4. i \in 1 .. Len(waiting) /\ x \in ToSet(waiting) /\ x \in SeqIds
      /\ x \notin ToSet(done)
  BY <1>2, QueueTypes, ToSetFacts DEF Apart
<1>5. waiting' \in Seq(SeqIds) /\ Without(waiting', waiting, i)
  BY <1>1, <1>2, <1>4, QueueTypes, RemoveAtWithout
<1>6. /\ ToSet(waiting') = ToSet(waiting) \ {x} /\ IsInjective(waiting')
      /\ Len(waiting') = Len(waiting) - 1
  <2>1. ToSet(waiting') = ToSet(waiting) \ {x} /\ IsInjective(waiting')
    BY <1>2, <1>4, <1>5, QueueTypes, WithoutFacts DEF Apart
  <2> QED BY <1>5, <2>1 DEF Without
<1>7. Sorted(waiting')
  BY <1>2, <1>4, <1>5, QueueTypes, WithoutSorted DEF Order
<1>8. /\ done' \in Seq(SeqIds) /\ ToSet(done') = ToSet(done) \union {x}
      /\ IsInjective(done') /\ Len(done') = Len(done) + 1
  BY <1>1, <1>2, <1>4, QueueTypes, AppendFacts DEF Apart
<1> HIDE DEF x
<1>9. SchedTypeOK'
  BY <1>1, <1>2, <1>5, <1>8 DEF SchedTypeOK
<1>10. Apart' /\ (Counted => Counted')
  <2>1. Counted =>
           Len(waiting') + Len(skipped') + Len(running') + Len(done') = nextSeq'
    BY <1>1, <1>2, <1>6, <1>8, QueueTypes DEF Counted
  <2>2. Counted => Counted'
    BY <1>1, <1>2, <1>4, <1>6, <1>8, <2>1 DEF Counted
  <2>3. Apart'
    BY <1>1, <1>2, <1>4, <1>6, <1>8, QueueTypes DEF Apart
  <2> QED BY <2>2, <2>3
<1>11. Order'
  BY <1>1, <1>2, <1>6, <1>7 DEF Order
<1>12. Snapshot'
  BY <1>1, <1>2 DEF Snapshot
<1>13. Held'
  BY <1>1, <1>2, <1>6 DEF Held, Reserved, WorstBlocks, kvVars
<1> QED BY <1>3, <1>9, <1>10, <1>11, <1>12, <1>13 DEF EngineInv

\* The boundaries of a step move nothing.
LEMMA BoundaryInv ==
    ASSUME EngineInv, BeginStep \/ EndStep
    PROVE  EngineInv' /\ (Counted => Counted')
<1>1. /\ UNCHANGED kvVars /\ waiting' = waiting /\ skipped' = skipped
      /\ running' = running /\ done' = done /\ req' = req
      /\ todo' = todo /\ nextSeq' = nextSeq /\ todo = <<>>
      /\ pc' \in {"idle", "pump", "exec"}
  BY DEF BeginStep, EndStep, queueVars, EngineInv, Snapshot
<1>2. KVInv /\ SchedTypeOK /\ Apart /\ Order /\ Snapshot /\ Held
  BY DEF EngineInv
<1>3. KVInv'
  BY <1>1, <1>2, KVStutterInv
<1>4. /\ SchedTypeOK' /\ Apart' /\ Order' /\ Snapshot'
      /\ Counted => Counted'
  BY <1>1, <1>2 DEF SchedTypeOK, Apart, Counted, Order, Snapshot
<1>5. Held'
  BY <1>1, <1>2 DEF Held, Reserved, WorstBlocks, kvVars
<1> QED BY <1>3, <1>4, <1>5 DEF EngineInv

\* A step that leaves the scheduler alone.
LEMMA SchedStutterInv ==
    ASSUME EngineInv, UNCHANGED vars
    PROVE  EngineInv' /\ (Counted => Counted')
<1>1. /\ UNCHANGED kvVars /\ waiting' = waiting /\ skipped' = skipped
      /\ running' = running /\ done' = done /\ req' = req
      /\ todo' = todo /\ nextSeq' = nextSeq /\ pc' = pc
  BY DEF vars, schedVars, queueVars
<1>2. KVInv /\ SchedTypeOK /\ Apart /\ Order /\ Snapshot /\ Held
  BY DEF EngineInv
<1>3. KVInv'
  BY <1>1, <1>2, KVStutterInv
<1>4. /\ SchedTypeOK' /\ Apart' /\ Order' /\ Snapshot'
      /\ Counted => Counted'
  BY <1>1, <1>2 DEF SchedTypeOK, Apart, Counted, Order, Snapshot
<1>5. Held'
  BY <1>1, <1>2 DEF Held, Reserved, WorstBlocks, kvVars
<1> QED BY <1>3, <1>4, <1>5 DEF EngineInv

\* The head of the deque: where popleft leaves the deque.
LEMMA PopFacts ==
    ASSUME EngineInv, waiting # <<>>, waiting' = Tail(waiting)
    PROVE  /\ Head(waiting) \in SeqIds /\ Head(waiting) \in ToSet(waiting)
           /\ waiting' \in Seq(SeqIds) /\ Len(waiting') = Len(waiting) - 1
           /\ ToSet(waiting') = ToSet(waiting) \ {Head(waiting)}
           /\ IsInjective(waiting') /\ Sorted(waiting')
           /\ \A y \in ToSet(waiting') : Head(waiting) < y
<1>1. SchedTypeOK /\ Apart /\ Order /\ waiting \in Seq(SeqIds)
  BY QueueTypes DEF EngineInv
<1>2. /\ waiting' \in Seq(SeqIds) /\ Without(waiting', waiting, 1)
      /\ Head(waiting) = waiting[1] /\ 1 \in 1 .. Len(waiting)
      /\ Head(waiting) \in SeqIds
  BY <1>1, TailWithout
<1>3. ToSet(waiting') = ToSet(waiting) \ {Head(waiting)} /\ IsInjective(waiting')
  <2>1. ToSet(waiting') = ToSet(waiting) \ {waiting[1]} /\ IsInjective(waiting')
    <3>1. IsInjective(waiting)
      BY <1>1 DEF Apart
    <3> QED BY ONLY <1>1, <1>2, <3>1, WithoutFacts
  <2> QED BY <1>2, <2>1
<1>4. Sorted(waiting')
  BY <1>1, <1>2, WithoutSorted DEF Order
<1>5. Head(waiting) \in ToSet(waiting)
  BY <1>1, <1>2, ToSetFacts
<1>6. ASSUME NEW y \in ToSet(waiting') PROVE Head(waiting) < y
  <2>1. PICK k \in 1 .. Len(waiting) : waiting[k] = y
    BY <1>1, <1>3, <1>6, ToSetFacts
  <2>2. k # 1
    BY <1>2, <1>3, <1>6, <2>1
  <2>3. 1 < k /\ DOMAIN waiting = 1 .. Len(waiting)
    BY <1>1, <2>1, <2>2, QueueTypes
  <2> QED BY <1>1, <1>2, <2>1, <2>3 DEF Order, Sorted
<1> QED BY <1>2, <1>3, <1>4, <1>5, <1>6 DEF Without

\* pump admits the head of the deque.
LEMMA AdmitInv ==
    ASSUME EngineInv, Admit
    PROVE  EngineInv' /\ (Counted => Counted')
<1>0. PICK h : h = Head(waiting)
  OBVIOUS
<1> DEFINE w == WorstBlocks(h)
<1>1. /\ pc = "pump" /\ waiting # <<>>
      /\ NewSequence(h, w * BlockSize, req[h].useState)
      /\ waiting' = Tail(waiting) /\ running' = Append(running, h)
      /\ skipped' = skipped /\ done' = done /\ req' = req
      /\ todo' = todo /\ pc' = pc /\ nextSeq' = nextSeq
  BY <1>0 DEF Admit
<1>2. SchedTypeOK /\ Apart /\ Order /\ Snapshot /\ Held /\ KVInv
  BY DEF EngineInv
<1>3. /\ h \in SeqIds /\ h \in ToSet(waiting)
      /\ waiting' \in Seq(SeqIds) /\ Len(waiting') = Len(waiting) - 1
      /\ ToSet(waiting') = ToSet(waiting) \ {h}
      /\ IsInjective(waiting') /\ Sorted(waiting')
  BY <1>0, <1>1, PopFacts DEF SchedInv
<1>4. KVInv'
  BY <1>1, <1>2, <1>3, NewSequenceInv
<1>5. h \notin ToSet(running) /\ h \notin ToSet(skipped) /\ h \notin ToSet(done)
  BY <1>2, <1>3 DEF Apart
<1>6. /\ running' \in Seq(SeqIds) /\ Len(running') = Len(running) + 1
      /\ ToSet(running') = ToSet(running) \union {h} /\ IsInjective(running')
  BY <1>1, <1>2, <1>3, <1>5, QueueTypes, AppendFacts DEF Apart
<1>7. w \in Nat /\ BlocksForTokens(w * BlockSize) = w
      /\ req[h] \in Request
  <2>1. req[h] \in Request
    BY <1>2, <1>3 DEF SchedTypeOK
  <2>2. req[h].promptLen + req[h].maxNew \in Nat
    BY <2>1, RequestTypes
  <2> QED BY <2>1, <2>2, BlocksCover, BlocksExact DEF WorstBlocks
<1>8. /\ tables' = tables \union {h}
      /\ Cardinality(blocks'[h]) = w
      /\ slot'[h] # NoSlot <=> req[h].useState
      /\ \A s \in SeqIds \ {h} : blocks'[s] = blocks[s] /\ slot'[s] = slot[s]
  <2>1. PICK ids \in LowestFree(kv, BlocksForTokens(w * BlockSize)) :
           blocks' = [blocks EXCEPT ![h] = ids]
    BY <1>1 DEF NewSequence
  <2>2. blocks \in [SeqIds -> SUBSET Blocks]
        /\ slot \in [SeqIds -> Slots \union {NoSlot}]
    BY <1>2 DEF KVInv, KVTypeOK
  <2>3. Cardinality(blocks'[h]) = w
        /\ \A s \in SeqIds \ {h} : blocks'[s] = blocks[s]
    BY <1>3, <1>7, <2>1, <2>2 DEF LowestFree
  <2>4. slot[h] = NoSlot
    BY <1>1, <1>2, <1>3 DEF KVInv, TablesMatchOwners, NewSequence
  <2>5. \A sl \in Slots : sl # NoSlot
    BY KVAssumption DEF Slots
  <2>6. /\ slot'[h] # NoSlot <=> req[h].useState
        /\ \A s \in SeqIds \ {h} : slot'[s] = slot[s]
    <3>1. CASE req[h].useState
      <4>1. PICK sl \in Slots : slot' = [slot EXCEPT ![h] = sl]
        BY <1>1, <3>1 DEF NewSequence
      <4> QED BY <1>3, <2>2, <2>5, <3>1, <4>1
    <3>2. CASE ~req[h].useState
      <4>1. slot' = slot
        BY <1>1, <3>2 DEF NewSequence
      <4> QED BY <2>4, <3>2, <4>1
    <3> QED BY <3>1, <3>2
  <2> QED BY <1>1, <2>3, <2>6 DEF NewSequence
<1> HIDE DEF w
<1>9. SchedTypeOK'
  BY <1>1, <1>2, <1>3, <1>6 DEF SchedTypeOK
<1>10. Apart' /\ (Counted => Counted')
  <2>1. Counted =>
           Len(waiting') + Len(skipped') + Len(running') + Len(done') = nextSeq'
    BY <1>1, <1>2, <1>3, <1>6, QueueTypes DEF Counted
  <2>2. Counted => Counted'
    BY <1>1, <1>2, <1>3, <1>5, <1>6, <2>1 DEF Counted
  <2>3. Apart'
    BY <1>1, <1>2, <1>3, <1>5, <1>6, QueueTypes DEF Apart
  <2> QED BY <2>2, <2>3
<1>11. Order'
  BY <1>1, <1>2, <1>3 DEF Order
<1>12. Snapshot'
  BY <1>1, <1>2, <1>6 DEF Snapshot
<1>13. Held'
  <2>1. Untouched(req[h])
    BY <1>2, <1>3 DEF Held
  <2>2. Reserved(h)'
    <3>1. /\ req[h].position <= req[h].promptLen
          /\ req[h].generated < req[h].maxNew
      BY <1>7, <2>1, RequestTypes DEF Untouched
    <3>2. WorstBlocks(h)' = w
      BY <1>1 DEF WorstBlocks, w
    <3> QED BY <1>1, <1>8, <3>1, <3>2 DEF Reserved
  <2>3. ASSUME NEW s \in tables PROVE Reserved(s)'
    <3>1. s \in SeqIds /\ s # h /\ Reserved(s)
      BY <1>2, <1>5, QueueTypes DEF Held
    <3> QED BY <1>1, <1>8, <3>1 DEF Reserved, WorstBlocks
  <2> QED BY <1>1, <1>2, <1>3, <1>6, <1>8, <2>2, <2>3 DEF Held
<1> QED BY <1>4, <1>9, <1>10, <1>11, <1>12, <1>13 DEF EngineInv

\* pump puts aside a request that does not fit.
LEMMA SkipInv ==
    ASSUME EngineInv, Skip
    PROVE  EngineInv' /\ (Counted => Counted')
<1> DEFINE h == Head(waiting)
<1>1. /\ pc = "pump" /\ waiting # <<>>
      /\ waiting' = Tail(waiting) /\ skipped' = Append(skipped, h)
      /\ UNCHANGED kvVars /\ running' = running /\ done' = done /\ req' = req
      /\ todo' = todo /\ pc' = pc /\ nextSeq' = nextSeq
  BY DEF Skip
<1>2. SchedTypeOK /\ Apart /\ Order /\ Snapshot /\ Held /\ KVInv
  BY DEF EngineInv
<1>3. /\ h \in SeqIds /\ h \in ToSet(waiting)
      /\ waiting' \in Seq(SeqIds) /\ Len(waiting') = Len(waiting) - 1
      /\ ToSet(waiting') = ToSet(waiting) \ {h}
      /\ IsInjective(waiting') /\ Sorted(waiting')
      /\ \A y \in ToSet(waiting') : h < y
  BY <1>1, PopFacts
<1>4. KVInv'
  BY <1>1, <1>2, KVStutterInv
<1>5. h \notin ToSet(running) /\ h \notin ToSet(skipped) /\ h \notin ToSet(done)
  BY <1>2, <1>3 DEF Apart
<1>6. /\ skipped' \in Seq(SeqIds) /\ Len(skipped') = Len(skipped) + 1
      /\ ToSet(skipped') = ToSet(skipped) \union {h}
      /\ IsInjective(skipped') /\ Sorted(skipped')
  <2>1. skipped \in Seq(SeqIds) /\ SeqIds \subseteq Int
    BY <1>2, QueueTypes
  <2>2. /\ IsInjective(skipped) /\ Sorted(skipped)
        /\ \A y \in ToSet(skipped) : y < h
    BY <1>2, <1>3 DEF Apart, Order
  <2>3. Sorted(skipped')
    BY <1>1, <1>3, <2>1, <2>2, AppendFacts
  <2> QED BY <1>1, <1>3, <1>5, <2>1, <2>2, <2>3, AppendFacts
<1> HIDE DEF h
<1>7. SchedTypeOK'
  BY <1>1, <1>2, <1>3, <1>6 DEF SchedTypeOK
<1>8. Apart' /\ (Counted => Counted')
  <2>1. Counted =>
           Len(waiting') + Len(skipped') + Len(running') + Len(done') = nextSeq'
    BY <1>1, <1>2, <1>3, <1>6, QueueTypes DEF Counted
  <2>2. Counted => Counted'
    BY <1>1, <1>2, <1>3, <1>5, <1>6, <2>1 DEF Counted
  <2>3. Apart'
    BY <1>1, <1>2, <1>3, <1>5, <1>6, QueueTypes DEF Apart
  <2> QED BY <2>2, <2>3
<1>9. Order'
  BY <1>1, <1>2, <1>3, <1>6 DEF Order
<1>10. Snapshot'
  BY <1>1, <1>2 DEF Snapshot
<1>11. Held'
  BY <1>1, <1>2, <1>3, <1>6 DEF Held, Reserved, WorstBlocks, kvVars
<1> QED BY <1>4, <1>7, <1>8, <1>9, <1>10, <1>11 DEF EngineInv

\* An entry of a schedule is well formed.
LEMMA EntryTypes ==
    ASSUME SchedTypeOK, NEW s \in SeqIds
    PROVE  EntryFor(s) \in Entry /\ EntryFor(s).seq = s
<1>1. req[s] \in Request
  BY DEF SchedTypeOK
<1>2. /\ req[s].promptLen \in Nat /\ req[s].position \in Nat
      /\ ChunkSize \in Nat
  BY <1>1, RequestTypes, SchedulerAssumption
<1>3. req[s].position < req[s].promptLen => ChunkOf(req[s]) \in Nat
  BY <1>2 DEF ChunkOf
<1> QED BY <1>3 DEF EntryFor, Entry

\* The end of pump, and the snapshot.
LEMMA ScheduleInv ==
    ASSUME EngineInv, Schedule
    PROVE  EngineInv' /\ (Counted => Counted')
<1>1. /\ pc = "pump" /\ waiting = <<>> /\ waiting' = skipped /\ skipped' = <<>>
      /\ todo' = [i \in DOMAIN running |-> EntryFor(running[i])]
      /\ pc' = "exec" /\ UNCHANGED kvVars
      /\ running' = running /\ done' = done /\ req' = req /\ nextSeq' = nextSeq
  BY DEF Schedule
<1>2. SchedTypeOK /\ Apart /\ Order /\ Snapshot /\ Held /\ KVInv
  BY DEF EngineInv
<1>3. KVInv'
  BY <1>1, <1>2, KVStutterInv
<1>4. /\ DOMAIN running = 1 .. Len(running) /\ Len(running) \in Nat
      /\ \A i \in 1 .. Len(running) :
            running[i] \in SeqIds /\ running[i] \in ToSet(running)
  BY <1>2, QueueTypes, ToSetFacts
<1>5. \A i \in 1 .. Len(running) :
         EntryFor(running[i]) \in Entry /\ EntryFor(running[i]).seq = running[i]
  BY <1>2, <1>4, EntryTypes
<1>6. todo' \in Seq(Entry) /\ DOMAIN todo' = 1 .. Len(running)
  <2>1. todo' \in [1 .. Len(running) -> Entry]
    BY <1>1, <1>4, <1>5
  <2> QED BY <1>4, <2>1
<1>7. \A i \in DOMAIN todo' : todo'[i].seq = running[i]
  BY <1>1, <1>4, <1>5, <1>6
<1>8. SchedTypeOK'
  BY <1>1, <1>2, <1>6, EmptyFacts DEF SchedTypeOK
<1>9. Apart' /\ (Counted => Counted')
  <2>1. Counted =>
           Len(waiting') + Len(skipped') + Len(running') + Len(done') = nextSeq'
    BY <1>1, <1>2, EmptyFacts, QueueTypes DEF Counted
  <2>2. Counted => Counted'
    BY <1>1, <1>2, <2>1, EmptyFacts DEF Counted
  <2>3. Apart'
    BY <1>1, <1>2, EmptyFacts, QueueTypes DEF Apart
  <2> QED BY <2>2, <2>3
<1>10. Order'
  BY <1>1, <1>2, EmptyFacts DEF Order
<1>11. Snapshot'
  <2>1. pc' = "exec" /\ \A i \in DOMAIN todo' : todo'[i].seq \in ToSet(running')
    BY <1>1, <1>4, <1>6, <1>7
  <2>2. \A i, j \in DOMAIN todo' : todo'[i].seq = todo'[j].seq => i = j
    BY <1>2, <1>4, <1>6, <1>7 DEF Apart, IsInjective
  <2> QED BY <2>1, <2>2 DEF Snapshot
<1>12. Held'
  BY <1>1, <1>2, EmptyFacts DEF Held, Reserved, WorstBlocks, kvVars
<1> QED BY <1>3, <1>8, <1>9, <1>10, <1>11, <1>12 DEF EngineInv

\* What is left of the snapshot after its first entry.
LEMMA NextEntry ==
    ASSUME EngineInv, todo # <<>>
    PROVE  /\ Head(todo) \in Entry /\ Tail(todo) \in Seq(Entry)
           /\ Head(todo).seq \in ToSet(running)
           /\ \A i \in DOMAIN Tail(todo) :
                 /\ Tail(todo)[i].seq \in ToSet(running)
                 /\ Tail(todo)[i].seq # Head(todo).seq
           /\ \A i, j \in DOMAIN Tail(todo) :
                 Tail(todo)[i].seq = Tail(todo)[j].seq => i = j
<1>1. todo \in Seq(Entry)
  BY DEF EngineInv, SchedTypeOK
<1>2. /\ Tail(todo) \in Seq(Entry) /\ Without(Tail(todo), todo, 1)
      /\ Head(todo) = todo[1] /\ 1 \in 1 .. Len(todo) /\ Head(todo) \in Entry
  BY <1>1, TailWithout
<1>3. /\ DOMAIN todo = 1 .. Len(todo) /\ Len(todo) \in Nat
      /\ DOMAIN Tail(todo) = 1 .. Len(Tail(todo))
      /\ Len(Tail(todo)) = Len(todo) - 1
  BY <1>1, <1>2, ToSetFacts DEF Without
<1>4. /\ \A i \in DOMAIN todo : todo[i].seq \in ToSet(running)
      /\ \A i, j \in DOMAIN todo : todo[i].seq = todo[j].seq => i = j
  BY DEF EngineInv, Snapshot
<1>5. \A i \in DOMAIN Tail(todo) :
         Tail(todo)[i] = todo[i + 1] /\ i + 1 \in DOMAIN todo /\ i + 1 # 1
  <2> SUFFICES ASSUME NEW i \in DOMAIN Tail(todo)
               PROVE  /\ Tail(todo)[i] = todo[i + 1]
                      /\ i + 1 \in DOMAIN todo /\ i + 1 # 1
    OBVIOUS
  <2>1. i \in 1 .. Len(Tail(todo)) /\ ~(i < 1)
    BY <1>3
  <2>2. Tail(todo)[i] = todo[i + 1]
    BY <1>2, <2>1 DEF Without
  <2> QED BY <1>3, <2>1, <2>2
<1>6. \A i, j \in DOMAIN Tail(todo) : i + 1 = j + 1 => i = j
  BY <1>3
<1> QED BY <1>2, <1>3, <1>4, <1>5, <1>6

\* advance: the record of the entry's sequence moves on within its sizes, and
\* the sequence ends or still has a token to generate.
LEMMA AdvanceInv ==
    ASSUME EngineInv, todo # <<>>, todo' = Tail(todo), pc = "exec",
           NEW r \in Request, req' = [req EXCEPT ![Head(todo).seq] = r],
           r.promptLen = req[Head(todo).seq].promptLen,
           r.maxNew = req[Head(todo).seq].maxNew,
           r.useState = req[Head(todo).seq].useState,
           r.position <= r.promptLen,
           NEW over \in BOOLEAN, FinishIf(over, Head(todo).seq),
           ~over => r.generated < r.maxNew,
           UNCHANGED <<waiting, skipped, pc, nextSeq>>
    PROVE  EngineInv' /\ (Counted => Counted')
<1>0. PICK x : x = Head(todo).seq
  OBVIOUS
<1>1. SchedTypeOK /\ Apart /\ Order /\ Snapshot /\ Held /\ KVInv
  BY DEF EngineInv
<1>2. /\ x \in ToSet(running) /\ todo' \in Seq(Entry)
      /\ \A i \in DOMAIN todo' :
            todo'[i].seq \in ToSet(running) /\ todo'[i].seq # x
      /\ \A i, j \in DOMAIN todo' : todo'[i].seq = todo'[j].seq => i = j
  BY <1>0, NextEntry
<1>3. x \in SeqIds /\ x \in tables /\ x \notin ToSet(waiting) \union ToSet(skipped)
  BY <1>1, <1>2, QueueTypes DEF Apart, Held
<1>4. /\ req' \in [SeqIds -> Request] /\ req'[x] = r
      /\ \A s \in SeqIds \ {x} : req'[s] = req[s]
      /\ \A s \in SeqIds : WorstBlocks(s)' = WorstBlocks(s)
  BY <1>0, <1>1, <1>3 DEF SchedTypeOK, WorstBlocks
<1>5. \A s \in ToSet(waiting') \union ToSet(skipped') : Untouched(req'[s])
  BY <1>1, <1>3, <1>4, QueueTypes DEF Held
<1>6. Order'
  BY <1>1 DEF Order
<1>7. CASE over
  <2>1. PICK i \in DOMAIN running :
           running[i] = x /\ running' = RemoveAt(running, i)
    BY <1>0, <1>7 DEF FinishIf
  <2>2. FreeSequence(running[i]) /\ done' = Append(done, running[i])
    BY <1>0, <1>7, <2>1 DEF FinishIf
  <2>3. /\ KVInv' /\ Apart' /\ (Counted => Counted')
        /\ running' \in Seq(SeqIds) /\ done' \in Seq(SeqIds)
        /\ ToSet(running') = ToSet(running) \ {x}
        /\ tables' = tables \ {x}
        /\ \A s \in SeqIds \ {x} : blocks'[s] = blocks[s] /\ slot'[s] = slot[s]
    BY <2>1, <2>2, LeaveFacts
  <2>4. SchedTypeOK'
    BY <1>1, <1>2, <1>4, <2>3 DEF SchedTypeOK
  <2>5. Snapshot'
    BY <1>2, <2>3 DEF Snapshot
  <2>6. Held'
    <3>1. ASSUME NEW s \in tables' PROVE Reserved(s)'
      <4>1. s \in SeqIds /\ s # x /\ Reserved(s)
        BY <1>1, <2>3, QueueTypes DEF Held
      <4> QED BY <1>4, <2>3, <4>1 DEF Reserved
    <3> QED BY <1>1, <1>5, <2>3, <3>1 DEF Held
  <2> QED BY <1>6, <2>3, <2>4, <2>5, <2>6 DEF EngineInv
<1>8. CASE ~over
  <2>1. UNCHANGED kvVars /\ running' = running /\ done' = done
    BY <1>8 DEF FinishIf
  <2>2. KVInv'
    BY <1>1, <2>1, KVStutterInv
  <2>3. SchedTypeOK'
    BY <1>1, <1>2, <1>4, <2>1 DEF SchedTypeOK
  <2>4. Apart' /\ (Counted => Counted')
    BY <1>1, <2>1 DEF Apart, Counted
  <2>5. Snapshot'
    BY <1>2, <2>1 DEF Snapshot
  <2>6. Held'
    <3>1. Reserved(x)'
      <4>1. Reserved(x)
        BY <1>1, <1>3 DEF Held
      <4> QED BY <1>0, <1>3, <1>4, <1>8, <2>1, <4>1 DEF Reserved, kvVars
    <3>2. ASSUME NEW s \in tables, s # x PROVE Reserved(s)'
      <4>1. s \in SeqIds /\ Reserved(s)
        BY <1>1, QueueTypes DEF Held
      <4> QED BY <1>4, <2>1, <3>2, <4>1 DEF Reserved, kvVars
    <3> QED BY <1>1, <1>5, <2>1, <3>1, <3>2 DEF Held, kvVars
  <2> QED BY <1>6, <2>2, <2>3, <2>4, <2>5, <2>6 DEF EngineInv
<1> QED BY <1>7, <1>8

\* The record of a snapshot entry, and its entry.
LEMMA AdvanceTypes ==
    ASSUME EngineInv, todo # <<>>
    PROVE  /\ req[Head(todo).seq] \in Request
           /\ req \in [SeqIds -> Request] /\ Head(todo).seq \in SeqIds
           /\ Head(todo).length \in Nat
           /\ req[Head(todo).seq].generated < req[Head(todo).seq].maxNew
           /\ req[Head(todo).seq].position <= req[Head(todo).seq].promptLen
<1>1. /\ Head(todo) \in Entry /\ Head(todo).seq \in ToSet(running)
      /\ req \in [SeqIds -> Request]
  BY NextEntry DEF EngineInv, SchedTypeOK
<1>2. Head(todo).seq \in SeqIds /\ Head(todo).length \in Nat
  BY <1>1 DEF Entry
<1>3. Reserved(Head(todo).seq)
  BY <1>1 DEF EngineInv, Held
<1> QED BY <1>1, <1>2, <1>3 DEF Reserved

\* advance of a prefill chunk.
LEMMA PrefillInv ==
    ASSUME EngineInv, Prefill
    PROVE  EngineInv' /\ (Counted => Counted')
<1> DEFINE x == Head(todo).seq
           end == req[x].position + Head(todo).length
           position == IF end < req[x].promptLen THEN end ELSE req[x].promptLen
           r == [req[x] EXCEPT !.position = position]
           over == position >= req[x].promptLen
                     /\ req[x].generated >= req[x].maxNew
<1>1. /\ pc = "exec" /\ todo # <<>> /\ todo' = Tail(todo)
      /\ req' = [req EXCEPT ![x].position = position]
      /\ FinishIf(over, x)
      /\ UNCHANGED <<waiting, skipped, pc, nextSeq>>
  BY DEF Prefill
<1>2. /\ req[x] \in Request /\ req \in [SeqIds -> Request] /\ x \in SeqIds
      /\ Head(todo).length \in Nat
      /\ req[x].generated < req[x].maxNew
  BY <1>1, AdvanceTypes
<1>3. /\ req[x].promptLen \in Nat /\ req[x].maxNew \in Nat
      /\ req[x].position \in Nat /\ req[x].generated \in Nat
  BY <1>2, RequestTypes
<1>4. position \in Nat /\ position <= req[x].promptLen
  BY <1>2, <1>3
<1>5. over \in BOOLEAN /\ ~over
  BY <1>2, <1>3
<1> HIDE DEF position, over
<1>6. /\ r \in Request /\ req' = [req EXCEPT ![x] = r]
      /\ r.promptLen = req[x].promptLen /\ r.maxNew = req[x].maxNew
      /\ r.useState = req[x].useState /\ r.generated = req[x].generated
      /\ r.position = position
  BY <1>1, <1>2, <1>4 DEF Request
<1> HIDE DEF r
<1>7. r.position <= r.promptLen /\ r.generated < r.maxNew
  BY <1>2, <1>4, <1>6
<1> QED BY <1>1, <1>5, <1>6, <1>7, AdvanceInv

\* advance of a generated token.
LEMMA DecodeInv ==
    ASSUME EngineInv, NEW eos \in BOOLEAN, Decode(eos)
    PROVE  EngineInv' /\ (Counted => Counted')
<1> DEFINE x == Head(todo).seq
           generated == req[x].generated + Head(todo).length
           r == [req[x] EXCEPT !.generated = generated,
                               !.position = req[x].promptLen]
           over == eos \/ generated >= req[x].maxNew
<1>1. /\ pc = "exec" /\ todo # <<>> /\ todo' = Tail(todo)
      /\ req' = [req EXCEPT ![x].generated = generated,
                            ![x].position = req[x].promptLen]
      /\ FinishIf(over, x)
      /\ UNCHANGED <<waiting, skipped, pc, nextSeq>>
  BY DEF Decode
<1>2. /\ req[x] \in Request /\ req \in [SeqIds -> Request] /\ x \in SeqIds
      /\ Head(todo).length \in Nat
  BY <1>1, AdvanceTypes
<1>3. /\ req[x].promptLen \in Nat /\ req[x].maxNew \in Nat
      /\ req[x].position \in Nat /\ req[x].generated \in Nat
  BY <1>2, RequestTypes
<1>4. generated \in Nat
  BY <1>2, <1>3
<1>5. over \in BOOLEAN /\ (~over => generated < req[x].maxNew)
  BY <1>3, <1>4
<1> HIDE DEF generated, over
<1>6. /\ r \in Request /\ req' = [req EXCEPT ![x] = r]
      /\ r.promptLen = req[x].promptLen /\ r.maxNew = req[x].maxNew
      /\ r.useState = req[x].useState /\ r.generated = generated
      /\ r.position = req[x].promptLen
  BY <1>1, <1>2, <1>3, <1>4 DEF Request
<1> HIDE DEF r
<1>7. r.position <= r.promptLen /\ (~over => r.generated < r.maxNew)
  BY <1>3, <1>5, <1>6
<1> QED BY <1>1, <1>5, <1>6, <1>7, AdvanceInv

\* Every step of the scheduler preserves the invariant, with or without the
\* count of the requests.
LEMMA EngineNextInv ==
    ASSUME EngineInv, [Next]_vars
    PROVE  EngineInv' /\ (Counted => Counted')
<1>1. CASE \E p \in PromptLens, m \in MaxNews, u \in UseStates : Add(p, m, u)
  BY <1>1, AddInv
<1>2. CASE \E i \in DOMAIN running : AbortRunning(i)
  BY <1>2, AbortRunningInv
<1>3. CASE \E i \in DOMAIN waiting : AbortWaiting(i)
  BY <1>3, AbortWaitingInv
<1>4. CASE BeginStep \/ EndStep
  BY <1>4, BoundaryInv
<1>5. CASE Admit
  BY <1>5, AdmitInv
<1>6. CASE Skip
  BY <1>6, SkipInv
<1>7. CASE Schedule
  BY <1>7, ScheduleInv
<1>8. CASE Prefill
  BY <1>8, PrefillInv
<1>9. CASE \E eos \in BOOLEAN : Decode(eos)
  BY <1>9, DecodeInv
<1>10. CASE UNCHANGED vars
  BY <1>10, SchedStutterInv
<1> QED
  BY <1>1, <1>2, <1>3, <1>4, <1>5, <1>6, <1>7, <1>8, <1>9, <1>10
     DEF Next, StepNext, CallNext

\* With it: no step loses a request.
LEMMA SchedNextInv ==
    ASSUME SchedInv, [Next]_vars
    PROVE  SchedInv'
BY EngineNextInv DEF SchedInv

-----------------------------------------------------------------------------
(***************************************************************************)
(* What the invariant implies.                                             *)
(***************************************************************************)
\* The concatenation OnePlace speaks of has the places' lengths and elements.
LEMMA InvOnePlace ==
    ASSUME SchedInv
    PROVE  OnePlace
<1>0. /\ SchedTypeOK /\ Apart /\ Counted /\ Snapshot
      /\ running \in Seq(SeqIds) /\ done \in Seq(SeqIds)
  BY QueueTypes DEF SchedInv, EngineInv
<1>1. SchedTypeOK /\ Apart /\ Counted /\ Snapshot
  BY <1>0
<1> DEFINE q == skipped \o waiting
<1>2. /\ q \in Seq(SeqIds) /\ Len(q) = Len(skipped) + Len(waiting)
      /\ ToSet(q) = ToSet(skipped) \union ToSet(waiting)
  BY <1>1, QueueTypes, ConcatFacts
<1> HIDE DEF q
<1>3. /\ q \o running \in Seq(SeqIds)
      /\ Len(q \o running) = Len(q) + Len(running)
      /\ ToSet(q \o running) = ToSet(q) \union ToSet(running)
  BY ONLY <1>0, <1>2, ConcatFacts
<1> DEFINE qr == q \o running
<1>35. qr \in Seq(SeqIds)
  BY <1>3
<1> HIDE DEF qr
<1>4. /\ Len(qr \o done) = Len(qr) + Len(done)
      /\ ToSet(qr \o done) = ToSet(qr) \union ToSet(done)
  BY ONLY <1>0, <1>35, ConcatFacts
<1>5. Len(qr \o done) = nextSeq
  BY <1>1, <1>2, <1>3, <1>4, QueueTypes DEF Apart, Counted, qr
<1>6. ToSet(qr \o done) = 0 .. nextSeq - 1
  BY <1>1, <1>2, <1>3, <1>4 DEF Apart, Counted, qr
<1> QED BY <1>1, <1>5, <1>6 DEF OnePlace, Snapshot, Queue, qr, q

\* The queue is its two halves, one after the other.
LEMMA InvArrivalOrder ==
    ASSUME SchedInv
    PROVE  ArrivalOrder
<1>1. SchedTypeOK /\ Order /\ SeqIds \subseteq Int
      /\ skipped \in Seq(SeqIds) /\ waiting \in Seq(SeqIds)
  BY QueueTypes DEF SchedInv, EngineInv
<1>2. Sorted(skipped \o waiting)
  BY <1>1, ConcatFacts DEF Order
<1> QED BY <1>2 DEF Sorted, ArrivalOrder, Queue

\* What may be written fits, because the ceiling covers both sizes.
LEMMA InvReservationHeld ==
    ASSUME SchedInv
    PROVE  ReservationHeld
<1>1. SchedTypeOK /\ Held
  BY DEF SchedInv, EngineInv
<1>2. ASSUME NEW s \in tables
      PROVE  req[s].position + req[s].generated
                <= Cardinality(blocks[s]) * BlockSize
  <2>1. s \in SeqIds /\ req[s] \in Request /\ Reserved(s)
    BY <1>1, QueueTypes DEF Held, SchedTypeOK
  <2>2. /\ req[s].promptLen \in Nat /\ req[s].maxNew \in Nat
        /\ req[s].position \in Nat /\ req[s].generated \in Nat
    BY <2>1, RequestTypes
  <2> DEFINE sizes == req[s].promptLen + req[s].maxNew
  <2>3. sizes \in Nat
    BY <2>2
  <2>4. /\ WorstBlocks(s) = BlocksForTokens(sizes)
        /\ BlocksForTokens(sizes) \in Nat
        /\ sizes <= BlocksForTokens(sizes) * BlockSize
    BY <2>3, BlocksCover DEF WorstBlocks
  <2> DEFINE room == Cardinality(blocks[s]) * BlockSize
  <2>5. sizes <= room /\ room \in Nat
    BY <2>1, <2>4, KVAssumption DEF Reserved
  <2>6. req[s].position + req[s].generated <= sizes
    BY <2>1, <2>2 DEF Reserved
  <2>7. req[s].position + req[s].generated \in Nat
    BY <2>2
  <2> HIDE DEF sizes, room
  <2>8. req[s].position + req[s].generated <= room
    BY <2>3, <2>5, <2>6, <2>7
  <2> QED BY <2>8 DEF room
<1> QED BY <1>1, <1>2 DEF ReservationHeld, Held, Reserved

\* The heaps hold finitely many numbers.
LEMMA HeapsFinite ==
    ASSUME KVTypeOK
    PROVE  /\ IsFiniteSet(kv.free) /\ kv.free \in SUBSET Int
           /\ IsFiniteSet(state.free) /\ state.free \in SUBSET Int
           /\ Cardinality(kv.free) \in Nat /\ Cardinality(state.free) \in Nat
<1>1. /\ kv.free \in SUBSET Blocks /\ state.free \in SUBSET Slots
      /\ Blocks \subseteq Int /\ Slots \subseteq Int
  BY DEF KVTypeOK, Pool, Blocks, Slots
<1>2. IsFiniteSet(Blocks) /\ IsFiniteSet(Slots)
  <2>1. 0 \in Int /\ KVCapacity - 1 \in Int /\ StateCapacity - 1 \in Int
    BY KVAssumption
  <2> QED BY <2>1, FS_Interval DEF Blocks, Slots
<1>3. IsFiniteSet(kv.free) /\ IsFiniteSet(state.free)
  BY <1>1, <1>2, FS_Subset
<1> QED BY <1>1, <1>3, FS_CardinalityType

\* The heaps have what _accepts compares the request with.
LEMMA InvAdmitNeverRaises ==
    ASSUME SchedInv
    PROVE  AdmitNeverRaises
<1> SUFFICES ASSUME waiting # <<>>, Accepts(Head(waiting))
             PROVE  /\ Head(waiting) \notin tables
                    /\ LowestFree(kv, WorstBlocks(Head(waiting))) # {}
                    /\ req[Head(waiting)].useState => LowestFree(state, 1) # {}
  BY DEF AdmitNeverRaises
<1>0. PICK h : h = Head(waiting)
  OBVIOUS
<1>1. SchedTypeOK /\ Apart /\ Counted /\ Held /\ KVTypeOK
  BY DEF SchedInv, EngineInv, KVInv
<1>2. h \in SeqIds /\ h \in ToSet(waiting)
  <2>1. waiting \in Seq(SeqIds) /\ waiting # <<>>
    BY <1>1, QueueTypes
  <2> QED BY <1>0, <2>1, TailWithout, ToSetFacts
<1>3. h \notin tables
  BY <1>1, <1>2 DEF Apart, Counted, Held
<1>4. /\ req[h].useState => state.free # {}
      /\ WorstBlocks(h) <= Cardinality(kv.free)
  BY <1>0 DEF Accepts
<1>5. WorstBlocks(h) \in Nat
  BY <1>1, <1>2, WorstBlocksNat
<1>6. LowestFree(kv, WorstBlocks(h)) # {}
  BY <1>1, <1>4, <1>5, HeapsFinite, LowestExists
<1>7. ASSUME req[h].useState PROVE LowestFree(state, 1) # {}
  <2>1. Cardinality(state.free) # 0 /\ Cardinality(state.free) \in Nat
    BY <1>1, <1>4, <1>7, HeapsFinite, FS_EmptySet
  <2>2. 1 \in Nat /\ 1 <= Cardinality(state.free)
    BY <2>1
  <2> QED BY <1>1, <2>2, HeapsFinite, LowestExists
<1> QED BY <1>0, <1>3, <1>6, <1>7

-----------------------------------------------------------------------------
(***************************************************************************)
(* One pass of pump is enough, because memory only shrinks during it.      *)
(***************************************************************************)
\* Requests are put aside only inside pump, and stay refused until it ends.
PumpPass ==
    /\ pc # "pump" => skipped = <<>>
    /\ \A s \in ToSet(skipped) : ~Accepts(s)

\* Nothing is put aside at the start.
LEMMA PumpPassInit == Init => PumpPass
BY EmptyFacts DEF Init, PumpPass

\* Admitting a request makes room for no other.
LEMMA AdmitOnlyTakes ==
    ASSUME SchedInv, Admit, NEW s \in SeqIds, Accepts(s)'
    PROVE  Accepts(s)
<1>1. KVTypeOK /\ running \in Seq(SeqIds)
  BY QueueTypes DEF SchedInv, EngineInv, KVInv
<1>2. req' = req /\ running' = Append(running, Head(waiting))
      /\ NewSequence(Head(waiting), WorstBlocks(Head(waiting)) * BlockSize,
                     req[Head(waiting)].useState)
  BY DEF Admit
<1>3. Len(running) \in Nat /\ Len(running') = Len(running) + 1
  BY <1>1, <1>2
<1>4. kv'.free \subseteq kv.free /\ state'.free \subseteq state.free
  <2>1. kv'.free \subseteq kv.free
    BY <1>2 DEF NewSequence, Take
  <2>2. state' = state \/ \E t, ids : state' = Take(state, t, ids)
    BY <1>2 DEF NewSequence
  <2>3. state'.free \subseteq state.free
    BY <2>2 DEF Take
  <2> QED BY <2>1, <2>3
<1>5. Cardinality(kv'.free) <= Cardinality(kv.free)
      /\ Cardinality(kv'.free) \in Nat /\ Cardinality(kv.free) \in Nat
  <2>1. IsFiniteSet(kv.free) /\ Cardinality(kv.free) \in Nat
    BY <1>1, HeapsFinite
  <2>2. IsFiniteSet(kv'.free) /\ Cardinality(kv'.free) <= Cardinality(kv.free)
    BY <1>4, <2>1, FS_Subset
  <2> QED BY <2>1, <2>2, FS_CardinalityType
<1>6. WorstBlocks(s)' = WorstBlocks(s)
  BY <1>2 DEF WorstBlocks
<1>7. Len(running') < MaxConcurrency /\ (req[s].useState => state'.free # {})
      /\ WorstBlocks(s) <= Cardinality(kv'.free)
  BY <1>2, <1>6 DEF Accepts
<1>8. Len(running) < MaxConcurrency
  BY <1>3, <1>7, SchedulerAssumption
<1>9. req[s].useState => state.free # {}
  BY <1>4, <1>7
<1>10. WorstBlocks(s) \in Nat
  BY WorstBlocksNat DEF SchedInv, EngineInv
<1> QED BY <1>5, <1>7, <1>8, <1>9, <1>10 DEF Accepts

\* A refused request stays refused until pump ends.
LEMMA PumpPassNext ==
    ASSUME SchedInv, PumpPass, [Next]_vars
    PROVE  PumpPass'
<1>1. SchedTypeOK /\ Snapshot
  BY DEF SchedInv, EngineInv
<1>2. ASSUME UNCHANGED <<kvVars, running, req, skipped>>,
             pc' # "pump" => skipped' = <<>>
      PROVE  PumpPass'
  BY <1>2 DEF PumpPass, Accepts, WorstBlocks, kvVars
<1>3. ASSUME NEW p, NEW m, NEW u, Add(p, m, u) PROVE PumpPass'
  <2>1. skipped' = <<>> /\ pc' = pc
    BY <1>3 DEF Add, PumpPass
  <2> QED BY <2>1, EmptyFacts DEF PumpPass
<1>4. ASSUME NEW i, AbortRunning(i) \/ AbortWaiting(i) PROVE PumpPass'
  <2>1. skipped' = <<>> /\ pc' = pc
    BY <1>4 DEF AbortRunning, AbortWaiting, PumpPass
  <2> QED BY <2>1, EmptyFacts DEF PumpPass
<1>5. CASE BeginStep
  <2>1. UNCHANGED <<kvVars, running, req, skipped>> /\ pc' = "pump"
    BY <1>5 DEF BeginStep, queueVars
  <2> QED BY <1>2, <2>1
<1>6. CASE EndStep
  <2>1. UNCHANGED <<kvVars, running, req, skipped>> /\ skipped = <<>>
    BY <1>6 DEF EndStep, queueVars, PumpPass
  <2> QED BY <1>2, <2>1
<1>7. CASE Admit
  <2>1. pc' = "pump" /\ skipped' = skipped
    BY <1>7 DEF Admit
  <2>2. \A s \in ToSet(skipped) : s \in SeqIds
    BY <1>1, QueueTypes
  <2>3. \A s \in ToSet(skipped') : ~Accepts(s)'
    BY <1>7, <2>1, <2>2, AdmitOnlyTakes DEF PumpPass
  <2> QED BY <2>1, <2>3 DEF PumpPass
<1>8. CASE Skip
  <2>0. PICK h : h = Head(waiting)
    OBVIOUS
  <2>1. /\ pc' = "pump" /\ waiting # <<>> /\ ~Accepts(h)
        /\ skipped' = Append(skipped, h)
        /\ UNCHANGED <<kvVars, running, req>>
    BY <1>8, <2>0 DEF Skip
  <2>2. waiting \in Seq(SeqIds) /\ skipped \in Seq(SeqIds)
    BY <1>1, QueueTypes
  <2>3. h \in SeqIds
    BY <2>0, <2>1, <2>2, TailWithout
  <2>4. ToSet(skipped') = ToSet(skipped) \union {h}
    BY <2>1, <2>2, <2>3, AppendFacts
  <2>5. \A s : Accepts(s)' => Accepts(s)
    BY <2>1 DEF Accepts, WorstBlocks, kvVars
  <2> QED BY <2>1, <2>4, <2>5 DEF PumpPass
<1>9. CASE Schedule
  BY <1>9, EmptyFacts DEF Schedule, PumpPass
<1>10. CASE Prefill \/ \E eos \in BOOLEAN : Decode(eos)
  <2>1. skipped' = <<>> /\ pc' = pc
    BY <1>10 DEF Prefill, Decode, PumpPass
  <2> QED BY <2>1, EmptyFacts DEF PumpPass
<1>11. CASE UNCHANGED vars
  <2>1. UNCHANGED <<kvVars, running, req, skipped, pc>>
    BY <1>11 DEF vars, schedVars, queueVars
  <2> QED BY <1>2, <2>1 DEF PumpPass
<1> QED
  BY <1>3, <1>4, <1>5, <1>6, <1>7, <1>8, <1>9, <1>10, <1>11
     DEF Next, StepNext, CallNext

\* When pump ends, what it leaves waiting are the requests it put aside.
LEMMA ScheduleLeavesRefused ==
    ASSUME SchedTypeOK, PumpPass, Schedule
    PROVE  \A i \in DOMAIN waiting' : ~Accepts(waiting'[i])
<1>1. waiting' = skipped /\ skipped \in Seq(SeqIds)
  BY QueueTypes DEF Schedule
<1>2. \A i \in DOMAIN skipped : skipped[i] \in ToSet(skipped)
  BY <1>1, ToSetFacts
<1> QED BY <1>1, <1>2 DEF PumpPass

-----------------------------------------------------------------------------
(***************************************************************************)
(* Theorems.                                                               *)
(***************************************************************************)
\* Type correctness of the scheduler and of what it allocates.
THEOREM SchedulerTypeCorrect == Spec => []TypeOK
<1>1. SchedInv => TypeOK
  BY DEF SchedInv, EngineInv, KVInv, TypeOK
<1>2. Init => SchedInv
  BY SchedInitInv
<1>3. SchedInv /\ [Next]_vars => SchedInv'
  BY SchedNextInv
<1> QED BY <1>1, <1>2, <1>3, PTL DEF Spec

\* The inductive invariant, for the theorems and the refinement.
THEOREM SchedulerInvariant == Spec => []SchedInv
<1>1. Init => SchedInv
  BY SchedInitInv
<1>2. SchedInv /\ [Next]_vars => SchedInv'
  BY SchedNextInv
<1> QED BY <1>1, <1>2, PTL DEF Spec

\* No request is lost or ended twice.
THEOREM OnePlaceAlways == Spec => []OnePlace
<1>1. SchedInv => OnePlace
  BY InvOnePlace
<1> QED BY <1>1, SchedulerInvariant, PTL

\* Backfill keeps arrival order among those it leaves waiting.
THEOREM ArrivalOrderAlways == Spec => []ArrivalOrder
<1>1. SchedInv => ArrivalOrder
  BY InvArrivalOrder
<1> QED BY <1>1, SchedulerInvariant, PTL

\* What a running request holds covers its worst case.
THEOREM ReservationAlwaysHeld == Spec => []ReservationHeld
<1>1. SchedInv => ReservationHeld
  BY InvReservationHeld
<1> QED BY <1>1, SchedulerInvariant, PTL

\* Once _accepts says yes, new_sequence cannot fail.
THEOREM AdmissionNeverRaises == Spec => []AdmitNeverRaises
<1>1. SchedInv => AdmitNeverRaises
  BY InvAdmitNeverRaises
<1> QED BY <1>1, SchedulerInvariant, PTL

\* No request left waiting by a pass of pump could be admitted.
THEOREM OnePassIsEnough == Spec => PumpIsMaximal
<1>1. Init => PumpPass
  BY PumpPassInit
<1>2. SchedInv /\ PumpPass /\ [Next]_vars => PumpPass'
  BY PumpPassNext
<1>3. SchedInv /\ PumpPass /\ [Next]_vars
         => [Schedule => \A i \in DOMAIN waiting' : ~Accepts(waiting'[i])]_vars
  BY ScheduleLeavesRefused DEF SchedInv, EngineInv
<1> QED BY <1>1, <1>2, <1>3, SchedulerInvariant, PTL DEF Spec, PumpIsMaximal

-----------------------------------------------------------------------------
(***************************************************************************)
(* The scheduler implements RequestService.                                *)
(***************************************************************************)
Queued(s) == s \in ToSet(waiting) \union ToSet(skipped)

\* The phase of a request is the place it is in, and what it needs is a
\* demand the service knows.
PhasesByPlace ==
    \A s \in SeqIds :
        /\ Queued(s) => PhaseOf(s) = "queued"
        /\ s \in ToSet(running) => PhaseOf(s) = "active"
        /\ s \in ToSet(done) => PhaseOf(s) = "over"
        /\ ~Queued(s) /\ s \notin ToSet(running) /\ s \notin ToSet(done)
              => PhaseOf(s) = "new"
        /\ NeedOf(s) \in Service!Demand

\* The places are disjoint, so the first test that matches is the only one.
LEMMA InvPhases == SchedInv => PhasesByPlace
<1> SUFFICES ASSUME SchedInv, NEW s \in SeqIds
             PROVE  /\ Queued(s) => PhaseOf(s) = "queued"
                    /\ s \in ToSet(running) => PhaseOf(s) = "active"
                    /\ s \in ToSet(done) => PhaseOf(s) = "over"
                    /\ ~Queued(s) /\ s \notin ToSet(running)
                          /\ s \notin ToSet(done) => PhaseOf(s) = "new"
                    /\ NeedOf(s) \in Service!Demand
  BY DEF PhasesByPlace
<1>1. SchedTypeOK /\ Apart /\ Counted
  BY DEF SchedInv, EngineInv
<1>2. ToSet(Queue) = ToSet(skipped) \union ToSet(waiting)
  BY <1>1, QueueTypes, ConcatFacts DEF Queue
<1>3. NeedOf(s) \in Service!Demand
  BY <1>1, WorstBlocksNat DEF NeedOf, Service!Demand
<1> QED BY <1>1, <1>2, <1>3 DEF PhaseOf, Queued, Apart, Counted

\* The same one step later.
LEMMA InvPhasesNext == SchedInv' => PhasesByPlace'
BY InvPhases, PTL

\* What a step does not move keeps its phase.
LEMMA PhaseKept ==
    ASSUME SchedInv, SchedInv', NEW s \in SeqIds,
           Queued(s)' = Queued(s),
           (s \in ToSet(running))' = (s \in ToSet(running)),
           (s \in ToSet(done))' = (s \in ToSet(done))
    PROVE  PhaseOf(s)' = PhaseOf(s)
BY InvPhases, InvPhasesNext DEF PhasesByPlace

\* A step that moves no request and frees or takes nothing is a stutter.
LEMMA InvisibleStep ==
    ASSUME SchedInv, SchedInv', kv' = kv, state' = state,
           \A s : Queued(s)' = Queued(s),
           ToSet(running') = ToSet(running), ToSet(done') = ToSet(done),
           \A s \in SeqIds : NeedOf(s)' = NeedOf(s)
    PROVE  UNCHANGED Service!serviceVars
<1>1. \A s \in SeqIds : PhaseOf(s)' = PhaseOf(s)
  BY PhaseKept
<1> QED BY <1>1 DEF Service!serviceVars

\* All requests are new and all memory is free at the start.
LEMMA InitIsService ==
    ASSUME Init
    PROVE  Service!ServiceInit
<1>1. SchedInv
  BY SchedInitInv
<1>2. \A s \in SeqIds : PhaseOf(s) = "new"
  <2>1. ToSet(waiting) = {} /\ ToSet(skipped) = {} /\ ToSet(running) = {}
        /\ ToSet(done) = {}
    BY EmptyFacts DEF Init
  <2> QED BY <1>1, <2>1, InvPhases DEF PhasesByPlace, Queued
<1>3. \A s \in SeqIds : NeedOf(s) = [blocks |-> 0, slots |-> 0]
  BY DEF Init, NewRequest, NeedOf, WorstBlocks, BlocksForTokens
<1>4. Cardinality(kv.free) = KVCapacity /\ Cardinality(state.free) = StateCapacity
  <2>1. kv.free = 0 .. KVCapacity - 1 /\ state.free = 0 .. StateCapacity - 1
    BY DEF Init, KVInit, FreshPool, Blocks, Slots
  <2>2. /\ 0 \in Int /\ KVCapacity - 1 \in Int /\ StateCapacity - 1 \in Int
        /\ KVCapacity \in Nat /\ StateCapacity \in Nat
    BY KVAssumption
  <2>3. /\ Cardinality(0 .. KVCapacity - 1)
              = IF 0 > KVCapacity - 1 THEN 0 ELSE KVCapacity - 1 - 0 + 1
        /\ Cardinality(0 .. StateCapacity - 1)
              = IF 0 > StateCapacity - 1 THEN 0 ELSE StateCapacity - 1 - 0 + 1
    BY <2>2, FS_Interval
  <2> QED BY <2>1, <2>2, <2>3
<1> QED BY <1>2, <1>3, <1>4 DEF Service!ServiceInit

\* submit is the service's Submit.
LEMMA AddIsSubmit ==
    ASSUME SchedInv, SchedInv', NEW p \in PromptLens, NEW m \in MaxNews,
           NEW u \in UseStates, Add(p, m, u)
    PROVE  \E s \in SeqIds : Service!Submit(s)
<1>0. PICK x \in SeqIds : x = nextSeq
  BY DEF Add
<1>1. /\ waiting' = Append(waiting, x)
      /\ req' = [req EXCEPT ![x] = NewRequest(p, m, u)]
      /\ UNCHANGED kvVars
      /\ skipped' = skipped /\ running' = running /\ done' = done
  BY <1>0 DEF Add
<1>2. SchedTypeOK /\ Apart /\ Counted /\ nextSeq \in Nat /\ waiting \in Seq(SeqIds)
  BY QueueTypes DEF SchedInv, EngineInv
<1>3. ~Queued(x) /\ x \notin ToSet(running) /\ x \notin ToSet(done)
  <2>1. x \notin 0 .. nextSeq - 1
    BY <1>0, <1>2
  <2> QED BY <1>2, <2>1 DEF Apart, Counted, Queued
<1>4. ToSet(waiting') = ToSet(waiting) \union {x}
  BY <1>1, <1>2, AppendFacts
<1>5. PhaseOf(x) = "new" /\ PhaseOf(x)' = "queued"
  BY <1>3, <1>4, InvPhases, InvPhasesNext DEF PhasesByPlace, Queued
<1>6. \A t \in SeqIds \ {x} : PhaseOf(t)' = PhaseOf(t)
  BY <1>1, <1>4, PhaseKept DEF Queued
<1>7. \A t \in SeqIds \ {x} : NeedOf(t)' = NeedOf(t)
  BY <1>1, <1>2 DEF NeedOf, WorstBlocks, SchedTypeOK
<1>8. \A t \in SeqIds : NeedOf(t)' \in Service!Demand
  BY InvPhasesNext DEF PhasesByPlace
<1>9. Service!Submit(x)
  BY <1>1, <1>5, <1>6, <1>7, <1>8 DEF Service!Submit, kvVars
<1> QED BY <1>9

\* The service counts as the scheduler does.
LEMMA SameCount ==
    ASSUME NEW X
    PROVE  Service!Cardinality(X) = Cardinality(X)
BY DEF Service!Cardinality, Cardinality

\* The active requests are the running ones, no more than the dict has keys.
LEMMA ActiveIsRunning ==
    ASSUME SchedInv
    PROVE  /\ Service!Active = ToSet(running)
           /\ Cardinality(Service!Active) <= Len(running)
           /\ Cardinality(Service!Active) \in Nat
<1>1. SchedTypeOK /\ Apart /\ Counted /\ running \in Seq(SeqIds) /\ Len(running) \in Nat
      /\ ToSet(running) \subseteq SeqIds
  BY QueueTypes DEF SchedInv, EngineInv
<1>2. \A s \in SeqIds : PhaseOf(s) = "active" <=> s \in ToSet(running)
  BY InvPhases DEF PhasesByPlace
<1>3. Service!Active = ToSet(running)
  BY <1>1, <1>2 DEF Service!Active
<1>4. ExistsSurjection(1 .. Len(running), ToSet(running))
  <2>1. running \in [1 .. Len(running) -> ToSet(running)]
        /\ \A t \in ToSet(running) : \E i \in 1 .. Len(running) : running[i] = t
    BY <1>1, ToSetFacts
  <2> QED BY <2>1 DEF ExistsSurjection, Surjection
<1>5. Cardinality(ToSet(running)) <= Len(running)
  BY <1>1, <1>4, FS_SurjCardinalityBound
<1>6. IsFiniteSet(ToSet(running))
  BY <1>1, <1>4, FS_NatSurjection
<1> QED BY <1>3, <1>5, <1>6, FS_CardinalityType

\* Admission is the service's Start: it takes exactly the worst case.
LEMMA AdmitIsStart ==
    ASSUME SchedInv, SchedInv', Admit
    PROVE  \E s \in SeqIds : Service!Start(s)
<1>0. PICK h : h = Head(waiting)
  OBVIOUS
<1>1. /\ waiting # <<>> /\ Accepts(h)
      /\ NewSequence(h, WorstBlocks(h) * BlockSize, req[h].useState)
      /\ waiting' = Tail(waiting) /\ running' = Append(running, h)
      /\ skipped' = skipped /\ done' = done /\ req' = req
  BY <1>0 DEF Admit
<1>2. SchedTypeOK /\ Apart /\ Counted /\ KVTypeOK /\ running \in Seq(SeqIds)
      /\ Len(running) \in Nat
  BY QueueTypes DEF SchedInv, EngineInv, KVInv
<1>3. h \in SeqIds /\ h \in ToSet(waiting)
      /\ ToSet(waiting') = ToSet(waiting) \ {h}
  BY <1>0, <1>1, PopFacts DEF SchedInv
<1>4. ToSet(running') = ToSet(running) \union {h}
  BY <1>1, <1>2, <1>3, AppendFacts
<1>5. PhaseOf(h) = "queued" /\ PhaseOf(h)' = "active"
  BY <1>3, <1>4, InvPhases, InvPhasesNext DEF PhasesByPlace, Queued
<1>6. \A t \in SeqIds \ {h} : PhaseOf(t)' = PhaseOf(t)
  BY <1>1, <1>3, <1>4, PhaseKept DEF Queued
<1>7. \A t \in SeqIds : NeedOf(t)' = NeedOf(t)
  BY <1>1 DEF NeedOf, WorstBlocks
<1>8. Service!Cardinality(Service!Active) < MaxConcurrency
  <2>1. Len(running) < MaxConcurrency /\ MaxConcurrency \in Nat
    BY <1>1, SchedulerAssumption DEF Accepts
  <2> QED BY <1>2, <2>1, ActiveIsRunning, SameCount
<1>9. WorstBlocks(h) \in Nat /\ WorstBlocks(h) <= Cardinality(kv.free)
      /\ (req[h].useState => state.free # {})
      /\ BlocksForTokens(WorstBlocks(h) * BlockSize) = WorstBlocks(h)
  BY <1>1, <1>2, <1>3, WorstBlocksNat, BlocksExact DEF Accepts
<1>10. Cardinality(kv'.free) = Cardinality(kv.free) - WorstBlocks(h)
  <2>1. PICK ids \in LowestFree(kv, WorstBlocks(h)) : kv' = Take(kv, h, ids)
    BY <1>1, <1>9 DEF NewSequence
  <2>2. ids \subseteq kv.free /\ Cardinality(ids) = WorstBlocks(h)
        /\ kv'.free = kv.free \ ids /\ kv.free \intersect ids = ids
    BY <2>1 DEF LowestFree, Take
  <2>3. IsFiniteSet(kv.free)
    BY <1>2, HeapsFinite
  <2>4. Cardinality(kv.free \ ids)
           = Cardinality(kv.free) - Cardinality(kv.free \intersect ids)
    BY <2>3, FS_Difference
  <2> QED BY <2>2, <2>4
<1> DEFINE phases == [s \in SeqIds |-> PhaseOf(s)]
           needs == [s \in SeqIds |-> NeedOf(s)]
<1>13. /\ phases[h] = "queued" /\ phases' = [phases EXCEPT ![h] = "active"]
       /\ needs[h] = NeedOf(h) /\ needs' = needs
  BY <1>3, <1>5, <1>6, <1>7
<1>11. CASE req[h].useState
  <2>1. PICK sl : {sl} \in LowestFree(state, 1) /\ state' = Take(state, h, {sl})
    BY <1>1, <1>11 DEF NewSequence
  <2>2. sl \in state.free /\ state'.free = state.free \ {sl}
    BY <2>1 DEF LowestFree, Take
  <2>3. IsFiniteSet(state.free) /\ Cardinality(state.free) \in Nat
    BY <1>2, HeapsFinite
  <2>4. Cardinality(state'.free) = Cardinality(state.free) - 1
    BY <2>2, <2>3, FS_RemoveElement
  <2>5. 1 <= Cardinality(state.free)
    BY <2>2, <2>3, FS_EmptySet
  <2>6. NeedOf(h) = [blocks |-> WorstBlocks(h), slots |-> 1]
    BY <1>11 DEF NeedOf
  <2>7. Service!Start(h)
    BY <1>8, <1>9, <1>10, <1>13, <2>4, <2>5, <2>6 DEF Service!Start
  <2> QED BY <1>3, <2>7
<1>12. CASE ~req[h].useState
  <2>1. state' = state
    BY <1>1, <1>12 DEF NewSequence
  <2>2. NeedOf(h) = [blocks |-> WorstBlocks(h), slots |-> 0]
    BY <1>12 DEF NeedOf
  <2>3. Cardinality(state.free) \in Nat
    BY <1>2, HeapsFinite
  <2>4. Service!Start(h)
    <3>1. 0 <= Cardinality(state.free)
          /\ Cardinality(state'.free) = Cardinality(state.free) - 0
      BY <2>1, <2>3
    <3> QED BY <1>8, <1>9, <1>10, <1>13, <2>2, <3>1 DEF Service!Start
  <2> QED BY <1>3, <2>4
<1> QED BY <1>11, <1>12

\* The end of a running sequence gives back exactly what it was admitted for.
LEMMA LeaveIsEnd ==
    ASSUME SchedInv, SchedInv', NEW i \in DOMAIN running,
           FreeSequence(running[i]),
           running' = RemoveAt(running, i), done' = Append(done, running[i]),
           UNCHANGED <<waiting, skipped, nextSeq>>,
           \A s \in SeqIds : NeedOf(s)' = NeedOf(s)
    PROVE  \E s \in SeqIds : Service!End(s)
<1>0. PICK x : x = running[i]
  OBVIOUS
<1>1. SchedTypeOK /\ Apart /\ Counted /\ KVInv /\ Held
  BY DEF SchedInv, EngineInv
<1>2. /\ x \in ToSet(running) /\ x \in SeqIds
      /\ ToSet(running') = ToSet(running) \ {x}
      /\ ToSet(done') = ToSet(done) \union {x}
  BY <1>0, LeaveFacts DEF SchedInv
<1>3. PhaseOf(x) = "active" /\ PhaseOf(x)' = "over"
  BY <1>2, InvPhases, InvPhasesNext DEF PhasesByPlace
<1>4. \A t \in SeqIds \ {x} : PhaseOf(t)' = PhaseOf(t)
  BY <1>2, PhaseKept DEF Queued
<1>5. /\ kv'.free = kv.free \union blocks[x]
      /\ state'.free = state.free \union SlotIds(slot[x])
  BY <1>0 DEF FreeSequence, PutBack
<1>6. /\ kv.free \intersect blocks[x] = {} /\ blocks[x] \subseteq Blocks
      /\ state.free \intersect SlotIds(slot[x]) = {}
      /\ SlotIds(slot[x]) \subseteq Slots
  <2>1. x # NoSeq
    BY <1>2, KVAssumption
  <2>2. /\ blocks[x] = OwnedBy(kv, Blocks, x)
        /\ SlotIds(slot[x]) = OwnedBy(state, Slots, x)
        /\ Consistent(kv, Blocks) /\ Consistent(state, Slots)
    BY <1>1, <1>2 DEF KVInv, TablesMatchOwners, FreeOrOwned
  <2> QED BY <2>1, <2>2 DEF OwnedBy, Consistent
<1>7. /\ Reserved(x) /\ IsFiniteSet(kv.free) /\ IsFiniteSet(state.free)
      /\ WorstBlocks(x) \in Nat
      /\ Cardinality(kv.free) \in Nat /\ Cardinality(state.free) \in Nat
  BY <1>1, <1>2, HeapsFinite, WorstBlocksNat DEF Held, KVInv
<1>8. Cardinality(kv'.free) = Cardinality(kv.free) + WorstBlocks(x)
  <2>1. IsFiniteSet(blocks[x])
    <3>1. IsFiniteSet(Blocks)
      <4>1. 0 \in Int /\ KVCapacity - 1 \in Int
        BY KVAssumption
      <4> QED BY <4>1, FS_Interval DEF Blocks
    <3> QED BY <1>6, <3>1, FS_Subset
  <2>2. Cardinality(kv.free \union blocks[x])
           = Cardinality(kv.free) + Cardinality(blocks[x])
               - Cardinality(kv.free \intersect blocks[x])
    BY <1>7, <2>1, FS_Union
  <2>3. Cardinality(kv.free \intersect blocks[x]) = 0
    BY <1>6, FS_EmptySet
  <2> QED BY <1>5, <1>7, <2>2, <2>3 DEF Reserved
<1> DEFINE phases == [s \in SeqIds |-> PhaseOf(s)]
           needs == [s \in SeqIds |-> NeedOf(s)]
<1>11. /\ phases[x] = "active" /\ phases' = [phases EXCEPT ![x] = "over"]
       /\ needs[x] = NeedOf(x) /\ needs' = needs
  BY <1>2, <1>3, <1>4
<1>9. CASE req[x].useState
  <2>1. SlotIds(slot[x]) = {slot[x]}
    BY <1>7, <1>9 DEF Reserved, SlotIds
  <2>2. Cardinality(state'.free) = Cardinality(state.free) + 1
    <3>1. slot[x] \notin state.free /\ state'.free = state.free \union {slot[x]}
      BY <1>5, <1>6, <2>1
    <3> QED BY <1>7, <3>1, FS_AddElement
  <2>3. NeedOf(x) = [blocks |-> WorstBlocks(x), slots |-> 1]
    BY <1>9 DEF NeedOf
  <2>4. Service!End(x)
    BY <1>8, <1>11, <2>2, <2>3 DEF Service!End
  <2> QED BY <1>2, <2>4
<1>10. CASE ~req[x].useState
  <2>1. state'.free = state.free
    BY <1>5, <1>7, <1>10 DEF Reserved, SlotIds
  <2>2. NeedOf(x) = [blocks |-> WorstBlocks(x), slots |-> 0]
    BY <1>10 DEF NeedOf
  <2>3. Service!End(x)
    <3>1. Cardinality(state'.free) = Cardinality(state.free) + 0
      BY <1>7, <2>1
    <3> QED BY <1>8, <1>11, <2>2, <3>1 DEF Service!End
  <2> QED BY <1>2, <2>3
<1> QED BY <1>9, <1>10

\* abort of a waiting request is the service's Withdraw.
LEMMA AbortWaitingIsWithdraw ==
    ASSUME SchedInv, SchedInv', NEW i \in DOMAIN waiting, AbortWaiting(i)
    PROVE  \E s \in SeqIds : Service!Withdraw(s)
<1>0. PICK x : x = waiting[i]
  OBVIOUS
<1>1. /\ waiting' = RemoveAt(waiting, i) /\ done' = Append(done, x)
      /\ UNCHANGED kvVars /\ running' = running /\ skipped' = skipped
      /\ req' = req
  BY <1>0 DEF AbortWaiting
<1>2. SchedTypeOK /\ Apart /\ Counted /\ waiting \in Seq(SeqIds) /\ done \in Seq(SeqIds)
      /\ i \in 1 .. Len(waiting) /\ IsInjective(waiting)
  BY QueueTypes DEF SchedInv, EngineInv, Apart, Counted
<1>3. x \in ToSet(waiting) /\ x \in SeqIds
  BY <1>0, <1>2, ToSetFacts
<1>4. waiting' \in Seq(SeqIds) /\ Without(waiting', waiting, i)
  BY <1>1, <1>2, RemoveAtWithout
<1>5. ToSet(waiting') = ToSet(waiting) \ {x}
  BY <1>0, <1>2, <1>4, WithoutFacts
<1>6. ToSet(done') = ToSet(done) \union {x}
  BY <1>1, <1>2, <1>3, AppendFacts
<1>7. PhaseOf(x) = "queued" /\ PhaseOf(x)' = "over"
  BY <1>3, <1>6, InvPhases, InvPhasesNext DEF PhasesByPlace, Queued
<1>8. \A t \in SeqIds \ {x} : PhaseOf(t)' = PhaseOf(t)
  BY <1>1, <1>5, <1>6, PhaseKept DEF Queued
<1>9. \A t \in SeqIds : NeedOf(t)' = NeedOf(t)
  BY <1>1 DEF NeedOf, WorstBlocks
<1>10. Service!Withdraw(x)
  BY <1>1, <1>3, <1>7, <1>8, <1>9 DEF Service!Withdraw, kvVars
<1> QED BY <1>3, <1>10

\* advance: the end of its request, or nothing the service sees.
LEMMA AdvanceIsService ==
    ASSUME SchedInv, SchedInv', NEW x, NEW over \in BOOLEAN,
           FinishIf(over, x), UNCHANGED <<waiting, skipped, nextSeq>>,
           \A s \in SeqIds : NeedOf(s)' = NeedOf(s)
    PROVE  [Service!ServiceNext]_Service!serviceVars
<1>1. CASE over
  <2>1. PICK i \in DOMAIN running :
           running[i] = x /\ running' = RemoveAt(running, i)
    BY <1>1 DEF FinishIf
  <2>2. FreeSequence(running[i]) /\ done' = Append(done, running[i])
    BY <1>1, <2>1 DEF FinishIf
  <2>3. \E s \in SeqIds : Service!End(s)
    BY <2>1, <2>2, LeaveIsEnd
  <2> QED BY <2>3 DEF Service!ServiceNext
<1>2. CASE ~over
  <2>1. UNCHANGED kvVars /\ running' = running /\ done' = done
    BY <1>2 DEF FinishIf
  <2> QED BY <2>1, InvisibleStep DEF Queued, kvVars
<1> QED BY <1>1, <1>2

\* Every step is a step of the service or changes nothing it sees.
LEMMA StepIsService ==
    ASSUME SchedInv, SchedInv', [Next]_vars
    PROVE  [Service!ServiceNext]_Service!serviceVars
<1>1. CASE \E p \in PromptLens, m \in MaxNews, u \in UseStates : Add(p, m, u)
  BY <1>1, AddIsSubmit DEF Service!ServiceNext
<1>2. CASE \E i \in DOMAIN running : AbortRunning(i)
  <2>1. PICK i \in DOMAIN running : AbortRunning(i)
    BY <1>2
  <2>2. \A s \in SeqIds : NeedOf(s)' = NeedOf(s)
    BY <2>1 DEF AbortRunning, NeedOf, WorstBlocks
  <2>3. \E s \in SeqIds : Service!End(s)
    BY <2>1, <2>2, LeaveIsEnd DEF AbortRunning
  <2> QED BY <2>3 DEF Service!ServiceNext
<1>3. CASE \E i \in DOMAIN waiting : AbortWaiting(i)
  BY <1>3, AbortWaitingIsWithdraw DEF Service!ServiceNext
<1>4. CASE BeginStep \/ EndStep \/ UNCHANGED vars
  <2>1. UNCHANGED <<kvVars, waiting, skipped, running, done, req>>
    BY <1>4 DEF BeginStep, EndStep, vars, schedVars, queueVars
  <2> QED BY <2>1, InvisibleStep DEF Queued, NeedOf, WorstBlocks, kvVars
<1>5. CASE Admit
  BY <1>5, AdmitIsStart DEF Service!ServiceNext
<1>6. CASE Skip
  <2>0. PICK h : h = Head(waiting)
    OBVIOUS
  <2>1. /\ waiting # <<>> /\ waiting' = Tail(waiting)
        /\ skipped' = Append(skipped, h)
        /\ UNCHANGED <<kvVars, running, done, req>>
    BY <1>6, <2>0 DEF Skip
  <2>2. /\ h \in SeqIds /\ h \in ToSet(waiting)
        /\ ToSet(waiting') = ToSet(waiting) \ {h}
    BY <2>0, <2>1, PopFacts DEF SchedInv
  <2>3. skipped \in Seq(SeqIds)
    BY QueueTypes DEF SchedInv, EngineInv
  <2>4. ToSet(skipped') = ToSet(skipped) \union {h}
    BY <2>1, <2>2, <2>3, AppendFacts
  <2> QED
    BY <2>1, <2>2, <2>4, InvisibleStep DEF Queued, NeedOf, WorstBlocks, kvVars
<1>7. CASE Schedule
  <2>1. /\ waiting = <<>> /\ waiting' = skipped /\ skipped' = <<>>
        /\ UNCHANGED <<kvVars, running, done, req>>
    BY <1>7 DEF Schedule
  <2> QED
    BY <2>1, EmptyFacts, InvisibleStep DEF Queued, NeedOf, WorstBlocks, kvVars
<1>8. CASE Prefill \/ \E eos \in BOOLEAN : Decode(eos)
  <2>1. todo # <<>> /\ UNCHANGED <<waiting, skipped, nextSeq>>
    BY <1>8 DEF Prefill, Decode
  <2>2. PICK x : x = Head(todo).seq
    OBVIOUS
  <2>3. req \in [SeqIds -> Request] /\ x \in SeqIds /\ req[x] \in Request
        /\ req[x].promptLen \in Nat /\ req[x].maxNew \in Nat
        /\ req[x].position \in Nat /\ req[x].generated \in Nat
        /\ Head(todo).length \in Nat
    BY <2>1, <2>2, AdvanceTypes, RequestTypes DEF SchedInv
  <2>4. \E r : /\ req' = [req EXCEPT ![x] = r]
               /\ r.promptLen = req[x].promptLen /\ r.maxNew = req[x].maxNew
               /\ r.useState = req[x].useState
    <3>1. CASE Prefill
      <4>1. PICK p : req' = [req EXCEPT ![x] = [req[x] EXCEPT !.position = p]]
        BY <2>2, <3>1 DEF Prefill
      <4> DEFINE r == [req[x] EXCEPT !.position = p]
      <4>2. /\ r.promptLen = req[x].promptLen /\ r.maxNew = req[x].maxNew
            /\ r.useState = req[x].useState
        BY <2>3 DEF Request
      <4> HIDE DEF r
      <4>3. req' = [req EXCEPT ![x] = r]
        BY <4>1 DEF r
      <4> QED BY <4>2, <4>3
    <3>2. CASE \E eos \in BOOLEAN : Decode(eos)
      <4> DEFINE p == req[x].promptLen
                 g == req[x].generated + Head(todo).length
                 r == [req[x] EXCEPT !.generated = g, !.position = p]
      <4>1. req' = [req EXCEPT ![x].generated = g, ![x].position = p]
        BY <2>2, <3>2 DEF Decode
      <4> HIDE DEF p, g
      <4>2. /\ r.promptLen = req[x].promptLen /\ r.maxNew = req[x].maxNew
            /\ r.useState = req[x].useState
            /\ req' = [req EXCEPT ![x] = r]
        BY <2>3, <4>1 DEF Request
      <4> HIDE DEF r
      <4> QED BY <4>2
    <3> QED BY <1>8, <3>1, <3>2
  <2>5. \A s \in SeqIds : NeedOf(s)' = NeedOf(s)
    BY <2>3, <2>4 DEF NeedOf, WorstBlocks
  <2>6. \E over \in BOOLEAN : FinishIf(over, x)
    <3>1. CASE Prefill
      BY <2>2, <2>3, <3>1 DEF Prefill
    <3>2. CASE \E eos \in BOOLEAN : Decode(eos)
      BY <2>2, <2>3, <3>2 DEF Decode
    <3> QED BY <1>8, <3>1, <3>2
  <2> QED BY <2>1, <2>5, <2>6, AdvanceIsService
<1> QED
  BY <1>1, <1>2, <1>3, <1>4, <1>5, <1>6, <1>7, <1>8
     DEF Next, StepNext, CallNext

\* Every behaviour of the scheduler is one RequestService allows: reserve the
\* worst case, keep it while running, give it back whole.
THEOREM SchedulerImplementsService == Spec => ImplementsService
<1>1. Init => Service!ServiceInit
  BY InitIsService
<1>2. SchedInv /\ SchedInv' /\ [Next]_vars
         => [Service!ServiceNext]_Service!serviceVars
  BY StepIsService
<1> QED
  BY <1>1, <1>2, SchedulerInvariant, PTL
     DEF Spec, ImplementsService, Service!ServiceSpec

=============================================================================

------------------------------ MODULE KVBlocks ------------------------------
(***************************************************************************)
(* Paged KV blocks and recurrent-state slots: runtime/blocks.py.           *)
(*                                                                         *)
(* Two allocators of numbered resources, each a heap of free ids and a     *)
(* dict id -> owning sequence, and the coordinator that pairs them in one  *)
(* table per sequence.  The free ids and the owner map are separate state, *)
(* as in the code: that they partition the ids is a property, not a        *)
(* definition.  A block list is kept as a set: no property depends on the  *)
(* position of a block in its table.                                       *)
(*                                                                         *)
(* A call that raises leaves through an action of its own, which performs  *)
(* whatever the code did before the exception.                             *)
(***************************************************************************)
EXTENDS Integers, FiniteSets

CONSTANTS
    KVCapacity,      \* blocks in the KV pool
    StateCapacity,   \* recurrent-state slots
    BlockSize,       \* tokens per block
    SeqIds,          \* sequence ids the callers use
    NoSeq,           \* an id absent from an owner map
    NoSlot,          \* BlockTable.state_slot = None
    MaxTokens        \* bound: largest token count asked of the coordinator

ASSUME KVAssumption ==
    /\ KVCapacity \in Nat
    /\ StateCapacity \in Nat
    /\ BlockSize \in Nat \ {0}
    /\ NoSeq \notin SeqIds
    /\ NoSlot \notin Nat
    /\ MaxTokens \in Nat

Blocks == 0 .. KVCapacity - 1
Slots  == 0 .. StateCapacity - 1

VARIABLES
    kv,        \* KVBlockAllocator: [free |-> ids in the heap, owner |-> dict]
    state,     \* StateAllocator, the same
    tables,    \* keys of HybridKVCoordinator.tables
    blocks,    \* blocks[s]: tables[s].blocks, {} when s is not a key
    slot       \* slot[s]: tables[s].state_slot, NoSlot when None or no table

kvVars == <<kv, state, tables, blocks, slot>>

Pool(ids) == [free : SUBSET ids, owner : [ids -> SeqIds \union {NoSeq}]]

KVTypeOK ==
    /\ kv \in Pool(Blocks)
    /\ state \in Pool(Slots)
    /\ tables \subseteq SeqIds
    /\ blocks \in [SeqIds -> SUBSET Blocks]
    /\ slot \in [SeqIds -> Slots \union {NoSlot}]

(***************************************************************************)
(* The allocators.                                                         *)
(***************************************************************************)
\* Mutant of FreshPool: range(capacity + 1).
FreshPoolOffByOne(ids) ==
    [free |-> 0 .. Cardinality(ids), owner |-> [i \in ids |-> NoSeq]]

FreshPool(ids) == [free |-> ids, owner |-> [i \in ids |-> NoSeq]]

\* The sets `count` pops of the min-heap can return: the lowest free ids,
\* one set when that many are free and none when allocate raises
\* OutOfCapacity.
LowestFree(pool, count) ==
    {ids \in SUBSET pool.free :
        /\ Cardinality(ids) = count
        /\ \A x \in ids, y \in pool.free \ ids : x < y}

\* Mutant of Take: the ids are read from the heap, not popped.
TakePeeked(pool, s, ids) ==
    [pool EXCEPT !.owner = [i \in DOMAIN @ |-> IF i \in ids THEN s ELSE @[i]]]

Take(pool, s, ids) ==
    [free  |-> pool.free \ ids,
     owner |-> [i \in DOMAIN pool.owner |->
                    IF i \in ids THEN s ELSE pool.owner[i]]]

\* free() validates every id before it touches the pool.
MayFree(pool, s, ids) == \A i \in ids : pool.owner[i] = s

\* Mutant of PutBack: the owner entries are left behind.
PutBackKeepsOwner(pool, ids) == [pool EXCEPT !.free = @ \union ids]

PutBack(pool, ids) ==
    [free  |-> pool.free \union ids,
     owner |-> [i \in DOMAIN pool.owner |->
                    IF i \in ids THEN NoSeq ELSE pool.owner[i]]]

SlotIds(sl) == IF sl = NoSlot THEN {} ELSE {sl}

(***************************************************************************)
(* The coordinator.                                                        *)
(***************************************************************************)
BlocksForTokens(tokens) ==
    IF tokens > 0 THEN (tokens + BlockSize - 1) \div BlockSize ELSE 0

KVInit ==
    /\ kv = FreshPool(Blocks)
    /\ state = FreshPool(Slots)
    /\ tables = {}
    /\ blocks = [s \in SeqIds |-> {}]
    /\ slot = [s \in SeqIds |-> NoSlot]

\* Both allocations succeed.
NewSequence(s, tokens, useState) ==
    /\ s \notin tables
    /\ \E ids \in LowestFree(kv, BlocksForTokens(tokens)) :
          /\ kv' = Take(kv, s, ids)
          /\ blocks' = [blocks EXCEPT ![s] = ids]
    /\ \/ /\ useState
          /\ \E sl \in Slots :
                /\ {sl} \in LowestFree(state, 1)
                /\ state' = Take(state, s, {sl})
                /\ slot' = [slot EXCEPT ![s] = sl]
       \/ /\ ~useState
          /\ UNCHANGED <<state, slot>>
    /\ tables' = tables \union {s}

\* Mutant of NewSequenceNoSlot: no roll-back.
NewSequenceStrands(s, tokens) ==
    /\ s \notin tables
    /\ state.free = {}
    /\ \E ids \in LowestFree(kv, BlocksForTokens(tokens)) :
          kv' = Take(kv, s, ids)
    /\ UNCHANGED <<state, tables, blocks, slot>>

\* The KV allocation succeeds, the state-slot allocation raises: the blocks
\* just taken go back and no table is registered.
NewSequenceNoSlot(s, tokens) ==
    /\ s \notin tables
    /\ state.free = {}
    /\ \E ids \in LowestFree(kv, BlocksForTokens(tokens)) :
          LET taken == Take(kv, s, ids) IN
          /\ MayFree(taken, s, ids)
          /\ kv' = PutBack(taken, ids)
    /\ UNCHANGED <<state, tables, blocks, slot>>

\* Mutant of Grow: the new blocks replace the list instead of extending it.
GrowReplaces(s, targetTokens) ==
    LET missing == BlocksForTokens(targetTokens) - Cardinality(blocks[s]) IN
    /\ s \in tables
    /\ missing > 0
    /\ \E ids \in LowestFree(kv, missing) :
          /\ kv' = Take(kv, s, ids)
          /\ blocks' = [blocks EXCEPT ![s] = ids]
    /\ UNCHANGED <<state, tables, slot>>

\* A sequence already covering targetTokens keeps its table as it is; an
\* OutOfCapacity is raised before anything changes, so it is no step.
Grow(s, targetTokens) ==
    LET missing == BlocksForTokens(targetTokens) - Cardinality(blocks[s]) IN
    /\ s \in tables
    /\ missing > 0
    /\ \E ids \in LowestFree(kv, missing) :
          /\ kv' = Take(kv, s, ids)
          /\ blocks' = [blocks EXCEPT ![s] = @ \union ids]
    /\ UNCHANGED <<state, tables, slot>>

FreeSequence(s) ==
    /\ s \in tables
    /\ MayFree(kv, s, blocks[s])
    /\ MayFree(state, s, SlotIds(slot[s]))
    /\ kv' = PutBack(kv, blocks[s])
    /\ state' = PutBack(state, SlotIds(slot[s]))
    /\ tables' = tables \ {s}
    /\ blocks' = [blocks EXCEPT ![s] = {}]
    /\ slot' = [slot EXCEPT ![s] = NoSlot]

KVNext ==
    \E s \in SeqIds :
        \/ \E tokens \in 0 .. MaxTokens :
              \/ \E useState \in BOOLEAN : NewSequence(s, tokens, useState)
              \/ NewSequenceNoSlot(s, tokens)
              \/ Grow(s, tokens)
        \/ FreeSequence(s)

KVSpec == KVInit /\ [][KVNext]_kvVars

-----------------------------------------------------------------------------
(***************************************************************************)
(* Properties.                                                             *)
(***************************************************************************)

Consistent(pool, ids) == \A i \in ids : i \in pool.free <=> pool.owner[i] = NoSeq

OwnedBy(pool, ids, s) == {i \in ids : pool.owner[i] = s}

\* The heap of free ids and the owner dict of each allocator always describe
\* the same pool: an id is free exactly when nobody owns it, through every
\* allocation, roll-back and release (allocate, free).
FreeOrOwned ==
    /\ Consistent(kv, Blocks)
    /\ Consistent(state, Slots)

\* What an allocator says a sequence owns is what its table lists, and a
\* sequence without a table owns nothing: a failed new_sequence strands no
\* block, and a free_sequence validates against owners that are its own, so
\* it never raises half-way.
TablesMatchOwners ==
    \A s \in SeqIds :
        /\ blocks[s] = OwnedBy(kv, Blocks, s)
        /\ SlotIds(slot[s]) = OwnedBy(state, Slots, s)
        /\ s \notin tables => blocks[s] = {} /\ slot[s] = NoSlot

\* No block and no state slot is ever in the tables of two sequences
\* (03-runtime-tp.md, section 7: two streams of concurrent requests must
\* never touch the same block/state slot).
NoSharing ==
    \A s, t \in tables :
        s # t => /\ blocks[s] \intersect blocks[t] = {}
                 /\ SlotIds(slot[s]) \intersect SlotIds(slot[t]) = {}

Keeps ==
    \A s \in tables \intersect tables' :
        /\ blocks[s] \subseteq blocks'[s]
        /\ slot'[s] = slot[s]

\* The cached keys and values a sequence has written live at its block ids:
\* whatever other sequences do, a registered sequence keeps every block and
\* its slot until it is freed (grow only adds).
HeldUntilFreed == [][Keeps]_kvVars

=============================================================================

---------------------------- MODULE ThreadBlock -----------------------------
(***************************************************************************)
(* The thread blocks of kernels/cuda: how the threads of one block share   *)
(* partial results.                                                        *)
(*                                                                         *)
(* A kernel is the sequence of its accesses to shared cells and of its     *)
(* barriers, the same for all threads; what a thread computes on its own   *)
(* is left out.  Between two barriers the threads run in any order, as     *)
(* the warps of a block do.  A value is the bag of what it was made of:    *)
(* <<r, t>> is thread t's share of the kernel's r-th result, so a sum or a *)
(* maximum over the block is Shares(r, Threads).  Memory begins as junk,      *)
(* shares of a result 0 that no kernel has.                                *)
(***************************************************************************)
EXTENDS Integers, Sequences, Bags

CONSTANTS
    Strides,    \* what s is in the rounds of a tree: 128, 64, .. 1 in every launch
    Kernels     \* names of the kernels to run, of DOMAIN Code

\* blockDim.x, of which the first stride is the half.
NumThreads == 2 * Strides[1]

\* for (s = blockDim.x / 2; s > 0; s >>= 1), of a power of two.
ASSUME BlockAssumption ==
    /\ Strides \in Seq(Nat \ {0}) /\ Strides # <<>>
    /\ \A i \in 1 .. Len(Strides) - 1 : Strides[i] = 2 * Strides[i + 1]
    /\ Strides[Len(Strides)] = 1

Threads == 0 .. NumThreads - 1
Leader == 0
Arrays == {"red", "sred", "scores", "valid", "max", "sum"}

VARIABLES
    kernel,    \* the kernel that runs
    cells,     \* cells[a][t]: cell t of array a
    ip,        \* ip[t]: the instruction thread t is to execute
    loaded     \* loaded[t]: what thread t read last and what it was to be

blockVars == <<kernel, cells, ip, loaded>>

(***************************************************************************)
(* Instructions.  `by` is who executes it, `of` whose shares a load is to  *)
(* find, `half` the distance of a step of a tree.                          *)
(***************************************************************************)
Instr(op, a, r) ==
    [op |-> op, array |-> a, result |-> r, by |-> Threads, of |-> Threads, half |-> 0]

Own(a, r) == Instr("own", a, r)          \* a[tid] = share
First(a, r) == Instr("first", a, r)      \* read a[0]
All(a, r) == Instr("all", a, r)          \* read every cell
Atomic(a, r) == Instr("atomic", a, r)    \* atomicAdd(&a[0], share)
Clear(a) == Instr("clear", a, 0)         \* a[0] = 0
Barrier == Instr("barrier", "", 0)
Fold(a, r, s) == [Instr("fold", a, r) EXCEPT !.half = s]

ByLeader(i) == [i EXCEPT !.by = {Leader}]
OfLeader(i) == [i EXCEPT !.of = {Leader}]

\* Every round of the loop is a fold and a barrier.
Tree(a, r) ==
    [j \in 1 .. 2 * Len(Strides) |->
        IF j % 2 = 1 THEN Fold(a, r, Strides[(j + 1) \div 2]) ELSE Barrier]

\* A result of the whole block, read by every thread.
Reduce(a, r) == <<Own(a, r), Barrier>> \o Tree(a, r) \o <<First(a, r)>>

\* Mutant of Again: the cells are used again without a barrier.
AgainAtOnce(r) == Reduce("red", r)

\* A reduction in a loop, closed by a barrier before the next round.
Again(r) == Reduce("red", r) \o <<Barrier>>

(***************************************************************************)
(* The kernels.                                                            *)
(***************************************************************************)
RmsNorm == <<Own("red", 1), Barrier>> \o Tree("red", 1) \o <<Barrier, First("red", 1)>>
AddRms == Reduce("red", 1)
GemmaNorm == Reduce("red", 1)
HcCombine == Reduce("red", 1)
GroupedNorm == Again(1) \o Again(2)
MqaLogits == Again(1) \o Again(2)

\* Two arrays, one for the maximum and one for the sum.
SparseAttention ==
    <<Own("valid", 1), Own("scores", 2)>> \o Reduce("red", 3)
        \o <<Own("scores", 4)>> \o Reduce("sred", 5)
        \o <<All("valid", 1), All("scores", 4)>>

\* Mutant of MoeRouter: the sum is read while threads still add to it.
MoeRouterEarly ==
    <<ByLeader(Own("max", 1)), ByLeader(Clear("sum")), Barrier,
      OfLeader(First("max", 1)), Own("scores", 2), Atomic("sum", 3),
      First("sum", 3), Own("scores", 4), Barrier, ByLeader(All("scores", 4))>>

\* The leader finds the maximum, all add to one sum, the leader selects.
MoeRouter ==
    <<ByLeader(Own("max", 1)), ByLeader(Clear("sum")), Barrier,
      OfLeader(First("max", 1)), Own("scores", 2), Atomic("sum", 3), Barrier,
      First("sum", 3), Own("scores", 4), Barrier, ByLeader(All("scores", 4))>>

QsaTopK == <<Own("scores", 1), Barrier, ByLeader(All("scores", 1))>>

\* One array for the maximum and then for the sum.
AttentionDecode ==
    <<Own("scores", 1), Barrier>> \o Reduce("red", 2) \o Reduce("red", 3)
        \o <<All("scores", 1)>>
AttentionDecodeGqa == AttentionDecode
AttentionDecodeGqaT == AttentionDecode
AttentionKernels ==
    {"attention_decode", "attention_decode_gqa", "attention_decode_gqa_t"}

Code ==
    [rms_norm |-> RmsNorm, add_rms |-> AddRms, gemma_rmsnorm |-> GemmaNorm,
     hc_combine |-> HcCombine, grouped_gemma_rmsnorm |-> GroupedNorm,
     qsa_mqa |-> MqaLogits, qsa_sparse_attn |-> SparseAttention,
     moe_router |-> MoeRouter, qsa_topk_sm |-> QsaTopK,
     attention_decode |-> AttentionDecode,
     attention_decode_gqa |-> AttentionDecodeGqa,
     attention_decode_gqa_t |-> AttentionDecodeGqaT]

ASSUME KernelsAssumption == Kernels \subseteq DOMAIN Code

(***************************************************************************)
(* Execution.                                                              *)
(***************************************************************************)
Shares(r, ts) == SetToBag({r} \X ts)

BlockInit ==
    /\ kernel \in Kernels
    /\ cells = [a \in Arrays |-> [t \in Threads |-> Shares(0, {t})]]
    /\ ip = [t \in Threads |-> 1]
    /\ loaded = [t \in Threads |-> [found |-> EmptyBag, wanted |-> EmptyBag]]

Running(t) == ip[t] <= Len(Code[kernel])
Next1(t) == Code[kernel][ip[t]]
Active(t) == Running(t) /\ Next1(t).op # "barrier"

\* Thread t takes part in its next instruction.
Takes(t) ==
    /\ t \in Next1(t).by
    /\ Next1(t).op = "fold" => t < Next1(t).half

Ahead(t) == ip' = [ip EXCEPT ![t] = @ + 1]

SetCell(t, c, v) == cells' = [cells EXCEPT ![Next1(t).array][c] = v]

Write(t) ==
    LET i == Next1(t)
        share == Shares(i.result, {t}) IN
    /\ Active(t) /\ Takes(t)
    /\ \/ i.op = "own" /\ SetCell(t, t, share)
       \/ i.op = "clear" /\ SetCell(t, 0, EmptyBag)
       \/ i.op = "atomic" /\ SetCell(t, 0, cells[i.array][0] (+) share)
       \/ i.op = "fold" /\ SetCell(t, t, cells[i.array][t] (+) cells[i.array][t + i.half])
    /\ Ahead(t)
    /\ UNCHANGED <<kernel, loaded>>

Read(t) ==
    LET i == Next1(t)
        shared == cells[i.array] IN
    /\ Active(t) /\ Takes(t)
    /\ i.op \in {"first", "all"}
    /\ loaded' = [loaded EXCEPT ![t] =
                  IF i.op = "first"
                  THEN [found |-> shared[0], wanted |-> Shares(i.result, i.of)]
                  ELSE [found |-> shared,
                        wanted |-> [c \in Threads |-> Shares(i.result, {c})]]]
    /\ Ahead(t)
    /\ UNCHANGED <<kernel, cells>>

PassBy(t) == Active(t) /\ ~Takes(t) /\ Ahead(t) /\ UNCHANGED <<kernel, cells, loaded>>

\* __syncthreads(): all threads of the block arrive, and then go on.
Sync ==
    /\ \A t \in Threads : Running(t) /\ Next1(t).op = "barrier" /\ ip[t] = ip[Leader]
    /\ ip' = [t \in Threads |-> ip[t] + 1]
    /\ UNCHANGED <<kernel, cells, loaded>>

BlockNext == Sync \/ \E t \in Threads : Write(t) \/ Read(t) \/ PassBy(t)

BlockSpec == BlockInit /\ [][BlockNext]_blockVars

-----------------------------------------------------------------------------
(***************************************************************************)
(* Properties.                                                             *)
(***************************************************************************)
\* What a thread reads of another's work is finished and of the right round:
\* every thread of the block normalises by the same maximum, the same sum.
ReductionsExact == \A t \in Threads : loaded[t].found = loaded[t].wanted

\* The cells that thread t writes, and those it reads or writes, next.
Written1(t) ==
    IF ~(Active(t) /\ Takes(t)) THEN {}
    ELSE CASE Next1(t).op \in {"own", "fold"} -> {t}
           [] Next1(t).op \in {"clear", "atomic"} -> {0}
           [] OTHER -> {}

Touched(t) ==
    IF ~(Active(t) /\ Takes(t)) THEN {}
    ELSE CASE Next1(t).op = "first" -> {0}
           [] Next1(t).op = "all" -> Threads
           [] Next1(t).op = "fold" -> {t, t + Next1(t).half}
           [] OTHER -> Written1(t)

\* Between two barriers no thread writes what another one accesses, two
\* atomic additions apart: a race is undefined whatever the order gives.
RaceFree ==
    \A t, u \in Threads :
        t # u /\ Written1(t) \intersect Touched(u) # {} =>
            \/ Next1(t).array # Next1(u).array
            \/ Next1(t).op = "atomic" /\ Next1(u).op = "atomic"

\* A reduction over a thread block: no race on the way and the same exact
\* result for all threads.
BlocksExact == RaceFree /\ ReductionsExact
=============================================================================

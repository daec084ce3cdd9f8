------------------------------ MODULE DeviceKV ------------------------------
(***************************************************************************)
(* The K/V buffers of a device decode state: DeviceDecodeState of          *)
(* kernels/device_decode.py (HybridDeviceDecodeState is the same here) and *)
(* the kernels that fill, read and re-lay them out.                        *)
(*                                                                         *)
(* A buffer is flat memory of (head, position, word) with room for `cap`   *)
(* positions.  When a position does not fit, new buffers of another stride *)
(* are allocated and the rows are copied into them; any allocation and any *)
(* launch may fail.  A step that raises is the last one of its state.      *)
(***************************************************************************)
EXTENDS Integers

CONSTANTS
    KVHeads,        \* kv_heads
    RowWords,       \* 32-bit words of one head's row (blk_words)
    Buffers,        \* K and V of every layer
    StartCtxs,      \* n_ctx of the caches that states are made of
    MaxRows         \* max_position_embeddings

ASSUME DeviceAssumption ==
    /\ {KVHeads, RowWords, MaxRows} \subseteq Nat \ {0}
    /\ StartCtxs \subseteq 1 .. MaxRows

VARIABLES
    words,      \* words[b]: the words of buffer b, _k and _v
    cap,        \* positions it has room for
    scores,     \* positions _scores has room for, 0 once it is freed
    length,     \* cache.n_ctx
    raised      \* a step has raised

devKVVars == <<words, cap, scores, length, raised>>

Words(c) == 0 .. KVHeads * c * RowWords - 1

\* What a word of an allocation is before it is written.
NoWord == <<>>

\* Word w of position s of head h in a buffer of c positions.
At(h, s, w, c) == (h * c + s) * RowWords + w

Grown == IF 2 * cap > length + 1 THEN 2 * cap ELSE length + 1
NewCap == IF Grown < MaxRows THEN Grown ELSE MaxRows

\* Mutant of Target: the rows keep the old stride.
TargetOldStride(i, new) == i

\* Where thread i of kv_relayout_w_kernel writes the word it has read.
Target(i, new) ==
    At(i \div (cap * RowWords), (i \div RowWords) % cap, i % RowWords, new)

Relaid(old, new) ==
    [j \in Words(new) |->
        IF \E i \in Words(cap) : Target(i, new) = j
        THEN old[CHOOSE i \in Words(cap) : Target(i, new) = j] ELSE NoWord]

\* The rows of position n_ctx, one thread per word of kv_write_t_kernel.
WithRow(b) ==
    [j \in DOMAIN b |->
        IF \E h \in 0 .. KVHeads - 1, w \in 0 .. RowWords - 1 :
              At(h, length, w, cap) = j
        THEN <<(j \div RowWords) \div cap, length, j % RowWords>> ELSE b[j]]

\* A state is made of a host cache: its rows are uploaded.
DevKVInit ==
    /\ raised = FALSE
    /\ length \in StartCtxs
    /\ cap = length
    /\ scores = length
    /\ words = [b \in Buffers |->
                [j \in Words(length) |->
                    <<(j \div RowWords) \div length, (j \div RowWords) % length, j % RowWords>>]]

Steps == ~raised /\ length < MaxRows

Fits == length < cap

\* _grow: allocate everything, copy everything, free the old buffers.
Growth ==
    /\ Steps /\ ~Fits
    /\ words' = [b \in Buffers |-> Relaid(words[b], NewCap)]
    /\ cap' = NewCap
    /\ scores' = NewCap
    /\ UNCHANGED <<length, raised>>

\* Mutant of GrowthFails: the buffers are replaced one by one.
GrowthFailsBetween ==
    /\ Steps /\ ~Fits
    /\ \E bs \in SUBSET Buffers :
          words' = [b \in Buffers |-> IF b \in bs THEN Relaid(words[b], NewCap) ELSE words[b]]
    /\ raised' = TRUE
    /\ UNCHANGED <<cap, scores, length>>

\* An allocation or a copy fails: the new buffers are freed.
GrowthFails ==
    /\ Steps /\ ~Fits
    /\ raised' = TRUE
    /\ UNCHANGED <<words, cap, scores, length>>

\* The last allocation of _grow fails, after the swap.
ScoresFail ==
    /\ Steps /\ ~Fits
    /\ words' = [b \in Buffers |-> Relaid(words[b], NewCap)]
    /\ cap' = NewCap
    /\ scores' = 0
    /\ raised' = TRUE
    /\ UNCHANGED length

\* Every layer writes its rows and attends over positions 0 .. n_ctx.
Append1 ==
    /\ Steps /\ Fits
    /\ words' = [b \in Buffers |-> WithRow(words[b])]
    /\ length' = length + 1
    /\ UNCHANGED <<cap, scores, raised>>

\* A launch fails: the rows of some buffers are written.
AppendFails ==
    /\ Steps /\ Fits
    /\ \E bs \in SUBSET Buffers :
          words' = [b \in Buffers |-> IF b \in bs THEN WithRow(words[b]) ELSE words[b]]
    /\ raised' = TRUE
    /\ UNCHANGED <<cap, scores, length>>

DevKVNext ==
    Growth \/ GrowthFails \/ ScoresFail \/ Append1 \/ AppendFails

DevKVSpec == DevKVInit /\ [][DevKVNext]_devKVVars

\* Attention finds row s of head h at stride `cap`, for every position of the
\* cache, after any number of growths and after a growth that failed: "a
\* failure leaves the old KV + self.cap untouched -> no mixed-stride state"
\* (device_decode.py:225-226).  As long as no step has raised, the scores of
\* every position have room.
RowsWhereRead ==
    /\ \A b \in Buffers, h \in 0 .. KVHeads - 1, w \in 0 .. RowWords - 1 :
          \A s \in 0 .. length - 1 : words[b][At(h, s, w, cap)] = <<h, s, w>>
    /\ ~raised => length <= scores /\ scores = cap
=============================================================================

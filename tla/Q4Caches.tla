------------------------------ MODULE Q4Caches ------------------------------
(***************************************************************************)
(* The incremental state of the qwen4_exp model: Qwen4ExpState and         *)
(* _forward of ref/qwen4_exp_pipeline.py, with the n-gram features of      *)
(* ref/qwen4_exp_ple.py.                                                   *)
(*                                                                         *)
(* The positions of a sequence come in chunks: a prompt at once, one token *)
(* at a time, or, from the drafter's side, several positions on a state    *)
(* that is there or not.  Whatever the chunks, every layer must have       *)
(* computed each position from the same rows.  Layers are of two types; a  *)
(* third entry stands for the n-gram features that are added before one.   *)
(*                                                                         *)
(* Numbers are left out: a row is the position it was computed from, and   *)
(* the indexer's scores are a ranking of the blocks.  v is written where k *)
(* is, so only k is kept.                                                  *)
(***************************************************************************)
EXTENDS Integers, Sequences, FiniteSets

CONSTANTS
    Kinds,          \* what has a cache: "linear", "full" and "ple"
    ConvKernel,     \* lin_conv: positions a linear layer's convolution takes
    Ratio,          \* idx_ratio: positions to a block
    Budget,         \* idx_budget: positions attended in whole blocks
    NGram,          \* ngram_size
    Taps,           \* ple_conv_kernel_size
    MinCap,         \* 16: smallest capacity of a growing cache
    MaxPositions    \* bound: positions of the sequence

\* Qwen4ExpCfg.validate; convolutions of one tap have no window to keep (the
\* slice [-0:] that would be it is everything).
ASSUME Q4Assumption ==
    /\ Kinds \in Seq({"linear", "full", "ple"})
    /\ ConvKernel \in Nat \ {0, 1}
    /\ Ratio \in Nat \ {0, 1}
    /\ Budget \in Nat \ {0}
    /\ Budget % Ratio = 0
    /\ NGram \in Nat \ {0, 1}
    /\ Taps \in Nat \ {0, 1}
    /\ MinCap \in Nat \ {0}
    /\ MaxPositions \in Nat \ {0}

Entries == 1 .. Len(Kinds)
Eos == 0
NoRow == -1

VARIABLES
    text,       \* the tokens: each its position, or Eos
    rank,       \* the indexer's ranking of the blocks, best first
    n_ctx,      \* positions computed
    ple_ctx,    \* last tokens, for the n-grams; <<>> for None
    cache,      \* per entry its arrays
    seen        \* per entry and position: what it was computed from

q4Vars == <<text, rank, n_ctx, ple_ctx, cache, seen>>

Max2(a, b) == IF a >= b THEN a ELSE b
Least2(a, b) == IF a <= b THEN a ELSE b

\* The last k of a sequence, or all of it: s[-k:].
LastOf(s, k) == IF Len(s) <= k THEN s ELSE SubSeq(s, Len(s) - k + 1, Len(s))

NoRows(k) == [i \in 1 .. k |-> NoRow]

\* What a convolution whose last tap lies on the last row of s takes: the
\* rows that are there, each at its tap.
Computed(s) == {<<Len(s) - i, s[i]>> : i \in {j \in DOMAIN s : s[j] # NoRow}}

Positions(a, b) == [i \in 1 .. b - a + 1 |-> a + i - 1]

-----------------------------------------------------------------------------
\* Growing arrays: a view of a buffer that doubles its capacity.

Array(s) == [rows |-> s, buf |-> <<>>]

\* _append_axis
Appended(a, new) ==
    LET n == Len(a.rows)
        m == Len(new)
        cap == Max2(n + m, Max2(2 * Max2(Len(a.buf), n), MinCap))
        buf == IF n + m > Len(a.buf) THEN a.rows \o NoRows(cap - n) ELSE a.buf
        all == [i \in DOMAIN buf |->
                    IF i \in n + 1 .. n + m THEN new[i - n] ELSE buf[i]]
    IN  [rows |-> SubSeq(all, 1, n + m), buf |-> all]

-----------------------------------------------------------------------------
\* Full attention: which positions a position attends.

\* The budget's worth of the first n blocks that rank best.
BestBlocks(n) ==
    {b \in 0 .. n - 1 :
        Cardinality({c \in 0 .. n - 1 : rank[c] < rank[b]}) < Budget \div Ratio}

\* Slots of blocks, and of the part of a block behind the last whole one; the
\* query is the row q of a sequence of len rows.
SelectedSlots(blocks, q, len) ==
    LET tail == ((q + 1) \div Ratio) * Ratio IN
    {s \in {Ratio * b + o : b \in blocks, o \in 0 .. Ratio - 1}
           \union {tail + o : o \in 0 .. Least2(Ratio - 2, q - tail)} : s < len}

\* One block's key, made of its positions, rotated to its first.
BlockKey(tok_k, end) == [at |-> end - Ratio,
                         of |-> SubSeq(tok_k, end - Ratio + 1, end)]

BlockKeys(S) ==
    [b \in 1 .. S \div Ratio |-> BlockKey(Positions(0, S - 1), b * Ratio)]

-----------------------------------------------------------------------------
\* n-gram features.

\* shift_right_ignore_eos: the token sh places before the i-th of h, where
\* that is there and no end of a text lies between.
Shifted(h, sh, i) ==
    IF sh = 0 \/ (i > sh /\ \A j \in i - sh .. i - 1 : h[j] # Eos)
    THEN h[i - sh]
    ELSE Eos

NGramOf(h, i) == [sh \in 0 .. NGram - 1 |-> Shifted(h, sh, i)]

\* What the dilated convolution takes for the i-th row behind its history.
TapsOf(history, rows, i) ==
    Computed([k \in 1 .. Taps |-> (history \o rows)[(k - 1) * NGram + i]])

ConvHistory == (Taps - 1) * NGram

-----------------------------------------------------------------------------
\* What position p is computed from when it is one of the first n computed
\* at once.

ComputedFrom(kind, p, n) ==
    CASE kind = "linear" ->
            [conv |-> Computed(Positions(Max2(0, p - ConvKernel + 1), p)),
             gdn |-> Positions(0, p)]
      [] kind = "full" ->
            [k |-> SelectedSlots(BestBlocks((p + 1) \div Ratio), p, n),
             blocks |-> SubSeq(BlockKeys(n), 1, (p + 1) \div Ratio)]
      [] kind = "ple" ->
            [ngram |-> NGramOf(SubSeq(text, 1, p + 1), p + 1),
             conv |-> TapsOf(NoRows(ConvHistory), Positions(0, p), p + 1)]

\* A state nothing was computed in, and one step of the layers that compute
\* their positions one after the other.
NoCache(kind) ==
    CASE kind = "linear" -> [conv |-> NoRows(ConvKernel - 1), gdn |-> <<>>]
      [] kind = "full" ->
            [k |-> Array(<<>>), tok_k |-> Array(<<>>), ck |-> Array(<<>>)]
      [] kind = "ple" -> [conv |-> <<>>]

\* _linear_block_step
LinearStep(c, p) ==
    [conv |-> LastOf(Append(c.conv, p), ConvKernel - 1),
     gdn |-> Append(c.gdn, p)]

LinearReads(c, p) ==
    [conv |-> Computed(LastOf(Append(c.conv, p), ConvKernel)),
     gdn |-> Append(c.gdn, p)]

\* _qsa_block_step
FullStep(c, p) ==
    LET tok_k == Appended(c.tok_k, <<p>>) IN
    [k |-> Appended(c.k, <<p>>),
     tok_k |-> tok_k,
     ck |-> IF (p + 1) % Ratio = 0
            THEN Appended(c.ck, <<BlockKey(tok_k.rows, p + 1)>>)
            ELSE c.ck]

FullReads(c, p) ==
    LET after == FullStep(c, p)
        len == Len(after.k.rows)
    IN  [k |-> {after.k.rows[s + 1] :
                    s \in SelectedSlots(BestBlocks(Len(after.ck.rows)), len - 1, len)},
         blocks |-> after.ck.rows]

\* An entry and what its positions were computed from: position p is added.
Step(kind, st, p) ==
    IF kind = "linear"
    THEN [c |-> LinearStep(st.c, p), seen |-> Append(st.seen, LinearReads(st.c, p))]
    ELSE [c |-> FullStep(st.c, p), seen |-> Append(st.seen, FullReads(st.c, p))]

\* s positions are added, one after the other.
Stepped(kind, st, s) ==
    LET after[i \in 0 .. s] ==
            IF i = 0 THEN st ELSE Step(kind, after[i - 1], n_ctx + i - 1)
    IN  after[s]

\* _ple_forward: a chunk of s positions at once, always.
PleChunk(st, s) ==
    LET before == IF ple_ctx = <<>> THEN [i \in 1 .. NGram - 1 |-> Eos]
                  ELSE ple_ctx
        tokens == before \o SubSeq(text, n_ctx + 1, n_ctx + s)
        rows == Positions(n_ctx, n_ctx + s - 1)
        history == IF st.c.conv = <<>> THEN NoRows(ConvHistory) ELSE st.c.conv
    IN  [c |-> [conv |-> LastOf(history \o rows, ConvHistory)],
         seen |-> st.seen \o
            [i \in 1 .. s |->
                [ngram |-> NGramOf(tokens, Len(before) + i),
                 conv |-> TapsOf(history, rows, i)]]]

\* A prompt of S positions: all rows from one another.
Prompt(kind, S) ==
    [c |-> CASE kind = "linear" ->
                    [conv |-> LastOf(Positions(0, S - 1), ConvKernel - 1),
                     gdn |-> Positions(0, S - 1)]
             [] kind = "full" ->
                    [k |-> Array(Positions(0, S - 1)),
                     tok_k |-> Array(Positions(0, S - 1)),
                     ck |-> Array(BlockKeys(S))],
     seen |-> [i \in 1 .. S |-> ComputedFrom(kind, i - 1, S)]]

-----------------------------------------------------------------------------
Q4Init ==
    /\ text \in [1 .. MaxPositions -> 0 .. MaxPositions]
    /\ \A i \in 1 .. MaxPositions : text[i] \in {i, Eos}
    /\ rank \in {f \in [0 .. MaxPositions \div Ratio -> 0 .. MaxPositions \div Ratio] :
                    \A a, b \in DOMAIN f : f[a] = f[b] => a = b}
    /\ n_ctx = 0
    /\ ple_ctx = <<>>
    /\ cache = [e \in Entries |-> NoCache(Kinds[e])]
    /\ seen = [e \in Entries |-> <<>>]

\* Mutant of Advance: a chunk shorter than the context forgets what was
\* before it.
AdvanceForgets(s) ==
    /\ n_ctx' = n_ctx + s
    /\ ple_ctx' = LastOf(SubSeq(text, n_ctx + 1, n_ctx + s), NGram - 1)
    /\ UNCHANGED <<text, rank>>

\* The end of _forward.
Advance(s) ==
    /\ n_ctx' = n_ctx + s
    /\ ple_ctx' = LastOf(ple_ctx \o SubSeq(text, n_ctx + 1, n_ctx + s),
                         NGram - 1)
    /\ UNCHANGED <<text, rank>>

Become(st) ==
    /\ cache' = [e \in Entries |-> st[e].c]
    /\ seen' = [e \in Entries |-> st[e].seen]

Before(e) == [c |-> cache[e], seen |-> seen[e]]

\* prefill
Prefill(S) ==
    /\ n_ctx = 0
    /\ Become([e \in Entries |->
                IF Kinds[e] = "ple" THEN PleChunk(Before(e), S)
                ELSE Prompt(Kinds[e], S)])
    /\ Advance(S)

\* decode_step (s = 1), and hidden rows of s positions on a state that is
\* there or on a new one: within a layer, one position after the other.
ExtendBy(s) ==
    /\ n_ctx + s <= MaxPositions
    /\ Become([e \in Entries |->
                IF Kinds[e] = "ple" THEN PleChunk(Before(e), s)
                ELSE Stepped(Kinds[e], Before(e), s)])
    /\ Advance(s)

Q4Next ==
    \/ \E S \in 1 .. MaxPositions : Prefill(S)
    \/ \E s \in 1 .. MaxPositions : ExtendBy(s)

Q4Spec == Q4Init /\ [][Q4Next]_q4Vars

-----------------------------------------------------------------------------
(***************************************************************************)
(* Properties.                                                             *)
(***************************************************************************)

\* However a sequence was cut into prompt, chunks and single steps, every
\* layer has computed every position from exactly what it would have been
\* computed from in one prompt of all of them, and holds what the next
\* position needs: all rows in order, one key for each whole block, the
\* convolution's last rows, and n-grams that reach into earlier chunks and
\* never across the end of a text (qwen4_exp_pipeline.py:179-200, 537-655).
CachesExact ==
    \A e \in Entries :
        /\ Len(seen[e]) = n_ctx
        /\ \A p \in 0 .. n_ctx - 1 :
            seen[e][p + 1] = ComputedFrom(Kinds[e], p, n_ctx)
        /\ CASE Kinds[e] = "linear" ->
                    /\ Computed(cache[e].conv)
                        = Computed(LastOf(Positions(0, n_ctx - 1), ConvKernel - 1))
                    /\ cache[e].gdn = Positions(0, n_ctx - 1)
             [] Kinds[e] = "full" ->
                    /\ cache[e].k.rows = Positions(0, n_ctx - 1)
                    /\ cache[e].tok_k.rows = Positions(0, n_ctx - 1)
                    /\ cache[e].ck.rows = BlockKeys(n_ctx)
             [] Kinds[e] = "ple" ->
                    Computed(cache[e].conv)
                        = Computed(LastOf(Positions(0, n_ctx - 1), ConvHistory))

=============================================================================

----------------------------- MODULE DsV4Decode -----------------------------
(***************************************************************************)
(* The decode state of the DeepSeek-V4 model: ref/deepseek_v4.py.          *)
(*                                                                         *)
(* Every layer attends the last Window positions, whose rows it keeps in a *)
(* ring.  A layer with a compress ratio r also attends one pooled row for  *)
(* every r positions: a compressor collects the rows of the group that is  *)
(* being filled.  Layers of ratio 4 pool each group together with the one  *)
(* before it, and an indexer, with a compressor of its own, picks the      *)
(* groups that are attended.  A prompt is computed at once and leaves the  *)
(* state a decode continues from, one position at a time; the drafter of   *)
(* speculative decoding keeps a ring of its own.                           *)
(*                                                                         *)
(* Every position is rotated by a table that __init__ builds, which need   *)
(* not be as long as the context: past its end the models raise.           *)
(*                                                                         *)
(* Numbers are left out: a row is the positions it was computed from, and  *)
(* the indexer's scores are a ranking of the groups.                       *)
(***************************************************************************)
EXTENDS Integers, Sequences, FiniteSets

CONSTANTS
    Window,         \* window_size
    Ratios,         \* compress_ratios: one of 0 (no compression), 4, others
    TopK,           \* index_topk
    MaxSeqLen,      \* max_seq_len
    MaxTable,       \* positions of the rotary tables at most: 4096
    DraftBlock      \* dspark_block_size

\* A window of 1 would take window_topk_idxs the wrong way in a prefill.
ASSUME DsV4Assumption ==
    /\ Window \in Nat \ {0, 1}
    /\ Ratios \in Seq(Nat)
    /\ TopK \in Nat \ {0}
    /\ MaxSeqLen \in Nat \ {0}
    /\ MaxTable \in Nat \ {0, 1}
    /\ DraftBlock \in Nat \ {0}

LayerIds == 1 .. Len(Ratios)
Overlap(r) == r = 4
Indexed(r) == r = 4

\* The ratio of the indexer's own compressor.
IndexRatio(r) == IF Indexed(r) THEN 4 ELSE 0

\* A row of zeros, whose score of -inf keeps it out of every pool.
Unwritten == -1

Least(a, b) == IF a <= b THEN a ELSE b
Greatest(a, b) == IF a >= b THEN a ELSE b

\* Positions that can be rotated.
TableLen == Least(MaxSeqLen, MaxTable)

VARIABLES
    prompt,     \* length of the prompt, 0 before the prefill
    pos,        \* positions computed: state[-1]
    layer,      \* the layers' _LayerKV
    reads,      \* per layer and position: the rows its output was computed of
    ranking,    \* the indexer's ranking of the groups, best first
    failed,     \* prefill, decode_step or draft_step has raised
    drafter     \* the ring of its first stage, the positions it was given, what
                \* it attended

dsVars == <<prompt, pos, layer, reads, ranking, failed, drafter>>

-----------------------------------------------------------------------------
\* The rings.

\* What a prefill of S positions leaves in a ring: the last Window of them,
\* each in the slot of its remainder.
Ring(S) ==
    LET cutoff == S % Window IN
    [s \in 0 .. Window - 1 |->
        IF S <= Window THEN IF s < S THEN s ELSE Unwritten
        ELSE IF s >= cutoff THEN S - Window + s - cutoff
        ELSE S - cutoff + s]

\* Slots of the ring that the position p attends when it is decoded.
WindowSlots(p) == IF p >= Window - 1 THEN 0 .. Window - 1 ELSE 0 .. p

\* Positions that position p attends in a prefill of S.
PrefillWindow(S, p) ==
    {m \in {Greatest(p - Window + 1, 0) + k : k \in 0 .. Least(S, Window) - 1} :
        m <= p}

-----------------------------------------------------------------------------
\* Compressors.

\* Where the group that is being filled lies in a compressor's state.
GroupBase(r) == IF Overlap(r) THEN r ELSE 0

EmptyState(r) ==
    [j \in 0 .. IF r = 0 THEN -1 ELSE GroupBase(r) + r - 1 |-> Unwritten]

\* A pooled row: the position it is rotated to, and the positions pooled,
\* the first half of the columns of the group before, the second of its own.
PooledRow(at, before, own) ==
    [at |-> at,
     of |-> {<<p, "before">> : p \in before \ {Unwritten}}
            \union {<<p, "own">> : p \in own \ {Unwritten}}]

GroupOf(r, g) == {r * g + k : k \in 0 .. r - 1}

PrefillRows(r, S) ==
    [i \in 1 .. IF r = 0 THEN 0 ELSE S \div r |->
        PooledRow(r * (i - 1),
                  IF Overlap(r) /\ i > 1 THEN GroupOf(r, i - 2) ELSE {},
                  GroupOf(r, i - 1))]

\* Mutant of PrefillState: the group before the one that is being filled is
\* not handed over.
PrefillStateNoOverlap(r, S) ==
    IF r = 0 \/ S < r
    THEN EmptyState(r)
    ELSE LET used == S - (S % r) IN
         [j \in DOMAIN EmptyState(r) |->
            IF j < r /\ used = S
            THEN used - r + j
            ELSE IF j - GroupBase(r) \in 0 .. S - used - 1
            THEN used + j - GroupBase(r)
            ELSE Unwritten]

\* The state a prefill leaves: the last full group (where the next one needs
\* it, or nothing follows it) and what follows it.  A prompt that fills no
\* group leaves the initial state.
PrefillState(r, S) ==
    IF r = 0 \/ S < r
    THEN EmptyState(r)
    ELSE LET used == S - (S % r) IN
         [j \in DOMAIN EmptyState(r) |->
            IF j < r /\ (used = S \/ Overlap(r))
            THEN used - r + j
            ELSE IF j - GroupBase(r) \in 0 .. S - used - 1
            THEN used + j - GroupBase(r)
            ELSE Unwritten]

\* A compressor: the rows pooled so far and its state.
Prefilled(r, S) == [rows |-> PrefillRows(r, S), state |-> PrefillState(r, S)]

\* One position more: a row when the group is full.
Collected(r, c, p) ==
    IF r = 0 THEN c ELSE
    LET filled == [c.state EXCEPT ![GroupBase(r) + (p % r)] = p]
        half(b) == {filled[b + k] : k \in 0 .. r - 1}
        row == PooledRow(p + 1 - r, IF Overlap(r) THEN half(0) ELSE {},
                         half(GroupBase(r)))
    IN  IF (p + 1) % r # 0
        THEN [c EXCEPT !.state = filled]
        ELSE [rows |-> Append(c.rows, row),
              state |-> [j \in DOMAIN filled |->
                            IF Overlap(r) /\ j < r THEN filled[r + j]
                            ELSE Unwritten]]

-----------------------------------------------------------------------------
\* Which groups are attended.

\* The indexer's choice among the first n groups.
BestGroups(n) ==
    LET before(g) == {h \in 0 .. n - 1 : ranking[h] < ranking[g]} IN
    {g \in 0 .. n - 1 : Cardinality(before(g)) < TopK}

\* For position p in a prefill of S: those whose positions are all past.  The
\* indexer chooses first and drops those that are not past afterwards.
PrefillGroups(r, S, p) ==
    {g \in IF Indexed(r) THEN BestGroups(S \div r)
           ELSE 0 .. Greatest(S \div r, 1) - 1 : g < (p + 1) \div r}

\* For position p when it is decoded, n rows being there.
DecodeGroups(r, n, p) ==
    IF Indexed(r) THEN BestGroups(n)
    ELSE 0 .. Greatest((p + 1) \div r, 1) - 1

Attended(window, rows, groups) ==
    [window |-> window, rows |-> {rows[g + 1] : g \in groups}]

\* What position p attends in a layer of ratio r when S positions are
\* computed at once.
PrefillAttends(r, S, p) ==
    Attended(PrefillWindow(S, p), PrefillRows(r, S),
             IF r = 0 THEN {} ELSE PrefillGroups(r, S, p))

-----------------------------------------------------------------------------
NoLayer(r) ==
    [ring |-> Ring(0), main |-> Prefilled(r, 0),
     index |-> Prefilled(IndexRatio(r), 0)]

DsInit ==
    /\ prompt = 0
    /\ pos = 0
    /\ layer = [l \in LayerIds |-> NoLayer(Ratios[l])]
    /\ reads = [l \in LayerIds |-> <<>>]
    /\ ranking \in {f \in [0 .. MaxSeqLen \div 4 -> 0 .. MaxSeqLen \div 4] :
                    \A g, h \in DOMAIN f : f[g] = f[h] => g = h}
    /\ failed = FALSE
    /\ drafter = [ring |-> Ring(0), n |-> 0, saw |-> {}]

\* prefill: the whole prompt, layer by layer.
DsPrefill(S) ==
    /\ pos = 0 /\ ~failed
    /\ S <= TableLen
    /\ prompt' = S
    /\ pos' = S
    /\ layer' = [l \in LayerIds |->
            [ring |-> Ring(S),
             main |-> Prefilled(Ratios[l], S),
             index |-> Prefilled(IndexRatio(Ratios[l]), S)]]
    /\ reads' = [l \in LayerIds |->
            [i \in 1 .. S |-> PrefillAttends(Ratios[l], S, i - 1)]]
    /\ UNCHANGED <<ranking, failed, drafter>>

\* prefill, with a ValueError in the first layer: the tables are shorter than
\* the prompt.
PrefillFails(S) ==
    /\ pos = 0 /\ ~failed
    /\ S > TableLen
    /\ prompt' = S
    /\ failed' = TRUE
    /\ UNCHANGED <<pos, layer, reads, ranking, drafter>>

\* A layer's state when position p has been written to it.
Written(l, p) ==
    [ring |-> [layer[l].ring EXCEPT ![p % Window] = p],
     main |-> Collected(Ratios[l], layer[l].main, p),
     index |-> Collected(IndexRatio(Ratios[l]), layer[l].index, p)]

GroupsRead(l, p) ==
    IF Ratios[l] = 0 THEN {}
    ELSE DecodeGroups(Ratios[l], Len(Written(l, p).index.rows), p)

\* The rows that are read are there.
InBounds(l, p) == \A g \in GroupsRead(l, p) : g < Len(Written(l, p).main.rows)

DecodeAttends(l, p) ==
    Attended({Written(l, p).ring[s] : s \in WindowSlots(p)},
             Written(l, p).main.rows, GroupsRead(l, p))

\* decode_step: position pos, in every layer.
DecodeStep ==
    /\ pos \in 1 .. TableLen - 1
    /\ ~failed
    /\ \A l \in LayerIds : InBounds(l, pos)
    /\ layer' = [l \in LayerIds |-> Written(l, pos)]
    /\ reads' = [l \in LayerIds |-> Append(reads[l], DecodeAttends(l, pos))]
    /\ pos' = pos + 1
    /\ UNCHANGED <<prompt, ranking, failed, drafter>>

\* decode_step, with a ValueError before anything is written: the position is
\* past the tables.
DecodePastTable ==
    /\ pos \in TableLen .. MaxSeqLen - 1
    /\ ~failed
    /\ failed' = TRUE
    /\ UNCHANGED <<prompt, pos, layer, reads, ranking, drafter>>

\* decode_step, with an IndexError in the first layer whose rows are not
\* there; it and the layers before it have been written.
DecodeFails ==
    /\ pos \in 1 .. TableLen - 1
    /\ ~failed
    /\ \E l \in LayerIds :
        /\ ~InBounds(l, pos)
        /\ \A k \in 1 .. l - 1 : InBounds(k, pos)
        /\ layer' = [k \in LayerIds |->
                        IF k <= l THEN Written(k, pos) ELSE layer[k]]
    /\ failed' = TRUE
    /\ UNCHANGED <<prompt, pos, reads, ranking, drafter>>

\* setup: the drafter's ring is filled from all positions computed.
SetupDrafter ==
    /\ pos > 0
    /\ ~failed
    /\ drafter' = [ring |-> Ring(pos), n |-> pos, saw |-> {}]
    /\ UNCHANGED <<prompt, pos, layer, reads, ranking, failed>>

\* The drafted positions can be rotated; one row that is left serves the whole
\* block.
BlockInTable == TableLen - pos >= DraftBlock \/ TableLen - pos = 1

\* draft_step, after the last position: its row is written (again, after a
\* setup), and the ring attended, unless the rotation of the block raises.
DraftStep ==
    /\ pos > 0
    /\ ~failed
    /\ drafter.n > 0
    /\ drafter.n \in {pos - 1, pos}
    /\ LET ring == [drafter.ring EXCEPT ![(pos - 1) % Window] = pos - 1] IN
       drafter' = [ring |-> ring, n |-> pos,
                   saw |-> IF BlockInTable
                           THEN {ring[s] : s \in WindowSlots(pos - 1)} ELSE {}]
    /\ failed' = ~BlockInTable
    /\ UNCHANGED <<prompt, pos, layer, reads, ranking>>

DsNext ==
    \/ \E S \in 1 .. MaxSeqLen : DsPrefill(S) \/ PrefillFails(S)
    \/ DecodeStep
    \/ DecodePastTable
    \/ DecodeFails
    \/ SetupDrafter
    \/ DraftStep

DsSpec == DsInit /\ [][DsNext]_dsVars

-----------------------------------------------------------------------------
(***************************************************************************)
(* Properties.                                                             *)
(***************************************************************************)

FillsEveryGroup == \A l \in LayerIds : prompt >= Ratios[l]

\* The prompt, the next position or the block drafted next is past the tables.
PastTable ==
    \/ Greatest(prompt, pos + 1) > TableLen
    \/ drafter.n = pos /\ pos + DraftBlock > TableLen

\* After a prompt that fills a group of every layer, each decoded position
\* attends in each layer exactly the rows it would attend as the last
\* position of a prompt (the same positions of the window, the same pooled
\* rows, made of the same positions), the drafter attends the window of the
\* last position, and nothing raises but where the rotary tables end: rings
\* that wrap, groups the prompt left half full and rows that borrow from the
\* group before (MLA.prefill, MLA.decode, Compressor).
ContinuesPrefill ==
    FillsEveryGroup =>
        /\ failed => PastTable
        /\ \A l \in LayerIds : \A p \in prompt .. pos - 1 :
            reads[l][p + 1] = PrefillAttends(Ratios[l], p + 1, p)
        /\ drafter.saw # {} =>
            drafter.saw = PrefillWindow(drafter.n, drafter.n - 1)

\* tests/test_deepseek_v4.py:42-43: "Decoding one token at a time must match
\* a fresh prefill of the same prefix (the KV continuation invariant)."
DecodeMatchesPrefill ==
    /\ ~failed
    /\ \A l \in LayerIds : \A p \in 0 .. pos - 1 :
        reads[l][p + 1] = PrefillAttends(Ratios[l], pos, p)

=============================================================================

------------------------------ MODULE Sharding ------------------------------
(***************************************************************************)
(* Tensor-parallel weight slices: loaders/tp_shard.py (the plans of the    *)
(* qwen4_exp and deepseek_v4 checkpoints) and tp/rank_table.py (what one   *)
(* rank reads).                                                            *)
(*                                                                         *)
(* Every rank is a process of its own that computes its slice of a tensor  *)
(* from the plan alone: nothing is exchanged, so the slices fit together   *)
(* only if each rank's arithmetic agrees with the others'.  A tensor is    *)
(* the list of its rows along the split axis, a row its index in the       *)
(* checkpoint, and a block scale the index of the block it belongs to:     *)
(* what a rank ends up with then says where each number came from.         *)
(***************************************************************************)
EXTENDS Integers, Sequences

CONSTANTS
    TP,          \* tensor-parallel ranks
    Block,       \* rows of one FP8 scale block (128)
    Geometries   \* model geometries, as records of both classes

ASSUME ShardAssumption == TP \in Nat \ {0, 1} /\ Block \in Nat \ {0}

\* A size or a number of heads, groups or experts: at least one of each.
Dim == Nat \ {0}

ASSUME GeometryAssumption ==
    Geometries \subseteq
        [cls : {"qwen4"}, heads : Dim, kv_heads : Dim, head_dim : Dim,
         lin_k_heads : Dim, lin_k_dim : Dim, lin_v_heads : Dim,
         lin_v_dim : Dim, experts : Dim, vocab : Dim]
        \union
        [cls : {"deepseek"}, heads : Dim, head_dim : Dim,
         q_lora_rank : Dim, groups : Dim, o_lora_rank : Dim,
         index_heads : Dim, index_dim : Dim, experts : Dim, vocab : Dim]

Ranks == 0 .. TP - 1

VARIABLES
    tensor,   \* the checkpoint tensor being loaded, NoTensor before
    views     \* views[r]: what rank r's RankWeightTable returned for it

shardVars == <<tensor, views>>

NoTensor == [name |-> "none"]

(***************************************************************************)
(* The plans, by the family of names a pattern matches: gdn_qkv stands for *)
(* gdn_conv too, gdn_ba for gdn_dt, wq_b, wo_a and wo_b for their mtp.     *)
(* twins, embed for the head and the Markov tables.  A segment is a length *)
(* of the split axis and the unit (head, group, row) that may not be cut;  *)
(* the vocabulary's length is unknown to the plan (None) and read from the *)
(* tensor.                                                                 *)
(***************************************************************************)
Dynamic == 0

Plan(kind, segments) == [kind |-> kind, segments |-> segments]
Heads(n, dim) == <<[size |-> n * dim, unit |-> dim]>>
VocabRows == Plan("split_out", <<[size |-> Dynamic, unit |-> 1]>>)
Whole == Plan("replicated", <<>>)
Expert == Plan("experts", <<>>)

QwenPlans(g) ==
    LET keys == Heads(g.lin_k_heads, g.lin_k_dim)
        values == Heads(g.lin_v_heads, g.lin_v_dim)
    IN [embed   |-> VocabRows,
        q       |-> Plan("split_out", Heads(g.heads, 2 * g.head_dim)),
        kv      |-> Plan("split_out", Heads(g.kv_heads, g.head_dim)),
        o       |-> Plan("split_in", Heads(g.heads, g.head_dim)),
        gdn_qkv |-> Plan("split_out", keys \o keys \o values),
        gdn_z   |-> Plan("split_out", values),
        gdn_ba  |-> Plan("split_out", Heads(g.lin_v_heads, 1)),
        gdn_out |-> Plan("split_in", values),
        expert  |-> Expert,
        other   |-> Whole]

DeepseekPlans(g) ==
    LET groups == Heads(g.groups, g.o_lora_rank)
    IN [embed     |-> VocabRows,
        wq_a      |-> Plan("split_out", Heads(g.q_lora_rank, 1)),
        wq_b      |-> Plan("split_out", Heads(g.heads, g.head_dim)),
        wo_a      |-> Plan("split_out", groups),
        wo_b      |-> Plan("split_in", groups),
        idx_wq_b  |-> Plan("split_out", Heads(g.index_heads, g.index_dim)),
        idx_wproj |-> Plan("split_out", Heads(g.index_heads, 1)),
        expert    |-> Expert,
        other     |-> Whole]

Plans(g) == IF g.cls = "qwen4" THEN QwenPlans(g) ELSE DeepseekPlans(g)

\* The counts __init__ wants divisible by tp.
Counts(g) ==
    IF g.cls = "qwen4"
    THEN {g.heads, g.kv_heads, g.lin_k_heads, g.lin_v_heads, g.experts}
    ELSE {g.heads, g.groups, g.index_heads, g.experts}

plan_for == Plans(tensor.geo)[tensor.name]

Split == plan_for.kind \in {"split_out", "split_in"}

(***************************************************************************)
(* Ranges.                                                                 *)
(***************************************************************************)
IsDynamic(segs) == segs[1].size = Dynamic

\* The running `base`: where each segment begins, and where the last one ends.
Bases(segs) ==
    LET base[i \in 1 .. Len(segs) + 1] ==
            IF i = 1 THEN 0 ELSE base[i - 1] + segs[i - 1].size
    IN base

Base(segs, i) == Bases(segs)[i]

Total(segs) == Base(segs, Len(segs) + 1)

\* segment_ranges() raises no ShardError.
SegmentSplits(seg) ==
    /\ seg.size % TP = 0
    /\ (seg.size \div TP) % seg.unit = 0

\* rank_ranges() raises no ShardError for an axis of n rows.
HasRanges(segs, n) ==
    IF IsDynamic(segs) THEN n % TP = 0
    ELSE /\ Total(segs) = n
         /\ \A i \in DOMAIN segs : SegmentSplits(segs[i])

\* Mutant of RankRanges: `base += size` is lost, and every segment is cut
\* from the first one's rows.
RankRangesNoBase(segs, n, r) ==
    [i \in DOMAIN segs |->
        LET per == IF IsDynamic(segs) THEN n \div TP
                   ELSE segs[i].size \div TP
        IN [b |-> r * per, e |-> (r + 1) * per]]

\* Rank r's [b, e) range of each segment.
RankRanges(segs, n, r) ==
    [i \in DOMAIN segs |->
        LET per == IF IsDynamic(segs) THEN n \div TP
                   ELSE segs[i].size \div TP
            base == IF IsDynamic(segs) THEN 0 ELSE Base(segs, i)
        IN [b |-> base + r * per, e |-> base + (r + 1) * per]]

\* Mutant of BlockSafe: a slice may begin inside a block and leave it.
BlockSafeAnywhere(rng) == rng.e > rng.b

\* What validate_tensor() wants of each range of an FP8 tensor.
BlockSafe(rng) ==
    /\ rng.e > rng.b
    /\ rng.b % Block = 0 \/ (rng.e - 1) \div Block = rng.b \div Block

validate_tensor(segs, n) ==
    /\ HasRanges(segs, n)
    /\ \A r \in Ranks : \A i \in DOMAIN segs :
          BlockSafe(RankRanges(segs, n, r)[i])

\* shard_scale() raises no ShardError: a plan of a dynamic size has no row
\* ranges, and qwen4's multi-segment scales want block-aligned segments.
ScaleSplits(cls, plan) ==
    /\ ~IsDynamic(plan.segments)
    /\ (cls = "qwen4" /\ plan.kind = "split_out" /\ Len(plan.segments) > 1)
          => \A i \in DOMAIN plan.segments :
                LET size == plan.segments[i].size
                IN size % Block = 0 /\ (size \div TP) % Block = 0

(***************************************************************************)
(* Slices.                                                                 *)
(***************************************************************************)
Ceil(a, b) == (a + b - 1) \div b

Indices(b, e) == [k \in 1 .. e - b |-> b + k - 1]

\* np.concatenate.
Joined(parts) ==
    LET upto[i \in 0 .. Len(parts)] ==
            IF i = 0 THEN <<>> ELSE upto[i - 1] \o parts[i]
    IN upto[Len(parts)]

\* A rank's ranges, one after the other: shard().
Rows(segs, n, r) ==
    Joined([i \in DOMAIN segs |->
                LET rng == RankRanges(segs, n, r)[i] IN Indices(rng.b, rng.e)])

\* The scale rows that go with them: floor at the begin, ceil at the end.
Scales(segs, n, r) ==
    Joined([i \in DOMAIN segs |->
                LET rng == RankRanges(segs, n, r)[i]
                IN Indices(rng.b \div Block, Ceil(rng.e, Block))])

owner(expert) ==
    LET per == tensor.geo.experts \div TP
    IN IF expert \div per < TP - 1 THEN expert \div per ELSE TP - 1

owns(r) == plan_for.kind = "experts" => owner(tensor.expert) = r

(***************************************************************************)
(* One rank's reads: RankWeightTable.get and .dequant.                     *)
(***************************************************************************)
View(st, rows, scales) == [st |-> st, rows |-> rows, scales |-> scales]
Unread == View("unread", <<>>, <<>>)
NotOwned == View("not_owned", <<>>, <<>>)
ShardError == View("error", <<>>, <<>>)

\* The whole tensor with the whole scale, or the raw slice without one.
WholeView == View("read", Indices(0, tensor.n),
                  Indices(0, Ceil(tensor.n, Block)))

RawView(r) ==
    IF ~Split THEN View("read", Indices(0, tensor.n), <<>>)
    ELSE IF HasRanges(plan_for.segments, tensor.n)
    THEN View("read", Rows(plan_for.segments, tensor.n, r), <<>>)
    ELSE ShardError

\* The slice with its scales, if dequant_weight_blocked takes the pair.
PairView(r) ==
    LET rows == Rows(plan_for.segments, tensor.n, r)
        scales == Scales(plan_for.segments, tensor.n, r)
    IN IF /\ validate_tensor(plan_for.segments, tensor.n)
          /\ ScaleSplits(tensor.geo.cls, plan_for)
          /\ Len(scales) = Ceil(Len(rows), Block)
       THEN View("read", rows, scales)
       ELSE ShardError

Get(r) ==
    /\ tensor # NoTensor
    /\ views[r] = Unread
    /\ views' = [views EXCEPT ![r] = IF owns(r) THEN RawView(r) ELSE NotOwned]
    /\ UNCHANGED tensor

Dequant(r) ==
    /\ tensor # NoTensor
    /\ views[r] = Unread
    /\ tensor.quantized
    /\ views' = [views EXCEPT ![r] =
                    IF ~owns(r) THEN NotOwned
                    ELSE IF Split THEN PairView(r) ELSE WholeView]
    /\ UNCHANGED tensor

\* A tensor of a geometry the constructor accepts, of the planned length or
\* one row off it.
Open(g, name) ==
    /\ tensor = NoTensor
    /\ \A count \in Counts(g) : count % TP = 0
    /\ LET segs == Plans(g)[name].segments
           planned == IF segs = <<>> \/ Total(segs) = Dynamic THEN g.vocab
                      ELSE Total(segs)
       IN \E n \in {planned, planned + 1}, expert \in 0 .. g.experts - 1,
             quantized \in BOOLEAN :
             /\ name = "expert" \/ expert = 0
             /\ tensor' = [name |-> name, geo |-> g, n |-> n,
                           expert |-> expert, quantized |-> quantized]
    /\ UNCHANGED views

ShardInit == tensor = NoTensor /\ views = [r \in Ranks |-> Unread]

ShardNext ==
    \/ \E g \in Geometries : \E name \in DOMAIN Plans(g) : Open(g, name)
    \/ \E r \in Ranks : Get(r)
    \/ \E r \in Ranks : Dequant(r)

ShardSpec == ShardInit /\ [][ShardNext]_shardVars

(***************************************************************************)
(* Properties.                                                             *)
(***************************************************************************)
AllRead == tensor # NoTensor /\ \A r \in Ranks : views[r].st # "unread"

\* full_from_shards(): the rows of each rank's slice of each segment, put
\* back at the segment's place.
FullFromShards(segs, n) ==
    [k \in 0 .. n - 1 |->
        LET i == CHOOSE j \in DOMAIN segs :
                    /\ Base(segs, j) =< k
                    /\ IsDynamic(segs) \/ k < Base(segs, j + 1)
            size == IF IsDynamic(segs) THEN n ELSE segs[i].size
            off == k - Base(segs, i)
            r == off \div (size \div TP)
        IN views[r].rows[Base(segs, i) \div TP + (off % (size \div TP)) + 1]]

\* No head, group or vocabulary row is cut between two ranks.
UnitsWhole(segs, n) ==
    \A r \in Ranks, i \in DOMAIN segs :
        LET rng == RankRanges(segs, n, r)[i]
            base == IF IsDynamic(segs) THEN 0 ELSE Base(segs, i)
        IN (rng.b - base) % segs[i].unit = 0 /\ (rng.e - base) % segs[i].unit = 0

\* The slices the ranks compute apart are one tensor: put back where
\* full_from_shards() puts them they give every row of the checkpoint at its
\* own place, no unit is cut, an expert is on exactly one rank and a
\* replicated tensor on all.
ShardsTile ==
    (AllRead /\ \A r \in Ranks : views[r].st # "error") =>
        CASE plan_for.kind = "experts" ->
                \E r \in Ranks : \A q \in Ranks :
                    (views[q].st = "read") <=> (q = r)
          [] plan_for.kind = "replicated" ->
                \A r \in Ranks : views[r].rows = Indices(0, tensor.n)
          [] OTHER ->
                /\ FullFromShards(plan_for.segments, tensor.n)
                      = [k \in 0 .. tensor.n - 1 |-> k]
                /\ UnitsWhole(plan_for.segments, tensor.n)

\* A rank that dequantises its slice multiplies every number by the scale of
\* the block that number has in the checkpoint, although the slice is cut
\* into blocks from its own first row; and a tensor one rank can dequantise
\* fails on no other.
ScalesFollowRows ==
    \A r \in Ranks :
        LET v == views[r] IN
        (v.st = "read" /\ v.scales # <<>>) =>
            /\ \A k \in DOMAIN v.rows :
                  v.scales[((k - 1) \div Block) + 1] = v.rows[k] \div Block
            /\ \A q \in Ranks : views[q].st # "error"

\* What the ranks make of a checkpoint tensor and of its scales.
ShardsExact == ShardsTile /\ ScalesFollowRows
=============================================================================

------------------------------- MODULE MCParts -------------------------------
(***************************************************************************)
(* Instances for TLC of the parts below the scheduler.  They share no      *)
(* state, so a behaviour is one of one part: `part` says of which, and the *)
(* variables of the others stay as they are at the beginning.              *)
(*                                                                         *)
(* path, generate, spec, mtp and dsv4 are as MCDecodePath, MCGenerate and  *)
(* MCDsV4 say; mtp has the calls of spec.                                  *)
(* kv        three sequences ask for up to three blocks each of a pool of  *)
(*           four, and for two slots: every sequence can fit alone, no     *)
(*           three of the largest can, and the slots run out first.        *)
(* q4        blocks of two positions, chunks of every size.                *)
(* place     a plan of two blocks, two sequences of two layers.            *)
(* world     two ranks that contribute twice each, to two tags.            *)
(* shards    blocks of four rows: heads that fill them, share one and      *)
(*           straddle two.                                                 *)
(* block     the kernels without the race of the attention kernels, four   *)
(*           threads.                                                      *)
(* rows      two heads, two words a row: a buffer grows twice and is cut   *)
(*           off at the seventh position.                                  *)
(***************************************************************************)
EXTENDS KVBlocks, MCDecodePath, MCGenerate, MtpDecode, MCDsV4, Q4Caches,
        Placement, Sharding, Collectives, MCThreadBlock, DeviceKV

VARIABLE part

CONSTANTS s1, s2, s3

MCSeqIds == {s1, s2, s3}
MCTwoSeqs == {s1, s2}
\* Every kind of entry of Q4Caches.
MCKinds == <<"ple", "linear", "full">>

MCGeometries ==
    [cls : {"qwen4"}, heads : {2, 4}, kv_heads : {2}, head_dim : {1, 2, 3},
     lin_k_heads : {2}, lin_k_dim : {2, 4}, lin_v_heads : {2, 4},
     lin_v_dim : {2, 4}, experts : {4}, vocab : {8}]
    \union
    [cls : {"deepseek"}, heads : {2, 4}, head_dim : {1, 2, 3},
     q_lora_rank : {4, 7}, groups : {2}, o_lora_rank : {2, 4},
     index_heads : {2}, index_dim : {4}, experts : {3, 4}, vocab : {8}]

-----------------------------------------------------------------------------
\* What each part has beside call, which three of them share.
specOnly == <<ids, n, draft, accepted, mismatch, pc>>
mtpOnly == <<out, cached, drafts, mpc>>
genOnly == <<setting, gids, carried, streamed, last_full, gpc, reason>>
partVars ==
    <<part, kvVars, decodeVars, call, specOnly, mtpOnly, genOnly, dsVars,
      q4Vars, placeVars, shardVars, worldVars, blockVars, devKVVars>>

Is(p) == part = p

\* What a part chooses at its beginning, and what it does not look at of a
\* call, is fixed in the behaviours of the others.
PartsInit ==
    /\ part \in {"kv", "path", "spec", "mtp", "generate", "dsv4", "q4",
                 "place", "shards", "world", "block", "rows"}
    /\ call \in CASE part = "spec" -> Calls
                  [] part = "mtp" -> {c \in Calls : c.room = 0}
                  [] part = "generate" ->
                        {c \in Calls : c.room = 0 /\ c.num_draft = 1}
                  [] OTHER -> {CHOOSE c \in Calls : TRUE}
    /\ part # "generate" =>
          setting = [inc |-> FALSE, context |-> 0,
                     bytes |-> CHOOSE t \in ByteTables : TRUE]
    /\ part # "path" =>
          conf = (CHOOSE c \in Confs : TRUE) /\ cur = CHOOSE q \in Seqs : TRUE
    /\ part # "dsv4" => ranking = [g \in 0 .. MaxSeqLen \div 4 |-> g]
    /\ part # "q4" =>
          /\ text = [i \in 1 .. MaxPositions |-> i]
          /\ rank = [g \in 0 .. MaxPositions \div Ratio |-> g]
    /\ part # "block" => kernel = "rms_norm"
    /\ part # "rows" => length = 1
    /\ KVInit /\ PathInit /\ SpecInit /\ MtpInit /\ GenInit /\ DsInit
    /\ Q4Init /\ PlaceInit /\ ShardInit /\ WorldInit /\ BlockInit /\ DevKVInit

PartsNext ==
    /\ UNCHANGED part
    /\ IF Is("kv") THEN KVNext ELSE UNCHANGED kvVars
    /\ IF Is("path") THEN PathNext ELSE UNCHANGED decodeVars
    /\ IF Is("spec") THEN SpecNext ELSE UNCHANGED specOnly
    /\ IF Is("mtp") THEN MtpNext ELSE UNCHANGED mtpOnly
    /\ IF Is("generate") THEN GenNext ELSE UNCHANGED genOnly
    /\ UNCHANGED call
    /\ IF Is("dsv4") THEN DsNext ELSE UNCHANGED dsVars
    /\ IF Is("q4") THEN Q4Next ELSE UNCHANGED q4Vars
    /\ IF Is("place") THEN PlaceNext ELSE UNCHANGED placeVars
    /\ IF Is("shards") THEN ShardNext ELSE UNCHANGED shardVars
    /\ IF Is("world") THEN WorldNext ELSE UNCHANGED worldVars
    /\ IF Is("block") THEN BlockNext ELSE UNCHANGED blockVars
    /\ IF Is("rows") THEN DevKVNext ELSE UNCHANGED devKVVars

\* The three loops run on.
PartsSpec ==
    /\ PartsInit /\ [][PartsNext]_partVars
    /\ WF_partVars(part \in {"spec", "mtp", "generate"} /\ PartsNext)

\* Every loop that generates tokens returns: each round of a speculative one
\* emits at least one token.
LoopsReturn ==
    /\ Is("spec") => Returns
    /\ Is("mtp") => MtpReturns
    /\ Is("generate") => GenReturns
=============================================================================

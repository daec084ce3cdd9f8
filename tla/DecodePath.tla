------------------------------ MODULE DecodePath ------------------------------
(***************************************************************************)
(* One decode step of a model: ReferenceModel.decode_step of               *)
(* serving/executor.py, which tries the device-resident kernels, then the  *)
(* per-step transfer kernels, then numpy, and the drivers it tries.        *)
(*                                                                         *)
(* Every sequence has a host cache, per layer: attention K/V rows, or the  *)
(* state of a recurrent layer and its convolution window.  What the layers *)
(* hold is abstracted to how many tokens they have absorbed.  Resident     *)
(* decode also keeps K/V rows on the device.  A driver may fail at any     *)
(* layer; what it has changed by then is what the next one starts from.    *)
(***************************************************************************)
EXTENDS Integers, Sequences

CONSTANTS
    Seqs,           \* sequences the engine decodes, in any order
    Confs,          \* configurations, see DecodeAssumption
    Layers,         \* kinds of the layers: "attn" and "gdn"
    PromptLen,      \* tokens every cache is prefilled with
    MaxCtx          \* max_position_embeddings, where callers stop decoding

\* arch is "standard" (attention only), "hybrid" (qwen3_5) or "q4"
\* (qwen4_exp).  gpu: use_gpu, a CUDA device and the kernels are there.
\* resident: SLLM_GPU_RESIDENT is 1.
ASSUME DecodeAssumption ==
    /\ Confs \subseteq [arch : {"standard", "hybrid", "q4"},
                        placement : {"device", "um"},
                        gpu : BOOLEAN, resident : BOOLEAN]
    /\ Layers \in Seq({"attn", "gdn"})
    /\ PromptLen \in Nat \ {0}
    /\ MaxCtx \in Nat /\ PromptLen <= MaxCtx

VARIABLES
    conf,           \* the model's configuration, fixed
    \* per sequence
    alive,          \* no step of it has raised
    fed,            \* tokens its caller has got logits for
    nctx,           \* cache.n_ctx
    rows,           \* per layer: tokens absorbed by K/V or recurrent state
    win,            \* per layer: tokens absorbed by the convolution window
    onDev,          \* it has a device decode state
    dev,            \* per layer: positions whose K/V row is on the device
    \* per model
    off,            \* _resident_off
    \* of the step being executed
    cur,            \* its sequence
    path,           \* the driver that runs, or "idle"
    at              \* layer the driver is at

seqVars == <<alive, fed, nctx, rows, win, onDev, dev>>
decodeVars == <<conf, seqVars, off, cur, path, at>>

N == Len(Layers)
Kind(l) == IF conf.arch = "standard" THEN "attn" ELSE Layers[l]
Attn == {l \in 1 .. N : Kind(l) = "attn"}
Gdn == {l \in 1 .. N : Kind(l) = "gdn"}

PathTypeOK ==
    /\ conf \in Confs
    /\ alive \in [Seqs -> BOOLEAN]
    /\ fed \in [Seqs -> Nat]
    /\ nctx \in [Seqs -> Nat]
    /\ rows \in [Seqs -> [1 .. N -> Nat]]
    /\ win \in [Seqs -> [1 .. N -> Nat]]
    /\ onDev \in [Seqs -> BOOLEAN]
    /\ dev \in [Seqs -> [1 .. N -> SUBSET (0 .. MaxCtx - 1)]]
    /\ off \in BOOLEAN
    /\ cur \in Seqs
    /\ path \in {"idle", "setup", "resident", "transfer", "numpy"}
    /\ at \in 1 .. N + 2

\* The caches come from prefill.
PathInit ==
    /\ conf \in Confs
    /\ alive = [s \in Seqs |-> TRUE]
    /\ fed = [s \in Seqs |-> PromptLen]
    /\ nctx = [s \in Seqs |-> PromptLen]
    /\ rows = [s \in Seqs |-> [l \in 1 .. N |-> PromptLen]]
    /\ win = [s \in Seqs |-> [l \in 1 .. N |-> PromptLen]]
    /\ onDev = [s \in Seqs |-> FALSE]
    /\ dev = [s \in Seqs |-> [l \in 1 .. N |-> {}]]
    /\ off = FALSE
    /\ cur \in Seqs
    /\ path = "idle"
    /\ at = 1

\* resident_preferred, for the architectures that have resident kernels;
\* qwen4_exp asks the environment first and has no transfer kernels.
FirstPath ==
    IF ~conf.gpu THEN "numpy"
    ELSE IF conf.arch = "q4" THEN IF conf.resident THEN "setup" ELSE "numpy"
    ELSE IF conf.placement = "device" /\ ~off THEN "setup"
    ELSE "transfer"

Begin(s) ==
    /\ path = "idle"
    /\ alive[s]
    /\ fed[s] < MaxCtx
    /\ cur' = s
    /\ path' = FirstPath
    /\ at' = 1
    /\ UNCHANGED <<conf, seqVars, off>>

(***************************************************************************)
(* Resident drivers.                                                       *)
(***************************************************************************)
\* The driver that takes over from a resident one.
AfterResident == IF conf.arch = "q4" THEN "numpy" ELSE "transfer"

\* The weight table and the device state are there, or can be built from the
\* host cache.
Setup ==
    /\ path = "setup"
    /\ conf.resident
    /\ path' = "resident"
    /\ onDev' = [onDev EXCEPT ![cur] = TRUE]
    /\ dev' = IF onDev[cur] \/ conf.arch = "q4" THEN dev
              ELSE [dev EXCEPT ![cur] =
                       [l \in 1 .. N |-> IF l \in Attn
                                         THEN 0 .. rows[cur][l] - 1 ELSE {}]]
    /\ UNCHANGED <<conf, alive, fed, nctx, rows, win, off, cur, at>>

\* They cannot be built (too little free memory, a missing symbol), or the
\* environment says no: this step goes on without, the next tries again.
SetupFails ==
    /\ path = "setup"
    /\ ~conf.resident \/ ~onDev[cur]
    /\ path' = AfterResident
    /\ UNCHANGED <<conf, seqVars, off, cur, at>>

OnDevice == path = "resident" /\ conf.arch # "q4" /\ at <= N

\* A standard or a full-attention layer writes its rows to the device; the
\* host rows are staged until the step succeeds.
ResidentAttn ==
    /\ OnDevice
    /\ at \in Attn
    /\ dev' = [dev EXCEPT ![cur][at] = @ \union {nctx[cur]}]
    /\ at' = at + 1
    /\ UNCHANGED <<conf, alive, fed, nctx, rows, win, onDev, off, cur, path>>

\* The delta-rule kernel updates the recurrent state in place; the window is
\* staged.
ResidentGdn ==
    /\ OnDevice
    /\ at \in Gdn
    /\ rows' = [rows EXCEPT ![cur][at] = @ + 1]
    /\ at' = at + 1
    /\ UNCHANGED <<conf, alive, fed, nctx, win, onDev, dev, off, cur, path>>

\* A layer of qwen4_exp: host caches change as the layer is computed.
Q4Attn ==
    /\ path = "resident" /\ conf.arch = "q4" /\ at \in Attn
    /\ rows' = [rows EXCEPT ![cur][at] = @ + 1]
    /\ at' = at + 1
    /\ UNCHANGED <<conf, alive, fed, nctx, win, onDev, dev, off, cur, path>>

Q4Gdn ==
    /\ path = "resident" /\ conf.arch = "q4" /\ at \in Gdn
    /\ rows' = [rows EXCEPT ![cur][at] = @ + 1]
    /\ win' = [win EXCEPT ![cur][at] = @ + 1]
    /\ at' = at + 1
    /\ UNCHANGED <<conf, alive, fed, nctx, onDev, dev, off, cur, path>>

\* n_ctx is advanced before the last projections.
Q4Advance ==
    /\ path = "resident" /\ conf.arch = "q4" /\ at = N + 1
    /\ nctx' = [nctx EXCEPT ![cur] = @ + 1]
    /\ at' = at + 1
    /\ UNCHANGED <<conf, alive, fed, rows, win, onDev, dev, off, cur, path>>

\* Logits are returned.
Answer ==
    /\ fed' = [fed EXCEPT ![cur] = @ + 1]
    /\ path' = "idle"
    /\ at' = 1

Q4Return ==
    /\ path = "resident" /\ conf.arch = "q4" /\ at = N + 2
    /\ Answer
    /\ UNCHANGED <<conf, alive, nctx, rows, win, onDev, dev, off, cur>>

\* Mutant of Commit: the windows are not committed.
CommitNoWindow ==
    /\ rows' = [rows EXCEPT ![cur] =
                   [l \in 1 .. N |-> IF l \in Attn THEN @[l] + 1 ELSE @[l]]]
    /\ UNCHANGED win
    /\ nctx' = [nctx EXCEPT ![cur] = @ + 1]

\* What a driver has staged is committed after its last layer.
Commit ==
    /\ rows' = [rows EXCEPT ![cur] =
                   [l \in 1 .. N |-> IF l \in Attn THEN @[l] + 1 ELSE @[l]]]
    /\ win' = [win EXCEPT ![cur] =
                  [l \in 1 .. N |-> IF l \in Gdn THEN @[l] + 1 ELSE @[l]]]
    /\ nctx' = [nctx EXCEPT ![cur] = @ + 1]

ResidentReturn ==
    /\ path = "resident" /\ conf.arch # "q4" /\ at = N + 1
    /\ Commit
    /\ Answer
    /\ UNCHANGED <<conf, alive, onDev, dev, off, cur>>

\* Mutant of ResidentFails: the next step tries the resident driver again.
ResidentRetries ==
    /\ path = "resident" /\ conf.arch # "q4"
    /\ path' = AfterResident
    /\ at' = 1
    /\ UNCHANGED <<conf, seqVars, off, cur>>

\* A resident step raises: it is off for every sequence of the model.
ResidentFails ==
    /\ path = "resident" /\ conf.arch # "q4"
    /\ off' = TRUE
    /\ path' = AfterResident
    /\ at' = 1
    /\ UNCHANGED <<conf, seqVars, cur>>

\* In qwen4_exp only this step gives up; a recurrent layer may have moved its
\* window and not its state.
Q4Fails ==
    /\ path = "resident" /\ conf.arch = "q4"
    /\ \/ at \in Gdn /\ win' = [win EXCEPT ![cur][at] = @ + 1]
       \/ UNCHANGED win
    /\ path' = AfterResident
    /\ at' = 1
    /\ UNCHANGED <<conf, alive, fed, nctx, rows, onDev, dev, off, cur>>

(***************************************************************************)
(* Transfer drivers.                                                       *)
(***************************************************************************)
\* Mutant of TransferAttn: the host rows are appended layer by layer.
TransferAttnAppends ==
    /\ path = "transfer" /\ at \in Attn
    /\ rows' = [rows EXCEPT ![cur][at] = @ + 1]
    /\ at' = at + 1
    /\ UNCHANGED <<conf, alive, fed, nctx, win, onDev, dev, off, cur, path>>

TransferAttn ==
    /\ path = "transfer" /\ at \in Attn
    /\ at' = at + 1
    /\ UNCHANGED <<conf, seqVars, off, cur, path>>

TransferGdn ==
    /\ path = "transfer" /\ at \in Gdn
    /\ rows' = [rows EXCEPT ![cur][at] = @ + 1]
    /\ at' = at + 1
    /\ UNCHANGED <<conf, alive, fed, nctx, win, onDev, dev, off, cur, path>>

TransferReturn ==
    /\ path = "transfer" /\ at = N + 1
    /\ Commit
    /\ Answer
    /\ UNCHANGED <<conf, alive, onDev, dev, off, cur>>

\* With placement "device" the failure is the caller's, who gives the
\* sequence up; otherwise numpy takes over.
TransferFails ==
    /\ path = "transfer"
    /\ IF conf.placement = "device"
       THEN path' = "idle" /\ alive' = [alive EXCEPT ![cur] = FALSE]
       ELSE path' = "numpy" /\ UNCHANGED alive
    /\ at' = 1
    /\ UNCHANGED <<conf, fed, nctx, rows, win, onDev, dev, off, cur>>

(***************************************************************************)
(* The numpy drivers, which change the cache as they go.                   *)
(***************************************************************************)
NumpyStep ==
    /\ path = "numpy"
    /\ rows' = [rows EXCEPT ![cur] = [l \in 1 .. N |-> @[l] + 1]]
    /\ win' = [win EXCEPT ![cur] =
                  [l \in 1 .. N |-> IF l \in Gdn THEN @[l] + 1 ELSE @[l]]]
    /\ nctx' = [nctx EXCEPT ![cur] = @ + 1]
    /\ Answer
    /\ UNCHANGED <<conf, alive, onDev, dev, off, cur>>

PathNext ==
    \/ \E s \in Seqs : Begin(s)
    \/ Setup \/ SetupFails
    \/ ResidentAttn \/ ResidentGdn \/ ResidentReturn \/ ResidentFails
    \/ Q4Attn \/ Q4Gdn \/ Q4Advance \/ Q4Return \/ Q4Fails
    \/ TransferAttn \/ TransferGdn \/ TransferReturn \/ TransferFails
    \/ NumpyStep

PathSpec == PathInit /\ [][PathNext]_decodeVars

-----------------------------------------------------------------------------
(***************************************************************************)
(* Properties.                                                             *)
(***************************************************************************)
Between(s) == path = "idle" /\ alive[s]

\* Whichever drivers ran and failed, between steps the staged part of a cache
\* is that of the tokens fed: K/V rows of the attention layers, convolution
\* windows and n_ctx (standard_decode.py:46-48, hybrid_decode.py:42-44).
StagedExact ==
    \A s \in Seqs : Between(s) /\ conf.arch # "q4" =>
        /\ nctx[s] = fed[s]
        /\ \A l \in Attn : rows[s][l] = fed[s]
        /\ \A l \in Gdn : win[s][l] = fed[s]

\* No layer ever misses a token that was fed, on any path.
NothingMissed ==
    \A s \in Seqs : Between(s) =>
        /\ nctx[s] >= fed[s]
        /\ \A l \in 1 .. N : rows[s][l] >= fed[s]
        /\ \A l \in Gdn : win[s][l] >= fed[s]

\* A resident step attends over device rows 0 .. n_ctx: all earlier ones must
\* be those of this sequence, also when other steps of it ran elsewhere.
DeviceRowsCurrent ==
    path = "resident" /\ conf.arch # "q4" =>
        \A l \in Attn : 0 .. nctx[cur] - 1 \subseteq dev[cur][l]

\* executor.py:149-151: "The host `cache` is only mutated at the END of a
\* successful step, so a failed step leaves it exactly as the numpy path
\* expects": when another driver takes a step over, nothing has been absorbed
\* that was not fed.
FallbackClean ==
    path \in {"transfer", "numpy"} /\ at = 1 =>
        /\ nctx[cur] = fed[cur]
        /\ \A l \in 1 .. N : rows[cur][l] = fed[cur]

=============================================================================

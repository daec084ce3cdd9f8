---------------------------- MODULE Backend_proofs ----------------------------
(***************************************************************************)
(* Proofs about the model backend's side of a KV cache: the drivers of     *)
(* DecodePath, the device buffers of DeviceKV, which are laid out anew     *)
(* when they grow, and the blocks and buffers of Placement's backends.     *)
(*                                                                         *)
(* Of the drivers, for any number of sequences and layers, any             *)
(* interleaving of their steps and any failures: the staged part of a      *)
(* cache is exact, no layer misses a token, and a resident step finds its  *)
(* device rows.  None of the three is inductive.  What a driver has        *)
(* absorbed so far has to be known layer by layer (Absorbed), and that     *)
(* rows written elsewhere never leave a gap on the device depends on which *)
(* driver can run when: once a sequence has a device state its steps stay  *)
(* resident until resident decode is switched off for the whole model      *)
(* (Drivers).                                                              *)
(*                                                                         *)
(* The device buffers rest on arithmetic: a word's place determines its    *)
(* head, position and offset at any stride, so relaying is a bijection on  *)
(* what is kept.  The backends rest on sums over a finite set, which the   *)
(* model writes as a fold.                                                 *)
(***************************************************************************)
EXTENDS DecodePath, DeviceKV, Placement, Basics

-----------------------------------------------------------------------------
(***************************************************************************)
(* DecodePath: the invariant.                                              *)
(***************************************************************************)
\* Which driver can be running, for which sequence.
Drivers ==
    /\ path # "idle" => alive[cur] /\ fed[cur] < MaxCtx
    /\ path = "setup" => at = 1
    /\ conf.arch # "q4" =>
          /\ path \in {"setup", "resident"} =>
                ~off /\ conf.gpu /\ conf.placement = "device"
          /\ path = "resident" => onDev[cur]
          /\ path \in {"transfer", "numpy"} => off \/ ~onDev[cur]
          /\ \A s \in Seqs : onDev[s] =>
                conf.gpu /\ conf.placement = "device" /\ conf.resident

\* The staged part of a live cache is that of the tokens fed, also within a
\* step.
Staged ==
    conf.arch # "q4" =>
        \A s \in Seqs : alive[s] =>
            /\ nctx[s] = fed[s]
            /\ \A l \in Attn : rows[s][l] = fed[s]
            /\ \A l \in Gdn : win[s][l] = fed[s]

\* No layer of a live cache is behind; in a step, the layers that change as
\* they are computed are one ahead as far as the driver has come.
Absorbed ==
    /\ \A s \in Seqs : alive[s] =>
          /\ nctx[s] >= fed[s]
          /\ \A l \in 1 .. N : rows[s][l] >= fed[s]
          /\ \A l \in Gdn : win[s][l] >= fed[s]
    /\ path \in {"resident", "transfer"} =>
          \A l \in Gdn : l < at => rows[cur][l] > fed[cur]
    /\ path = "resident" /\ conf.arch = "q4" =>
          /\ \A l \in 1 .. N : l < at => rows[cur][l] > fed[cur]
          /\ \A l \in Gdn : l < at => win[cur][l] > fed[cur]
          /\ at = N + 2 => nctx[cur] > fed[cur]

\* A device state lacks no row while resident decode is on, and the step being
\* executed has written its own as far as it has come.
DeviceRows ==
    conf.arch # "q4" =>
        /\ \A s \in Seqs : onDev[s] /\ ~off =>
              \A l \in Attn : 0 .. nctx[s] - 1 \subseteq dev[s][l]
        /\ path = "resident" =>
              \A l \in Attn : l < at => nctx[cur] \in dev[cur][l]

PathInv == PathTypeOK /\ Drivers /\ Staged /\ Absorbed /\ DeviceRows

-----------------------------------------------------------------------------
(***************************************************************************)
(* Layers.                                                                 *)
(***************************************************************************)
\* Every layer is an attention or a recurrent one, never both.
LEMMA LayerKinds ==
    ASSUME PathTypeOK
    PROVE  /\ N \in Nat
           /\ Attn \subseteq 1 .. N
           /\ Gdn \subseteq 1 .. N
           /\ Attn \cap Gdn = {}
           /\ \A l \in 1 .. N : l \in Attn \/ l \in Gdn
<1>1. Layers \in Seq({"attn", "gdn"})
    BY DecodeAssumption
<1>2. N \in Nat /\ \A l \in 1 .. N : Layers[l] \in {"attn", "gdn"}
    BY <1>1 DEF N
<1>3. \A l \in 1 .. N : Kind(l) \in {"attn", "gdn"}
    BY <1>2 DEF Kind
<1> QED
    BY <1>2, <1>3 DEF Attn, Gdn

\* The kinds of the layers never change.
LEMMA KindsFixed ==
    ASSUME conf' = conf
    PROVE  Attn' = Attn /\ Gdn' = Gdn
BY DEF Attn, Gdn, Kind

\* A sequence that is stepped has room for one more row, on the device too.
LEMMA RoomLeft ==
    ASSUME PathInv, path # "idle", conf.arch # "q4"
    PROVE  /\ nctx[cur] \in 0 .. MaxCtx - 1
           /\ \A l \in Attn : 0 .. rows[cur][l] - 1 \in SUBSET (0 .. MaxCtx - 1)
           /\ \A l \in Attn : rows[cur][l] = nctx[cur]
<1>1. alive[cur] /\ fed[cur] < MaxCtx /\ cur \in Seqs /\ fed[cur] \in Nat
    BY DEF PathInv, Drivers, PathTypeOK
<1>2. nctx[cur] = fed[cur] /\ \A l \in Attn : rows[cur][l] = fed[cur]
    BY <1>1 DEF PathInv, Staged
<1>3. MaxCtx \in Nat
    BY DecodeAssumption
<1> QED
    BY <1>1, <1>2, <1>3

\* What one layer of one sequence absorbs changes nothing else.
LEMMA OneLayer ==
    ASSUME NEW f \in [Seqs -> [1 .. N -> Nat]], NEW c \in Seqs, NEW l \in 1 .. N,
           NEW g, g = [f EXCEPT ![c][l] = @ + 1]
    PROVE  /\ g \in [Seqs -> [1 .. N -> Nat]]
           /\ \A s \in Seqs : \A k \in 1 .. N :
                 /\ f[s][k] \in Nat
                 /\ s = c /\ k = l => g[s][k] = f[s][k] + 1
                 /\ ~(s = c /\ k = l) => g[s][k] = f[s][k]
<1> DEFINE h == [f[c] EXCEPT ![l] = @ + 1]
<1>0. f[c] \in [1 .. N -> Nat]
    OBVIOUS
<1>1. f[c][l] + 1 \in Nat
  <2>1. f[c][l] \in Nat
      BY <1>0
  <2> QED
      BY <2>1
<1>2. /\ h \in [1 .. N -> Nat]
      /\ h[l] = f[c][l] + 1
      /\ \A k \in 1 .. N : k # l => h[k] = f[c][k]
    BY <1>0, <1>1
<1>3. g = [f EXCEPT ![c] = h]
    OBVIOUS
<1> HIDE DEF h
<1> QED
    BY <1>2, <1>3

\* A counter of one sequence is advanced.
LEMMA OneCount ==
    ASSUME NEW f \in [Seqs -> Nat], NEW c \in Seqs,
           NEW g, g = [f EXCEPT ![c] = @ + 1]
    PROVE  /\ g \in [Seqs -> Nat]
           /\ \A s \in Seqs :
                 /\ f[s] \in Nat
                 /\ s = c => g[s] = f[s] + 1
                 /\ s # c => g[s] = f[s]
OBVIOUS

-----------------------------------------------------------------------------
(***************************************************************************)
(* The invariant, action by action.                                        *)
(***************************************************************************)
\* Prefill has absorbed the prompt in every layer, and nothing is on the
\* device.
LEMMA PathInitInv == PathInit => PathInv
<1> SUFFICES ASSUME PathInit PROVE PathInv
    OBVIOUS
<1>1. PathTypeOK
  <2>1. N \in Nat
      BY DecodeAssumption DEF N
  <2>2. 1 \in 1 .. N + 2 /\ PromptLen \in Nat
      BY <2>1, DecodeAssumption
  <2> QED
      BY <2>2 DEF PathInit, PathTypeOK
<1>2. Drivers
    BY DEF PathInit, Drivers
<1>3. Staged
    BY <1>1, LayerKinds DEF PathInit, Staged
<1>4. Absorbed
    BY <1>1, LayerKinds, DecodeAssumption DEF PathInit, Absorbed
<1>5. DeviceRows
    BY DEF PathInit, DeviceRows
<1> QED
    BY <1>1, <1>2, <1>3, <1>4, <1>5 DEF PathInv

\* A step begins with the driver the configuration allows; one that would
\* find no device state because of an earlier failure is never chosen.
LEMMA BeginInv ==
    ASSUME PathInv, NEW s \in Seqs, Begin(s)
    PROVE  PathInv'
<1> USE DEF Begin, seqVars
<1>0. Attn' = Attn /\ Gdn' = Gdn
    BY KindsFixed
<1>1. PathTypeOK /\ Drivers /\ Staged /\ Absorbed /\ DeviceRows
    BY DEF PathInv
<1>2. N \in Nat /\ Attn \subseteq 1 .. N /\ Gdn \subseteq 1 .. N
    BY <1>1, LayerKinds
<1>3. path' \in {"setup", "transfer", "numpy"}
    BY DEF FirstPath
<1>4. PathTypeOK'
  <2>1. 1 \in 1 .. N + 2
      BY <1>2
  <2> QED
      BY <1>1, <1>3, <2>1 DEF PathTypeOK
<1>5. Drivers'
    BY <1>1 DEF PathTypeOK, Drivers, FirstPath
<1>6. Staged'
    BY <1>0, <1>1 DEF Staged
<1>7. Absorbed'
    BY <1>0, <1>1, <1>2, <1>3 DEF Absorbed
<1>8. DeviceRows'
    BY <1>0, <1>1, <1>2, <1>3 DEF DeviceRows
<1> QED
    BY <1>4, <1>5, <1>6, <1>7, <1>8 DEF PathInv

\* A device state is built from host rows that are exact, so it lacks none.
LEMMA SetupInv ==
    ASSUME PathInv, Setup
    PROVE  PathInv'
<1> USE DEF Setup
<1>0. Attn' = Attn /\ Gdn' = Gdn
    BY KindsFixed
<1>1. PathTypeOK /\ Drivers /\ Staged /\ Absorbed /\ DeviceRows
    BY DEF PathInv
<1>2. /\ N \in Nat /\ Attn \subseteq 1 .. N /\ Gdn \subseteq 1 .. N
      /\ cur \in Seqs
    BY <1>1, LayerKinds DEF PathTypeOK
<1>3. at = 1 /\ path' = "resident" /\ at' = 1
    BY <1>1 DEF Drivers
<1>4. dev' \in [Seqs -> [1 .. N -> SUBSET (0 .. MaxCtx - 1)]]
  <2>1. CASE onDev[cur] \/ conf.arch = "q4"
      BY <1>1, <2>1 DEF PathTypeOK
  <2>2. CASE ~(onDev[cur] \/ conf.arch = "q4")
    <3> DEFINE copied == [l \in 1 .. N |-> IF l \in Attn
                             THEN 0 .. rows[cur][l] - 1 ELSE {}]
    <3>1. \A l \in Attn : 0 .. rows[cur][l] - 1 \in SUBSET (0 .. MaxCtx - 1)
        BY <2>2, RoomLeft
    <3>2. copied \in [1 .. N -> SUBSET (0 .. MaxCtx - 1)]
        BY <3>1
    <3>3. dev' = [dev EXCEPT ![cur] = copied]
        BY <2>2
    <3> HIDE DEF copied
    <3> QED
        BY <1>1, <3>2, <3>3 DEF PathTypeOK
  <2> QED
      BY <2>1, <2>2
<1>5. PathTypeOK'
    BY <1>1, <1>4 DEF PathTypeOK
<1>6. Drivers'
    BY <1>1, <1>2 DEF PathTypeOK, Drivers
<1>7. Staged'
    BY <1>0, <1>1 DEF Staged
<1>8. Absorbed'
    BY <1>0, <1>1, <1>2, <1>3 DEF Absorbed
<1>9. DeviceRows'
  <2> SUFFICES ASSUME conf.arch # "q4"
               PROVE  \A s \in Seqs : onDev'[s] /\ ~off =>
                         \A l \in Attn : 0 .. nctx[s] - 1 \subseteq dev'[s][l]
    <3>1. \A l \in Attn : ~(l < 1)
        BY <1>2
    <3> QED
        BY <1>0, <1>3, <3>1 DEF DeviceRows
  <2>1. \A s \in Seqs : s # cur => onDev'[s] = onDev[s] /\ dev'[s] = dev[s]
      BY <1>1, <1>2 DEF PathTypeOK
  <2>2. CASE onDev[cur]
      BY <1>1, <1>2, <2>1, <2>2 DEF DeviceRows
  <2>3. CASE ~onDev[cur]
    <3>1. \A l \in Attn : dev'[cur][l] = 0 .. rows[cur][l] - 1
        BY <1>1, <1>2, <2>3 DEF PathTypeOK
    <3>2. \A l \in Attn : rows[cur][l] = nctx[cur]
        BY RoomLeft
    <3>3. \A l \in Attn : 0 .. nctx[cur] - 1 \subseteq dev'[cur][l]
        BY <3>1, <3>2
    <3> QED
        BY <1>1, <2>1, <3>3 DEF DeviceRows
  <2> QED
      BY <2>2, <2>3
<1> QED
    BY <1>5, <1>6, <1>7, <1>8, <1>9 DEF PathInv

\* Without a device state the step goes on elsewhere, having changed nothing.
LEMMA SetupFailsInv ==
    ASSUME PathInv, SetupFails
    PROVE  PathInv'
<1> USE DEF SetupFails, seqVars, AfterResident
<1>0. Attn' = Attn /\ Gdn' = Gdn
    BY KindsFixed
<1>1. PathTypeOK /\ Drivers /\ Staged /\ Absorbed /\ DeviceRows
    BY DEF PathInv
<1>2. N \in Nat /\ Attn \subseteq 1 .. N /\ Gdn \subseteq 1 .. N
    BY <1>1, LayerKinds
<1>3. at' = 1
    BY <1>1 DEF Drivers
<1>4. PathTypeOK'
    BY <1>1 DEF PathTypeOK
<1>5. Drivers'
    BY <1>1 DEF PathTypeOK, Drivers
<1>6. Staged'
    BY <1>0, <1>1 DEF Staged
<1>7. Absorbed'
    BY <1>0, <1>1, <1>2, <1>3 DEF Absorbed
<1>8. DeviceRows'
    BY <1>0, <1>1 DEF DeviceRows
<1> QED
    BY <1>4, <1>5, <1>6, <1>7, <1>8 DEF PathInv

\* An attention layer adds the row its successor layers are not waiting for.
LEMMA ResidentAttnInv ==
    ASSUME PathInv, ResidentAttn
    PROVE  PathInv'
<1> USE DEF ResidentAttn, OnDevice
<1>0. Attn' = Attn /\ Gdn' = Gdn
    BY KindsFixed
<1>1. PathTypeOK /\ Drivers /\ Staged /\ Absorbed /\ DeviceRows
    BY DEF PathInv
<1>2. /\ N \in Nat /\ Attn \subseteq 1 .. N /\ Gdn \subseteq 1 .. N
      /\ Attn \cap Gdn = {}
      /\ \A l \in 1 .. N : l \in Attn \/ l \in Gdn
      /\ cur \in Seqs
    BY <1>1, LayerKinds DEF PathTypeOK
<1>3. at \in 1 .. N /\ at' = at + 1 /\ at' \in 1 .. N + 2
    BY <1>2
<1>4. /\ dev' \in [Seqs -> [1 .. N -> SUBSET (0 .. MaxCtx - 1)]]
      /\ dev'[cur][at] = dev[cur][at] \union {nctx[cur]}
      /\ \A k \in 1 .. N : k # at => dev'[cur][k] = dev[cur][k]
      /\ \A s \in Seqs : s # cur => dev'[s] = dev[s]
  <2>1. nctx[cur] \in 0 .. MaxCtx - 1
      BY RoomLeft
  <2> QED
      BY <1>1, <1>2, <1>3, <2>1 DEF PathTypeOK
<1>t. PathTypeOK'
    BY <1>1, <1>2, <1>3, <1>4 DEF PathTypeOK
<1>d. Drivers'
    BY <1>1 DEF Drivers
<1>s. Staged'
    BY <1>0, <1>1 DEF Staged
<1>a. Absorbed'
    BY <1>0, <1>1, <1>2, <1>3 DEF Absorbed
<1>r. DeviceRows'
  <2>1. \A s \in Seqs : \A l \in Attn : dev[s][l] \subseteq dev'[s][l]
      BY <1>2, <1>4
  <2>2. \A s \in Seqs : onDev[s] /\ ~off =>
            \A l \in Attn : 0 .. nctx[s] - 1 \subseteq dev'[s][l]
      BY <1>1, <2>1 DEF DeviceRows
  <2>3. \A l \in Attn : l < at + 1 => nctx[cur] \in dev'[cur][l]
    <3>1. \A l \in Attn : l < at => nctx[cur] \in dev'[cur][l]
        BY <1>1, <1>2, <2>1 DEF DeviceRows
    <3> QED
        BY <1>2, <1>3, <1>4, <3>1
  <2> QED
      BY <1>0, <1>3, <2>2, <2>3 DEF DeviceRows
<1> QED
    BY <1>t, <1>d, <1>s, <1>a, <1>r DEF PathInv

\* A recurrent layer absorbs the token in place.
LEMMA ResidentGdnInv ==
    ASSUME PathInv, ResidentGdn
    PROVE  PathInv'
<1> USE DEF ResidentGdn, OnDevice
<1>0. Attn' = Attn /\ Gdn' = Gdn
    BY KindsFixed
<1>1. PathTypeOK /\ Drivers /\ Staged /\ Absorbed /\ DeviceRows
    BY DEF PathInv
<1>2. /\ N \in Nat /\ Attn \subseteq 1 .. N /\ Gdn \subseteq 1 .. N
      /\ Attn \cap Gdn = {}
      /\ \A l \in 1 .. N : l \in Attn \/ l \in Gdn
      /\ cur \in Seqs
    BY <1>1, LayerKinds DEF PathTypeOK
<1>3. at \in 1 .. N /\ at' = at + 1 /\ at' \in 1 .. N + 2
    BY <1>2
<1>4. /\ rows' \in [Seqs -> [1 .. N -> Nat]]
      /\ \A s \in Seqs : \A k \in 1 .. N :
            /\ rows[s][k] \in Nat
            /\ s = cur /\ k = at => rows'[s][k] = rows[s][k] + 1
            /\ ~(s = cur /\ k = at) => rows'[s][k] = rows[s][k]
  <2>1. rows \in [Seqs -> [1 .. N -> Nat]]
      BY <1>1 DEF PathTypeOK
  <2> QED
      BY <1>2, <1>3, <2>1, OneLayer
<1>5. \A s \in Seqs : fed[s] \in Nat
    BY <1>1 DEF PathTypeOK
<1>t. PathTypeOK'
    BY <1>1, <1>2, <1>3, <1>4 DEF PathTypeOK
<1>d. Drivers'
    BY <1>1 DEF Drivers
<1>s. Staged'
  <2>1. \A s \in Seqs : \A l \in Attn : rows'[s][l] = rows[s][l]
      BY <1>2, <1>4
  <2> QED
      BY <1>0, <1>1, <2>1 DEF Staged
<1>a. Absorbed'
  <2>1. \A s \in Seqs : alive[s] => \A l \in 1 .. N : rows'[s][l] >= fed[s]
      BY <1>1, <1>4, <1>5 DEF Absorbed
  <2>2. \A l \in Gdn : l < at + 1 => rows'[cur][l] > fed[cur]
    <3>1. rows'[cur][at] > fed[cur]
        BY <1>1, <1>2, <1>3, <1>4, <1>5 DEF Absorbed, Drivers
    <3>2. \A l \in Gdn : l < at => rows'[cur][l] > fed[cur]
        BY <1>1, <1>2, <1>4, <1>5 DEF Absorbed
    <3> QED
        BY <1>2, <1>3, <3>1, <3>2
  <2> QED
      BY <1>0, <1>1, <1>3, <2>1, <2>2 DEF Absorbed
<1>r. DeviceRows'
    BY <1>0, <1>1, <1>2, <1>3 DEF DeviceRows
<1> QED
    BY <1>t, <1>d, <1>s, <1>a, <1>r DEF PathInv

\* The recurrent layers of the transfer driver do the same.
LEMMA TransferGdnInv ==
    ASSUME PathInv, TransferGdn
    PROVE  PathInv'
<1> USE DEF TransferGdn
<1>0. Attn' = Attn /\ Gdn' = Gdn
    BY KindsFixed
<1>1. PathTypeOK /\ Drivers /\ Staged /\ Absorbed /\ DeviceRows
    BY DEF PathInv
<1>2. /\ N \in Nat /\ Attn \subseteq 1 .. N /\ Gdn \subseteq 1 .. N
      /\ Attn \cap Gdn = {}
      /\ \A l \in 1 .. N : l \in Attn \/ l \in Gdn
      /\ cur \in Seqs
    BY <1>1, LayerKinds DEF PathTypeOK
<1>3. at \in 1 .. N /\ at' = at + 1 /\ at' \in 1 .. N + 2
    BY <1>2
<1>4. /\ rows' \in [Seqs -> [1 .. N -> Nat]]
      /\ \A s \in Seqs : \A k \in 1 .. N :
            /\ rows[s][k] \in Nat
            /\ s = cur /\ k = at => rows'[s][k] = rows[s][k] + 1
            /\ ~(s = cur /\ k = at) => rows'[s][k] = rows[s][k]
  <2>1. rows \in [Seqs -> [1 .. N -> Nat]]
      BY <1>1 DEF PathTypeOK
  <2> QED
      BY <1>2, <1>3, <2>1, OneLayer
<1>5. \A s \in Seqs : fed[s] \in Nat
    BY <1>1 DEF PathTypeOK
<1>t. PathTypeOK'
    BY <1>1, <1>2, <1>3, <1>4 DEF PathTypeOK
<1>d. Drivers'
    BY <1>1 DEF Drivers
<1>s. Staged'
  <2>1. \A s \in Seqs : \A l \in Attn : rows'[s][l] = rows[s][l]
      BY <1>2, <1>4
  <2> QED
      BY <1>0, <1>1, <2>1 DEF Staged
<1>a. Absorbed'
  <2>1. \A s \in Seqs : alive[s] => \A l \in 1 .. N : rows'[s][l] >= fed[s]
      BY <1>1, <1>4, <1>5 DEF Absorbed
  <2>2. \A l \in Gdn : l < at + 1 => rows'[cur][l] > fed[cur]
    <3>1. rows'[cur][at] > fed[cur]
        BY <1>1, <1>2, <1>3, <1>4, <1>5 DEF Absorbed, Drivers
    <3>2. \A l \in Gdn : l < at => rows'[cur][l] > fed[cur]
        BY <1>1, <1>2, <1>4, <1>5 DEF Absorbed
    <3> QED
        BY <1>2, <1>3, <3>1, <3>2
  <2> QED
      BY <1>0, <1>1, <1>3, <2>1, <2>2 DEF Absorbed
<1>r. DeviceRows'
    BY <1>0, <1>1 DEF DeviceRows
<1> QED
    BY <1>t, <1>d, <1>s, <1>a, <1>r DEF PathInv

\* Its attention layers stage their rows.
LEMMA TransferAttnInv ==
    ASSUME PathInv, TransferAttn
    PROVE  PathInv'
<1> USE DEF TransferAttn, seqVars
<1>0. Attn' = Attn /\ Gdn' = Gdn
    BY KindsFixed
<1>1. PathTypeOK /\ Drivers /\ Staged /\ Absorbed /\ DeviceRows
    BY DEF PathInv
<1>2. /\ N \in Nat /\ Attn \subseteq 1 .. N /\ Gdn \subseteq 1 .. N
      /\ Attn \cap Gdn = {}
      /\ \A l \in 1 .. N : l \in Attn \/ l \in Gdn
      /\ cur \in Seqs
    BY <1>1, LayerKinds DEF PathTypeOK
<1>3. at \in 1 .. N /\ at' = at + 1 /\ at' \in 1 .. N + 2
    BY <1>2
<1>t. PathTypeOK'
    BY <1>1, <1>2, <1>3 DEF PathTypeOK
<1>d. Drivers'
    BY <1>1 DEF Drivers
<1>s. Staged'
    BY <1>0, <1>1 DEF Staged
<1>a. Absorbed'
    BY <1>0, <1>1, <1>2, <1>3 DEF Absorbed
<1>r. DeviceRows'
    BY <1>0, <1>1 DEF DeviceRows
<1> QED
    BY <1>t, <1>d, <1>s, <1>a, <1>r DEF PathInv

\* An attention layer of qwen4_exp.
LEMMA Q4AttnInv ==
    ASSUME PathInv, Q4Attn
    PROVE  PathInv'
<1> USE DEF Q4Attn
<1>0. Attn' = Attn /\ Gdn' = Gdn
    BY KindsFixed
<1>1. PathTypeOK /\ Drivers /\ Staged /\ Absorbed /\ DeviceRows
    BY DEF PathInv
<1>2. /\ N \in Nat /\ Attn \subseteq 1 .. N /\ Gdn \subseteq 1 .. N
      /\ Attn \cap Gdn = {}
      /\ \A l \in 1 .. N : l \in Attn \/ l \in Gdn
      /\ cur \in Seqs
    BY <1>1, LayerKinds DEF PathTypeOK
<1>3. at \in 1 .. N /\ at' = at + 1 /\ at' \in 1 .. N + 2
    BY <1>2
<1>4. /\ rows' \in [Seqs -> [1 .. N -> Nat]]
      /\ \A s \in Seqs : \A k \in 1 .. N :
            /\ rows[s][k] \in Nat
            /\ s = cur /\ k = at => rows'[s][k] = rows[s][k] + 1
            /\ ~(s = cur /\ k = at) => rows'[s][k] = rows[s][k]
  <2>1. rows \in [Seqs -> [1 .. N -> Nat]]
      BY <1>1 DEF PathTypeOK
  <2> QED
      BY <1>2, <1>3, <2>1, OneLayer
<1>5. \A s \in Seqs : fed[s] \in Nat
    BY <1>1 DEF PathTypeOK
<1>t. PathTypeOK'
    BY <1>1, <1>2, <1>3, <1>4 DEF PathTypeOK
<1>d. Drivers'
    BY <1>1 DEF Drivers
<1>s. Staged'
    BY DEF Staged
<1>a. Absorbed'
  <2>1. \A s \in Seqs : alive[s] => \A l \in 1 .. N : rows'[s][l] >= fed[s]
      BY <1>1, <1>4, <1>5 DEF Absorbed
  <2>2. \A l \in 1 .. N : l < at + 1 => rows'[cur][l] > fed[cur]
    <3>1. rows'[cur][at] > fed[cur]
        BY <1>1, <1>2, <1>3, <1>4, <1>5 DEF Absorbed, Drivers
    <3>2. \A l \in 1 .. N : l < at => rows'[cur][l] > fed[cur]
        BY <1>1, <1>2, <1>4, <1>5 DEF Absorbed
    <3> QED
        BY <1>2, <1>3, <3>1, <3>2
  <2>4. \A l \in Gdn : l < at + 1 => win[cur][l] > fed[cur]
      BY <1>1, <1>2, <1>3 DEF Absorbed
  <2>5. at' # N + 2
      BY <1>2, <1>3
  <2> QED
      BY <1>0, <1>1, <1>2, <1>3, <2>1, <2>2, <2>4, <2>5 DEF Absorbed
<1>r. DeviceRows'
    BY DEF DeviceRows
<1> QED
    BY <1>t, <1>d, <1>s, <1>a, <1>r DEF PathInv

\* A recurrent layer of qwen4_exp, with its window.
LEMMA Q4GdnInv ==
    ASSUME PathInv, Q4Gdn
    PROVE  PathInv'
<1> USE DEF Q4Gdn
<1>0. Attn' = Attn /\ Gdn' = Gdn
    BY KindsFixed
<1>1. PathTypeOK /\ Drivers /\ Staged /\ Absorbed /\ DeviceRows
    BY DEF PathInv
<1>2. /\ N \in Nat /\ Attn \subseteq 1 .. N /\ Gdn \subseteq 1 .. N
      /\ Attn \cap Gdn = {}
      /\ \A l \in 1 .. N : l \in Attn \/ l \in Gdn
      /\ cur \in Seqs
    BY <1>1, LayerKinds DEF PathTypeOK
<1>3. at \in 1 .. N /\ at' = at + 1 /\ at' \in 1 .. N + 2
    BY <1>2
<1>4. /\ rows' \in [Seqs -> [1 .. N -> Nat]]
      /\ \A s \in Seqs : \A k \in 1 .. N :
            /\ rows[s][k] \in Nat
            /\ s = cur /\ k = at => rows'[s][k] = rows[s][k] + 1
            /\ ~(s = cur /\ k = at) => rows'[s][k] = rows[s][k]
  <2>1. rows \in [Seqs -> [1 .. N -> Nat]]
      BY <1>1 DEF PathTypeOK
  <2> QED
      BY <1>2, <1>3, <2>1, OneLayer
<1>6. /\ win' \in [Seqs -> [1 .. N -> Nat]]
      /\ \A s \in Seqs : \A k \in 1 .. N :
            /\ win[s][k] \in Nat
            /\ s = cur /\ k = at => win'[s][k] = win[s][k] + 1
            /\ ~(s = cur /\ k = at) => win'[s][k] = win[s][k]
  <2>1. win \in [Seqs -> [1 .. N -> Nat]]
      BY <1>1 DEF PathTypeOK
  <2> QED
      BY <1>2, <1>3, <2>1, OneLayer
<1>5. \A s \in Seqs : fed[s] \in Nat
    BY <1>1 DEF PathTypeOK
<1>t. PathTypeOK'
    BY <1>1, <1>3, <1>4, <1>6 DEF PathTypeOK
<1>d. Drivers'
    BY <1>1 DEF Drivers
<1>s. Staged'
    BY DEF Staged
<1>a. Absorbed'
  <2>1. \A s \in Seqs : alive[s] => \A l \in 1 .. N : rows'[s][l] >= fed[s]
      BY <1>1, <1>4, <1>5 DEF Absorbed
  <2>2. \A l \in 1 .. N : l < at + 1 => rows'[cur][l] > fed[cur]
    <3>1. rows'[cur][at] > fed[cur]
        BY <1>1, <1>2, <1>3, <1>4, <1>5 DEF Absorbed, Drivers
    <3>2. \A l \in 1 .. N : l < at => rows'[cur][l] > fed[cur]
        BY <1>1, <1>2, <1>4, <1>5 DEF Absorbed
    <3> QED
        BY <1>2, <1>3, <3>1, <3>2
  <2>3. \A s \in Seqs : alive[s] => \A l \in Gdn : win'[s][l] >= fed[s]
      BY <1>1, <1>2, <1>5, <1>6 DEF Absorbed
  <2>4. \A l \in Gdn : l < at + 1 => win'[cur][l] > fed[cur]
    <3>1. win'[cur][at] > fed[cur]
        BY <1>1, <1>2, <1>3, <1>5, <1>6 DEF Absorbed, Drivers
    <3>2. \A l \in Gdn : l < at => win'[cur][l] > fed[cur]
        BY <1>1, <1>2, <1>5, <1>6 DEF Absorbed
    <3> QED
        BY <1>2, <1>3, <3>1, <3>2
  <2>5. at' # N + 2
      BY <1>2, <1>3
  <2> QED
      BY <1>0, <1>1, <1>2, <1>3, <2>1, <2>2, <2>3, <2>4, <2>5 DEF Absorbed
<1>r. DeviceRows'
    BY DEF DeviceRows
<1> QED
    BY <1>t, <1>d, <1>s, <1>a, <1>r DEF PathInv

\* n_ctx follows the layers.
LEMMA Q4AdvanceInv ==
    ASSUME PathInv, Q4Advance
    PROVE  PathInv'
<1> USE DEF Q4Advance
<1>0. Attn' = Attn /\ Gdn' = Gdn
    BY KindsFixed
<1>1. PathTypeOK /\ Drivers /\ Staged /\ Absorbed /\ DeviceRows
    BY DEF PathInv
<1>2. /\ N \in Nat /\ Attn \subseteq 1 .. N /\ Gdn \subseteq 1 .. N
      /\ Attn \cap Gdn = {}
      /\ \A l \in 1 .. N : l \in Attn \/ l \in Gdn
      /\ cur \in Seqs
    BY <1>1, LayerKinds DEF PathTypeOK
<1>3. at' = N + 2 /\ at' \in 1 .. N + 2 /\ fed \in [Seqs -> Nat]
    BY <1>1, <1>2 DEF PathTypeOK
<1>4. /\ nctx' \in [Seqs -> Nat]
      /\ \A s \in Seqs :
            /\ nctx[s] \in Nat
            /\ s = cur => nctx'[s] = nctx[s] + 1
            /\ s # cur => nctx'[s] = nctx[s]
    BY <1>1, <1>2, OneCount DEF PathTypeOK
<1>t. PathTypeOK'
    BY <1>1, <1>3, <1>4 DEF PathTypeOK
<1>d. Drivers'
    BY <1>1 DEF Drivers
<1>s. Staged'
    BY DEF Staged
<1>5. nctx \in [Seqs -> Nat]
    BY <1>1 DEF PathTypeOK
<1>a. Absorbed'
    BY <1>0, <1>1, <1>2, <1>3, <1>4, <1>5 DEF Absorbed, Drivers
<1>r. DeviceRows'
    BY DEF DeviceRows
<1> QED
    BY <1>t, <1>d, <1>s, <1>a, <1>r DEF PathInv

\* When the logits are returned every layer has absorbed the token.
LEMMA Q4ReturnInv ==
    ASSUME PathInv, Q4Return
    PROVE  PathInv'
<1> USE DEF Q4Return, Answer
<1>0. Attn' = Attn /\ Gdn' = Gdn
    BY KindsFixed
<1>1. PathTypeOK /\ Drivers /\ Staged /\ Absorbed /\ DeviceRows
    BY DEF PathInv
<1>2. /\ N \in Nat /\ Attn \subseteq 1 .. N /\ Gdn \subseteq 1 .. N
      /\ Attn \cap Gdn = {}
      /\ \A l \in 1 .. N : l \in Attn \/ l \in Gdn
      /\ cur \in Seqs
    BY <1>1, LayerKinds DEF PathTypeOK
<1>3. /\ 1 \in 1 .. N + 2
      /\ \A l \in 1 .. N : l < at
    BY <1>2
<1>4. /\ fed' \in [Seqs -> Nat]
      /\ \A s \in Seqs :
            /\ fed[s] \in Nat
            /\ s = cur => fed'[s] = fed[s] + 1
            /\ s # cur => fed'[s] = fed[s]
    BY <1>1, <1>2, OneCount DEF PathTypeOK
<1>5. /\ fed \in [Seqs -> Nat] /\ nctx \in [Seqs -> Nat]
      /\ rows \in [Seqs -> [1 .. N -> Nat]]
      /\ win \in [Seqs -> [1 .. N -> Nat]]
    BY <1>1 DEF PathTypeOK
<1>t. PathTypeOK'
    BY <1>1, <1>3, <1>4 DEF PathTypeOK
<1>d. Drivers'
    BY <1>1 DEF Drivers
<1>s. Staged'
    BY DEF Staged
<1>a. Absorbed'
  <2>1. \A s \in Seqs : alive[s] =>
            /\ nctx[s] >= fed'[s]
            /\ \A l \in 1 .. N : rows[s][l] >= fed'[s]
            /\ \A l \in Gdn : win[s][l] >= fed'[s]
    <3> SUFFICES ASSUME NEW s \in Seqs, alive[s]
                 PROVE  /\ nctx[s] >= fed'[s]
                        /\ \A l \in 1 .. N : rows[s][l] >= fed'[s]
                        /\ \A l \in Gdn : win[s][l] >= fed'[s]
        OBVIOUS
    <3>1. /\ nctx[s] \in Nat /\ fed[s] \in Nat
          /\ \A l \in 1 .. N : rows[s][l] \in Nat /\ win[s][l] \in Nat
        BY <1>5
    <3>2. CASE s = cur
      <4>1. /\ nctx[cur] > fed[cur]
            /\ \A l \in 1 .. N : rows[cur][l] > fed[cur]
            /\ \A l \in Gdn : win[cur][l] > fed[cur]
          BY <1>1, <1>2, <1>3 DEF Absorbed
      <4> QED
          BY <1>2, <1>4, <3>1, <3>2, <4>1
    <3>3. CASE s # cur
        BY <1>1, <1>4, <3>3 DEF Absorbed
    <3> QED
        BY <3>2, <3>3
  <2> QED
      BY <1>0, <2>1 DEF Absorbed
<1>r. DeviceRows'
    BY DEF DeviceRows
<1> QED
    BY <1>t, <1>d, <1>s, <1>a, <1>r DEF PathInv

\* What a driver that returns has committed, layer by layer.
LEMMA CommitFacts ==
    ASSUME PathTypeOK, Commit, Answer
    PROVE  /\ rows' \in [Seqs -> [1 .. N -> Nat]]
           /\ \A s \in Seqs : \A k \in 1 .. N :
                 /\ rows[s][k] \in Nat
                 /\ s = cur /\ k \in Attn => rows'[s][k] = rows[s][k] + 1
                 /\ ~(s = cur /\ k \in Attn) => rows'[s][k] = rows[s][k]
           /\ win' \in [Seqs -> [1 .. N -> Nat]]
           /\ \A s \in Seqs : \A k \in 1 .. N :
                 /\ win[s][k] \in Nat
                 /\ s = cur /\ k \in Gdn => win'[s][k] = win[s][k] + 1
                 /\ ~(s = cur /\ k \in Gdn) => win'[s][k] = win[s][k]
           /\ nctx' \in [Seqs -> Nat]
           /\ \A s \in Seqs :
                 /\ nctx[s] \in Nat
                 /\ s = cur => nctx'[s] = nctx[s] + 1
                 /\ s # cur => nctx'[s] = nctx[s]
           /\ fed' \in [Seqs -> Nat]
           /\ \A s \in Seqs :
                 /\ fed[s] \in Nat
                 /\ s = cur => fed'[s] = fed[s] + 1
                 /\ s # cur => fed'[s] = fed[s]
<1>1. /\ rows \in [Seqs -> [1 .. N -> Nat]] /\ win \in [Seqs -> [1 .. N -> Nat]]
      /\ nctx \in [Seqs -> Nat] /\ fed \in [Seqs -> Nat] /\ cur \in Seqs
    BY DEF PathTypeOK
<1>2. /\ rows' = [rows EXCEPT ![cur] =
                     [l \in 1 .. N |-> IF l \in Attn THEN @[l] + 1 ELSE @[l]]]
      /\ win' = [win EXCEPT ![cur] =
                    [l \in 1 .. N |-> IF l \in Gdn THEN @[l] + 1 ELSE @[l]]]
      /\ nctx' = [nctx EXCEPT ![cur] = @ + 1]
      /\ fed' = [fed EXCEPT ![cur] = @ + 1]
    BY DEF Commit, Answer
<1>3. /\ rows' \in [Seqs -> [1 .. N -> Nat]]
      /\ \A s \in Seqs : \A k \in 1 .. N :
            /\ rows[s][k] \in Nat
            /\ s = cur /\ k \in Attn => rows'[s][k] = rows[s][k] + 1
            /\ ~(s = cur /\ k \in Attn) => rows'[s][k] = rows[s][k]
  <2> DEFINE h == [l \in 1 .. N |-> IF l \in Attn THEN rows[cur][l] + 1
                                    ELSE rows[cur][l]]
  <2>1. h \in [1 .. N -> Nat]
    <3>1. \A l \in 1 .. N : rows[cur][l] \in Nat
        BY <1>1
    <3> QED
        BY <3>1
  <2>2. \A l \in 1 .. N :
            h[l] = IF l \in Attn THEN rows[cur][l] + 1 ELSE rows[cur][l]
      OBVIOUS
  <2>3. rows' = [rows EXCEPT ![cur] = h]
      BY <1>2
  <2> HIDE DEF h
  <2> QED
      BY ONLY <1>1, <2>1, <2>2, <2>3
<1>4. /\ win' \in [Seqs -> [1 .. N -> Nat]]
      /\ \A s \in Seqs : \A k \in 1 .. N :
            /\ win[s][k] \in Nat
            /\ s = cur /\ k \in Gdn => win'[s][k] = win[s][k] + 1
            /\ ~(s = cur /\ k \in Gdn) => win'[s][k] = win[s][k]
  <2> DEFINE h == [l \in 1 .. N |-> IF l \in Gdn THEN win[cur][l] + 1
                                    ELSE win[cur][l]]
  <2>1. h \in [1 .. N -> Nat]
    <3>1. \A l \in 1 .. N : win[cur][l] \in Nat
        BY <1>1
    <3> QED
        BY <3>1
  <2>2. \A l \in 1 .. N : h[l] = IF l \in Gdn THEN win[cur][l] + 1 ELSE win[cur][l]
      OBVIOUS
  <2>3. win' = [win EXCEPT ![cur] = h]
      BY <1>2
  <2> HIDE DEF h
  <2> QED
      BY ONLY <1>1, <2>1, <2>2, <2>3
<1>5. /\ nctx' \in [Seqs -> Nat]
      /\ \A s \in Seqs :
            /\ nctx[s] \in Nat
            /\ s = cur => nctx'[s] = nctx[s] + 1
            /\ s # cur => nctx'[s] = nctx[s]
    BY ONLY <1>1, <1>2, OneCount
<1>6. /\ fed' \in [Seqs -> Nat]
      /\ \A s \in Seqs :
            /\ fed[s] \in Nat
            /\ s = cur => fed'[s] = fed[s] + 1
            /\ s # cur => fed'[s] = fed[s]
    BY ONLY <1>1, <1>2, OneCount
<1> QED
    BY <1>3, <1>4, <1>5, <1>6

\* A resident step that succeeds has written a row of every attention layer
\* on the device, and commits the staged ones.
LEMMA ResidentReturnInv ==
    ASSUME PathInv, ResidentReturn
    PROVE  PathInv'
<1> USE DEF ResidentReturn
<1>0. Attn' = Attn /\ Gdn' = Gdn
    BY KindsFixed
<1>1. PathTypeOK /\ Drivers /\ Staged /\ Absorbed /\ DeviceRows
    BY DEF PathInv
<1>2. /\ N \in Nat /\ Attn \subseteq 1 .. N /\ Gdn \subseteq 1 .. N
      /\ Attn \cap Gdn = {}
      /\ \A l \in 1 .. N : l \in Attn \/ l \in Gdn
      /\ cur \in Seqs
    BY <1>1, LayerKinds DEF PathTypeOK
<1>3. /\ rows' \in [Seqs -> [1 .. N -> Nat]]
      /\ \A s \in Seqs : \A k \in 1 .. N :
            /\ rows[s][k] \in Nat
            /\ s = cur /\ k \in Attn => rows'[s][k] = rows[s][k] + 1
            /\ ~(s = cur /\ k \in Attn) => rows'[s][k] = rows[s][k]
      /\ win' \in [Seqs -> [1 .. N -> Nat]]
      /\ \A s \in Seqs : \A k \in 1 .. N :
            /\ win[s][k] \in Nat
            /\ s = cur /\ k \in Gdn => win'[s][k] = win[s][k] + 1
            /\ ~(s = cur /\ k \in Gdn) => win'[s][k] = win[s][k]
      /\ nctx' \in [Seqs -> Nat]
      /\ \A s \in Seqs :
            /\ nctx[s] \in Nat
            /\ s = cur => nctx'[s] = nctx[s] + 1
            /\ s # cur => nctx'[s] = nctx[s]
      /\ fed' \in [Seqs -> Nat]
      /\ \A s \in Seqs :
            /\ fed[s] \in Nat
            /\ s = cur => fed'[s] = fed[s] + 1
            /\ s # cur => fed'[s] = fed[s]
    BY <1>1, CommitFacts
<1>4. path' = "idle" /\ at' = 1 /\ 1 \in 1 .. N + 2
    BY <1>2 DEF Answer
<1>t. PathTypeOK'
    BY <1>1, <1>3, <1>4 DEF PathTypeOK
<1>d. Drivers'
    BY <1>1, <1>4 DEF Drivers
<1>s. Staged'
  <2> SUFFICES ASSUME conf.arch # "q4", NEW s \in Seqs, alive[s]
               PROVE  /\ nctx'[s] = fed'[s]
                      /\ \A l \in Attn : rows'[s][l] = fed'[s]
                      /\ \A l \in Gdn : win'[s][l] = fed'[s]
      BY <1>0 DEF Staged
  <2>1. /\ nctx[s] = fed[s]
        /\ \A l \in Attn : rows[s][l] = fed[s]
        /\ \A l \in Gdn : win[s][l] = fed[s]
      BY <1>1 DEF Staged
  <2>2. CASE s = cur
    <3>1. nctx'[s] = fed'[s] /\ fed'[s] = fed[s] + 1
        BY <1>3, <2>1, <2>2
    <3>2. \A l \in Attn : rows'[s][l] = rows[s][l] + 1
        BY <1>2, <1>3, <2>2
    <3>3. \A l \in Gdn : win'[s][l] = win[s][l] + 1
        BY <1>2, <1>3, <2>2
    <3> QED
        BY <2>1, <3>1, <3>2, <3>3
  <2>3. CASE s # cur
    <3>1. nctx'[s] = nctx[s] /\ fed'[s] = fed[s]
        BY <1>3, <2>3
    <3>2. \A l \in 1 .. N : rows'[s][l] = rows[s][l] /\ win'[s][l] = win[s][l]
        BY <1>3, <2>3
    <3> QED
        BY <1>2, <2>1, <3>1, <3>2
  <2> QED
      BY <2>2, <2>3
<1>a. Absorbed'
  <2> SUFFICES ASSUME NEW s \in Seqs, alive[s]
               PROVE  /\ nctx'[s] >= fed'[s]
                      /\ \A l \in 1 .. N : rows'[s][l] >= fed'[s]
                      /\ \A l \in Gdn : win'[s][l] >= fed'[s]
      BY <1>0, <1>4 DEF Absorbed
  <2>1. /\ nctx[s] >= fed[s]
        /\ \A l \in 1 .. N : rows[s][l] >= fed[s]
        /\ \A l \in Gdn : win[s][l] >= fed[s]
      BY <1>1 DEF Absorbed
  <2>2. CASE s # cur
      BY <1>2, <1>3, <2>1, <2>2
  <2>3. CASE s = cur
    <3>1. \A l \in Gdn : rows[s][l] > fed[s]
        BY <1>1, <1>2, <2>3 DEF Absorbed
    <3>0. fed'[s] = fed[s] + 1 /\ fed[s] \in Nat
        BY <1>3, <2>3
    <3>2. \A l \in Attn : rows'[s][l] >= fed'[s]
      <4>1. \A l \in Attn : rows'[s][l] = rows[s][l] + 1 /\ rows[s][l] \in Nat
          BY <1>2, <1>3, <2>3
      <4> QED
          BY <1>2, <2>1, <3>0, <4>1
    <3>3. \A l \in Gdn : rows'[s][l] >= fed'[s] /\ win'[s][l] >= fed'[s]
      <4>1. \A l \in Gdn : l \in 1 .. N /\ l \notin Attn
          BY <1>2
      <4>2. \A l \in Gdn : /\ rows'[s][l] = rows[s][l] /\ rows[s][l] \in Nat
                             /\ win'[s][l] = win[s][l] + 1 /\ win[s][l] \in Nat
          BY <1>3, <2>3, <4>1
      <4> QED
          BY <2>1, <3>0, <3>1, <4>2
    <3>4. nctx'[s] >= fed'[s]
        BY <1>3, <2>1, <2>3
    <3> QED
        BY <1>2, <3>2, <3>3, <3>4
  <2> QED
      BY <2>2, <2>3
<1>r. DeviceRows'
  <2> SUFFICES ASSUME NEW s \in Seqs, onDev[s], ~off, NEW l \in Attn
               PROVE  0 .. nctx'[s] - 1 \subseteq dev[s][l]
      BY <1>0, <1>4 DEF DeviceRows
  <2>1. 0 .. nctx[s] - 1 \subseteq dev[s][l]
      BY <1>1 DEF DeviceRows
  <2>2. CASE s # cur
      BY <1>3, <2>1, <2>2
  <2>3. CASE s = cur
    <3>1. nctx[cur] \in dev[cur][l]
        BY <1>1, <1>2 DEF DeviceRows
    <3>2. nctx'[s] - 1 = nctx[s] /\ nctx[s] \in Nat
        BY <1>3, <2>3
    <3> QED
        BY <2>1, <2>3, <3>1, <3>2
  <2> QED
      BY <2>2, <2>3
<1> QED
    BY <1>t, <1>d, <1>s, <1>a, <1>r DEF PathInv

\* A transfer step writes no device row: it runs only when no step will read
\* them.
LEMMA TransferReturnInv ==
    ASSUME PathInv, TransferReturn
    PROVE  PathInv'
<1> USE DEF TransferReturn
<1>0. Attn' = Attn /\ Gdn' = Gdn
    BY KindsFixed
<1>1. PathTypeOK /\ Drivers /\ Staged /\ Absorbed /\ DeviceRows
    BY DEF PathInv
<1>2. /\ N \in Nat /\ Attn \subseteq 1 .. N /\ Gdn \subseteq 1 .. N
      /\ Attn \cap Gdn = {}
      /\ \A l \in 1 .. N : l \in Attn \/ l \in Gdn
      /\ cur \in Seqs
    BY <1>1, LayerKinds DEF PathTypeOK
<1>3. /\ rows' \in [Seqs -> [1 .. N -> Nat]]
      /\ \A s \in Seqs : \A k \in 1 .. N :
            /\ rows[s][k] \in Nat
            /\ s = cur /\ k \in Attn => rows'[s][k] = rows[s][k] + 1
            /\ ~(s = cur /\ k \in Attn) => rows'[s][k] = rows[s][k]
      /\ win' \in [Seqs -> [1 .. N -> Nat]]
      /\ \A s \in Seqs : \A k \in 1 .. N :
            /\ win[s][k] \in Nat
            /\ s = cur /\ k \in Gdn => win'[s][k] = win[s][k] + 1
            /\ ~(s = cur /\ k \in Gdn) => win'[s][k] = win[s][k]
      /\ nctx' \in [Seqs -> Nat]
      /\ \A s \in Seqs :
            /\ nctx[s] \in Nat
            /\ s = cur => nctx'[s] = nctx[s] + 1
            /\ s # cur => nctx'[s] = nctx[s]
      /\ fed' \in [Seqs -> Nat]
      /\ \A s \in Seqs :
            /\ fed[s] \in Nat
            /\ s = cur => fed'[s] = fed[s] + 1
            /\ s # cur => fed'[s] = fed[s]
    BY <1>1, CommitFacts
<1>4. path' = "idle" /\ at' = 1 /\ 1 \in 1 .. N + 2
    BY <1>2 DEF Answer
<1>t. PathTypeOK'
    BY <1>1, <1>3, <1>4 DEF PathTypeOK
<1>d. Drivers'
    BY <1>1, <1>4 DEF Drivers
<1>s. Staged'
  <2> SUFFICES ASSUME conf.arch # "q4", NEW s \in Seqs, alive[s]
               PROVE  /\ nctx'[s] = fed'[s]
                      /\ \A l \in Attn : rows'[s][l] = fed'[s]
                      /\ \A l \in Gdn : win'[s][l] = fed'[s]
      BY <1>0 DEF Staged
  <2>1. /\ nctx[s] = fed[s]
        /\ \A l \in Attn : rows[s][l] = fed[s]
        /\ \A l \in Gdn : win[s][l] = fed[s]
      BY <1>1 DEF Staged
  <2>2. CASE s = cur
    <3>1. nctx'[s] = fed'[s] /\ fed'[s] = fed[s] + 1
        BY <1>3, <2>1, <2>2
    <3>2. \A l \in Attn : rows'[s][l] = rows[s][l] + 1
        BY <1>2, <1>3, <2>2
    <3>3. \A l \in Gdn : win'[s][l] = win[s][l] + 1
        BY <1>2, <1>3, <2>2
    <3> QED
        BY <2>1, <3>1, <3>2, <3>3
  <2>3. CASE s # cur
    <3>1. nctx'[s] = nctx[s] /\ fed'[s] = fed[s]
        BY <1>3, <2>3
    <3>2. \A l \in 1 .. N : rows'[s][l] = rows[s][l] /\ win'[s][l] = win[s][l]
        BY <1>3, <2>3
    <3> QED
        BY <1>2, <2>1, <3>1, <3>2
  <2> QED
      BY <2>2, <2>3
<1>a. Absorbed'
  <2> SUFFICES ASSUME NEW s \in Seqs, alive[s]
               PROVE  /\ nctx'[s] >= fed'[s]
                      /\ \A l \in 1 .. N : rows'[s][l] >= fed'[s]
                      /\ \A l \in Gdn : win'[s][l] >= fed'[s]
      BY <1>0, <1>4 DEF Absorbed
  <2>1. /\ nctx[s] >= fed[s]
        /\ \A l \in 1 .. N : rows[s][l] >= fed[s]
        /\ \A l \in Gdn : win[s][l] >= fed[s]
      BY <1>1 DEF Absorbed
  <2>2. CASE s # cur
      BY <1>2, <1>3, <2>1, <2>2
  <2>3. CASE s = cur
    <3>1. \A l \in Gdn : rows[s][l] > fed[s]
        BY <1>1, <1>2, <2>3 DEF Absorbed
    <3>0. fed'[s] = fed[s] + 1 /\ fed[s] \in Nat
        BY <1>3, <2>3
    <3>2. \A l \in Attn : rows'[s][l] >= fed'[s]
      <4>1. \A l \in Attn : rows'[s][l] = rows[s][l] + 1 /\ rows[s][l] \in Nat
          BY <1>2, <1>3, <2>3
      <4> QED
          BY <1>2, <2>1, <3>0, <4>1
    <3>3. \A l \in Gdn : rows'[s][l] >= fed'[s] /\ win'[s][l] >= fed'[s]
      <4>1. \A l \in Gdn : l \in 1 .. N /\ l \notin Attn
          BY <1>2
      <4>2. \A l \in Gdn : /\ rows'[s][l] = rows[s][l] /\ rows[s][l] \in Nat
                             /\ win'[s][l] = win[s][l] + 1 /\ win[s][l] \in Nat
          BY <1>3, <2>3, <4>1
      <4> QED
          BY <2>1, <3>0, <3>1, <4>2
    <3>4. nctx'[s] >= fed'[s]
        BY <1>3, <2>1, <2>3
    <3> QED
        BY <1>2, <3>2, <3>3, <3>4
  <2> QED
      BY <2>2, <2>3
<1>r. DeviceRows'
  <2> SUFFICES ASSUME conf.arch # "q4", NEW s \in Seqs, onDev[s], ~off,
                      NEW l \in Attn
               PROVE  0 .. nctx'[s] - 1 \subseteq dev[s][l]
      BY <1>0, <1>4 DEF DeviceRows
  <2>1. s # cur
      BY <1>1 DEF Drivers
  <2> QED
      BY <1>1, <1>3, <2>1 DEF DeviceRows
<1> QED
    BY <1>t, <1>d, <1>s, <1>a, <1>r DEF PathInv

\* A numpy step: every layer absorbs the token, whatever it had absorbed.
LEMMA NumpyStepInv ==
    ASSUME PathInv, NumpyStep
    PROVE  PathInv'
<1> USE DEF NumpyStep
<1>0. Attn' = Attn /\ Gdn' = Gdn
    BY KindsFixed
<1>1. PathTypeOK /\ Drivers /\ Staged /\ Absorbed /\ DeviceRows
    BY DEF PathInv
<1>2. /\ N \in Nat /\ Attn \subseteq 1 .. N /\ Gdn \subseteq 1 .. N
      /\ Attn \cap Gdn = {}
      /\ \A l \in 1 .. N : l \in Attn \/ l \in Gdn
      /\ cur \in Seqs
    BY <1>1, LayerKinds DEF PathTypeOK
<1>3. /\ rows' \in [Seqs -> [1 .. N -> Nat]]
      /\ \A s \in Seqs : \A k \in 1 .. N :
            /\ rows[s][k] \in Nat
            /\ s = cur /\ k \in 1 .. N => rows'[s][k] = rows[s][k] + 1
            /\ ~(s = cur /\ k \in 1 .. N) => rows'[s][k] = rows[s][k]
      /\ win' \in [Seqs -> [1 .. N -> Nat]]
      /\ \A s \in Seqs : \A k \in 1 .. N :
            /\ win[s][k] \in Nat
            /\ s = cur /\ k \in Gdn => win'[s][k] = win[s][k] + 1
            /\ ~(s = cur /\ k \in Gdn) => win'[s][k] = win[s][k]
      /\ nctx' \in [Seqs -> Nat]
      /\ \A s \in Seqs :
            /\ nctx[s] \in Nat
            /\ s = cur => nctx'[s] = nctx[s] + 1
            /\ s # cur => nctx'[s] = nctx[s]
      /\ fed' \in [Seqs -> Nat]
      /\ \A s \in Seqs :
            /\ fed[s] \in Nat
            /\ s = cur => fed'[s] = fed[s] + 1
            /\ s # cur => fed'[s] = fed[s]
  <2>1. /\ rows \in [Seqs -> [1 .. N -> Nat]] /\ win \in [Seqs -> [1 .. N -> Nat]]
        /\ nctx \in [Seqs -> Nat] /\ fed \in [Seqs -> Nat] /\ cur \in Seqs
      BY <1>1 DEF PathTypeOK
  <2>2. /\ rows' = [rows EXCEPT ![cur] =
                       [l \in 1 .. N |-> IF l \in 1 .. N THEN @[l] + 1 ELSE @[l]]]
        /\ win' = [win EXCEPT ![cur] =
                      [l \in 1 .. N |-> IF l \in Gdn THEN @[l] + 1 ELSE @[l]]]
        /\ nctx' = [nctx EXCEPT ![cur] = @ + 1]
        /\ fed' = [fed EXCEPT ![cur] = @ + 1]
      BY DEF Answer
  <2>3. /\ rows' \in [Seqs -> [1 .. N -> Nat]]
        /\ \A s \in Seqs : \A k \in 1 .. N :
              /\ rows[s][k] \in Nat
              /\ s = cur /\ k \in 1 .. N => rows'[s][k] = rows[s][k] + 1
              /\ ~(s = cur /\ k \in 1 .. N) => rows'[s][k] = rows[s][k]
    <3> DEFINE h == [l \in 1 .. N |-> IF l \in 1 .. N THEN rows[cur][l] + 1
                                      ELSE rows[cur][l]]
    <3>1. h \in [1 .. N -> Nat]
      <4>1. \A l \in 1 .. N : rows[cur][l] \in Nat
          BY <2>1
      <4> QED
          BY <4>1
    <3>2. \A l \in 1 .. N :
              h[l] = IF l \in 1 .. N THEN rows[cur][l] + 1 ELSE rows[cur][l]
        OBVIOUS
    <3>3. rows' = [rows EXCEPT ![cur] = h]
        BY <2>2
    <3> HIDE DEF h
    <3> QED
        BY ONLY <2>1, <3>1, <3>2, <3>3
  <2>4. /\ win' \in [Seqs -> [1 .. N -> Nat]]
        /\ \A s \in Seqs : \A k \in 1 .. N :
              /\ win[s][k] \in Nat
              /\ s = cur /\ k \in Gdn => win'[s][k] = win[s][k] + 1
              /\ ~(s = cur /\ k \in Gdn) => win'[s][k] = win[s][k]
    <3> DEFINE h == [l \in 1 .. N |-> IF l \in Gdn THEN win[cur][l] + 1
                                      ELSE win[cur][l]]
    <3>1. h \in [1 .. N -> Nat]
      <4>1. \A l \in 1 .. N : win[cur][l] \in Nat
          BY <2>1
      <4> QED
          BY <4>1
    <3>2. \A l \in 1 .. N : h[l] = IF l \in Gdn THEN win[cur][l] + 1 ELSE win[cur][l]
        OBVIOUS
    <3>3. win' = [win EXCEPT ![cur] = h]
        BY <2>2
    <3> HIDE DEF h
    <3> QED
        BY ONLY <2>1, <3>1, <3>2, <3>3
  <2>5. /\ nctx' \in [Seqs -> Nat]
        /\ \A s \in Seqs :
              /\ nctx[s] \in Nat
              /\ s = cur => nctx'[s] = nctx[s] + 1
              /\ s # cur => nctx'[s] = nctx[s]
      BY ONLY <2>1, <2>2, OneCount
  <2>6. /\ fed' \in [Seqs -> Nat]
        /\ \A s \in Seqs :
              /\ fed[s] \in Nat
              /\ s = cur => fed'[s] = fed[s] + 1
              /\ s # cur => fed'[s] = fed[s]
      BY ONLY <2>1, <2>2, OneCount
  <2> QED
      BY <2>3, <2>4, <2>5, <2>6
<1>4. path' = "idle" /\ at' = 1 /\ 1 \in 1 .. N + 2
    BY <1>2 DEF Answer
<1>t. PathTypeOK'
    BY <1>1, <1>3, <1>4 DEF PathTypeOK
<1>d. Drivers'
    BY <1>1, <1>4 DEF Drivers
<1>s. Staged'
  <2> SUFFICES ASSUME conf.arch # "q4", NEW s \in Seqs, alive[s]
               PROVE  /\ nctx'[s] = fed'[s]
                      /\ \A l \in Attn : rows'[s][l] = fed'[s]
                      /\ \A l \in Gdn : win'[s][l] = fed'[s]
      BY <1>0 DEF Staged
  <2>1. /\ nctx[s] = fed[s]
        /\ \A l \in Attn : rows[s][l] = fed[s]
        /\ \A l \in Gdn : win[s][l] = fed[s]
      BY <1>1 DEF Staged
  <2>2. CASE s = cur
    <3>1. nctx'[s] = fed'[s] /\ fed'[s] = fed[s] + 1
        BY <1>3, <2>1, <2>2
    <3>2. \A l \in Attn : rows'[s][l] = rows[s][l] + 1
        BY <1>2, <1>3, <2>2
    <3>3. \A l \in Gdn : win'[s][l] = win[s][l] + 1
        BY <1>2, <1>3, <2>2
    <3> QED
        BY <2>1, <3>1, <3>2, <3>3
  <2>3. CASE s # cur
    <3>1. nctx'[s] = nctx[s] /\ fed'[s] = fed[s]
        BY <1>3, <2>3
    <3>2. \A l \in 1 .. N : rows'[s][l] = rows[s][l] /\ win'[s][l] = win[s][l]
        BY <1>3, <2>3
    <3> QED
        BY <1>2, <2>1, <3>1, <3>2
  <2> QED
      BY <2>2, <2>3
<1>a. Absorbed'
  <2> SUFFICES ASSUME NEW s \in Seqs, alive[s]
               PROVE  /\ nctx'[s] >= fed'[s]
                      /\ \A l \in 1 .. N : rows'[s][l] >= fed'[s]
                      /\ \A l \in Gdn : win'[s][l] >= fed'[s]
      BY <1>0, <1>4 DEF Absorbed
  <2>1. /\ nctx[s] >= fed[s]
        /\ \A l \in 1 .. N : rows[s][l] >= fed[s]
        /\ \A l \in Gdn : win[s][l] >= fed[s]
      BY <1>1 DEF Absorbed
  <2>2. CASE s = cur
    <3>1. /\ fed'[s] = fed[s] + 1 /\ nctx'[s] = nctx[s] + 1
          /\ fed[s] \in Nat /\ nctx[s] \in Nat
        BY <1>3, <2>2
    <3>2. \A l \in 1 .. N : rows'[s][l] = rows[s][l] + 1 /\ rows[s][l] \in Nat
        BY <1>3, <2>2
    <3>3. \A l \in Gdn : win'[s][l] = win[s][l] + 1 /\ win[s][l] \in Nat
        BY <1>2, <1>3, <2>2
    <3> QED
        BY <2>1, <3>1, <3>2, <3>3
  <2>3. CASE s # cur
    <3>1. nctx'[s] = nctx[s] /\ fed'[s] = fed[s]
        BY <1>3, <2>3
    <3>2. \A l \in 1 .. N : rows'[s][l] = rows[s][l] /\ win'[s][l] = win[s][l]
        BY <1>3, <2>3
    <3> QED
        BY <1>2, <2>1, <3>1, <3>2
  <2> QED
      BY <2>2, <2>3
<1>r. DeviceRows'
  <2> SUFFICES ASSUME conf.arch # "q4", NEW s \in Seqs, onDev[s], ~off,
                      NEW l \in Attn
               PROVE  0 .. nctx'[s] - 1 \subseteq dev[s][l]
      BY <1>0, <1>4 DEF DeviceRows
  <2>1. s # cur
      BY <1>1 DEF Drivers
  <2> QED
      BY <1>1, <1>3, <2>1 DEF DeviceRows
<1> QED
    BY <1>t, <1>d, <1>s, <1>a, <1>r DEF PathInv

\* A resident step that raises switches resident decode off; what its
\* recurrent layers absorbed stays.
LEMMA ResidentFailsInv ==
    ASSUME PathInv, ResidentFails
    PROVE  PathInv'
<1> USE DEF ResidentFails, seqVars, AfterResident
<1>0. Attn' = Attn /\ Gdn' = Gdn
    BY KindsFixed
<1>1. PathTypeOK /\ Drivers /\ Staged /\ Absorbed /\ DeviceRows
    BY DEF PathInv
<1>2. /\ N \in Nat /\ Attn \subseteq 1 .. N /\ Gdn \subseteq 1 .. N
      /\ Attn \cap Gdn = {}
      /\ \A l \in 1 .. N : l \in Attn \/ l \in Gdn
      /\ cur \in Seqs
    BY <1>1, LayerKinds DEF PathTypeOK
<1>3. path' = "transfer" /\ at' = 1 /\ 1 \in 1 .. N + 2 /\ \A l \in 1 .. N : ~(l < 1)
    BY <1>2
<1>t. PathTypeOK'
    BY <1>1, <1>3 DEF PathTypeOK
<1>d. Drivers'
    BY <1>1, <1>3 DEF Drivers
<1>s. Staged'
    BY <1>0, <1>1 DEF Staged
<1>a. Absorbed'
    BY <1>0, <1>1, <1>2, <1>3 DEF Absorbed
<1>r. DeviceRows'
    BY <1>0, <1>1, <1>3 DEF DeviceRows
<1> QED
    BY <1>t, <1>d, <1>s, <1>a, <1>r DEF PathInv

\* A qwen4_exp step that gives up leaves what its layers absorbed, one
\* window perhaps ahead of its state.
LEMMA Q4FailsInv ==
    ASSUME PathInv, Q4Fails
    PROVE  PathInv'
<1> USE DEF Q4Fails, AfterResident
<1>0. Attn' = Attn /\ Gdn' = Gdn
    BY KindsFixed
<1>1. PathTypeOK /\ Drivers /\ Staged /\ Absorbed /\ DeviceRows
    BY DEF PathInv
<1>2. /\ N \in Nat /\ Attn \subseteq 1 .. N /\ Gdn \subseteq 1 .. N
      /\ Attn \cap Gdn = {}
      /\ \A l \in 1 .. N : l \in Attn \/ l \in Gdn
      /\ cur \in Seqs
    BY <1>1, LayerKinds DEF PathTypeOK
<1>3. path' = "numpy" /\ at' = 1 /\ 1 \in 1 .. N + 2
    BY <1>2
<1>4. /\ win' \in [Seqs -> [1 .. N -> Nat]]
      /\ \A s \in Seqs : \A l \in 1 .. N :
            /\ win[s][l] \in Nat /\ win'[s][l] \in Nat
            /\ win'[s][l] >= win[s][l]
  <2>1. win \in [Seqs -> [1 .. N -> Nat]]
      BY <1>1 DEF PathTypeOK
  <2>2. CASE at \in Gdn /\ win' = [win EXCEPT ![cur][at] = @ + 1]
    <3>1. /\ win' \in [Seqs -> [1 .. N -> Nat]]
          /\ \A s \in Seqs : \A k \in 1 .. N :
                /\ win[s][k] \in Nat
                /\ s = cur /\ k = at => win'[s][k] = win[s][k] + 1
                /\ ~(s = cur /\ k = at) => win'[s][k] = win[s][k]
        BY <1>2, <2>1, <2>2, OneLayer
    <3> QED
        BY <3>1
  <2>3. CASE UNCHANGED win
    <3>1. \A s \in Seqs : \A l \in 1 .. N : win[s][l] \in Nat
        BY <2>1
    <3> QED
        BY <2>1, <2>3, <3>1
  <2> QED
      BY <2>2, <2>3
<1>5. \A s \in Seqs : fed[s] \in Nat
    BY <1>1 DEF PathTypeOK
<1>t. PathTypeOK'
    BY <1>1, <1>3, <1>4 DEF PathTypeOK
<1>d. Drivers'
    BY <1>1, <1>3 DEF Drivers
<1>s. Staged'
    BY DEF Staged
<1>a. Absorbed'
  <2>1. \A s \in Seqs : alive[s] => \A l \in Gdn : win'[s][l] >= fed[s]
    <3> SUFFICES ASSUME NEW s \in Seqs, alive[s], NEW l \in Gdn
                 PROVE  win'[s][l] >= fed[s]
        OBVIOUS
    <3>1. win[s][l] >= fed[s]
        BY <1>1 DEF Absorbed
    <3> QED
        BY <1>2, <1>4, <1>5, <3>1
  <2> QED
      BY <1>0, <1>1, <1>3, <2>1 DEF Absorbed
<1>r. DeviceRows'
    BY DEF DeviceRows
<1> QED
    BY <1>t, <1>d, <1>s, <1>a, <1>r DEF PathInv

\* A transfer step that raises hands over to numpy, or gives the sequence up.
LEMMA TransferFailsInv ==
    ASSUME PathInv, TransferFails
    PROVE  PathInv'
<1> USE DEF TransferFails
<1>0. Attn' = Attn /\ Gdn' = Gdn
    BY KindsFixed
<1>1. PathTypeOK /\ Drivers /\ Staged /\ Absorbed /\ DeviceRows
    BY DEF PathInv
<1>2. /\ N \in Nat /\ Attn \subseteq 1 .. N /\ Gdn \subseteq 1 .. N
      /\ Attn \cap Gdn = {}
      /\ \A l \in 1 .. N : l \in Attn \/ l \in Gdn
      /\ cur \in Seqs
    BY <1>1, LayerKinds DEF PathTypeOK
<1>3. /\ path' \in {"idle", "numpy"} /\ at' = 1 /\ 1 \in 1 .. N + 2
      /\ path' = "numpy" => alive' = alive
      /\ alive' \in [Seqs -> BOOLEAN]
      /\ \A s \in Seqs : alive'[s] => alive[s]
  <2>1. alive \in [Seqs -> BOOLEAN]
      BY <1>1 DEF PathTypeOK
  <2>2. 1 \in 1 .. N + 2
      BY <1>2
  <2>3. CASE conf.placement = "device"
    <3>1. alive' = [alive EXCEPT ![cur] = FALSE] /\ path' = "idle" /\ at' = 1
        BY <2>3
    <3>2. alive' \in [Seqs -> BOOLEAN]
        BY <2>1, <3>1
    <3>3. \A s \in Seqs : alive'[s] => alive[s]
        BY <1>2, <2>1, <3>1
    <3> QED
        BY <2>2, <3>1, <3>2, <3>3
  <2>4. CASE conf.placement # "device"
      BY <2>1, <2>2, <2>4
  <2> QED
      BY <2>3, <2>4
<1>t. PathTypeOK'
    BY <1>1, <1>3 DEF PathTypeOK
<1>d. Drivers'
    BY <1>1, <1>2, <1>3 DEF Drivers
<1>s. Staged'
    BY <1>0, <1>1, <1>3 DEF Staged
<1>a. Absorbed'
    BY <1>0, <1>1, <1>3 DEF Absorbed
<1>r. DeviceRows'
    BY <1>0, <1>1, <1>3 DEF DeviceRows
<1> QED
    BY <1>t, <1>d, <1>s, <1>a, <1>r DEF PathInv

\* Every step of the model keeps the invariant.
LEMMA PathNextInv == PathInv /\ [PathNext]_decodeVars => PathInv'
<1> SUFFICES ASSUME PathInv, [PathNext]_decodeVars PROVE PathInv'
    OBVIOUS
<1>1. CASE UNCHANGED decodeVars
    BY <1>1 DEF decodeVars, seqVars, PathInv, PathTypeOK, Drivers, Staged, Absorbed,
                DeviceRows, Attn, Gdn, Kind
<1>2. CASE PathNext
    BY <1>2, BeginInv, SetupInv, SetupFailsInv, ResidentAttnInv, ResidentGdnInv,
       ResidentReturnInv, ResidentFailsInv, Q4AttnInv, Q4GdnInv, Q4AdvanceInv,
       Q4ReturnInv, Q4FailsInv, TransferAttnInv, TransferGdnInv, TransferReturnInv,
       TransferFailsInv, NumpyStepInv DEF PathNext
<1> QED
    BY <1>1, <1>2

-----------------------------------------------------------------------------
(***************************************************************************)
(* The theorems.                                                           *)
(***************************************************************************)
\* The inductive invariant holds of every state a model's caches can reach.
THEOREM DecodePathInvariant == PathSpec => []PathInv
<1>1. PathInit => PathInv
    BY PathInitInv
<1>2. PathInv /\ [PathNext]_decodeVars => PathInv'
    BY PathNextInv
<1> QED
    BY <1>1, <1>2, PTL DEF PathSpec

\* No driver writes a device row beyond max_position_embeddings, and none runs
\* past the layers.
THEOREM PathTypeCorrect == PathSpec => []PathTypeOK
<1>1. PathInv => PathTypeOK
    BY DEF PathInv
<1> QED
    BY <1>1, DecodePathInvariant, PTL

\* Between two steps the staged K/V rows, the windows and n_ctx of a cache are
\* those of the tokens fed, whichever drivers of standard_decode.py,
\* hybrid_decode.py and decode_executor.py ran, failed or took over.
THEOREM StagedAlwaysExact == PathSpec => []StagedExact
<1>1. PathInv => StagedExact
    BY DEF PathInv, Staged, StagedExact, Between
<1> QED
    BY <1>1, DecodePathInvariant, PTL

\* No layer of any cache misses a token its caller has got logits for.
THEOREM NothingEverMissed == PathSpec => []NothingMissed
<1>1. PathInv => NothingMissed
    BY DEF PathInv, Absorbed, NothingMissed, Between
<1> QED
    BY <1>1, DecodePathInvariant, PTL

\* A resident step attends over device rows that are all this sequence's,
\* whatever other steps of it ran elsewhere before.
THEOREM DeviceRowsAlwaysCurrent == PathSpec => []DeviceRowsCurrent
<1>1. PathInv => DeviceRowsCurrent
    BY DEF PathInv, PathTypeOK, Drivers, DeviceRows, DeviceRowsCurrent
<1> QED
    BY <1>1, DecodePathInvariant, PTL

-----------------------------------------------------------------------------
(***************************************************************************)
(* Arithmetic of flat buffers.                                             *)
(***************************************************************************)
\* A row's words lie in the buffer, and are found again from their place.
LEMMA AtFacts ==
    ASSUME NEW c \in Nat \ {0}, NEW h \in 0 .. KVHeads - 1, NEW s \in 0 .. c - 1,
           NEW w \in 0 .. RowWords - 1
    PROVE  /\ At(h, s, w, c) \in Words(c)
           /\ At(h, s, w, c) \div RowWords = h * c + s
           /\ At(h, s, w, c) % RowWords = w
           /\ (h * c + s) \div c = h
           /\ (h * c + s) % c = s
           /\ At(h, s, w, c) \div (c * RowWords) = h
<1>1. KVHeads \in Nat \ {0} /\ RowWords \in Nat \ {0}
  BY DeviceAssumption
<1>2. h \in Nat /\ s \in Nat /\ w \in Nat /\ h + 1 <= KVHeads /\ s + 1 <= c
      /\ w + 1 <= RowWords
  BY <1>1
<1> DEFINE q == h * c + s
<1>3. h * c \in Nat /\ q \in Nat
  BY <1>2
<1>4. q \div c = h /\ q % c = s
  BY <1>2, DivMod
<1>5. At(h, s, w, c) = q * RowWords + w
  BY DEF At
<1>6. At(h, s, w, c) \div RowWords = q /\ At(h, s, w, c) % RowWords = w
  <2> HIDE DEF q
  <2>1. (q * RowWords + w) \div RowWords = q
    BY <1>1, <1>3, DivMod
  <2>2. (q * RowWords + w) % RowWords = w
    BY <1>1, <1>3, DivMod
  <2> QED BY <1>5, <2>1, <2>2
<1>7. c * RowWords \in Nat \ {0} /\ s * RowWords + w \in 0 .. c * RowWords - 1
  <2>1. /\ RowWords * s \in Nat /\ RowWords * c \in Nat
        /\ RowWords * (s + 1) <= RowWords * c
        /\ RowWords * (s + 1) = RowWords * s + RowWords
    BY <1>1, <1>2, ProductGrows
  <2>2. RowWords * s = s * RowWords /\ RowWords * c = c * RowWords
    BY <1>1, <1>2
  <2> QED BY <1>1, <1>2, <2>1, <2>2
<1>8. At(h, s, w, c) = h * (c * RowWords) + (s * RowWords + w)
  <2>1. q * RowWords = (h * c) * RowWords + s * RowWords
    BY <1>1, <1>2, <1>3
  <2>2. (h * c) * RowWords = h * (c * RowWords)
    BY <1>1, <1>2
  <2>3. (h * c) * RowWords \in Nat /\ s * RowWords \in Nat
    BY <1>1, <1>2, <1>3
  <2> QED BY <1>2, <1>5, <2>1, <2>2, <2>3
<1>9. At(h, s, w, c) \div (c * RowWords) = h
  <2> DEFINE d == c * RowWords
             r == s * RowWords + w
  <2>1. d \in Nat \ {0} /\ r \in 0 .. d - 1
    BY <1>7
  <2>2. At(h, s, w, c) = h * d + r
    BY <1>8
  <2> HIDE DEF d, r
  <2>3. (h * d + r) \div d = h
    BY <1>2, <2>1, DivMod
  <2>4. At(h, s, w, c) \div d = h
    BY <2>2, <2>3
  <2> QED BY <2>4 DEF d
<1>10. At(h, s, w, c) \in Words(c)
  <2> DEFINE d == c * RowWords
             r == s * RowWords + w
  <2>1. d \in Nat \ {0} /\ r \in 0 .. d - 1
    BY <1>7
  <2>2. At(h, s, w, c) = d * h + r
    <3>1. h * d = d * h
      BY <1>2, <2>1
    <3> QED BY <1>8, <3>1
  <2>4. KVHeads * c * RowWords = d * KVHeads
    BY <1>1
  <2> HIDE DEF d, r
  <2>3. d * (h + 1) <= d * KVHeads /\ d * (h + 1) = d * h + d /\ d * h \in Nat
        /\ d * KVHeads \in Nat
    BY <1>1, <1>2, <2>1, ProductGrows
  <2>5. At(h, s, w, c) \in 0 .. d * KVHeads - 1
    BY <2>1, <2>2, <2>3
  <2> QED BY <2>4, <2>5 DEF Words
<1> QED BY <1>4, <1>6, <1>9, <1>10

\* No two rows share a word.
LEMMA AtInjective ==
    ASSUME NEW c \in Nat \ {0},
           NEW h \in 0 .. KVHeads - 1, NEW s \in 0 .. c - 1,
           NEW w \in 0 .. RowWords - 1,
           NEW g \in 0 .. KVHeads - 1, NEW t \in 0 .. c - 1,
           NEW v \in 0 .. RowWords - 1,
           At(h, s, w, c) = At(g, t, v, c)
    PROVE  h = g /\ s = t /\ w = v
<1> DEFINE i == At(h, s, w, c)
<1>1. /\ i \div RowWords = h * c + s /\ i % RowWords = w
      /\ (h * c + s) \div c = h /\ (h * c + s) % c = s
  BY AtFacts
<1>2. /\ i \div RowWords = g * c + t /\ i % RowWords = v
      /\ (g * c + t) \div c = g /\ (g * c + t) % c = t
  BY AtFacts
<1> HIDE DEF i
<1> QED BY ONLY <1>1, <1>2, Zenon

\* Every word of a buffer is one of a row.
LEMMA WordIsOfRow ==
    ASSUME NEW c \in Nat \ {0}, NEW i \in Words(c)
    PROVE  \E h \in 0 .. KVHeads - 1, s \in 0 .. c - 1, w \in 0 .. RowWords - 1 :
              i = At(h, s, w, c)
<1>1. KVHeads \in Nat \ {0} /\ RowWords \in Nat \ {0}
  BY DeviceAssumption
<1> DEFINE q == i \div RowWords
           w == i % RowWords
           h == q \div c
           s == q % c
<1>2. i \in Nat /\ i < KVHeads * c * RowWords
  <2>1. KVHeads * c * RowWords \in Nat
    BY <1>1
  <2> QED BY <2>1 DEF Words
<1>3. q \in Nat /\ w \in 0 .. RowWords - 1 /\ i = RowWords * q + w
  BY <1>1, <1>2, Division
<1>4. h \in Nat /\ s \in 0 .. c - 1 /\ q = c * h + s
  <2> HIDE DEF q
  <2> QED BY <1>3, Division
<1> HIDE DEF q, w, h, s
<1>5. i = At(h, s, w, c)
  <2>1. c * h = h * c /\ RowWords * q = q * RowWords
    BY <1>1, <1>3, <1>4
  <2>2. q = h * c + s
    BY <1>4, <2>1
  <2>3. i = q * RowWords + w
    BY <1>3, <2>1
  <2> QED BY <2>2, <2>3 DEF At
<1>6. h <= KVHeads - 1
  <2>1. SUFFICES ASSUME KVHeads <= h
                 PROVE  FALSE
    BY <1>1, <1>4
  <2>2. c * KVHeads <= c * h /\ c * KVHeads \in Nat /\ c * h \in Nat
    BY <1>1, <1>4, <2>1, ProductGrows
  <2>3. c * KVHeads <= q
    BY <1>4, <2>2
  <2>4. RowWords * (c * KVHeads) <= RowWords * q
        /\ RowWords * (c * KVHeads) \in Nat /\ RowWords * q \in Nat
    BY <1>1, <1>3, <2>2, <2>3, ProductGrows
  <2>5. RowWords * (c * KVHeads) = KVHeads * c * RowWords
    BY <1>1
  <2> QED BY <1>2, <1>3, <2>4, <2>5
<1> QED BY <1>3, <1>4, <1>5, <1>6

-----------------------------------------------------------------------------
(***************************************************************************)
(* DeviceKV.                                                               *)
(***************************************************************************)
\* A buffer b of c positions that holds the rows of the first n.
HoldsRows(b, c, n) ==
    /\ DOMAIN b = Words(c)
    /\ \A h \in 0 .. KVHeads - 1, s \in 0 .. n - 1, w \in 0 .. RowWords - 1 :
          b[At(h, s, w, c)] = <<h, s, w>>

\* A cache is never longer than its buffers or than the model's positions, and
\* the scores have the buffers' room until a step raises.
Capacity ==
    /\ length \in Nat \ {0} /\ cap \in Nat \ {0}
    /\ length <= cap /\ cap <= MaxRows
    /\ raised \in BOOLEAN
    /\ ~raised => scores = cap

DevKVInv ==
    /\ Capacity
    /\ \A b \in Buffers : HoldsRows(words[b], cap, length)

\* Rows that are copied to another stride are found there, in a buffer that
\* has room for all of them.
LEMMA RelaidHolds ==
    ASSUME cap \in Nat \ {0}, NEW new \in Nat \ {0}, cap <= new,
           NEW n \in Nat, n <= cap, NEW old, HoldsRows(old, cap, n)
    PROVE  HoldsRows(Relaid(old, new), new, n)
<1>1. ASSUME NEW h \in 0 .. KVHeads - 1, NEW s \in 0 .. cap - 1,
             NEW w \in 0 .. RowWords - 1
      PROVE  /\ At(h, s, w, cap) \in Words(cap)
             /\ Target(At(h, s, w, cap), new) = At(h, s, w, new)
             /\ s \in 0 .. new - 1
  <2>1. /\ At(h, s, w, cap) \in Words(cap)
        /\ At(h, s, w, cap) \div RowWords = h * cap + s
        /\ At(h, s, w, cap) % RowWords = w
        /\ (h * cap + s) % cap = s
        /\ At(h, s, w, cap) \div (cap * RowWords) = h
    BY AtFacts
  <2> QED BY <2>1 DEF Target
<1>2. ASSUME NEW h \in 0 .. KVHeads - 1, NEW s \in 0 .. n - 1,
             NEW w \in 0 .. RowWords - 1
      PROVE  Relaid(old, new)[At(h, s, w, new)] = <<h, s, w>>
  <2> DEFINE i == At(h, s, w, cap)
             j == At(h, s, w, new)
             from == CHOOSE k \in Words(cap) : Target(k, new) = j
  <2>1. s \in 0 .. cap - 1 /\ s \in 0 .. new - 1
    OBVIOUS
  <2>2. i \in Words(cap) /\ Target(i, new) = j
    BY <1>1, <2>1
  <2>3. j \in Words(new)
    BY <2>1, AtFacts
  <2>4. from \in Words(cap) /\ Target(from, new) = j
    <3> HIDE DEF i, j
    <3> QED BY <2>2
  <2>5. PICK g \in 0 .. KVHeads - 1, t \in 0 .. cap - 1, v \in 0 .. RowWords - 1 :
          from = At(g, t, v, cap)
    <3> HIDE DEF from
    <3> QED BY <2>4, WordIsOfRow
  <2>6. At(g, t, v, new) = At(h, s, w, new) /\ t \in 0 .. new - 1
    BY <1>1, <2>4, <2>5
  <2>7. g = h /\ t = s /\ v = w
    BY <2>1, <2>6, AtInjective
  <2>8. Relaid(old, new)[j] = old[from]
    BY <2>2, <2>3 DEF Relaid
  <2> HIDE DEF from
  <2>9. old[from] = <<h, s, w>>
    BY <2>5, <2>7 DEF HoldsRows
  <2> QED BY <2>8, <2>9
<1>3. DOMAIN Relaid(old, new) = Words(new)
  BY DEF Relaid
<1> QED BY <1>2, <1>3 DEF HoldsRows

\* The rows of the next position are added to those that are there.
LEMMA WithRowHolds ==
    ASSUME cap \in Nat \ {0}, length \in Nat, length < cap,
           NEW b, HoldsRows(b, cap, length)
    PROVE  HoldsRows(WithRow(b), cap, length + 1)
<1>1. DOMAIN WithRow(b) = Words(cap)
  BY DEF WithRow, HoldsRows
<1>2. ASSUME NEW h \in 0 .. KVHeads - 1, NEW s \in 0 .. length,
             NEW w \in 0 .. RowWords - 1
      PROVE  WithRow(b)[At(h, s, w, cap)] = <<h, s, w>>
  <2> DEFINE j == At(h, s, w, cap)
             written == \E g \in 0 .. KVHeads - 1, v \in 0 .. RowWords - 1 :
                           At(g, length, v, cap) = j
  <2>1. s \in 0 .. cap - 1 /\ length \in 0 .. cap - 1
    OBVIOUS
  <2>2. /\ j \in Words(cap) /\ j \div RowWords = h * cap + s /\ j % RowWords = w
        /\ (h * cap + s) \div cap = h
    <3>1. \A t \in 0 .. cap - 1 :
            /\ At(h, t, w, cap) \in Words(cap)
            /\ At(h, t, w, cap) \div RowWords = h * cap + t
            /\ At(h, t, w, cap) % RowWords = w
            /\ (h * cap + t) \div cap = h
      BY AtFacts
    <3> QED BY <2>1, <3>1, Zenon
  <2>3. WithRow(b)[j] = IF written
                        THEN <<(j \div RowWords) \div cap, length, j % RowWords>>
                        ELSE b[j]
    BY <2>2 DEF WithRow, HoldsRows
  <2>4. CASE s = length
    <3>1. written
      BY <2>4
    <3> QED BY <2>2, <2>3, <2>4, <3>1
  <2>5. CASE s # length
    <3>1. ~written
      <4> SUFFICES ASSUME NEW g \in 0 .. KVHeads - 1, NEW v \in 0 .. RowWords - 1,
                          At(g, length, v, cap) = j
                   PROVE  FALSE
        OBVIOUS
      <4> QED BY <2>1, <2>5, AtInjective
    <3>2. s \in 0 .. length - 1
      BY <2>5
    <3>3. b[j] = <<h, s, w>>
      BY <3>2 DEF HoldsRows
    <3> QED BY <2>3, <3>1, <3>3
  <2> QED BY <2>4, <2>5
<1>3. (length + 1) - 1 = length
  OBVIOUS
<1> QED BY <1>1, <1>2, <1>3 DEF HoldsRows

\* Fewer rows are there too.
LEMMA FewerRows ==
    ASSUME NEW b, NEW c, NEW n \in Nat, HoldsRows(b, c, n + 1)
    PROVE  HoldsRows(b, c, n)
BY DEF HoldsRows

\* A state made of a host cache has all its rows.
LEMMA DevKVInitInv ==
    ASSUME DevKVInit
    PROVE  DevKVInv
<1>1. /\ length \in StartCtxs /\ cap = length /\ scores = length
      /\ raised = FALSE
  BY DEF DevKVInit
<1>2. length \in Nat \ {0} /\ length <= MaxRows /\ MaxRows \in Nat
  BY <1>1, DeviceAssumption
<1>3. Capacity
  <2>1. cap \in Nat \ {0} /\ length <= cap /\ cap <= MaxRows
    BY <1>1, <1>2
  <2>2. raised \in BOOLEAN /\ scores = cap
    BY <1>1
  <2> QED BY <1>2, <2>1, <2>2 DEF Capacity
<1>4. ASSUME NEW b \in Buffers
      PROVE  HoldsRows(words[b], cap, length)
  <2>1. words[b] = [j \in Words(length) |->
            <<(j \div RowWords) \div length, (j \div RowWords) % length,
              j % RowWords>>]
    BY DEF DevKVInit
  <2>2. ASSUME NEW h \in 0 .. KVHeads - 1, NEW s \in 0 .. length - 1,
               NEW w \in 0 .. RowWords - 1
        PROVE  words[b][At(h, s, w, length)] = <<h, s, w>>
    <3> DEFINE j == At(h, s, w, length)
    <3>1. /\ j \in Words(length) /\ j \div RowWords = h * length + s
          /\ j % RowWords = w
          /\ (h * length + s) \div length = h /\ (h * length + s) % length = s
      BY <1>2, AtFacts
    <3> HIDE DEF j
    <3>2. words[b][j] = <<(j \div RowWords) \div length, (j \div RowWords) % length,
                          j % RowWords>>
      BY <2>1, <3>1
    <3>3. words[b][j] = <<h, s, w>>
      BY <3>1, <3>2
    <3> QED BY <3>3 DEF j
  <2> QED BY <1>1, <2>1, <2>2 DEF HoldsRows
<1> QED BY <1>3, <1>4 DEF DevKVInv

\* A full buffer grows, by at least one position and never past the limit.
LEMMA GrownCapacity ==
    ASSUME Capacity, Steps, ~Fits
    PROVE  /\ NewCap \in Nat \ {0}
           /\ cap < NewCap /\ length < NewCap /\ NewCap <= MaxRows
<1>1. /\ length \in Nat \ {0} /\ cap = length /\ length < MaxRows
      /\ MaxRows \in Nat
  BY DeviceAssumption DEF Capacity, Steps, Fits
<1>2. Grown \in Nat /\ cap < Grown
  BY <1>1 DEF Grown
<1> QED BY <1>1, <1>2 DEF NewCap

\* Whatever a step does, and wherever it fails, the rows stay where they are
\* read.
LEMMA DevKVStep ==
    ASSUME DevKVInv, [DevKVNext]_devKVVars
    PROVE  DevKVInv'
<1>1. /\ length \in Nat \ {0} /\ cap \in Nat \ {0} /\ length <= cap
      /\ cap <= MaxRows /\ MaxRows \in Nat /\ raised \in BOOLEAN
      /\ ~raised => scores = cap
  BY DeviceAssumption DEF DevKVInv, Capacity
<1>2. \A b \in Buffers : HoldsRows(words[b], cap, length)
  BY DEF DevKVInv
<1>3. ASSUME Steps, ~Fits,
             words' = [b \in Buffers |-> Relaid(words[b], NewCap)],
             cap' = NewCap, length' = length
      PROVE  /\ \A b \in Buffers : HoldsRows(words'[b], cap', length')
             /\ cap' \in Nat \ {0} /\ length' <= cap' /\ cap' <= MaxRows
  <2>1. NewCap \in Nat \ {0} /\ cap < NewCap /\ length < NewCap /\ NewCap <= MaxRows
    BY <1>3, GrownCapacity DEF DevKVInv
  <2>2. ASSUME NEW b \in Buffers
        PROVE  HoldsRows(words'[b], cap', length')
    <3>1. HoldsRows(Relaid(words[b], NewCap), NewCap, length)
      BY <1>1, <1>2, <2>1, RelaidHolds
    <3>2. words'[b] = Relaid(words[b], NewCap)
      BY <1>3
    <3> QED BY <1>3, <3>1, <3>2
  <2> QED BY <1>1, <1>3, <2>1, <2>2
<1>4. CASE Growth
  <2>1. /\ Steps /\ ~Fits /\ words' = [b \in Buffers |-> Relaid(words[b], NewCap)]
        /\ cap' = NewCap /\ length' = length /\ scores' = cap' /\ raised' = raised
    BY <1>4 DEF Growth
  <2> QED BY <1>1, <1>3, <2>1 DEF DevKVInv, Capacity
<1>5. CASE GrowthFails
  <2>1. /\ words' = words /\ cap' = cap /\ length' = length /\ raised' = TRUE
    BY <1>5 DEF GrowthFails
  <2> QED BY <1>1, <1>2, <2>1 DEF DevKVInv, Capacity
<1>6. CASE ScoresFail
  <2>1. /\ Steps /\ ~Fits /\ words' = [b \in Buffers |-> Relaid(words[b], NewCap)]
        /\ cap' = NewCap /\ length' = length /\ raised' = TRUE
    BY <1>6 DEF ScoresFail
  <2> QED BY <1>1, <1>3, <2>1 DEF DevKVInv, Capacity
<1>7. CASE Append1
  <2>1. /\ length < cap /\ words' = [b \in Buffers |-> WithRow(words[b])]
        /\ length' = length + 1 /\ cap' = cap /\ scores' = scores
        /\ raised' = raised
    BY <1>7 DEF Append1, Fits
  <2>2. ASSUME NEW b \in Buffers
        PROVE  HoldsRows(words'[b], cap', length')
    <3>1. HoldsRows(WithRow(words[b]), cap, length + 1)
      BY <1>1, <1>2, <2>1, WithRowHolds
    <3> QED BY <2>1, <3>1
  <2> QED BY <1>1, <2>1, <2>2 DEF DevKVInv, Capacity
<1>8. CASE AppendFails
  <2>1. PICK bs \in SUBSET Buffers :
          words' = [b \in Buffers |->
                       IF b \in bs THEN WithRow(words[b]) ELSE words[b]]
    BY <1>8 DEF AppendFails
  <2>2. length < cap /\ length' = length /\ cap' = cap /\ raised' = TRUE
    BY <1>8 DEF AppendFails, Fits
  <2>3. ASSUME NEW b \in Buffers
        PROVE  HoldsRows(words'[b], cap', length')
    <3>1. CASE b \in bs
      <4>1. HoldsRows(WithRow(words[b]), cap, length + 1)
        BY <1>1, <1>2, <2>2, WithRowHolds
      <4>2. HoldsRows(WithRow(words[b]), cap, length)
        BY <1>1, <4>1, FewerRows
      <4> QED BY <2>1, <2>2, <3>1, <4>2
    <3>2. CASE b \notin bs
      BY <1>2, <2>1, <2>2, <3>2
    <3> QED BY <3>1, <3>2
  <2> QED BY <1>1, <2>2, <2>3 DEF DevKVInv, Capacity
<1>9. CASE UNCHANGED devKVVars
  <2>1. /\ words' = words /\ cap' = cap /\ length' = length /\ raised' = raised
        /\ scores' = scores
    BY <1>9 DEF devKVVars
  <2> QED BY <1>1, <1>2, <2>1 DEF DevKVInv, Capacity
<1> QED BY <1>4, <1>5, <1>6, <1>7, <1>8, <1>9 DEF DevKVNext

\* Attention finds every row of the cache at the stride it reads with, after
\* any number of growths and after a step that failed at any point: "a failure
\* leaves the old KV + self.cap untouched" (device_decode.py:225-226).
THEOREM RowsAlwaysWhereRead == DevKVSpec => []RowsWhereRead
<1>1. DevKVInit => DevKVInv
  BY DevKVInitInv
<1>2. DevKVInv /\ [DevKVNext]_devKVVars => DevKVInv'
  BY DevKVStep
<1>3. DevKVInv => RowsWhereRead
  BY DEF DevKVInv, Capacity, HoldsRows, RowsWhereRead
<1> QED BY <1>1, <1>2, <1>3, PTL DEF DevKVSpec

-----------------------------------------------------------------------------
(***************************************************************************)
(* Sums over a finite set.  The fold of Granted is a recursive function;   *)
(* where an induction would be used, a smallest counterexample among the   *)
(* subsets (or the numbers) is taken and refuted.                          *)
(***************************************************************************)
\* The element a fold takes first.
First(s) == CHOOSE x \in s : TRUE

\* g is the fold of f over each set of D.
FoldsOn(f, g, D) ==
    g = [s \in D |-> IF s = {} THEN 0 ELSE f[First(s)] + g[s \ {First(s)}]]

\* Two functions that agree on D.
AgreeOn(e, f, D) == \A x \in D : e[x] = f[x]

\* Values that can be added up.
NatOn(f, S) == \A x \in S : f[x] \in Nat

\* A natural, whichever element of U is taken first.
TakesAny(f, g, U) ==
    /\ g[U] \in Nat
    /\ \A x \in U : g[U] = f[x] + g[U \ {x}]

\* The sum of f over S, as MapThenSumSet computes it.
SumOver(f, S) == (CHOOSE g : FoldsOn(f, g, SUBSET S))[S]

\* What is reserved is such a sum.
LEMMA GrantedIsSum == Granted = SumOver(grants, DOMAIN grants)
BY DEF Granted, SumOver, FoldsOn, First, MapThenSumSet, MapThenFoldSet

\* The fold exists: the sets of up to k elements have one, for every k.
LEMMA FoldExists ==
    ASSUME NEW S, IsFiniteSet(S), NEW f
    PROVE  \E g : FoldsOn(f, g, SUBSET S)
<1> DEFINE D(k) == {s \in SUBSET S : Cardinality(s) <= k}
           Good(k) == \E g : FoldsOn(f, g, D(k))
           Bad == {k \in Nat : ~Good(k)}
<1>1. \A s \in SUBSET S : IsFiniteSet(s) /\ Cardinality(s) \in Nat
  BY FS_Subset, FS_CardinalityType
<1>2. ASSUME NEW s \in SUBSET S, s # {}
      PROVE  /\ First(s) \in s /\ s \ {First(s)} \in SUBSET S
             /\ Cardinality(s \ {First(s)}) = Cardinality(s) - 1
  <2>1. First(s) \in s
    BY <1>2 DEF First
  <2> QED BY <1>1, <2>1, FS_RemoveElement
<1>3. Good(0)
  <2>1. \A s \in D(0) : s = {}
    BY <1>1, FS_EmptySet
  <2>2. FoldsOn(f, [s \in D(0) |-> 0], D(0))
    <3> HIDE DEF D
    <3> QED BY <2>1 DEF FoldsOn
  <2> QED BY <2>2
<1>4. ASSUME NEW k \in Nat, Good(k)
      PROVE  Good(k + 1)
  <2>1. PICK g : FoldsOn(f, g, D(k))
    BY <1>4
  <2> DEFINE h == [s \in D(k + 1) |->
                     IF s = {} THEN 0 ELSE f[First(s)] + g[s \ {First(s)}]]
  <2>2. ASSUME NEW s \in D(k)
        PROVE  s \in D(k + 1) /\ h[s] = g[s]
    <3>1. s \in D(k + 1)
      BY <1>1
    <3>2. g[s] = IF s = {} THEN 0 ELSE f[First(s)] + g[s \ {First(s)}]
      <4> HIDE DEF D
      <4> QED BY <2>1 DEF FoldsOn
    <3>3. h[s] = IF s = {} THEN 0 ELSE f[First(s)] + g[s \ {First(s)}]
      <4> HIDE DEF D
      <4> QED BY <3>1
    <3> HIDE DEF h
    <3> QED BY <3>1, <3>2, <3>3
  <2>3. ASSUME NEW s \in D(k + 1), s # {}
        PROVE  s \ {First(s)} \in D(k)
    BY <1>1, <1>2, <2>3
  <2>4. \A s \in D(k + 1) : s # {} => h[s \ {First(s)}] = g[s \ {First(s)}]
    <3> HIDE DEF h, D
    <3> QED BY <2>2, <2>3
  <2>5. h = [s \in D(k + 1) |->
                     IF s = {} THEN 0 ELSE f[First(s)] + h[s \ {First(s)}]]
    <3> HIDE DEF D
    <3> DEFINE hh == h
    <3>1. \A s \in D(k + 1) : s # {} => hh[s \ {First(s)}] = g[s \ {First(s)}]
      BY <2>4
    <3>2. hh = [s \in D(k + 1) |->
                     IF s = {} THEN 0 ELSE f[First(s)] + g[s \ {First(s)}]]
      OBVIOUS
    <3> HIDE DEF hh
    <3>3. hh = [s \in D(k + 1) |->
                     IF s = {} THEN 0 ELSE f[First(s)] + hh[s \ {First(s)}]]
      BY <3>1, <3>2
    <3> QED BY <3>3 DEF hh
  <2> HIDE DEF h, D
  <2> QED BY <2>5 DEF FoldsOn
<1>5. Bad = {}
  <2>1. SUFFICES ASSUME Bad # {}
                 PROVE  FALSE
    OBVIOUS
  <2> HIDE DEF Good
  <2>2. PICK m \in Bad : \A k \in Bad : m <= k
    BY <2>1, SmallestOf
  <2>3. m \in Nat /\ m # 0
    BY <1>3, <2>2
  <2>4. m - 1 \in Nat /\ m - 1 \notin Bad /\ (m - 1) + 1 = m
    BY <2>2, <2>3
  <2>5. Good(m - 1)
    BY <2>4
  <2>6. Good((m - 1) + 1)
    BY <1>4, <2>4, <2>5
  <2> QED BY <2>2, <2>4, <2>6
<1>6. D(Cardinality(S)) = SUBSET S
  BY <1>1, FS_Subset
<1>7. Good(Cardinality(S))
  <2> HIDE DEF Good
  <2> QED BY <1>5, FS_CardinalityType
<1> QED BY <1>6, <1>7

\* The equation of the fold at one set: nothing to add, or the element taken
\* first and the rest.
FoldStep(f, g, U) ==
    /\ U = {} => g[U] = 0
    /\ U # {} => First(U) \in U /\ g[U] = f[First(U)] + g[U \ {First(U)}]

\* The fold does such a step at every set.
LEMMA FoldAt ==
    ASSUME NEW S, NEW f, NEW g, FoldsOn(f, g, SUBSET S), NEW U \in SUBSET S
    PROVE  FoldStep(f, g, U)
<1>1. U # {} => First(U) \in U
  BY DEF First
<1>2. g[U] = IF U = {} THEN 0 ELSE f[First(U)] + g[U \ {First(U)}]
  BY DEF FoldsOn
<1> QED BY <1>1, <1>2 DEF FoldStep

\* Folds of functions that agree on T agree on every part of T.
LEMMA FoldsAgree ==
    ASSUME NEW S, NEW T \in SUBSET S, IsFiniteSet(T), NEW f, NEW e,
           AgreeOn(e, f, T),
           NEW g, FoldsOn(f, g, SUBSET S), NEW h, FoldsOn(e, h, SUBSET T)
    PROVE  AgreeOn(h, g, SUBSET T)
<1> DEFINE Bad == {U \in SUBSET T : h[U] # g[U]}
<1>1. SUFFICES ASSUME Bad # {}
               PROVE  FALSE
  BY DEF AgreeOn
<1>2. PICK U \in Bad : \A V \in Bad : V \subseteq U => V = U
  <2>1. Bad \in SUBSET SUBSET T
    OBVIOUS
  <2> HIDE DEF Bad
  <2> QED BY <1>1, <2>1, MinimalSubset
<1>3. U \in SUBSET T /\ U \in SUBSET S /\ h[U] # g[U]
  OBVIOUS
<1>4. U # {}
  <2>1. SUFFICES ASSUME U = {}
                 PROVE  FALSE
    OBVIOUS
  <2>2. h[U] = 0
    BY <1>3, <2>1, FoldAt DEF FoldStep
  <2>3. g[U] = 0
    BY <1>3, <2>1, FoldAt DEF FoldStep
  <2> QED BY <1>3, <2>2, <2>3
<1>5. /\ First(U) \in U
      /\ g[U] = f[First(U)] + g[U \ {First(U)}]
      /\ h[U] = e[First(U)] + h[U \ {First(U)}]
  <2>1. First(U) \in U /\ g[U] = f[First(U)] + g[U \ {First(U)}]
    BY <1>3, <1>4, FoldAt DEF FoldStep
  <2>2. h[U] = e[First(U)] + h[U \ {First(U)}]
    BY <1>3, <1>4, FoldAt DEF FoldStep
  <2> QED BY <2>1, <2>2
<1>6. h[U \ {First(U)}] = g[U \ {First(U)}]
  <2>1. U \ {First(U)} \subseteq U /\ U \ {First(U)} # U
    BY <1>5
  <2>2. U \ {First(U)} \notin Bad
    BY <1>2, <2>1, Zenon
  <2> QED BY <1>3, <2>2
<1>7. e[First(U)] = f[First(U)]
  BY <1>3, <1>5 DEF AgreeOn
<1> QED BY <1>3, <1>5, <1>6, <1>7

\* A fold of naturals gives naturals, and any element can be taken first.
LEMMA FoldTakesAny ==
    ASSUME NEW S, IsFiniteSet(S), NEW f, NatOn(f, S),
           NEW g, FoldsOn(f, g, SUBSET S)
    PROVE  \A U \in SUBSET S : TakesAny(f, g, U)
<1> USE DEF TakesAny
<1> DEFINE Fine(U) == TakesAny(f, g, U)
           Bad == {U \in SUBSET S : ~Fine(U)}
<1>1. SUFFICES ASSUME Bad # {}
               PROVE  FALSE
  OBVIOUS
<1>2. PICK U \in Bad : \A V \in Bad : V \subseteq U => V = U
  <2>1. Bad \in SUBSET SUBSET S
    OBVIOUS
  <2> HIDE DEF Bad
  <2> QED BY <1>1, <2>1, MinimalSubset
<1>3. U \in SUBSET S /\ ~Fine(U)
  OBVIOUS
<1>4. ASSUME NEW V \in SUBSET U, V # U
      PROVE  Fine(V)
  <2>1. V \notin Bad
    BY <1>2, <1>4, Zenon
  <2>2. V \in SUBSET S
    BY <1>3
  <2> HIDE DEF Fine
  <2> QED BY <2>1, <2>2
<1>5. U # {}
  <2>1. ASSUME U = {}
        PROVE  Fine(U)
    <3>1. g[U] = 0
      BY <1>3, <2>1, FoldAt DEF FoldStep
    <3> QED BY <2>1, <3>1
  <2> HIDE DEF Fine
  <2> QED BY <1>3, <2>1
<1> DEFINE c == First(U)
<1>6. c \in U /\ g[U] = f[c] + g[U \ {c}]
  BY <1>3, <1>5, FoldAt DEF FoldStep
<1> HIDE DEF c
<1>7. /\ f[c] \in Nat /\ g[U \ {c}] \in Nat
      /\ \A x \in U \ {c} : g[U \ {c}] = f[x] + g[(U \ {c}) \ {x}]
  <2>1. U \ {c} \in SUBSET U /\ U \ {c} # U
    BY <1>6
  <2>2. Fine(U \ {c})
    <3> HIDE DEF Fine
    <3> QED BY <1>4, <2>1
  <2>3. f[c] \in Nat
    BY <1>3, <1>6 DEF NatOn
  <2> QED BY <2>2, <2>3
<1>8. g[U] \in Nat
  BY <1>6, <1>7
<1>9. ASSUME NEW x \in U
      PROVE  g[U] = f[x] + g[U \ {x}]
  <2>1. CASE x = c
    BY <1>6, <2>1
  <2>2. CASE x # c
    <3>1. g[U \ {c}] = f[x] + g[(U \ {c}) \ {x}]
      BY <1>7, <2>2
    <3>2. U \ {x} \in SUBSET U /\ U \ {x} # U /\ c \in U \ {x}
      BY <1>6, <2>2
    <3>3. Fine(U \ {x})
      <4> HIDE DEF Fine
      <4> QED BY <1>4, <3>2
    <3>4. g[U \ {x}] = f[c] + g[(U \ {x}) \ {c}]
      BY <3>2, <3>3
    <3>5. (U \ {x}) \ {c} = (U \ {c}) \ {x}
      OBVIOUS
    <3>6. (U \ {x}) \ {c} \in SUBSET U /\ (U \ {x}) \ {c} # U
      BY <3>2
    <3>7. Fine((U \ {x}) \ {c})
      <4> HIDE DEF Fine
      <4> QED BY <1>4, <3>6
    <3> DEFINE a == f[x]
               b == f[c]
               rest == g[(U \ {c}) \ {x}]
    <3>8. a \in Nat /\ b \in Nat /\ rest \in Nat
      BY <1>3, <1>7, <3>5, <3>7 DEF NatOn
    <3>9. g[U] = b + (a + rest)
      BY <1>6, <3>1
    <3>10. g[U \ {x}] = b + rest
      BY <3>4, <3>5
    <3> HIDE DEF a, b, rest
    <3>11. b + (a + rest) = a + (b + rest)
      BY <3>8
    <3>12. g[U] = a + g[U \ {x}]
      BY <3>9, <3>10, <3>11, Zenon
    <3> QED BY <3>12 DEF a
  <2> QED BY <2>1, <2>2
<1> QED BY <1>3, <1>8, <1>9

\* Sums over finite sets: the empty one, one element more, another function
\* with the same values.
LEMMA SumFacts ==
    ASSUME NEW S, IsFiniteSet(S), NEW f, NatOn(f, S)
    PROVE  /\ SumOver(f, S) \in Nat
           /\ S = {} => SumOver(f, S) = 0
           /\ \A x \in S : SumOver(f, S) = f[x] + SumOver(f, S \ {x})
           /\ \A e : AgreeOn(e, f, S) => SumOver(e, S) = SumOver(f, S)
<1> DEFINE fold(e, T) == CHOOSE g : FoldsOn(e, g, SUBSET T)
           g == fold(f, S)
<1>1. ASSUME NEW T \in SUBSET S, NEW e
      PROVE  /\ FoldsOn(e, fold(e, T), SUBSET T)
             /\ SumOver(e, T) = fold(e, T)[T]
             /\ IsFiniteSet(T)
  <2>1. IsFiniteSet(T)
    BY FS_Subset
  <2>2. FoldsOn(e, fold(e, T), SUBSET T)
    BY <2>1, FoldExists
  <2> QED BY <2>1, <2>2 DEF SumOver
<1> HIDE DEF fold, g
<1>2. FoldsOn(f, g, SUBSET S) /\ SumOver(f, S) = g[S]
  BY <1>1 DEF g
<1>3. ASSUME NEW T \in SUBSET S, NEW e, AgreeOn(e, f, T)
      PROVE  SumOver(e, T) = g[T]
  <2> DEFINE h == fold(e, T)
  <2>1. /\ FoldsOn(e, h, SUBSET T) /\ SumOver(e, T) = h[T]
        /\ IsFiniteSet(T)
    BY <1>1
  <2> HIDE DEF h
  <2>2. AgreeOn(h, g, SUBSET T)
    BY <1>2, <1>3, <2>1, FoldsAgree
  <2> QED BY <2>1, <2>2 DEF AgreeOn
<1>4. TakesAny(f, g, S)
  BY <1>2, FoldTakesAny
<1>5. S = {} => g[S] = 0
  BY <1>2, FoldAt DEF FoldStep
<1>6. ASSUME NEW x \in S
      PROVE  SumOver(f, S) = f[x] + SumOver(f, S \ {x})
  <2>1. AgreeOn(f, f, S \ {x})
    BY DEF AgreeOn
  <2>2. SumOver(f, S \ {x}) = g[S \ {x}]
    BY <1>3, <2>1
  <2>3. g[S] = f[x] + g[S \ {x}]
    BY <1>4 DEF TakesAny
  <2> QED BY <1>2, <2>2, <2>3
<1>7. \A e : AgreeOn(e, f, S) => SumOver(e, S) = g[S]
  BY <1>3
<1>8. g[S] \in Nat
  BY <1>4 DEF TakesAny
<1> QED BY <1>2, <1>5, <1>6, <1>7, <1>8

-----------------------------------------------------------------------------
(***************************************************************************)
(* Placement.  BudgetKept is inductive once reservations are known to be   *)
(* finitely many naturals.  BuffersTracked needs more: a host backend's    *)
(* entries are empty, and buffers to come are new.                         *)
(***************************************************************************)
\* What is reserved, and what is not, is the plan.
Accounts ==
    /\ IsFiniteSet(DOMAIN grants) /\ NatOn(grants, DOMAIN grants)
    /\ freeBlocks \in Nat
    /\ backend = "none" => DOMAIN grants = {}
    /\ backend # "none" => freeBlocks + Granted = NumBlocks

\* A buffer on the device is one entry's, and was made.
Tables ==
    /\ backend \in {"none", "host", "device"}
    /\ buffers \in Nat
    /\ backend = "none" => DOMAIN stored = {}
    /\ backend = "host" => \A k \in DOMAIN stored : stored[k] = {}
    /\ onDevice \subseteq 0 .. buffers - 1

PlaceInv == Accounts /\ Tables /\ BuffersTracked

\* The plan's blocks fit the part of the budget the plan may use.
LEMMA PlanFits == NumBlocks \in Nat /\ NumBlocks * PerBlock <= BudgetBytes
<1> DEFINE p == BytesPerToken * PlanBlockSize
           u == BudgetBytes * Utilization
           a == u \div 100
<1>1. /\ p \in Nat /\ u \in Nat /\ BudgetBytes \in Nat
      /\ u <= 100 * BudgetBytes
  <2>1. /\ BytesPerToken \in Nat /\ PlanBlockSize \in Nat /\ BudgetBytes \in Nat
        /\ Utilization \in Nat /\ Utilization <= 100
    BY PlanAssumption
  <2>2. u \in Nat /\ u <= BudgetBytes * 100
    BY <2>1, ProductGrows
  <2>3. BudgetBytes * 100 = 100 * BudgetBytes
    BY <2>1
  <2> QED BY <2>1, <2>2, <2>3
<1> HIDE DEF u
<1>2. a \in Nat /\ a <= BudgetBytes
  <2>1. a \in Nat /\ u % 100 \in 0 .. 99 /\ u = 100 * a + (u % 100)
    BY <1>1, Division
  <2> QED BY <1>1, <2>1
<1> HIDE DEF a
<1>3. PerBlock = p
  BY DEF PerBlock
<1>4. NumBlocks = IF p = 0 THEN 0 ELSE a \div p
  BY <1>3 DEF NumBlocks, a, u
<1> HIDE DEF p
<1>5. CASE p = 0
  BY <1>1, <1>3, <1>4, <1>5
<1>6. CASE p # 0
  <2>1. a \div p \in Nat /\ a % p \in 0 .. p - 1 /\ a = p * (a \div p) + (a % p)
    BY <1>1, <1>2, <1>6, Division
  <2> DEFINE n == a \div p
             r == a % p
  <2>2. n \in Nat /\ r \in Nat /\ a = p * n + r
    BY <1>1, <2>1
  <2>3. NumBlocks = n
    BY <1>4, <1>6
  <2> HIDE DEF n, r
  <2>4. p * n \in Nat /\ n * p = p * n
    BY <1>1, <2>2
  <2> QED BY <1>1, <1>2, <1>3, <2>2, <2>3, <2>4
<1> QED BY <1>5, <1>6

\* What is left when entries are taken out.
LEMMA WithoutFacts ==
    ASSUME NEW f, NEW X
    PROVE  /\ DOMAIN Without(f, X) = DOMAIN f \ X
           /\ \A y \in DOMAIN f \ X : Without(f, X)[y] = f[y]
BY DEF Without

\* A reservation more, and what it takes from the free blocks.
LEMMA ReserveSum ==
    ASSUME IsFiniteSet(DOMAIN grants), NatOn(grants, DOMAIN grants),
           NEW s, s \notin DOMAIN grants, NEW n \in Nat, grants' = Put(grants, s, n)
    PROVE  /\ IsFiniteSet(DOMAIN grants') /\ NatOn(grants', DOMAIN grants')
           /\ Granted \in Nat
           /\ Granted' = n + Granted
<1> DEFINE D == DOMAIN grants
           g == Put(grants, s, n)
<1>1. /\ DOMAIN g = D \union {s} /\ g[s] = n
      /\ \A y \in D : g[y] = grants[y]
  <2>1. DOMAIN g = D \union {s} /\ g[s] = n
    BY DEF Put
  <2>2. \A y \in D \ {s} : g[y] = grants[y]
    BY DEF Put
  <2>3. D \ {s} = D
    OBVIOUS
  <2> HIDE DEF g
  <2> QED BY <2>1, <2>2, <2>3
<1>2. (D \union {s}) \ {s} = D /\ s \in D \union {s}
  OBVIOUS
<1> HIDE DEF g
<1>3. IsFiniteSet(D \union {s})
  BY FS_AddElement
<1>4. NatOn(g, D \union {s})
  BY <1>1 DEF NatOn
<1>5. AgreeOn(g, grants, D)
  BY <1>1 DEF AgreeOn
<1>6. SumOver(g, D) = SumOver(grants, D) /\ SumOver(grants, D) \in Nat
  BY <1>5, SumFacts
<1>7. SumOver(g, D \union {s}) = g[s] + SumOver(g, (D \union {s}) \ {s})
  BY <1>2, <1>3, <1>4, SumFacts
<1>8. SumOver(g, D \union {s}) = n + SumOver(grants, D)
  BY <1>1, <1>2, <1>6, <1>7
<1>9. Granted = SumOver(grants, D)
  BY GrantedIsSum
<1>10. Granted' = SumOver(grants', DOMAIN grants')
  BY DEF Granted, SumOver, FoldsOn, First, MapThenSumSet, MapThenFoldSet
<1>11. grants' = g
  BY DEF g
<1> QED BY <1>1, <1>3, <1>4, <1>6, <1>8, <1>9, <1>10, <1>11

\* A reservation less, and what it gives back; nothing if there was none.
LEMMA ReleaseSum ==
    ASSUME IsFiniteSet(DOMAIN grants), NatOn(grants, DOMAIN grants),
           freeBlocks \in Nat, NEW s, Released(s)
    PROVE  /\ IsFiniteSet(DOMAIN grants') /\ NatOn(grants', DOMAIN grants')
           /\ freeBlocks' \in Nat
           /\ DOMAIN grants' \subseteq DOMAIN grants
           /\ freeBlocks' + Granted' = freeBlocks + Granted
<1> DEFINE D == DOMAIN grants
           g == Without(grants, {s})
<1>1. /\ DOMAIN g = D \ {s} /\ \A y \in D \ {s} : g[y] = grants[y]
  BY WithoutFacts
<1>2. /\ freeBlocks' = freeBlocks + (IF s \in D THEN grants[s] ELSE 0)
      /\ grants' = g
  BY DEF Released
<1> HIDE DEF g
<1>3. IsFiniteSet(D \ {s})
  BY FS_RemoveElement
<1>4. NatOn(g, D \ {s}) /\ NatOn(grants, D \ {s}) /\ AgreeOn(g, grants, D \ {s})
  BY <1>1 DEF NatOn, AgreeOn
<1>5. SumOver(g, D \ {s}) = SumOver(grants, D \ {s})
      /\ SumOver(grants, D \ {s}) \in Nat
  BY <1>3, <1>4, SumFacts
<1>6. Granted = SumOver(grants, D)
  BY GrantedIsSum
<1>7. Granted' = SumOver(grants', DOMAIN grants')
  BY DEF Granted, SumOver, FoldsOn, First, MapThenSumSet, MapThenFoldSet
<1>8. Granted' = SumOver(grants, D \ {s})
  BY <1>1, <1>2, <1>5, <1>7
<1>9. CASE s \in D
  <2>1. SumOver(grants, D) = grants[s] + SumOver(grants, D \ {s})
    BY <1>9, SumFacts
  <2>2. grants[s] \in Nat
    BY <1>9 DEF NatOn
  <2>3. freeBlocks' = freeBlocks + grants[s]
    BY <1>2, <1>9
  <2> DEFINE a == grants[s]
             b == SumOver(grants, D \ {s})
  <2>4. a \in Nat /\ b \in Nat /\ Granted = a + b /\ Granted' = b
        /\ freeBlocks' = freeBlocks + a
    BY <1>5, <1>6, <1>8, <2>1, <2>2, <2>3
  <2> HIDE DEF a, b
  <2>5. freeBlocks' \in Nat /\ freeBlocks' + Granted' = freeBlocks + Granted
    BY <2>4
  <2> QED BY <1>1, <1>2, <1>3, <1>4, <2>5
<1>10. CASE s \notin D
  <2>1. D \ {s} = D
    BY <1>10
  <2>2. freeBlocks' = freeBlocks
    BY <1>2, <1>10
  <2>3. Granted' = Granted
    BY <1>6, <1>8, <2>1
  <2> QED BY <1>1, <1>2, <1>3, <1>4, <2>2, <2>3
<1> QED BY <1>9, <1>10

\* The buffers of every entry of a table t: its pairs are apart, whole on a
\* device, and together what is allocated.
Tracked(t, bufs) ==
    /\ bufs = UNION {t[k] : k \in DOMAIN t}
    /\ \A j, k \in DOMAIN t : j # k => t[j] \intersect t[k] = {}

\* An entry is put with new buffers, and those it replaces are freed.
LEMMA PutTracked ==
    ASSUME NEW t, NEW bufs, Tracked(t, bufs), NEW x, NEW new,
           new \intersect bufs = {}
    PROVE  Tracked(Put(t, x, new),
                   (bufs \union new) \ (IF x \in DOMAIN t THEN t[x] ELSE {}))
<1> DEFINE p == Put(t, x, new)
           old == IF x \in DOMAIN t THEN t[x] ELSE {}
           after == (bufs \union new) \ old
<1>1. DOMAIN p = DOMAIN t \union {x} /\ p[x] = new
  BY DEF Put
<1>2. \A y \in DOMAIN t \ {x} : p[y] = t[y]
  BY DEF Put
<1>3. /\ bufs = UNION {t[k] : k \in DOMAIN t}
      /\ \A j, k \in DOMAIN t : j # k => t[j] \intersect t[k] = {}
  BY DEF Tracked
<1>4. \A y \in DOMAIN t \ {x} : t[y] \intersect old = {} /\ t[y] \subseteq bufs
  BY <1>3
<1>5. old \subseteq bufs
  BY <1>3
<1>6. bufs \subseteq old \union UNION {t[k] : k \in DOMAIN t \ {x}}
  BY <1>3
<1> HIDE DEF p, old
<1>7. after = UNION {p[k] : k \in DOMAIN p}
  <2>1. ASSUME NEW b \in after
        PROVE  \E k \in DOMAIN p : b \in p[k]
    <3>1. CASE b \in new
      BY <1>1, <3>1
    <3>2. CASE b \notin new
      <4>1. PICK k \in DOMAIN t \ {x} : b \in t[k]
        BY <1>6, <3>2
      <4> QED BY <1>1, <1>2, <4>1
    <3> QED BY <3>1, <3>2
  <2>2. ASSUME NEW k \in DOMAIN p, NEW b \in p[k]
        PROVE  b \in after
    <3>1. CASE k = x
      BY <1>1, <1>5, <3>1
    <3>2. CASE k # x
      <4>1. k \in DOMAIN t \ {x} /\ b \in t[k]
        BY <1>1, <1>2, <3>2
      <4> QED BY <1>4, <4>1
    <3> QED BY <3>1, <3>2
  <2> QED BY <2>1, <2>2
<1>8. ASSUME NEW j \in DOMAIN p, NEW k \in DOMAIN p, j # k
      PROVE  p[j] \intersect p[k] = {}
  <2>1. CASE j # x /\ k # x
    BY <1>1, <1>2, <1>3, <1>8, <2>1
  <2>2. CASE j = x
    <3>1. k \in DOMAIN t \ {x}
      BY <1>1, <1>8, <2>2
    <3>2. p[k] \subseteq bufs
      BY <1>2, <1>4, <3>1
    <3> QED BY <1>1, <2>2, <3>2
  <2>3. CASE k = x
    <3>1. j \in DOMAIN t \ {x}
      BY <1>1, <1>8, <2>3
    <3>2. p[j] \subseteq bufs
      BY <1>2, <1>4, <3>1
    <3> QED BY <1>1, <2>3, <3>2
  <2> QED BY <2>1, <2>2, <2>3
<1>9. Tracked(p, after)
  BY <1>7, <1>8 DEF Tracked
<1> QED BY <1>9 DEF p, old

\* Entries are taken out, and their buffers freed.
LEMMA WithoutTracked ==
    ASSUME NEW t, NEW bufs, Tracked(t, bufs), NEW X, X \subseteq DOMAIN t
    PROVE  Tracked(Without(t, X), bufs \ UNION {t[k] : k \in X})
<1> DEFINE p == Without(t, X)
           gone == UNION {t[k] : k \in X}
<1>1. DOMAIN p = DOMAIN t \ X /\ \A y \in DOMAIN t \ X : p[y] = t[y]
  BY WithoutFacts
<1>2. /\ bufs = UNION {t[k] : k \in DOMAIN t}
      /\ \A j, k \in DOMAIN t : j # k => t[j] \intersect t[k] = {}
  BY DEF Tracked
<1> HIDE DEF p
<1>3. ASSUME NEW b \in bufs \ gone
      PROVE  \E k \in DOMAIN p : b \in p[k]
  <2>1. PICK k \in DOMAIN t : b \in t[k]
    BY <1>2
  <2>2. k \notin X
    BY <2>1
  <2> QED BY <1>1, <2>1, <2>2
<1>4. ASSUME NEW k \in DOMAIN p, NEW b \in p[k]
      PROVE  b \in bufs \ gone
  <2>1. k \in DOMAIN t /\ k \notin X /\ b \in t[k]
    BY <1>1
  <2>2. ASSUME NEW j \in X, b \in t[j]
        PROVE  FALSE
    <3>1. j \in DOMAIN t /\ j # k
      BY <2>1
    <3> QED BY <1>2, <2>1, <2>2, <3>1
  <2> QED BY <1>2, <2>1, <2>2
<1>5. bufs \ gone = UNION {p[k] : k \in DOMAIN p}
  <2> HIDE DEF gone
  <2> QED BY <1>3, <1>4
<1>6. \A j, k \in DOMAIN p : j # k => p[j] \intersect p[k] = {}
  BY <1>1, <1>2
<1>7. Tracked(p, bufs \ gone)
  BY <1>5, <1>6 DEF Tracked
<1> QED BY <1>7 DEF p

\* A backend that is built starts with the whole plan free.
LEMMA PlaceInitInv ==
    ASSUME PlaceInit
    PROVE  PlaceInv
<1>1. /\ backend = "none" /\ DOMAIN grants = {} /\ freeBlocks = 0
      /\ DOMAIN stored = {} /\ onDevice = {} /\ buffers = 0
  BY DEF PlaceInit, NoEntries
<1>2. IsFiniteSet(DOMAIN grants)
  BY <1>1, FS_EmptySet
<1>3. Accounts
  BY <1>1, <1>2 DEF Accounts, NatOn
<1>4. Tables
  BY <1>1 DEF Tables
<1>5. BuffersTracked
  BY <1>1 DEF BuffersTracked
<1> QED BY <1>3, <1>4, <1>5 DEF PlaceInv

\* The accounts after any call.
LEMMA AccountsStep ==
    ASSUME PlaceInv, [PlaceNext]_placeVars
    PROVE  Accounts'
<1>1. /\ IsFiniteSet(DOMAIN grants) /\ NatOn(grants, DOMAIN grants)
      /\ freeBlocks \in Nat
      /\ backend = "none" => DOMAIN grants = {}
      /\ backend # "none" => freeBlocks + Granted = NumBlocks
  BY DEF PlaceInv, Accounts
<1>2. NumBlocks \in Nat
  BY PlanFits
<1>3. ASSUME grants' = grants, freeBlocks' = freeBlocks, backend' = backend
      PROVE  Accounts'
  <2>1. Granted' = SumOver(grants', DOMAIN grants')
    BY DEF Granted, SumOver, FoldsOn, First, MapThenSumSet, MapThenFoldSet
  <2>2. Granted' = Granted
    BY <1>3, <2>1, GrantedIsSum
  <2> QED BY <1>1, <1>3, <2>2 DEF Accounts
<1>4. ASSUME NEW wanted, NEW loads, NEW devices, NEW memFree,
             Build(wanted, loads, devices, memFree)
      PROVE  Accounts'
  <2>1. /\ backend = "none" /\ backend' # "none" /\ freeBlocks' = NumBlocks
        /\ grants' = grants
    BY <1>4 DEF Build
  <2>2. Granted' = SumOver(grants', DOMAIN grants')
    BY DEF Granted, SumOver, FoldsOn, First, MapThenSumSet, MapThenFoldSet
  <2>3. SumOver(grants, DOMAIN grants) = 0
    BY <1>1, <2>1, SumFacts
  <2>4. NumBlocks + 0 = NumBlocks
    BY <1>2
  <2> QED BY <1>1, <1>2, <2>1, <2>2, <2>3, <2>4 DEF Accounts
<1>5. ASSUME NEW s \in Holders, NEW n \in 0 .. NumBlocks + 1, Reserve(s, n)
      PROVE  Accounts'
  <2>1. /\ backend # "none" /\ backend' = backend /\ s \notin DOMAIN grants
        /\ n <= freeBlocks /\ grants' = Put(grants, s, n)
        /\ freeBlocks' = freeBlocks - n
    BY <1>5 DEF Reserve
  <2>2. n \in Nat
    BY <1>2
  <2>3. /\ IsFiniteSet(DOMAIN grants') /\ NatOn(grants', DOMAIN grants')
        /\ Granted \in Nat /\ Granted' = n + Granted
    BY <1>1, <2>1, <2>2, ReserveSum
  <2>4. freeBlocks' \in Nat /\ freeBlocks' + Granted' = freeBlocks + Granted
    BY <1>1, <2>1, <2>2, <2>3
  <2> QED BY <1>1, <2>1, <2>3, <2>4 DEF Accounts
<1>6. ASSUME NEW s, Released(s), backend # "none", backend' = backend
      PROVE  Accounts'
  <2>1. /\ IsFiniteSet(DOMAIN grants') /\ NatOn(grants', DOMAIN grants')
        /\ freeBlocks' \in Nat
        /\ freeBlocks' + Granted' = freeBlocks + Granted
    BY <1>1, <1>6, ReleaseSum
  <2> QED BY <1>1, <1>6, <2>1 DEF Accounts
<1>7. ASSUME NEW s \in Holders, Release(s) \/ Free(s)
      PROVE  Accounts'
  BY <1>6, <1>7 DEF Release, Free
<1>8. ASSUME NEW s \in Holders, NEW l \in KVLayers,
             HostStore(s, l) \/ DeviceStore(s, l) \/ DeviceStoreFails(s, l)
      PROVE  Accounts'
  BY <1>3, <1>8 DEF HostStore, DeviceStore, DeviceStoreFails
<1>9. CASE UNCHANGED placeVars
  BY <1>3, <1>9 DEF placeVars
<1> QED BY <1>4, <1>5, <1>7, <1>8, <1>9 DEF PlaceNext

\* Two numbers in a row are two.
LEMMA PairIsTwo ==
    ASSUME NEW n \in Nat
    PROVE  Cardinality({n, n + 1}) = 2
<1>1. IsFiniteSet({n}) /\ Cardinality({n}) = 1
  BY FS_Singleton
<1>2. n + 1 \notin {n}
  OBVIOUS
<1>3. Cardinality({n} \union {n + 1}) = 2
  BY <1>1, <1>2, FS_AddElement
<1>4. {n} \union {n + 1} = {n, n + 1}
  OBVIOUS
<1> QED BY <1>3, <1>4

\* The table of device buffers after any call.
LEMMA TablesStep ==
    ASSUME PlaceInv, [PlaceNext]_placeVars
    PROVE  Tables' /\ BuffersTracked'
<1>1. /\ backend \in {"none", "host", "device"} /\ buffers \in Nat
      /\ backend = "none" => DOMAIN stored = {}
      /\ backend = "host" => \A k \in DOMAIN stored : stored[k] = {}
      /\ onDevice \subseteq 0 .. buffers - 1
      /\ Tracked(stored, onDevice)
      /\ backend = "device" => \A k \in DOMAIN stored : Cardinality(stored[k]) = 2
  BY DEF PlaceInv, Tables, BuffersTracked, Tracked
<1>2. ASSUME backend' = backend, stored' = stored, onDevice' = onDevice,
             buffers' = buffers \/ buffers' = buffers + 1
      PROVE  Tables' /\ BuffersTracked'
  <2>1. BuffersTracked'
    BY <1>1, <1>2 DEF BuffersTracked, Tracked
  <2>2. buffers' \in Nat /\ onDevice' \subseteq 0 .. buffers' - 1
    BY <1>1, <1>2
  <2>3. Tables'
    BY <1>1, <1>2, <2>2 DEF Tables
  <2> QED BY <2>1, <2>3
<1>3. ASSUME NEW wanted, NEW loads, NEW devices, NEW memFree,
             Build(wanted, loads, devices, memFree)
      PROVE  Tables' /\ BuffersTracked'
  <2>1. /\ backend = "none" /\ backend' \in {"host", "device"}
        /\ stored' = stored /\ onDevice' = onDevice /\ buffers' = buffers
    BY <1>3 DEF Build
  <2> QED BY <1>1, <2>1 DEF Tables, BuffersTracked, Tracked
<1>4. ASSUME NEW s \in Holders, NEW l \in KVLayers, HostStore(s, l)
      PROVE  Tables' /\ BuffersTracked'
  <2> DEFINE x == <<s, l>>
  <2>1. /\ backend = "host" /\ backend' = backend /\ stored' = Put(stored, x, {})
        /\ onDevice' = onDevice /\ buffers' = buffers
    BY <1>4 DEF HostStore
  <2> HIDE DEF x
  <2>2. Tracked(stored', (onDevice \union {}) \ (IF x \in DOMAIN stored
                                                 THEN stored[x] ELSE {}))
    BY <1>1, <2>1, PutTracked
  <2>3. (onDevice \union {}) \ (IF x \in DOMAIN stored THEN stored[x] ELSE {})
            = onDevice'
    BY <1>1, <2>1
  <2>4. Tracked(stored', onDevice')
    BY <2>2, <2>3
  <2>5. \A k \in DOMAIN stored' : stored'[k] = {}
    BY <1>1, <2>1 DEF Put
  <2> QED BY <1>1, <2>1, <2>4, <2>5 DEF Tables, BuffersTracked, Tracked
<1>5. ASSUME NEW s \in Holders, NEW l \in KVLayers, DeviceStore(s, l)
      PROVE  Tables' /\ BuffersTracked'
  <2> DEFINE x == <<s, l>>
             pair == {buffers, buffers + 1}
             old == IF x \in DOMAIN stored THEN stored[x] ELSE {}
  <2>1. /\ backend = "device" /\ backend' = backend
        /\ stored' = Put(stored, x, pair)
        /\ onDevice' = (onDevice \union pair) \ old /\ buffers' = buffers + 2
    BY <1>5 DEF DeviceStore, Replaced
  <2>2. pair \intersect onDevice = {} /\ pair \subseteq 0 .. buffers + 1
    BY <1>1
  <2>3. Cardinality(pair) = 2
    BY <1>1, PairIsTwo
  <2> HIDE DEF x, pair
  <2>4. Tracked(stored', onDevice')
    BY <1>1, <2>1, <2>2, PutTracked
  <2>5. \A k \in DOMAIN stored' : Cardinality(stored'[k]) = 2
    BY <1>1, <2>1, <2>3 DEF Put
  <2>6. onDevice' \subseteq 0 .. buffers' - 1
    <3>1. onDevice' \subseteq onDevice \union pair
      BY <2>1
    <3>2. 0 .. buffers - 1 \subseteq 0 .. buffers + 1 /\ buffers' - 1 = buffers + 1
      BY <1>1, <2>1
    <3> QED BY <1>1, <2>2, <3>1, <3>2
  <2> QED BY <1>1, <2>1, <2>4, <2>5, <2>6 DEF Tables, BuffersTracked, Tracked
<1>6. ASSUME NEW s \in Holders, Free(s)
      PROVE  Tables' /\ BuffersTracked'
  <2> DEFINE X == StoredBy(s)
  <2>1. /\ backend # "none" /\ backend' = backend /\ buffers' = buffers
        /\ stored' = Without(stored, X)
        /\ onDevice' = onDevice \ UNION {stored[k] : k \in X}
    BY <1>6 DEF Free
  <2>2. X \subseteq DOMAIN stored
    BY DEF StoredBy
  <2> HIDE DEF X
  <2>3. Tracked(stored', onDevice')
    BY <1>1, <2>1, <2>2, WithoutTracked
  <2>4. /\ DOMAIN stored' = DOMAIN stored \ X
        /\ \A k \in DOMAIN stored' : stored'[k] = stored[k]
    BY <2>1 DEF Without
  <2>5. onDevice' \subseteq onDevice
    BY <2>1
  <2> QED BY <1>1, <2>1, <2>3, <2>4, <2>5 DEF Tables, BuffersTracked, Tracked
<1>7. ASSUME NEW s, NEW n, Reserve(s, n) \/ Release(s)
      PROVE  Tables' /\ BuffersTracked'
  BY <1>2, <1>7 DEF Reserve, Release
<1>8. ASSUME NEW s, NEW l, DeviceStoreFails(s, l)
      PROVE  Tables' /\ BuffersTracked'
  BY <1>2, <1>8 DEF DeviceStoreFails
<1>9. CASE UNCHANGED placeVars
  BY <1>2, <1>9 DEF placeVars
<1> QED BY <1>3, <1>4, <1>5, <1>6, <1>7, <1>8, <1>9 DEF PlaceNext

\* Blocks and device buffers of the backends are accounted for, for every plan,
\* any number of sequences and layers, and any order of calls.
THEOREM PlacementAlwaysExact == PlaceSpec => []PlacementExact
<1>1. PlaceInit => PlaceInv
  BY PlaceInitInv
<1>2. PlaceInv /\ [PlaceNext]_placeVars => PlaceInv'
  BY AccountsStep, TablesStep DEF PlaceInv
<1>3. PlaceInv => PlacementExact
  <2>1. SUFFICES ASSUME PlaceInv
                 PROVE  BudgetKept /\ BuffersTracked
    BY DEF PlacementExact
  <2>2. freeBlocks \in Nat /\ (backend # "none" => freeBlocks + Granted = NumBlocks)
    BY <2>1 DEF PlaceInv, Accounts
  <2>3. BudgetKept
    BY <2>2, PlanFits DEF BudgetKept
  <2> QED BY <2>1, <2>3 DEF PlaceInv
<1> QED BY <1>1, <1>2, <1>3, PTL DEF PlaceSpec
=============================================================================

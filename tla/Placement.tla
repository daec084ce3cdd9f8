----------------------------- MODULE Placement ------------------------------
(***************************************************************************)
(* Where K/V rows are kept: runtime/placement.py.                          *)
(*                                                                         *)
(* A memory plan turns a byte budget into blocks; a backend reserves and   *)
(* releases blocks by sequence and keeps each layer's rows, in host arrays *)
(* or in a pair of device buffers that must be given back by hand.  The    *)
(* device backend is built only when the device can hold the plan, and     *)
(* falls back to the host one.  A device buffer is a number; a call that   *)
(* raises and changes nothing is a call that is not taken.                 *)
(***************************************************************************)
EXTENDS Integers, FiniteSets, FiniteSetsExt

CONSTANTS
    Holders,        \* sequence ids the callers use
    KVLayers,
    BytesPerToken,
    PlanBlockSize,
    BudgetBytes,
    Utilization,    \* percent of the budget the plan may use
    MaxBuffers      \* bound: device buffers ever made

ASSUME PlanAssumption ==
    /\ BytesPerToken \in Nat
    /\ PlanBlockSize \in Nat \ {0}
    /\ BudgetBytes \in Nat
    /\ Utilization \in 0 .. 100
    /\ MaxBuffers \in Nat

VARIABLES
    backend,     \* "none", "host" or "device"
    grants,      \* KVBackend._blocks: sequence -> reserved blocks
    freeBlocks,  \* KVBackend._free_blocks
    stored,      \* _store / _bufs: <<sequence, layer>> -> pair of buffers
    onDevice,    \* device buffers that are allocated
    buffers      \* device buffers ever made

placeVars == <<backend, grants, freeBlocks, stored, onDevice, buffers>>

PerBlock == BytesPerToken * PlanBlockSize

NumBlocks ==
    IF PerBlock = 0 THEN 0
    ELSE ((BudgetBytes * Utilization) \div 100) \div PerBlock

NoEntries == [x \in {} |-> 0]
Put(f, x, v) == [y \in DOMAIN f \union {x} |-> IF y = x THEN v ELSE f[y]]
Without(f, xs) == [y \in DOMAIN f \ xs |-> f[y]]

(***************************************************************************)
(* Construction: build_kv_backend.                                         *)
(***************************************************************************)
\* DeviceKVBackend() does not raise: the library loads, there is a device,
\* and its free memory is unknown (-1) or holds the planned budget.
DeviceHolds(loads, devices, memFree) ==
    loads /\ devices >= 1 /\ (memFree >= 0 => memFree >= BudgetBytes)

Build(wanted, loads, devices, memFree) ==
    /\ backend = "none"
    /\ backend' = IF wanted = "device" /\ DeviceHolds(loads, devices, memFree)
                  THEN "device" ELSE "host"
    /\ freeBlocks' = NumBlocks
    /\ UNCHANGED <<grants, stored, onDevice, buffers>>

(***************************************************************************)
(* Capacity.                                                               *)
(***************************************************************************)
Reserve(s, n) ==
    /\ backend # "none"
    /\ s \notin DOMAIN grants
    /\ n =< freeBlocks
    /\ grants' = Put(grants, s, n)
    /\ freeBlocks' = freeBlocks - n
    /\ UNCHANGED <<backend, stored, onDevice, buffers>>

\* Mutant of Released: the reservation is read, not popped.
ReleasedPeeked(s) ==
    /\ freeBlocks' = freeBlocks + (IF s \in DOMAIN grants THEN grants[s] ELSE 0)
    /\ UNCHANGED grants

\* release(): a sequence that reserved nothing gives back nothing.
Released(s) ==
    /\ freeBlocks' = freeBlocks + (IF s \in DOMAIN grants THEN grants[s] ELSE 0)
    /\ grants' = Without(grants, {s})

Release(s) ==
    /\ backend # "none"
    /\ Released(s)
    /\ UNCHANGED <<backend, stored, onDevice, buffers>>

(***************************************************************************)
(* Rows.                                                                   *)
(***************************************************************************)
HostStore(s, l) ==
    /\ backend = "host"
    /\ stored' = Put(stored, <<s, l>>, {})
    /\ UNCHANGED <<backend, grants, freeBlocks, onDevice, buffers>>

\* Mutant of Replaced: the pair of an earlier prefill is dropped unfreed.
ReplacedLeaks(s, l) == {}

\* The pair a second store of the same layer frees.
Replaced(s, l) == IF <<s, l>> \in DOMAIN stored THEN stored[<<s, l>>] ELSE {}

\* Both uploads succeed, then the older pair is freed.
DeviceStore(s, l) ==
    /\ backend = "device"
    /\ buffers + 2 =< MaxBuffers
    /\ LET pair == {buffers, buffers + 1}
       IN /\ stored' = Put(stored, <<s, l>>, pair)
          /\ onDevice' = (onDevice \union pair) \ Replaced(s, l)
    /\ buffers' = buffers + 2
    /\ UNCHANGED <<backend, grants, freeBlocks>>

\* An upload fails: nothing is stored, the older pair stays, and a first
\* buffer already made is freed with its last reference.
DeviceStoreFails(s, l) ==
    /\ backend = "device"
    /\ buffers < MaxBuffers
    /\ buffers' = buffers + 1
    /\ UNCHANGED <<backend, grants, freeBlocks, stored, onDevice>>

StoredBy(s) == {k \in DOMAIN stored : k[1] = s}

Free(s) ==
    /\ backend # "none"
    /\ stored' = Without(stored, StoredBy(s))
    /\ onDevice' = onDevice \ UNION {stored[k] : k \in StoredBy(s)}
    /\ Released(s)
    /\ UNCHANGED <<backend, buffers>>

PlaceInit ==
    /\ backend = "none"
    /\ grants = NoEntries
    /\ freeBlocks = 0
    /\ stored = NoEntries
    /\ onDevice = {}
    /\ buffers = 0

PlaceNext ==
    \/ \E wanted \in {"host", "device"}, loads \in BOOLEAN, devices \in 0 .. 1 :
          \E memFree \in {-1, BudgetBytes - 1, BudgetBytes} :
             Build(wanted, loads, devices, memFree)
    \/ \E s \in Holders, n \in 0 .. NumBlocks + 1 : Reserve(s, n)
    \/ \E s \in Holders : Release(s)
    \/ \E s \in Holders, l \in KVLayers : HostStore(s, l)
    \/ \E s \in Holders, l \in KVLayers : DeviceStore(s, l)
    \/ \E s \in Holders, l \in KVLayers : DeviceStoreFails(s, l)
    \/ \E s \in Holders : Free(s)

PlaceSpec == PlaceInit /\ [][PlaceNext]_placeVars

Granted == MapThenSumSet(LAMBDA s : grants[s], DOMAIN grants)

\* After any sequence of reserves, releases and frees, repeated and
\* out-of-order ones included, the free blocks and the reservations add up
\* to the plan, and the plan fits the budget.
BudgetKept ==
    backend # "none" =>
        /\ freeBlocks + Granted = NumBlocks
        /\ freeBlocks >= 0
        /\ NumBlocks * PerBlock =< BudgetBytes

\* The device holds exactly the buffers the table can still free: a repeated
\* store, a failed one or a free leaves no buffer behind and frees none that
\* another layer's rows are in.
BuffersTracked ==
    /\ onDevice = UNION {stored[k] : k \in DOMAIN stored}
    /\ \A j, k \in DOMAIN stored : j # k => stored[j] \intersect stored[k] = {}
    /\ backend = "device" =>
          \A k \in DOMAIN stored : Cardinality(stored[k]) = 2

\* The backends' accounts: what is reserved of the plan's blocks, and which
\* device buffers are in use.
PlacementExact == BudgetKept /\ BuffersTracked
=============================================================================

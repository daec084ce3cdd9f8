--------------------------- MODULE RequestService ---------------------------
(***************************************************************************)
(* What continuous batching promises its callers, without queues, block    *)
(* ids, chunks or steps: a submitted request waits until the memory its    *)
(* worst case needs and one of the running places are reserved for it, it  *)
(* keeps that reservation while it runs, and gives it back whole when it   *)
(* ends.  Which waiting request starts next is left open.  Scheduler is    *)
(* shown to implement this module.                                         *)
(***************************************************************************)
EXTENDS Integers, FiniteSets

CONSTANTS SeqIds, KVCapacity, StateCapacity, MaxConcurrency

VARIABLES
    phase,        \* of each request: "new", "queued", "active", "over"
    need,         \* its worst case, fixed when it is submitted
    freeBlocks,   \* blocks no active request holds
    freeSlots     \* state slots no active request holds

serviceVars == <<phase, need, freeBlocks, freeSlots>>

Demand == [blocks : Nat, slots : {0, 1}]

Active == {s \in SeqIds : phase[s] = "active"}

ServiceInit ==
    /\ phase = [s \in SeqIds |-> "new"]
    /\ need = [s \in SeqIds |-> [blocks |-> 0, slots |-> 0]]
    /\ freeBlocks = KVCapacity
    /\ freeSlots = StateCapacity

Submit(s) ==
    /\ phase[s] = "new"
    /\ phase' = [phase EXCEPT ![s] = "queued"]
    /\ need' \in [SeqIds -> Demand]
    /\ \A t \in SeqIds \ {s} : need'[t] = need[t]
    /\ UNCHANGED <<freeBlocks, freeSlots>>

Start(s) ==
    /\ phase[s] = "queued"
    /\ Cardinality(Active) < MaxConcurrency
    /\ need[s].blocks <= freeBlocks
    /\ need[s].slots <= freeSlots
    /\ phase' = [phase EXCEPT ![s] = "active"]
    /\ freeBlocks' = freeBlocks - need[s].blocks
    /\ freeSlots' = freeSlots - need[s].slots
    /\ UNCHANGED need

\* The end of an active request, by itself or by an abort.
End(s) ==
    /\ phase[s] = "active"
    /\ phase' = [phase EXCEPT ![s] = "over"]
    /\ freeBlocks' = freeBlocks + need[s].blocks
    /\ freeSlots' = freeSlots + need[s].slots
    /\ UNCHANGED need

\* An abort of a request that never started.
Withdraw(s) ==
    /\ phase[s] = "queued"
    /\ phase' = [phase EXCEPT ![s] = "over"]
    /\ UNCHANGED <<need, freeBlocks, freeSlots>>

ServiceNext ==
    \E s \in SeqIds : Submit(s) \/ Start(s) \/ End(s) \/ Withdraw(s)

ServiceSpec == ServiceInit /\ [][ServiceNext]_serviceVars

=============================================================================

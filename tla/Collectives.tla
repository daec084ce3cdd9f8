---------------------------- MODULE Collectives -----------------------------
(***************************************************************************)
(* The simulated tensor-parallel world: tp/collectives.py.                 *)
(*                                                                         *)
(* Every rank contributes its partial of a named collective to a tag and   *)
(* reads the sum (all_reduce) or the concatenation (all_gather) of all of  *)
(* them; reset() clears one tag or every tag for the next round.  Nothing  *)
(* orders the ranks: a fast one may contribute, read and reset before a    *)
(* slow one has read.  A partial is its rank, the number of the            *)
(* contribution and its shape; a result is the parts it was made of.       *)
(***************************************************************************)
EXTENDS Integers, Sequences

CONSTANTS
    WorldSize,
    Tags,
    Shapes,
    MaxPartials    \* bound: contributions of one rank

ASSUME WorldAssumption == WorldSize \in Nat \ {0} /\ MaxPartials \in Nat

World == 0 .. WorldSize - 1

VARIABLES
    slots,    \* SimCollectives._tags: tag -> rank -> partial
    made,     \* made[r]: contributions of rank r so far
    epoch,    \* epoch[t]: resets of tag t so far (history)
    got       \* every result returned (history)

worldVars == <<slots, made, epoch, got>>

EmptySlot == [r \in {} |-> 0]

SlotOf(t) == IF t \in DOMAIN slots THEN slots[t] ELSE EmptySlot

\* Mutant of Contribute: a second partial of a rank replaces the first.
ContributeAgain(t, r, shape) ==
    /\ r \in World
    /\ made[r] < MaxPartials
    /\ slots' = [u \in DOMAIN slots \union {t} |->
                    IF u # t THEN slots[u]
                    ELSE [q \in DOMAIN SlotOf(t) \union {r} |->
                            IF q = r THEN [rank |-> r, nth |-> made[r], shape |-> shape]
                            ELSE SlotOf(t)[q]]]
    /\ made' = [made EXCEPT ![r] = @ + 1]
    /\ UNCHANGED <<epoch, got>>

\* contribute(): a rank outside the world and a second partial of one rank
\* raise CollectivesError and leave the tag as it was.
Contribute(t, r, shape) ==
    /\ r \in World
    /\ made[r] < MaxPartials
    /\ r \notin DOMAIN SlotOf(t)
    /\ slots' = [u \in DOMAIN slots \union {t} |->
                    IF u # t THEN slots[u]
                    ELSE [q \in DOMAIN SlotOf(t) \union {r} |->
                            IF q = r THEN [rank |-> r, nth |-> made[r], shape |-> shape]
                            ELSE SlotOf(t)[q]]]
    /\ made' = [made EXCEPT ![r] = @ + 1]
    /\ UNCHANGED <<epoch, got>>

\* _parts(): the tag is known and no rank's contribution is missing.
Complete(t) == t \in DOMAIN slots /\ DOMAIN slots[t] = World

Parts(t) == [r \in World |-> slots[t][r]]

Return(t, call) ==
    /\ got' = got \union {[tag |-> t, epoch |-> epoch[t], call |-> call,
                            parts |-> Parts(t)]}
    /\ UNCHANGED <<slots, made, epoch>>

\* all_reduce(): partials of different shapes raise.
AllReduce(t) ==
    /\ Complete(t)
    /\ \A r, q \in World : Parts(t)[r].shape = Parts(t)[q].shape
    /\ Return(t, "reduce")

AllGather(t) == Complete(t) /\ Return(t, "gather")

Reset(t) ==
    /\ t \in DOMAIN slots
    /\ slots' = [u \in DOMAIN slots \ {t} |-> slots[u]]
    /\ epoch' = [epoch EXCEPT ![t] = @ + 1]
    /\ UNCHANGED <<made, got>>

ResetAll ==
    /\ DOMAIN slots # {}
    /\ slots' = [t \in {} |-> EmptySlot]
    /\ epoch' = [t \in Tags |-> epoch[t] + 1]
    /\ UNCHANGED <<made, got>>

WorldInit ==
    /\ slots = [t \in {} |-> EmptySlot]
    /\ made = [r \in World |-> 0]
    /\ epoch = [t \in Tags |-> 0]
    /\ got = {}

WorldNext ==
    \/ \E t \in Tags, r \in World, shape \in Shapes : Contribute(t, r, shape)
    \/ \E t \in Tags : AllReduce(t)
    \/ \E t \in Tags : AllGather(t)
    \/ \E t \in Tags : Reset(t)
    \/ ResetAll

WorldSpec == WorldInit /\ [][WorldNext]_worldVars

\* Whatever order the ranks contribute, read and reset in, all of them read
\* the same thing: two results of a tag with no reset between them are made
\* of the same partials, one of every rank, and no partial is counted in two
\* rounds or under two tags.
RoundsApart ==
    \A x, y \in got :
        /\ (x.tag = y.tag /\ x.epoch = y.epoch) => x.parts = y.parts
        /\ (\E r \in World : x.parts[r] = y.parts[r])
              => x.tag = y.tag /\ x.epoch = y.epoch
        /\ \A r \in World : x.parts[r].rank = r
=============================================================================

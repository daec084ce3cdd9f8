---------------------------- MODULE Parallel_proofs ----------------------------
(***************************************************************************)
(* Proofs about what runs side by side: the ranks of Collectives and of    *)
(* Sharding and the threads of ThreadBlock.                                *)
(*                                                                         *)
(* RoundsApart, for any number of ranks, tags and rounds and any order of  *)
(* contributions, reads and resets.  What has been read says nothing of    *)
(* what will be: the invariant relates every result to what its tag holds  *)
(* now.  A result of the current round is what the tag still holds, since  *)
(* a full tag takes no contribution (Current); one of an earlier round     *)
(* shares nothing with what any tag holds, since no contribution is made   *)
(* twice (Past, Fresh).                                                    *)
(*                                                                         *)
(* BlocksExact, for a block of any power of two of threads that run in any *)
(* order between two barriers.  The invariant holds for every code that is *)
(* Sound, which only looks at where its barriers lie: no barrier lies      *)
(* between two threads (Together), a cell holds what its thread wrote last *)
(* (Stored) and a sum the shares of those who have added theirs (Added).   *)
(* What is left is one lemma per kernel, that its code is Sound; those of  *)
(* the three attention kernels are not.                                    *)
(*                                                                         *)
(* ShardsExact, for any geometry with its heads, groups and experts, any   *)
(* size of tensor, number of ranks and block size.  What a rank is given   *)
(* depends on the tensor alone (ShardInv), so the rest is arithmetic: a    *)
(* slice holds the rank's part of every segment, one behind the other      *)
(* (CutIs, RowsAre); put back part by part the slices are the tensor       *)
(* (TileIs), and no cut is inside a unit (UnitsAre).  A range that may be  *)
(* cut begins at a block, and ends at one or with the tensor (SafeRange),  *)
(* so that the scales of a slice are as many as its rows alone would have, *)
(* each at its place (ScalesAre, PairIs).  Bases and Joined are recursive  *)
(* functions, but a plan has one segment or three (PlansAre), which is     *)
(* what makes them provable without an induction.                          *)
(***************************************************************************)
EXTENDS Collectives, ThreadBlock, Sharding, Basics

-----------------------------------------------------------------------------
(***************************************************************************)
(* Collectives: the invariant.                                             *)
(***************************************************************************)
\* Tag t holds a partial of rank r.
Holds(t, r) == t \in DOMAIN slots /\ r \in DOMAIN slots[t]

\* A tag holds partials of the world's ranks, each made by the rank it is
\* stored for.
Slots ==
    /\ made \in [World -> Nat]
    /\ epoch \in [Tags -> Nat]
    /\ DOMAIN slots \subseteq Tags
    /\ \A t \in DOMAIN slots : DOMAIN slots[t] \subseteq World
    /\ \A t \in Tags, r \in World : Holds(t, r) =>
          /\ slots[t][r].rank = r
          /\ slots[t][r].nth \in Nat /\ slots[t][r].nth < made[r]

\* No contribution is in two tags.
Fresh ==
    \A t, u \in Tags : \A r \in World :
        Holds(t, r) /\ Holds(u, r) /\ slots[t][r].nth = slots[u][r].nth => t = u

\* A result is made of one contribution of every rank.
Results ==
    \A x \in got :
        /\ x.tag \in Tags /\ x.epoch \in Nat /\ x.epoch <= epoch[x.tag]
        /\ \A r \in World : /\ x.parts[r].rank = r
                            /\ x.parts[r].nth \in Nat /\ x.parts[r].nth < made[r]

\* A result of a tag's current round is what the tag holds.
Current ==
    \A x \in got : x.epoch = epoch[x.tag] =>
        Complete(x.tag) /\ x.parts = Parts(x.tag)

\* No part of a result of an earlier round is held by any tag.
Past ==
    \A x \in got : x.epoch # epoch[x.tag] =>
        \A t \in Tags, r \in World : Holds(t, r) => slots[t][r].nth # x.parts[r].nth

WorldInv == Slots /\ Fresh /\ Results /\ Current /\ Past /\ RoundsApart

-----------------------------------------------------------------------------
\* What a contribution changes: tag t now holds it, and all it held before.
LEMMA ContributeFacts ==
    ASSUME Slots, NEW t \in Tags, NEW r \in World, NEW shape, Contribute(t, r, shape)
    PROVE  /\ ~Holds(t, r)
           /\ \A u \in Tags, q \in World :
                 /\ Holds(u, q)' <=> Holds(u, q) \/ (u = t /\ q = r)
                 /\ Holds(u, q) => slots'[u][q] = slots[u][q]
           /\ slots'[t][r].rank = r /\ slots'[t][r].nth = made[r]
           /\ DOMAIN slots' = DOMAIN slots \union {t}
           /\ \A u \in DOMAIN slots' : DOMAIN slots'[u] \subseteq World
           /\ \A u \in DOMAIN slots \ {t} : slots'[u] = slots[u]
<1> USE DEF Contribute, SlotOf, EmptySlot
<1>1. DOMAIN SlotOf(t) \subseteq World
    BY DEF Slots
<1>2. ~Holds(t, r)
    BY DEF Holds
<1>3. /\ DOMAIN slots' = DOMAIN slots \union {t}
      /\ \A u \in DOMAIN slots \ {t} : slots'[u] = slots[u]
    OBVIOUS
<1> DEFINE new == [q \in DOMAIN SlotOf(t) \union {r} |->
                     IF q = r THEN [rank |-> r, nth |-> made[r], shape |-> shape]
                     ELSE SlotOf(t)[q]]
<1>4. slots'[t] = new
    OBVIOUS
<1>5. /\ DOMAIN new = DOMAIN SlotOf(t) \union {r}
      /\ new[r].rank = r /\ new[r].nth = made[r]
      /\ \A q \in DOMAIN SlotOf(t) : q # r => new[q] = SlotOf(t)[q]
    OBVIOUS
<1>6. t \in DOMAIN slots => SlotOf(t) = slots[t]
    OBVIOUS
<1>7. t \notin DOMAIN slots => DOMAIN SlotOf(t) = {}
    OBVIOUS
<1> HIDE DEF new, Contribute, SlotOf, EmptySlot
<1>8. \A u \in DOMAIN slots' : DOMAIN slots'[u] \subseteq World
    BY <1>1, <1>3, <1>4, <1>5 DEF Slots
<1>9. \A u \in Tags, q \in World :
          /\ Holds(u, q)' <=> Holds(u, q) \/ (u = t /\ q = r)
          /\ Holds(u, q) => slots'[u][q] = slots[u][q]
    BY <1>2, <1>3, <1>4, <1>5, <1>6, <1>7 DEF Holds
<1> QED
    BY <1>2, <1>3, <1>4, <1>5, <1>8, <1>9

\* A contribution is new, and goes to a tag whose round nobody has read.
LEMMA ContributeInv ==
    ASSUME WorldInv, NEW t \in Tags, NEW r \in World, NEW shape \in Shapes,
           Contribute(t, r, shape)
    PROVE  WorldInv'
<1>1. Slots /\ Fresh /\ Results /\ Current /\ Past /\ RoundsApart
    BY DEF WorldInv
<1>2. /\ ~Holds(t, r)
      /\ \A u \in Tags, q \in World :
            /\ Holds(u, q)' <=> Holds(u, q) \/ (u = t /\ q = r)
            /\ Holds(u, q) => slots'[u][q] = slots[u][q]
      /\ slots'[t][r].rank = r /\ slots'[t][r].nth = made[r]
      /\ DOMAIN slots' = DOMAIN slots \union {t}
      /\ \A u \in DOMAIN slots' : DOMAIN slots'[u] \subseteq World
      /\ \A u \in DOMAIN slots \ {t} : slots'[u] = slots[u]
    BY <1>1, ContributeFacts
<1>3. /\ epoch' = epoch /\ got' = got
      /\ made' \in [World -> Nat] /\ made'[r] = made[r] + 1 /\ made[r] \in Nat
      /\ \A q \in World : made[q] \in Nat /\ made'[q] >= made[q]
    BY <1>1 DEF Contribute, Slots
<1>4. Slots'
  <2>1. \A u \in Tags, q \in World : Holds(u, q)' =>
            /\ slots'[u][q].rank = q
            /\ slots'[u][q].nth \in Nat /\ slots'[u][q].nth < made'[q]
    <3> SUFFICES ASSUME NEW u \in Tags, NEW q \in World, Holds(u, q)'
                 PROVE  /\ slots'[u][q].rank = q
                        /\ slots'[u][q].nth \in Nat /\ slots'[u][q].nth < made'[q]
        OBVIOUS
    <3>1. CASE Holds(u, q)
      <4>1. /\ slots[u][q].rank = q
            /\ slots[u][q].nth \in Nat /\ slots[u][q].nth < made[q]
          BY <1>1, <3>1 DEF Slots
      <4> QED
          BY <1>2, <1>3, <3>1, <4>1
    <3>2. CASE u = t /\ q = r
        BY <1>2, <1>3, <3>2
    <3> QED
        BY <1>2, <3>1, <3>2
  <2> QED
      BY <1>1, <1>2, <1>3, <2>1 DEF Slots
<1>5. Fresh'
  <2> SUFFICES ASSUME NEW u \in Tags, NEW v \in Tags, NEW q \in World,
                      Holds(u, q)', Holds(v, q)',
                      slots'[u][q].nth = slots'[v][q].nth
               PROVE  u = v
      BY DEF Fresh
  <2>1. Holds(u, q) => slots'[u][q].nth < made[q] /\ slots'[u][q].nth \in Nat
      BY <1>1, <1>2 DEF Slots
  <2>2. Holds(v, q) => slots'[v][q].nth < made[q] /\ slots'[v][q].nth \in Nat
      BY <1>1, <1>2 DEF Slots
  <2>3. CASE Holds(u, q) /\ Holds(v, q)
    <3>1. slots[u][q].nth = slots[v][q].nth
        BY <1>2, <2>3
    <3> QED
        BY <1>1, <2>3, <3>1 DEF Fresh
  <2>4. CASE ~Holds(u, q) /\ Holds(v, q)
    <3>1. u = t /\ q = r
        BY <1>2, <2>4
    <3> QED
        BY <1>2, <1>3, <2>2, <2>4, <3>1
  <2>5. CASE Holds(u, q) /\ ~Holds(v, q)
    <3>1. v = t /\ q = r
        BY <1>2, <2>5
    <3> QED
        BY <1>2, <1>3, <2>1, <2>5, <3>1
  <2>6. CASE ~Holds(u, q) /\ ~Holds(v, q)
      BY <1>2, <2>6
  <2> QED
      BY <2>3, <2>4, <2>5, <2>6
<1>6. Results'
  <2> SUFFICES ASSUME NEW x \in got
               PROVE  /\ x.tag \in Tags /\ x.epoch \in Nat /\ x.epoch <= epoch[x.tag]
                      /\ \A q \in World : /\ x.parts[q].rank = q
                                          /\ x.parts[q].nth \in Nat
                                          /\ x.parts[q].nth < made'[q]
      BY <1>3 DEF Results
  <2>1. /\ x.tag \in Tags /\ x.epoch \in Nat /\ x.epoch <= epoch[x.tag]
        /\ \A q \in World : /\ x.parts[q].rank = q
                            /\ x.parts[q].nth \in Nat /\ x.parts[q].nth < made[q]
      BY <1>1 DEF Results
  <2>2. \A q \in World : made'[q] \in Nat
      BY <1>3
  <2> QED
      BY <1>3, <2>1, <2>2
<1>7. Current'
  <2> SUFFICES ASSUME NEW x \in got, x.epoch = epoch[x.tag]
               PROVE  Complete(x.tag)' /\ x.parts = Parts(x.tag)'
      BY <1>3 DEF Current
  <2>1. Complete(x.tag) /\ x.parts = Parts(x.tag) /\ x.tag \in Tags
      BY <1>1 DEF Current, Results
  <2>2. x.tag # t
      BY <1>2, <2>1 DEF Complete, Holds
  <2>3. slots'[x.tag] = slots[x.tag] /\ x.tag \in DOMAIN slots'
      BY <1>2, <2>1, <2>2 DEF Complete
  <2> QED
      BY <2>1, <2>3 DEF Complete, Parts
<1>8. Past'
  <2> SUFFICES ASSUME NEW x \in got, x.epoch # epoch[x.tag],
                      NEW u \in Tags, NEW q \in World, Holds(u, q)'
               PROVE  slots'[u][q].nth # x.parts[q].nth
      BY <1>3 DEF Past
  <2>1. CASE Holds(u, q)
      BY <1>1, <1>2, <2>1 DEF Past
  <2>2. CASE u = t /\ q = r
    <3>1. x.parts[r].nth \in Nat /\ x.parts[r].nth < made[r]
        BY <1>1 DEF Results
    <3> QED
        BY <1>2, <1>3, <2>2, <3>1
  <2> QED
      BY <1>2, <2>1, <2>2
<1>9. RoundsApart'
    BY <1>1, <1>3 DEF RoundsApart
<1> QED
    BY <1>4, <1>5, <1>6, <1>7, <1>8, <1>9 DEF WorldInv

\* A result is what the others of its round are, and what no other is.
LEMMA ReturnInv ==
    ASSUME WorldInv, NEW t \in Tags, NEW call, Complete(t), Return(t, call)
    PROVE  WorldInv'
<1> DEFINE z == [tag |-> t, epoch |-> epoch[t], call |-> call, parts |-> Parts(t)]
<1>1. Slots /\ Fresh /\ Results /\ Current /\ Past /\ RoundsApart
    BY DEF WorldInv
<1>2. /\ slots' = slots /\ made' = made /\ epoch' = epoch
      /\ got' = got \union {z}
    BY DEF Return
<1>3. /\ z.tag = t /\ z.epoch = epoch[t] /\ z.parts = Parts(t)
      /\ \A r \in World : z.parts[r] = slots[t][r] /\ Holds(t, r)
    BY DEF Parts, Complete, Holds
<1> HIDE DEF z
<1>4. Slots'
    BY <1>1, <1>2 DEF Slots, Holds
<1>5. Fresh'
    BY <1>1, <1>2 DEF Fresh, Holds
<1>6. Results'
  <2>1. /\ z.tag \in Tags /\ z.epoch \in Nat /\ z.epoch <= epoch[z.tag]
        /\ \A r \in World : /\ z.parts[r].rank = r
                            /\ z.parts[r].nth \in Nat /\ z.parts[r].nth < made[r]
      BY <1>1, <1>3 DEF Slots
  <2> QED
      BY <1>1, <1>2, <2>1 DEF Results
<1>7. Current'
    BY <1>1, <1>2, <1>3 DEF Current, Complete, Parts
<1>8. Past'
    BY <1>1, <1>2, <1>3 DEF Past, Holds
<1>9. RoundsApart'
  <2>1. ASSUME NEW y \in got
        PROVE  /\ (y.tag = t /\ y.epoch = epoch[t]) => y.parts = z.parts
               /\ (\E r \in World : y.parts[r] = z.parts[r])
                     => y.tag = t /\ y.epoch = epoch[t]
    <3>1. (y.tag = t /\ y.epoch = epoch[t]) => y.parts = z.parts
        BY <1>1, <1>3, <2>1 DEF Current
    <3>2. ASSUME NEW r \in World, y.parts[r] = z.parts[r]
          PROVE  y.tag = t /\ y.epoch = epoch[t]
      <4>1. y.parts[r].nth = slots[t][r].nth /\ Holds(t, r)
          BY <1>3, <3>2
      <4>2. y.epoch = epoch[y.tag]
          BY <1>1, <2>1, <4>1 DEF Past
      <4>3. Complete(y.tag) /\ y.parts = Parts(y.tag) /\ y.tag \in Tags
          BY <1>1, <2>1, <4>2 DEF Current, Results
      <4>4. Holds(y.tag, r) /\ slots[y.tag][r].nth = slots[t][r].nth
          BY <4>1, <4>3 DEF Complete, Parts, Holds
      <4>5. y.tag = t
          BY <1>1, <4>1, <4>3, <4>4 DEF Fresh
      <4> QED
          BY <4>2, <4>5
    <3> QED
        BY <3>1, <3>2
  <2>2. \A r \in World : z.parts[r].rank = r
      BY <1>1, <1>3 DEF Slots
  <2> SUFFICES ASSUME NEW x \in got', NEW y \in got'
               PROVE  /\ (x.tag = y.tag /\ x.epoch = y.epoch) => x.parts = y.parts
                      /\ (\E r \in World : x.parts[r] = y.parts[r])
                            => x.tag = y.tag /\ x.epoch = y.epoch
                      /\ \A r \in World : x.parts[r].rank = r
      BY DEF RoundsApart
  <2>3. CASE x \in got /\ y \in got
      BY <1>1, <2>3 DEF RoundsApart
  <2>4. CASE x = z /\ y \in got
      BY <1>3, <2>1, <2>2, <2>4
  <2>5. CASE x \in got /\ y = z
      BY <1>1, <1>3, <2>1, <2>5 DEF RoundsApart
  <2>6. CASE x = z /\ y = z
      BY <2>2, <2>6
  <2> QED
      BY <1>2, <2>3, <2>4, <2>5, <2>6
<1> QED
    BY <1>4, <1>5, <1>6, <1>7, <1>8, <1>9 DEF WorldInv

\* What a reset drops was in no other tag, and is not contributed again.
LEMMA ResetInv ==
    ASSUME WorldInv, NEW t \in Tags, Reset(t)
    PROVE  WorldInv'
<1>1. Slots /\ Fresh /\ Results /\ Current /\ Past /\ RoundsApart
    BY DEF WorldInv
<1>2. /\ made' = made /\ got' = got
      /\ DOMAIN slots' = DOMAIN slots \ {t}
      /\ \A u \in DOMAIN slots' : slots'[u] = slots[u]
    BY DEF Reset
<1>3. /\ epoch' \in [Tags -> Nat] /\ epoch[t] \in Nat /\ epoch'[t] = epoch[t] + 1
      /\ \A u \in Tags : u # t => epoch'[u] = epoch[u]
    BY <1>1 DEF Reset, Slots
<1>4. \A u \in Tags, r \in World :
          Holds(u, r)' => Holds(u, r) /\ slots'[u][r] = slots[u][r] /\ u # t
    BY <1>2 DEF Holds
<1>5. Slots'
  <2>1. \A u \in DOMAIN slots' : DOMAIN slots'[u] \subseteq World
      BY <1>1, <1>2 DEF Slots
  <2>2. \A u \in Tags, r \in World : Holds(u, r)' =>
            /\ slots'[u][r].rank = r
            /\ slots'[u][r].nth \in Nat /\ slots'[u][r].nth < made[r]
      BY <1>1, <1>4 DEF Slots
  <2> QED
      BY <1>1, <1>2, <1>3, <2>1, <2>2 DEF Slots
<1>6. Fresh'
    BY <1>1, <1>4 DEF Fresh
<1>7. Results'
    BY <1>1, <1>2, <1>3 DEF Results
<1>8. Current'
  <2> SUFFICES ASSUME NEW x \in got, x.epoch = epoch'[x.tag]
               PROVE  Complete(x.tag)' /\ x.parts = Parts(x.tag)'
      BY <1>2 DEF Current
  <2>1. x.tag # t /\ x.tag \in Tags
      BY <1>1, <1>3 DEF Results
  <2>2. Complete(x.tag) /\ x.parts = Parts(x.tag)
      BY <1>1, <1>3, <2>1 DEF Current
  <2>3. x.tag \in DOMAIN slots' /\ slots'[x.tag] = slots[x.tag]
      BY <1>2, <2>1, <2>2 DEF Complete
  <2> QED
      BY <2>2, <2>3 DEF Complete, Parts
<1>9. Past'
  <2> SUFFICES ASSUME NEW x \in got, x.epoch # epoch'[x.tag],
                      NEW u \in Tags, NEW r \in World, Holds(u, r)'
               PROVE  slots'[u][r].nth # x.parts[r].nth
      BY <1>2 DEF Past
  <2>1. Holds(u, r) /\ slots'[u][r] = slots[u][r] /\ u # t
      BY <1>4
  <2>2. CASE x.epoch # epoch[x.tag]
      BY <1>1, <2>1, <2>2 DEF Past
  <2>3. CASE x.epoch = epoch[x.tag]
    <3>1. x.tag = t
        BY <1>1, <1>3, <2>3 DEF Results
    <3>2. Holds(t, r) /\ x.parts[r] = slots[t][r]
        BY <1>1, <2>3, <3>1 DEF Current, Complete, Parts, Holds
    <3> QED
        BY <1>1, <2>1, <3>2 DEF Fresh
  <2> QED
      BY <2>2, <2>3
<1>10. RoundsApart'
    BY <1>1, <1>2 DEF RoundsApart
<1> QED
    BY <1>5, <1>6, <1>7, <1>8, <1>9, <1>10 DEF WorldInv

\* After a reset of every tag all results are of earlier rounds.
LEMMA ResetAllInv ==
    ASSUME WorldInv, ResetAll
    PROVE  WorldInv'
<1>1. Slots /\ Fresh /\ Results /\ Current /\ Past /\ RoundsApart
    BY DEF WorldInv
<1>2. made' = made /\ got' = got /\ DOMAIN slots' = {}
    BY DEF ResetAll
<1>3. /\ epoch' \in [Tags -> Nat]
      /\ \A u \in Tags : epoch[u] \in Nat /\ epoch'[u] = epoch[u] + 1
    BY <1>1 DEF ResetAll, Slots
<1>4. \A u \in Tags, r \in World : ~Holds(u, r)'
    BY <1>2 DEF Holds
<1>5. Slots'
    BY <1>1, <1>2, <1>3, <1>4 DEF Slots
<1>6. Fresh'
    BY <1>4 DEF Fresh
<1>7. Results'
    BY <1>1, <1>2, <1>3 DEF Results
<1>8. Current'
    BY <1>1, <1>2, <1>3 DEF Current, Results
<1>9. Past'
    BY <1>4 DEF Past
<1>10. RoundsApart'
    BY <1>1, <1>2 DEF RoundsApart
<1> QED
    BY <1>5, <1>6, <1>7, <1>8, <1>9, <1>10 DEF WorldInv

\* Nothing is contributed and nothing is read.
LEMMA WorldInitInv == WorldInit => WorldInv
<1> SUFFICES ASSUME WorldInit PROVE WorldInv
    OBVIOUS
<1>1. /\ DOMAIN slots = {} /\ got = {}
      /\ made \in [World -> Nat] /\ epoch \in [Tags -> Nat]
    BY DEF WorldInit
<1> QED
    BY <1>1 DEF WorldInv, Slots, Fresh, Results, Current, Past, RoundsApart, Holds

\* Every step keeps the invariant.
LEMMA WorldNextInv == WorldInv /\ [WorldNext]_worldVars => WorldInv'
<1> SUFFICES ASSUME WorldInv, [WorldNext]_worldVars PROVE WorldInv'
    OBVIOUS
<1>1. CASE UNCHANGED worldVars
    BY <1>1 DEF worldVars, WorldInv, Slots, Fresh, Results, Current, Past,
                RoundsApart, Holds, Complete, Parts
<1>2. ASSUME NEW t \in Tags, NEW r \in World, NEW shape \in Shapes,
             Contribute(t, r, shape)
      PROVE  WorldInv'
    BY <1>2, ContributeInv
<1>3. ASSUME NEW t \in Tags, AllReduce(t) PROVE WorldInv'
    BY <1>3, ReturnInv DEF AllReduce
<1>4. ASSUME NEW t \in Tags, AllGather(t) PROVE WorldInv'
    BY <1>4, ReturnInv DEF AllGather
<1>5. ASSUME NEW t \in Tags, Reset(t) PROVE WorldInv'
    BY <1>5, ResetInv
<1> QED
    BY <1>1, <1>2, <1>3, <1>4, <1>5, ResetAllInv DEF WorldNext

-----------------------------------------------------------------------------
\* The inductive invariant holds of every state of the simulated world.
THEOREM WorldInvariant == WorldSpec => []WorldInv
<1>1. WorldInit => WorldInv
    BY WorldInitInv
<1>2. WorldInv /\ [WorldNext]_worldVars => WorldInv'
    BY WorldNextInv
<1> QED
    BY <1>1, <1>2, PTL DEF WorldSpec

\* Whatever order the ranks contribute to SimCollectives, read and reset in,
\* all readers of a round read the same parts, one of every rank, and no part
\* is counted in two rounds or under two tags.
THEOREM RoundsAlwaysApart == WorldSpec => []RoundsApart
<1>1. WorldInv => RoundsApart
    BY DEF WorldInv
<1> QED
    BY <1>1, WorldInvariant, PTL

-----------------------------------------------------------------------------
(***************************************************************************)
(* Thread blocks: what a code has to be.                                   *)
(***************************************************************************)
\* Position k of code c is a barrier.
Waits(c, k) == c[k].op = "barrier"

\* Thread t takes part in the instruction at k.
In(c, k, t) == t \in c[k].by /\ (c[k].op = "fold" => t < c[k].half)

\* It sets its own cell of array a there.
Puts(c, k, a, t) == c[k].op \in {"own", "fold"} /\ c[k].array = a /\ In(c, k, t)

\* The threads whose shares meet in thread t's cell by a fold of half s.
Class(t, s) == {u \in Threads : \E q \in Nat : u = q * s + t}

\* What the cell then holds.
Left(c, k, t) ==
    Shares(c[k].result, IF c[k].op = "own" THEN {t} ELSE Class(t, c[k].half))

\* At k thread t's cell of a holds v if t has come that far.
Kept(c, k, a, t, v) ==
    \E j \in 1 .. k - 1 :
        /\ Puts(c, j, a, t) /\ Left(c, j, t) = v
        /\ \A m \in j + 1 .. k - 1 : ~Puts(c, m, a, t)

\* At k it holds v wherever t is: t wrote it before a barrier, and writes
\* again behind one.
Settled(c, k, a, t, v) ==
    \E j \in 1 .. k - 1 :
        /\ Puts(c, j, a, t) /\ Left(c, j, t) = v
        /\ \E b \in j + 1 .. k - 1 : Waits(c, b)
        /\ \A m \in j + 1 .. Len(c) : Puts(c, m, a, t) =>
              m > k /\ \E b \in k .. m - 1 : Waits(c, b)

\* Array a is one that threads add to.
Summed(c, a) == \E p \in 1 .. Len(c) : c[p].op = "atomic" /\ c[p].array = a

WellFormed(i) ==
    /\ i.op \in {"own", "first", "all", "atomic", "clear", "barrier", "fold"}
    /\ i.op # "barrier" => i.array \in Arrays
    /\ i.by \subseteq Threads
    /\ i.half \in Nat
    /\ i.op = "clear" => i.by = {Leader}
    /\ i.op = "atomic" => i.by = Threads

\* A fold finds two parts of one result.
FoldSound(c, k) ==
    LET i == c[k] IN
    \A t \in Threads : t < i.half =>
        /\ t + i.half \in Threads
        /\ Kept(c, k, i.array, t, Shares(i.result, Class(t, 2 * i.half)))
        /\ Settled(c, k, i.array, t + i.half,
                   Shares(i.result, Class(t + i.half, 2 * i.half)))

\* A read finds finished results.
ReadSound(c, k) ==
    LET i == c[k] IN
    /\ i.op = "first" /\ ~Summed(c, i.array) =>
          Settled(c, k, i.array, 0, Shares(i.result, i.of))
    /\ i.op = "all" => \A t \in Threads :
          Settled(c, k, i.array, t, Shares(i.result, {t}))

\* A sum is cleared, added to and read, with barriers in between.
SumSound(c, p) ==
    \E q \in 1 .. p - 1 :
        /\ c[q].op = "clear" /\ c[q].array = c[p].array
        /\ \E b \in q + 1 .. p - 1 : Waits(c, b)
        /\ \A m \in (1 .. Len(c)) \ {p, q} :
              ~Waits(c, m) /\ c[m].array = c[p].array =>
                  /\ c[m].op = "first"
                  /\ c[m].of = Threads /\ c[m].result = c[p].result
                  /\ m > p /\ \E b \in p + 1 .. m - 1 : Waits(c, b)

SoundAt(c, k) ==
    /\ WellFormed(c[k])
    /\ c[k].op \in {"own", "fold", "all"} => ~Summed(c, c[k].array)
    /\ c[k].op = "clear" => Summed(c, c[k].array)
    /\ c[k].op = "fold" => FoldSound(c, k)
    /\ ReadSound(c, k)
    /\ c[k].op = "atomic" => SumSound(c, k)

Sound(c) == Len(c) \in Nat /\ \A k \in 1 .. Len(c) : SoundAt(c, k)

-----------------------------------------------------------------------------
(***************************************************************************)
(* The invariant of a block that runs code c.                              *)
(***************************************************************************)
Places(c) ==
    /\ ip \in [Threads -> Nat]
    /\ \A t \in Threads : ip[t] \in 1 .. Len(c) + 1

Memory ==
    /\ cells = [a \in Arrays |-> cells[a]]
    /\ \A a \in Arrays : cells[a] = [t \in Threads |-> cells[a][t]]
    /\ loaded = [t \in Threads |-> loaded[t]]

\* No barrier lies between two threads.
Together(c) == \A t, u \in Threads : \A b \in ip[t] .. ip[u] - 1 : ~Waits(c, b)

\* A cell holds what its thread wrote last.
Stored(c) ==
    \A t \in Threads, a \in Arrays : \A j \in 1 .. ip[t] - 1 :
        Puts(c, j, a, t) /\ (\A m \in j + 1 .. ip[t] - 1 : ~Puts(c, m, a, t)) =>
            cells[a][t] = Left(c, j, t)

\* A sum, once cleared, holds the shares of those who have added theirs.
Added(c) ==
    \A p, q \in 1 .. Len(c) :
        /\ c[p].op = "atomic" /\ c[q].op = "clear" /\ c[q].array = c[p].array
        /\ ip[Leader] > q
        => cells[c[p].array][0] = Shares(c[p].result, {t \in Threads : ip[t] > p})

Runs(c) == Places(c) /\ Memory /\ Together(c) /\ Stored(c) /\ Added(c) /\ ReductionsExact

BlockInv == kernel \in Kernels /\ Runs(Code[kernel])

-----------------------------------------------------------------------------
\* The threads of a block, the leader among them.
LEMMA SomeThreads ==
    /\ Len(Strides) \in Nat \ {0}
    /\ \A i \in 1 .. Len(Strides) : Strides[i] \in Nat \ {0}
    /\ NumThreads \in Nat \ {0, 1}
    /\ Leader \in Threads /\ 0 \in Threads
    /\ Threads \subseteq Nat
<1>1. Len(Strides) \in Nat \ {0}
  BY BlockAssumption
<1>2. \A i \in 1 .. Len(Strides) : Strides[i] \in Nat \ {0}
  BY BlockAssumption
<1>3. NumThreads \in Nat \ {0, 1}
  BY <1>1, <1>2 DEF NumThreads
<1> QED BY <1>1, <1>2, <1>3 DEF Threads, Leader

\* Every stride is at most half of the block.
LEMMA StrideFits ==
    ASSUME NEW i \in 1 .. Len(Strides)
    PROVE  2 * Strides[i] <= NumThreads
<1> DEFINE L == Len(Strides)
           Bad == {j \in 1 .. L : ~(2 * Strides[j] <= NumThreads)}
<1>1. /\ L \in Nat \ {0} /\ NumThreads \in Nat
      /\ \A j \in 1 .. L : Strides[j] \in Nat \ {0}
      /\ \A j \in 1 .. L - 1 : Strides[j] = 2 * Strides[j + 1]
      /\ NumThreads = 2 * Strides[1]
  BY SomeThreads, BlockAssumption DEF NumThreads
<1> HIDE DEF L
<1>2. Bad = {}
  <2>1. SUFFICES ASSUME Bad # {}
                 PROVE  FALSE
    OBVIOUS
  <2>2. PICK m \in Bad : \A j \in Bad : m <= j
    <3>1. Bad \in SUBSET Nat
      BY <1>1
    <3> HIDE DEF Bad
    <3> QED BY <2>1, <3>1, SmallestOf
  <2>3. m # 1 /\ m \in 1 .. L /\ m - 1 \in 1 .. L - 1 /\ m - 1 \notin Bad
    BY <1>1, <2>2
  <2>4. 2 * Strides[m - 1] <= NumThreads /\ Strides[m - 1] = 2 * Strides[(m - 1) + 1]
    BY <1>1, <2>3
  <2>5. (m - 1) + 1 = m
    BY <1>1, <2>3
  <2>6. 2 * Strides[m] <= NumThreads
    BY <1>1, <2>3, <2>4, <2>5
  <2> QED BY <2>2, <2>6
<1> QED BY <1>2 DEF L

\* A bag of shares without any.
LEMMA NoShares ==
    ASSUME NEW r
    PROVE  Shares(r, {}) = EmptyBag
<1>1. {r} \X {} = {}
  OBVIOUS
<1> QED BY <1>1 DEF Shares, EmptyBag

\* Shares of two sets of threads that are apart.
LEMMA TwoShares ==
    ASSUME NEW r, NEW A, NEW B, A \intersect B = {}
    PROVE  Shares(r, A) (+) Shares(r, B) = Shares(r, A \union B)
<1> DEFINE S == {r} \X A
           T == {r} \X B
           U == {r} \X (A \union B)
<1>1. S \intersect T = {} /\ S \union T = U
  OBVIOUS
<1> HIDE DEF S, T, U
<1>2. SetToBag(S) (+) SetToBag(T) = SetToBag(U)
  BY <1>1 DEF SetToBag, (+)
<1> QED BY <1>2 DEF Shares, S, T, U

\* A stride of the whole block leaves every thread alone.
LEMMA ClassOfOne ==
    ASSUME NEW t \in Threads
    PROVE  Class(t, NumThreads) = {t}
<1> DEFINE N == NumThreads
<1>1. N \in Nat \ {0, 1} /\ Threads = 0 .. N - 1
  BY SomeThreads DEF Threads
<1> HIDE DEF N
<1>2. ASSUME NEW u \in Threads, NEW q \in Nat, u = q * N + t
      PROVE  u = t
  <2>1. CASE q = 0
    BY <1>1, <1>2, <2>1
  <2>2. CASE q # 0
    <3>1. q * N >= N
      BY <1>1, <2>2
    <3>2. q * N \in Nat
      BY <1>1
    <3> QED BY <1>1, <1>2, <3>1, <3>2
  <2> QED BY <2>1, <2>2
<1>3. t = 0 * N + t /\ 0 \in Nat
  BY <1>1
<1> QED BY <1>2, <1>3 DEF Class, N

\* The last fold leaves all in cell 0.
LEMMA ClassOfAll == Class(0, 1) = Threads
<1>1. \A u \in Threads : u \in Nat /\ u = u * 1 + 0
  BY SomeThreads
<1> QED BY <1>1 DEF Class

\* A fold puts two classes together.
LEMMA ClassOfTwo ==
    ASSUME NEW t \in Nat, NEW s \in Nat \ {0}
    PROVE  /\ Class(t, 2 * s) \intersect Class(t + s, 2 * s) = {}
           /\ Class(t, 2 * s) \union Class(t + s, 2 * s) = Class(t, s)
<1>1. ASSUME NEW q \in Nat
      PROVE  /\ q * (2 * s) + t = (2 * q) * s + t
             /\ q * (2 * s) + (t + s) = ((2 * q) + 1) * s + t
             /\ 2 * q \in Nat /\ (2 * q) + 1 \in Nat
  <2>1. q * (2 * s) = (2 * q) * s
    OBVIOUS
  <2>2. ((2 * q) + 1) * s = (2 * q) * s + s
    OBVIOUS
  <2>3. q * (2 * s) \in Nat
    OBVIOUS
  <2> QED BY <2>1, <2>2, <2>3
<1>2. ASSUME NEW p \in Nat, NEW q \in Nat, p * s + t = q * s + t
      PROVE  p = q
  <2>1. p * s = q * s
    <3>1. p * s \in Nat /\ q * s \in Nat
      OBVIOUS
    <3> QED BY <1>2, <3>1
  <2> QED BY <2>1
<1>3. ASSUME NEW u, u \in Class(t, 2 * s), u \in Class(t + s, 2 * s)
      PROVE  FALSE
  <2>1. PICK p \in Nat : u = p * (2 * s) + t
    BY <1>3 DEF Class
  <2>2. PICK q \in Nat : u = q * (2 * s) + (t + s)
    BY <1>3 DEF Class
  <2>3. (2 * p) * s + t = ((2 * q) + 1) * s + t
    BY <1>1, <2>1, <2>2
  <2>4. 2 * p = (2 * q) + 1
    BY <1>1, <1>2, <2>3
  <2> QED BY <2>4
<1>4. ASSUME NEW u \in Threads, NEW q \in Nat, u = q * s + t
      PROVE  u \in Class(t, 2 * s) \union Class(t + s, 2 * s)
  <2>1. PICK p \in Nat : q = 2 * p \/ q = (2 * p) + 1
    <3>1. q = 2 * (q \div 2) \/ q = (2 * (q \div 2)) + 1
      OBVIOUS
    <3> QED BY <3>1
  <2> QED BY <1>1, <1>4, <2>1 DEF Class
<1>5. ASSUME NEW u, u \in Class(t, 2 * s) \/ u \in Class(t + s, 2 * s)
      PROVE  u \in Class(t, s)
  <2>1. u \in Threads
    BY <1>5 DEF Class
  <2>2. CASE u \in Class(t, 2 * s)
    <3>1. PICK q \in Nat : u = q * (2 * s) + t
      BY <2>2 DEF Class
    <3>2. u = (2 * q) * s + t /\ 2 * q \in Nat
      BY <1>1, <3>1
    <3> QED BY <2>1, <3>2 DEF Class
  <2>3. CASE u \in Class(t + s, 2 * s)
    <3>1. PICK q \in Nat : u = q * (2 * s) + (t + s)
      BY <2>3 DEF Class
    <3>2. u = ((2 * q) + 1) * s + t /\ (2 * q) + 1 \in Nat
      BY <1>1, <3>1
    <3> QED BY <2>1, <3>2 DEF Class
  <2> QED BY <1>5, <2>2, <2>3
<1>6. ASSUME NEW u \in Class(t, s)
      PROVE  u \in Class(t, 2 * s) \union Class(t + s, 2 * s)
  BY <1>4 DEF Class
<1> QED BY <1>3, <1>5, <1>6

-----------------------------------------------------------------------------
\* What is settled at a thread's place is in memory.
LEMMA SettledHolds ==
    ASSUME NEW c, Len(c) \in Nat, Places(c), Together(c), Stored(c),
           NEW t \in Threads, NEW u \in Threads, NEW a \in Arrays, NEW v,
           Settled(c, ip[t], a, u, v)
    PROVE  cells[a][u] = v
<1> DEFINE k == ip[t]
<1>1. k \in 1 .. Len(c) + 1 /\ ip[u] \in 1 .. Len(c) + 1
  BY DEF Places
<1>2. PICK j \in 1 .. k - 1 :
        /\ Puts(c, j, a, u) /\ Left(c, j, u) = v
        /\ \E b \in j + 1 .. k - 1 : Waits(c, b)
        /\ \A m \in j + 1 .. Len(c) : Puts(c, m, a, u) =>
              m > k /\ \E b \in k .. m - 1 : Waits(c, b)
  BY DEF Settled
<1>3. PICK b \in j + 1 .. k - 1 : Waits(c, b)
  BY <1>2
<1>4. ip[u] > b
  <2>1. ip[u] <= b => b \in ip[u] .. k - 1
    BY <1>1, <1>3
  <2> QED BY <1>1, <1>3, <2>1 DEF Together
<1>5. j \in 1 .. ip[u] - 1
  BY <1>1, <1>2, <1>3, <1>4
<1>6. ASSUME NEW m \in j + 1 .. ip[u] - 1, Puts(c, m, a, u)
      PROVE  FALSE
  <2>1. m \in j + 1 .. Len(c)
    BY <1>1, <1>5, <1>6
  <2>2. PICK d \in k .. m - 1 : Waits(c, d)
    BY <1>2, <1>6, <2>1
  <2>3. d \in k .. ip[u] - 1
    BY <1>1, <1>6, <2>2
  <2> QED BY <2>2, <2>3 DEF Together
<1> QED BY <1>2, <1>5, <1>6 DEF Stored

\* What is kept at a thread's own place is, too.
LEMMA KeptHolds ==
    ASSUME NEW c, Stored(c), NEW t \in Threads, NEW a \in Arrays, NEW v,
           Kept(c, ip[t], a, t, v)
    PROVE  cells[a][t] = v
BY DEF Kept, Stored

\* Thread t goes from k to the next instruction.
Goes(c, t, k) ==
    /\ k = ip[t] /\ k \in 1 .. Len(c) /\ ~Waits(c, k)
    /\ ip' = [ip EXCEPT ![t] = k + 1]

\* It stays between the barriers that the others are between.
LEMMA GoesTogether ==
    ASSUME NEW c, Len(c) \in Nat, Places(c), Together(c), NEW t \in Threads, NEW k,
           Goes(c, t, k)
    PROVE  Places(c)' /\ Together(c)'
<1>1. Places(c)'
  BY DEF Places, Goes
<1>2. ASSUME NEW u \in Threads, NEW w \in Threads, NEW b \in ip'[u] .. ip'[w] - 1
      PROVE  ~Waits(c, b)
  <2>1. ip[u] \in Nat /\ ip[w] \in Nat /\ ip[t] = k
    BY DEF Places, Goes
  <2>2. CASE w = t
    <3>1. ip'[w] = k + 1
      BY <2>2 DEF Places, Goes
    <3>2. CASE u = t
      BY <1>2, <3>1, <3>2 DEF Places, Goes
    <3>3. CASE u # t
      <4>1. ip'[u] = ip[u]
        BY <3>3 DEF Places, Goes
      <4>2. b = k \/ b \in ip[u] .. ip[t] - 1
        BY <1>2, <2>1, <2>2, <3>1, <4>1
      <4> QED BY <4>2 DEF Together, Goes
    <3> QED BY <3>2, <3>3
  <2>3. CASE w # t
    <3>1. ip'[w] = ip[w]
      BY <2>3 DEF Places, Goes
    <3>2. ip'[u] >= ip[u] /\ ip'[u] \in Nat
      BY DEF Places, Goes
    <3>3. b \in ip[u] .. ip[w] - 1
      BY <1>2, <2>1, <3>1, <3>2
    <3> QED BY <3>3 DEF Together
  <2> QED BY <2>2, <2>3
<1> QED BY <1>1, <1>2 DEF Together

\* What is stored after a step that sets no cell for good: the cell that the
\* thread sets, if any, holds what is left there, and the rest is untouched.
LEMMA GoesStored ==
    ASSUME NEW c, Places(c), Stored(c), NEW t \in Threads, NEW k, Goes(c, t, k),
           \A a \in Arrays, u \in Threads :
              \/ cells'[a][u] = cells[a][u] /\ ~(u = t /\ Puts(c, k, a, t))
              \/ u = t /\ Puts(c, k, a, t) /\ cells'[a][u] = Left(c, k, t)
              \/ \A j \in 1 .. Len(c) : ~Puts(c, j, a, u)
    PROVE  Stored(c)'
<1> SUFFICES ASSUME NEW u \in Threads, NEW a \in Arrays, NEW j \in 1 .. ip'[u] - 1,
                    Puts(c, j, a, u),
                    \A m \in j + 1 .. ip'[u] - 1 : ~Puts(c, m, a, u)
             PROVE  cells'[a][u] = Left(c, j, u)
  BY DEF Stored, Puts, In, Left, Shares, Class
<1>1. /\ ip[u] \in 1 .. Len(c) + 1 /\ ip[t] = k /\ k \in 1 .. Len(c)
      /\ ip'[u] = IF u = t THEN k + 1 ELSE ip[u]
  BY DEF Places, Goes
<1>2. CASE u = t
  <2>1. ip'[u] = k + 1 /\ j \in 1 .. k
    BY <1>1, <1>2
  <2>2. CASE j = k
    <3>1. ~(\A i \in 1 .. Len(c) : ~Puts(c, i, a, u))
      BY <1>1, <2>2
    <3> QED BY <1>2, <2>2, <3>1
  <2>3. CASE j # k
    <3>1. k \in j + 1 .. ip'[u] - 1 /\ j \in 1 .. ip[u] - 1
      BY <1>1, <1>2, <2>1, <2>3
    <3>2. ~Puts(c, k, a, t)
      BY <1>2, <3>1
    <3>3. \A m \in j + 1 .. ip[u] - 1 : m \in j + 1 .. ip'[u] - 1
      BY <1>1, <1>2, <2>1
    <3>4. cells[a][u] = Left(c, j, u)
      BY <3>1, <3>3 DEF Stored
    <3>5. j \in 1 .. Len(c)
      BY <1>1, <2>1
    <3> QED BY <3>2, <3>4, <3>5
  <2> QED BY <2>2, <2>3
<1>3. CASE u # t
  <2>1. ip'[u] = ip[u]
    BY <1>1, <1>3
  <2>2. cells[a][u] = Left(c, j, u)
    BY <2>1 DEF Stored
  <2>3. j \in 1 .. Len(c)
    BY <1>1, <2>1
  <2> QED BY <1>3, <2>2, <2>3
<1> QED BY <1>2, <1>3

\* No sum changes in a step that neither clears nor adds.
LEMMA GoesAdded ==
    ASSUME NEW c, Places(c), Added(c), NEW t \in Threads, NEW k, Goes(c, t, k),
           Sound(c), ~(c[k].op \in {"atomic", "clear"} /\ t \in c[k].by),
           \A a \in Arrays : Summed(c, a) => cells'[a][0] = cells[a][0]
    PROVE  Added(c)'
<1> SUFFICES ASSUME NEW p \in 1 .. Len(c), NEW q \in 1 .. Len(c),
                    c[p].op = "atomic", c[q].op = "clear", c[q].array = c[p].array,
                    ip'[Leader] > q
             PROVE  cells'[c[p].array][0]
                        = Shares(c[p].result, {u \in Threads : ip'[u] > p})
  BY DEF Added, Shares
<1>1. /\ ip[t] = k /\ k \in 1 .. Len(c) /\ Leader \in Threads
      /\ \A u \in Threads : ip[u] \in Nat /\ ip'[u] = IF u = t THEN k + 1 ELSE ip[u]
  BY SomeThreads DEF Places, Goes
<1>2. k # p /\ (k = q => t # Leader)
  BY DEF Sound, SoundAt, WellFormed
<1>3. ip[Leader] > q
  BY <1>1, <1>2
<1>4. {u \in Threads : ip'[u] > p} = {u \in Threads : ip[u] > p}
  BY <1>1, <1>2
<1>5. c[p].array \in Arrays /\ Summed(c, c[p].array)
  BY DEF Sound, SoundAt, WellFormed, Summed
<1> QED BY <1>3, <1>4, <1>5 DEF Added

\* What an atomic addition has to do with a clear of the same array.
LEMMA SumFact ==
    ASSUME NEW c, Sound(c), NEW p \in 1 .. Len(c), c[p].op = "atomic"
    PROVE  SumSound(c, p) /\ c[p].by = Threads /\ c[p].array \in Arrays
BY DEF Sound, SoundAt, WellFormed

\* The clear of a sum is one instruction, and so is the addition.
LEMMA OneClear ==
    ASSUME NEW c, Sound(c), NEW p \in 1 .. Len(c), c[p].op = "atomic",
           NEW q \in 1 .. Len(c), c[q].op = "clear", c[q].array = c[p].array
    PROVE  /\ q < p /\ \E b \in q + 1 .. p - 1 : Waits(c, b)
           /\ \A m \in (1 .. Len(c)) \ {p, q} :
                 ~Waits(c, m) /\ c[m].array = c[p].array =>
                     /\ c[m].op = "first"
                     /\ c[m].of = Threads /\ c[m].result = c[p].result
                     /\ m > p /\ \E b \in p + 1 .. m - 1 : Waits(c, b)
<1>1. Len(c) \in Nat
  BY DEF Sound, SoundAt
<1>2. PICK r \in 1 .. p - 1 :
        /\ c[r].op = "clear" /\ c[r].array = c[p].array
        /\ \E b \in r + 1 .. p - 1 : Waits(c, b)
        /\ \A m \in (1 .. Len(c)) \ {p, r} :
              ~Waits(c, m) /\ c[m].array = c[p].array =>
                  /\ c[m].op = "first"
                  /\ c[m].of = Threads /\ c[m].result = c[p].result
                  /\ m > p /\ \E b \in p + 1 .. m - 1 : Waits(c, b)
  BY SumFact DEF SumSound
<1>3. q = r
  BY <1>2 DEF Waits
<1> QED BY <1>1, <1>2, <1>3

-----------------------------------------------------------------------------
(***************************************************************************)
(* The steps of a block.                                                   *)
(***************************************************************************)
\* What an active thread is at.
LEMMA ActiveFacts ==
    ASSUME NEW c, c = Code[kernel], Len(c) \in Nat, Places(c), NEW t \in Threads,
           Active(t), Ahead(t)
    PROVE  /\ Goes(c, t, ip[t]) /\ Next1(t) = c[ip[t]]
           /\ Takes(t) <=> In(c, ip[t], t)
BY DEF Active, Running, Next1, Ahead, Goes, Places, Waits, Takes, In

\* A thread that takes no part changes nothing.
LEMMA PassByKeeps ==
    ASSUME NEW c, c = Code[kernel], Sound(c), Runs(c), NEW t \in Threads, PassBy(t)
    PROVE  Runs(c)'
<1> DEFINE k == ip[t]
<1>1. Len(c) \in Nat
  BY DEF Sound, SoundAt
<1>2. Goes(c, t, k) /\ ~In(c, k, t) /\ Next1(t) = c[k]
  BY <1>1, ActiveFacts DEF Runs, PassBy
<1>3. Places(c)' /\ Together(c)'
  BY <1>1, <1>2, GoesTogether DEF Runs
<1>4. UNCHANGED <<cells, loaded>>
  BY DEF PassBy
<1>5. k \in 1 .. Len(c) /\ \A a \in Arrays : ~Puts(c, k, a, t)
  BY <1>2 DEF Puts, Goes
<1>6. Stored(c)'
  BY <1>2, <1>4, <1>5, GoesStored DEF Runs
<1>7. ~(c[k].op \in {"atomic", "clear"} /\ t \in c[k].by)
  BY <1>2 DEF In
<1>8. Added(c)'
  <2>1. \A a \in Arrays : Summed(c, a) => cells'[a][0] = cells[a][0]
    BY <1>4
  <2> QED BY <1>2, <1>7, <2>1, GoesAdded DEF Runs
<1>9. Memory' /\ ReductionsExact'
  BY <1>4 DEF Runs, Memory, ReductionsExact
<1> QED BY <1>3, <1>6, <1>8, <1>9 DEF Runs

\* A read finds what it is to find.
LEMMA ReadFinds ==
    ASSUME NEW c, c = Code[kernel], Sound(c), Runs(c), NEW t \in Threads, Read(t)
    PROVE  loaded'[t].found = loaded'[t].wanted
<1> DEFINE k == ip[t]
           i == c[k]
<1>1. Len(c) \in Nat /\ Places(c) /\ Together(c) /\ Stored(c) /\ Added(c) /\ Memory
  BY DEF Sound, SoundAt, Runs
<1>2. /\ Goes(c, t, k) /\ Next1(t) = i /\ k \in 1 .. Len(c)
      /\ i.op \in {"first", "all"}
  <2>1. Goes(c, t, k) /\ Next1(t) = i
    BY <1>1, ActiveFacts DEF Read
  <2> QED BY <2>1 DEF Goes, Read
<1>3. i.array \in Arrays /\ ReadSound(c, k)
  BY <1>2 DEF Sound, SoundAt, WellFormed
<1>4. loaded'[t] =
        IF i.op = "first"
        THEN [found |-> cells[i.array][0], wanted |-> Shares(i.result, i.of)]
        ELSE [found |-> cells[i.array],
              wanted |-> [u \in Threads |-> Shares(i.result, {u})]]
  BY <1>1, <1>2 DEF Read, Memory
<1>5. 0 \in Threads /\ Leader \in Threads
  BY SomeThreads
<1>6. CASE i.op = "all"
  <2>1. ASSUME NEW u \in Threads
        PROVE  cells[i.array][u] = Shares(i.result, {u})
    <3>1. Settled(c, k, i.array, u, Shares(i.result, {u}))
      BY <1>3, <1>6 DEF ReadSound
    <3> QED BY <1>1, <1>3, <3>1, SettledHolds
  <2>2. cells[i.array] = [u \in Threads |-> cells[i.array][u]]
    BY <1>1, <1>3 DEF Memory
  <2>3. cells[i.array] = [u \in Threads |-> Shares(i.result, {u})]
    BY <2>1, <2>2
  <2> QED BY <1>4, <1>6, <2>3
<1>7. CASE i.op = "first" /\ ~Summed(c, i.array)
  <2>1. Settled(c, k, i.array, 0, Shares(i.result, i.of))
    BY <1>3, <1>7 DEF ReadSound
  <2>2. cells[i.array][0] = Shares(i.result, i.of)
    BY <1>1, <1>3, <1>5, <2>1, SettledHolds
  <2> QED BY <1>4, <1>7, <2>2
<1>8. CASE i.op = "first" /\ Summed(c, i.array)
  <2>1. PICK p \in 1 .. Len(c) : c[p].op = "atomic" /\ c[p].array = i.array
    BY <1>8 DEF Summed
  <2>2. PICK q \in 1 .. Len(c) : c[q].op = "clear" /\ c[q].array = c[p].array
    BY <1>1, <2>1, SumFact DEF SumSound
  <2>3. /\ q < p
        /\ i.of = Threads /\ i.result = c[p].result
        /\ k > p /\ \E b \in p + 1 .. k - 1 : Waits(c, b)
    <3>1. k # p /\ k # q /\ ~Waits(c, k)
      BY <1>8, <2>1, <2>2 DEF Waits
    <3>2. q < p
      BY <2>1, <2>2, OneClear
    <3>3. /\ i.of = Threads /\ i.result = c[p].result
          /\ k > p /\ \E b \in p + 1 .. k - 1 : Waits(c, b)
      BY <1>2, <2>1, <2>2, <3>1, OneClear
    <3> QED BY <3>2, <3>3
  <2>4. PICK b \in p + 1 .. k - 1 : Waits(c, b)
    BY <2>3
  <2>5. ASSUME NEW u \in Threads
        PROVE  ip[u] > p
    <3>1. ip[u] \in Nat
      BY <1>1 DEF Places
    <3>2. ip[u] <= b => b \in ip[u] .. k - 1
      BY <1>2, <2>4, <3>1
    <3>3. ip[u] > b
      BY <1>1, <1>2, <2>4, <3>1, <3>2 DEF Together
    <3> QED BY <1>2, <2>4, <3>1, <3>3
  <2>6. ip[Leader] > q
    <3>1. ip[Leader] \in Nat /\ ip[Leader] > p
      BY <1>1, <1>5, <2>5 DEF Places
    <3> QED BY <2>3, <3>1
  <2>7. {u \in Threads : ip[u] > p} = Threads
    BY <2>5
  <2>8. cells[i.array][0] = Shares(i.result, i.of)
    <3>1. cells[c[p].array][0] = Shares(c[p].result, {u \in Threads : ip[u] > p})
      BY <1>1, <2>1, <2>2, <2>6 DEF Added
    <3> QED BY <2>1, <2>3, <2>7, <3>1
  <2> QED BY <1>4, <1>8, <2>8
<1> QED BY <1>2, <1>6, <1>7, <1>8

\* And changes nothing else.
LEMMA ReadKeeps ==
    ASSUME NEW c, c = Code[kernel], Sound(c), Runs(c), NEW t \in Threads, Read(t)
    PROVE  Runs(c)'
<1> DEFINE k == ip[t]
<1>1. Len(c) \in Nat
  BY DEF Sound, SoundAt
<1>2. /\ Goes(c, t, k) /\ Next1(t) = c[k] /\ k \in 1 .. Len(c)
      /\ c[k].op \in {"first", "all"}
  <2>1. Goes(c, t, k) /\ Next1(t) = c[k]
    BY <1>1, ActiveFacts DEF Runs, Read
  <2> QED BY <2>1 DEF Goes, Read
<1>3. Places(c)' /\ Together(c)'
  BY <1>1, <1>2, GoesTogether DEF Runs
<1>4. UNCHANGED cells
  BY DEF Read
<1>5. \A a \in Arrays : ~Puts(c, k, a, t)
  BY <1>2 DEF Puts
<1>6. Stored(c)'
  BY <1>2, <1>4, <1>5, GoesStored DEF Runs
<1>7. Added(c)'
  <2>1. ~(c[k].op \in {"atomic", "clear"} /\ t \in c[k].by)
    BY <1>2
  <2>2. \A a \in Arrays : Summed(c, a) => cells'[a][0] = cells[a][0]
    BY <1>4
  <2> QED BY <1>2, <2>1, <2>2, GoesAdded DEF Runs
<1>8. /\ loaded' = [loaded EXCEPT ![t] = loaded'[t]]
      /\ loaded = [u \in Threads |-> loaded[u]]
  BY DEF Runs, Memory, Read
<1>9. Memory'
  <2>1. loaded' = [u \in Threads |-> loaded'[u]]
    BY <1>8
  <2> QED BY <1>4, <2>1 DEF Runs, Memory
<1>10. ReductionsExact'
  <2>1. loaded'[t].found = loaded'[t].wanted
    BY ReadFinds
  <2>2. ASSUME NEW u \in Threads, u # t
        PROVE  loaded'[u] = loaded[u]
    BY <1>8, <2>2
  <2> QED BY <2>1, <2>2 DEF Runs, ReductionsExact
<1> QED BY <1>3, <1>6, <1>7, <1>9, <1>10 DEF Runs

\* All threads are at a barrier, and go on behind it.
LEMMA SyncKeeps ==
    ASSUME NEW c, c = Code[kernel], Sound(c), Runs(c), Sync
    PROVE  Runs(c)'
<1> DEFINE k == ip[Leader]
<1>1. Len(c) \in Nat /\ Leader \in Threads
  BY SomeThreads DEF Sound, SoundAt
<1>2. /\ k \in 1 .. Len(c) /\ Waits(c, k)
      /\ \A t \in Threads : ip[t] = k /\ ip'[t] = k + 1
  BY <1>1 DEF Sync, Running, Next1, Waits, Runs, Places
<1>3. Places(c)'
  BY <1>1, <1>2 DEF Places, Sync
<1>4. Together(c)'
  BY <1>2 DEF Together
<1>5. UNCHANGED <<cells, loaded>>
  BY DEF Sync
<1>6. Memory' /\ ReductionsExact'
  BY <1>5 DEF Runs, Memory, ReductionsExact
<1>7. Stored(c)'
  <2> SUFFICES ASSUME NEW t \in Threads, NEW a \in Arrays, NEW j \in 1 .. ip'[t] - 1,
                      Puts(c, j, a, t),
                      \A m \in j + 1 .. ip'[t] - 1 : ~Puts(c, m, a, t)
               PROVE  cells'[a][t] = Left(c, j, t)
    BY DEF Stored, Puts, In, Left, Shares, Class
  <2>1. j # k
    BY <1>2 DEF Waits, Puts
  <2>2. j \in 1 .. ip[t] - 1 /\ \A m \in j + 1 .. ip[t] - 1 : m \in j + 1 .. ip'[t] - 1
    BY <1>2, <2>1
  <2> QED BY <1>5, <2>2 DEF Runs, Stored
<1>8. Added(c)'
  <2> SUFFICES ASSUME NEW p \in 1 .. Len(c), NEW q \in 1 .. Len(c),
                      c[p].op = "atomic", c[q].op = "clear", c[q].array = c[p].array,
                      ip'[Leader] > q
               PROVE  cells'[c[p].array][0]
                          = Shares(c[p].result, {u \in Threads : ip'[u] > p})
    BY DEF Added, Shares
  <2>1. k # p /\ k # q
    BY <1>2 DEF Waits
  <2>2. ip[Leader] > q
    BY <1>1, <1>2, <2>1
  <2>3. {u \in Threads : ip'[u] > p} = {u \in Threads : ip[u] > p}
    BY <1>2, <2>1
  <2> QED BY <1>5, <2>2, <2>3 DEF Runs, Added
<1> QED BY <1>3, <1>4, <1>6, <1>7, <1>8 DEF Runs

\* What a writing thread is at: it sets cell u of the array to v.
Sets(c, t, u, v) ==
    /\ Goes(c, t, ip[t]) /\ In(c, ip[t], t)
    /\ c[ip[t]].array \in Arrays
    /\ cells' = [cells EXCEPT ![c[ip[t]].array][u] = v]
    /\ UNCHANGED loaded

\* One cell is v, the others are as they were.
LEMMA SetsFacts ==
    ASSUME NEW c, Memory, NEW t \in Threads, NEW u \in Threads, NEW v, Sets(c, t, u, v)
    PROVE  /\ Memory'
           /\ cells'[c[ip[t]].array][u] = v
           /\ \A a \in Arrays, w \in Threads :
                 a # c[ip[t]].array \/ w # u => cells'[a][w] = cells[a][w]
<1> DEFINE x == c[ip[t]].array
<1>1. /\ x \in Arrays /\ cells' = [cells EXCEPT ![x][u] = v]
      /\ cells = [a \in Arrays |-> cells[a]]
      /\ \A a \in Arrays : cells[a] = [w \in Threads |-> cells[a][w]]
  BY DEF Sets, Memory
<1> HIDE DEF x
<1>2. cells' = [a \in Arrays |-> IF a = x THEN [cells[a] EXCEPT ![u] = v] ELSE cells[a]]
  BY <1>1
<1>3. ASSUME NEW a \in Arrays
      PROVE  cells'[a] = [w \in Threads |->
                             IF a = x /\ w = u THEN v ELSE cells[a][w]]
  <2>1. cells[a] = [w \in Threads |-> cells[a][w]]
    BY <1>1
  <2>2. CASE a = x
    <3>1. cells'[a] = [cells[a] EXCEPT ![u] = v]
      BY <1>2, <2>2
    <3> QED BY <2>1, <2>2, <3>1
  <2>3. CASE a # x
    <3>1. cells'[a] = cells[a]
      BY <1>2, <2>3
    <3> QED BY <2>1, <2>3, <3>1
  <2> QED BY <2>2, <2>3
<1>4. Memory'
  <2>1. cells' = [a \in Arrays |-> cells'[a]]
    BY <1>2
  <2>2. \A a \in Arrays : cells'[a] = [w \in Threads |-> cells'[a][w]]
    BY <1>3
  <2>3. loaded' = [w \in Threads |-> loaded'[w]]
    BY DEF Memory, Sets
  <2> QED BY <2>1, <2>2, <2>3 DEF Memory
<1> QED BY <1>1, <1>3, <1>4 DEF x

\* What does not depend on who is written to.
LEMMA SetsKeeps ==
    ASSUME NEW c, Sound(c), Runs(c), NEW t \in Threads, NEW u \in Threads, NEW v,
           Sets(c, t, u, v)
    PROVE  Places(c)' /\ Together(c)' /\ Memory' /\ ReductionsExact'
<1>1. Places(c)' /\ Together(c)'
  BY GoesTogether DEF Sets, Runs, Sound, SoundAt
<1>2. Memory'
  BY SetsFacts DEF Runs
<1>3. ReductionsExact'
  BY DEF Sets, Runs, ReductionsExact
<1> QED BY <1>1, <1>2, <1>3

\* A thread sets its own cell to what is to be left there.
LEMMA PutKeeps ==
    ASSUME NEW c, Sound(c), Runs(c), NEW t \in Threads, c[ip[t]].op \in {"own", "fold"},
           Sets(c, t, t, Left(c, ip[t], t))
    PROVE  Runs(c)'
<1> DEFINE k == ip[t]
           x == c[k].array
<1>1. Goes(c, t, k) /\ k \in 1 .. Len(c) /\ x \in Arrays /\ Places(c) /\ Memory
  BY DEF Sets, Goes, Runs
<1>2. Puts(c, k, x, t) /\ ~Summed(c, x)
  BY <1>1 DEF Puts, Sets, Sound, SoundAt
<1>3. /\ cells'[x][t] = Left(c, k, t)
      /\ \A a \in Arrays, w \in Threads :
            a # x \/ w # t => cells'[a][w] = cells[a][w]
  BY <1>1, SetsFacts
<1>4. Stored(c)'
  <2>1. ASSUME NEW a \in Arrays, NEW w \in Threads
        PROVE  \/ cells'[a][w] = cells[a][w] /\ ~(w = t /\ Puts(c, k, a, t))
               \/ w = t /\ Puts(c, k, a, t) /\ cells'[a][w] = Left(c, k, t)
    <3>1. Puts(c, k, a, t) => a = x
      BY DEF Puts
    <3> HIDE DEF x
    <3> QED BY <1>2, <1>3, <3>1
  <2> HIDE DEF k
  <2> QED BY <1>1, <2>1, GoesStored DEF Runs
<1>5. Added(c)'
  <2>1. ~(c[k].op \in {"atomic", "clear"} /\ t \in c[k].by)
    OBVIOUS
  <2>2. \A a \in Arrays : Summed(c, a) => cells'[a][0] = cells[a][0]
    <3>1. 0 \in Threads
      BY SomeThreads
    <3> HIDE DEF x
    <3> QED BY <1>2, <1>3, <3>1
  <2> QED BY <1>1, <2>1, <2>2, GoesAdded DEF Runs
<1> QED BY <1>4, <1>5, SetsKeeps DEF Runs

\* The array of a sum has no cells that threads set for themselves.
LEMMA SumStored ==
    ASSUME NEW c, Sound(c), Runs(c), NEW t \in Threads, NEW v, Sets(c, t, 0, v),
           c[ip[t]].op \in {"atomic", "clear"}
    PROVE  /\ Stored(c)'
           /\ Summed(c, c[ip[t]].array)
<1> DEFINE k == ip[t]
           x == c[k].array
<1>1. Goes(c, t, k) /\ k \in 1 .. Len(c) /\ x \in Arrays /\ Places(c) /\ Memory
  BY DEF Sets, Goes, Runs
<1>2. Summed(c, x)
  BY <1>1 DEF Sound, SoundAt, Summed
<1>3. \A a \in Arrays, w \in Threads : a # x \/ w # 0 => cells'[a][w] = cells[a][w]
  BY <1>1, SomeThreads, SetsFacts
<1>4. ASSUME NEW a \in Arrays, NEW w \in Threads
      PROVE  \/ cells'[a][w] = cells[a][w] /\ ~(w = t /\ Puts(c, k, a, t))
             \/ \A j \in 1 .. Len(c) : ~Puts(c, j, a, w)
  <2>1. CASE a = x
    <3>1. ASSUME NEW j \in 1 .. Len(c), Puts(c, j, a, w)
          PROVE  FALSE
      BY <1>2, <2>1, <3>1 DEF Sound, SoundAt, Puts
    <3> QED BY <3>1
  <2>2. CASE a # x
    <3>1. ~Puts(c, k, a, t)
      BY DEF Puts
    <3> HIDE DEF x
    <3> QED BY <1>3, <2>2, <3>1
  <2> QED BY <2>1, <2>2
<1>5. Stored(c)'
  <2> HIDE DEF k
  <2> QED BY <1>1, <1>4, GoesStored DEF Runs
<1> QED BY <1>2, <1>5

\* The leader clears a sum.
LEMMA ClearKeeps ==
    ASSUME NEW c, Sound(c), Runs(c), NEW t \in Threads, c[ip[t]].op = "clear",
           Sets(c, t, 0, EmptyBag)
    PROVE  Runs(c)'
<1> DEFINE k == ip[t]
           x == c[k].array
<1>1. Goes(c, t, k) /\ k \in 1 .. Len(c) /\ x \in Arrays /\ Places(c) /\ Memory
  BY DEF Sets, Goes, Runs
<1>2. t = Leader
  BY <1>1 DEF Sound, SoundAt, WellFormed, Sets, In
<1>3. /\ cells'[x][0] = EmptyBag
      /\ \A a \in Arrays, w \in Threads :
            a # x \/ w # 0 => cells'[a][w] = cells[a][w]
  BY <1>1, SomeThreads, SetsFacts
<1>4. Added(c)'
  <2> SUFFICES ASSUME NEW p \in 1 .. Len(c), NEW q \in 1 .. Len(c),
                      c[p].op = "atomic", c[q].op = "clear", c[q].array = c[p].array,
                      ip'[Leader] > q
               PROVE  cells'[c[p].array][0]
                          = Shares(c[p].result, {u \in Threads : ip'[u] > p})
    BY DEF Added, Shares
  <2>1. /\ \A u \in Threads : ip[u] \in Nat /\ ip'[u] = IF u = t THEN k + 1 ELSE ip[u]
        /\ ip[Leader] = k /\ ip'[Leader] = k + 1
    BY <1>1, <1>2, SomeThreads DEF Places, Goes
  <2>2. k # p /\ c[p].array \in Arrays /\ 0 \in Threads
    BY SumFact, SomeThreads
  <2>3. CASE c[p].array = x
    <3>1. q = k
      <4>1. ~Waits(c, k)
        BY DEF Waits
      <4>2. \A m \in (1 .. Len(c)) \ {p, q} :
               ~Waits(c, m) /\ c[m].array = c[p].array => c[m].op = "first"
        BY OneClear
      <4> QED BY <1>1, <2>2, <2>3, <4>1, <4>2
    <3>2. q < p /\ \E b \in q + 1 .. p - 1 : Waits(c, b)
      BY OneClear
    <3>3. PICK b \in k + 1 .. p - 1 : Waits(c, b)
      BY <3>1, <3>2
    <3>4. ASSUME NEW u \in Threads
          PROVE  ~(ip'[u] > p)
      <4>1. ip[u] > b => b \in ip[Leader] .. ip[u] - 1
        BY <1>1, <2>1, <3>3
      <4>2. ~(ip[u] > b)
        BY <3>3, <4>1, SomeThreads DEF Runs, Together
      <4> QED BY <1>1, <2>1, <3>3, <4>2
    <3>5. {u \in Threads : ip'[u] > p} = {}
      BY <3>4
    <3> HIDE DEF x
    <3> QED BY <1>3, <2>3, <3>5, NoShares
  <2>4. CASE c[p].array # x
    <3>1. k # q
      BY <2>4
    <3>2. ip[Leader] > q
      BY <2>1, <3>1
    <3>3. {u \in Threads : ip'[u] > p} = {u \in Threads : ip[u] > p}
      BY <1>1, <2>1, <2>2
    <3>4. cells[c[p].array][0] = Shares(c[p].result, {u \in Threads : ip[u] > p})
      BY <3>2 DEF Runs, Added
    <3> HIDE DEF x
    <3> QED BY <1>3, <2>2, <2>4, <3>3, <3>4
  <2> QED BY <2>3, <2>4
<1>5. Stored(c)'
  BY SumStored
<1> QED BY <1>4, <1>5, SetsKeeps, SomeThreads DEF Runs

\* A thread adds its share to a sum.
LEMMA AddKeeps ==
    ASSUME NEW c, Sound(c), Runs(c), NEW t \in Threads, c[ip[t]].op = "atomic",
           Sets(c, t, 0, cells[c[ip[t]].array][0] (+) Shares(c[ip[t]].result, {t}))
    PROVE  Runs(c)'
<1> DEFINE k == ip[t]
           x == c[k].array
           sum == cells[x][0] (+) Shares(c[k].result, {t})
<1>1. Goes(c, t, k) /\ k \in 1 .. Len(c) /\ x \in Arrays /\ Places(c) /\ Memory
  BY DEF Sets, Goes, Runs
<1>2. /\ cells'[x][0] = sum
      /\ \A a \in Arrays, w \in Threads :
            a # x \/ w # 0 => cells'[a][w] = cells[a][w]
  <2> HIDE DEF sum
  <2>1. Sets(c, t, 0, sum)
    BY DEF sum
  <2> QED BY <1>1, <2>1, SomeThreads, SetsFacts
<1>3. Added(c)'
  <2> SUFFICES ASSUME NEW p \in 1 .. Len(c), NEW q \in 1 .. Len(c),
                      c[p].op = "atomic", c[q].op = "clear", c[q].array = c[p].array,
                      ip'[Leader] > q
               PROVE  cells'[c[p].array][0]
                          = Shares(c[p].result, {u \in Threads : ip'[u] > p})
    BY DEF Added, Shares
  <2>1. /\ \A u \in Threads : ip[u] \in Nat /\ ip'[u] = IF u = t THEN k + 1 ELSE ip[u]
        /\ ip[t] = k /\ Leader \in Threads
    BY <1>1, SomeThreads DEF Places, Goes
  <2>2. k # q /\ c[p].array \in Arrays /\ 0 \in Threads
    BY SumFact, SomeThreads
  <2>3. CASE c[p].array = x
    <3>1. p = k
      <4>1. ~Waits(c, k)
        BY DEF Waits
      <4>2. \A m \in (1 .. Len(c)) \ {p, q} :
               ~Waits(c, m) /\ c[m].array = c[p].array => c[m].op = "first"
        BY OneClear
      <4> QED BY <1>1, <2>2, <2>3, <4>1, <4>2
    <3>2. PICK b \in q + 1 .. k - 1 : Waits(c, b)
      BY <3>1, OneClear
    <3>3. ip[Leader] > q
      <4>1. ip[Leader] <= b => b \in ip[Leader] .. ip[t] - 1
        BY <1>1, <2>1, <3>2
      <4>2. ip[Leader] > b
        BY <2>1, <3>2, <4>1 DEF Runs, Together
      <4> QED BY <2>1, <3>2, <4>2
    <3>4. cells[x][0] = Shares(c[k].result, {u \in Threads : ip[u] > k})
      BY <2>3, <3>1, <3>3 DEF Runs, Added
    <3>5. /\ {u \in Threads : ip[u] > k} \intersect {t} = {}
          /\ {u \in Threads : ip[u] > k} \union {t} = {u \in Threads : ip'[u] > p}
      BY <1>1, <2>1, <3>1
    <3>6. sum = Shares(c[k].result, {u \in Threads : ip'[u] > p})
      <4> DEFINE A == {u \in Threads : ip[u] > k}
                 B == {u \in Threads : ip'[u] > p}
      <4>1. A \intersect {t} = {} /\ A \union {t} = B
        BY <3>5
      <4>2. cells[x][0] = Shares(c[k].result, A)
        BY <3>4
      <4> HIDE DEF A, x
      <4>3. Shares(c[k].result, A) (+) Shares(c[k].result, {t})
                = Shares(c[k].result, A \union {t})
        BY <4>1, TwoShares
      <4> QED BY <4>1, <4>2, <4>3
    <3> HIDE DEF sum, x
    <3> QED BY <1>2, <2>3, <3>1, <3>6 DEF x
  <2>4. CASE c[p].array # x
    <3>1. k # p
      BY <2>4
    <3>2. ip[Leader] > q
      BY <2>1, <2>2
    <3>3. {u \in Threads : ip'[u] > p} = {u \in Threads : ip[u] > p}
      BY <1>1, <2>1, <3>1
    <3>4. cells[c[p].array][0] = Shares(c[p].result, {u \in Threads : ip[u] > p})
      BY <3>2 DEF Runs, Added
    <3> HIDE DEF x
    <3> QED BY <1>2, <2>2, <2>4, <3>3, <3>4
  <2> QED BY <2>3, <2>4
<1>4. Stored(c)'
  <2> HIDE DEF sum
  <2>1. Sets(c, t, 0, sum)
    BY DEF sum
  <2> QED BY <2>1, SumStored
<1>5. Places(c)' /\ Together(c)' /\ Memory' /\ ReductionsExact'
  <2> HIDE DEF sum
  <2>1. Sets(c, t, 0, sum) /\ 0 \in Threads
    BY SomeThreads DEF sum
  <2> QED BY <2>1, SetsKeeps
<1> QED BY <1>3, <1>4, <1>5 DEF Runs

\* A write is one of these.
LEMMA WriteKeeps ==
    ASSUME NEW c, c = Code[kernel], Sound(c), Runs(c), NEW t \in Threads, Write(t)
    PROVE  Runs(c)'
<1> DEFINE k == ip[t]
           i == c[k]
           x == i.array
           share == Shares(i.result, {t})
<1>1. /\ Goes(c, t, k) /\ Next1(t) = i /\ In(c, k, t)
      /\ k \in 1 .. Len(c) /\ UNCHANGED loaded
  <2>1. Len(c) \in Nat /\ Places(c)
    BY DEF Sound, SoundAt, Runs
  <2>2. Goes(c, t, k) /\ Next1(t) = i /\ In(c, k, t)
    BY <2>1, ActiveFacts DEF Write
  <2> QED BY <2>2 DEF Goes, Write
<1>2. ~Waits(c, k) /\ WellFormed(i) /\ i.op # "barrier" /\ x \in Arrays
  BY <1>1 DEF Goes, Waits, Sound, SoundAt, WellFormed
<1>3. ASSUME NEW u, NEW v, SetCell(t, u, v)
      PROVE  Sets(c, t, u, v)
  BY <1>1, <1>2, <1>3 DEF Sets, SetCell
<1>4. CASE i.op = "own" /\ SetCell(t, t, share)
  <2>1. share = Left(c, k, t)
    BY <1>4 DEF Left
  <2>2. Sets(c, t, t, Left(c, k, t))
    BY <1>3, <1>4, <2>1
  <2> QED BY <1>4, <2>2, PutKeeps
<1>5. CASE i.op = "clear" /\ SetCell(t, 0, EmptyBag)
  BY <1>3, <1>5, ClearKeeps
<1>6. CASE i.op = "atomic" /\ SetCell(t, 0, cells[x][0] (+) share)
  BY <1>3, <1>6, AddKeeps
<1>7. CASE i.op = "fold" /\ SetCell(t, t, cells[x][t] (+) cells[x][t + i.half])
  <2> DEFINE s == i.half
  <2>1. t < s /\ s \in Nat \ {0} /\ t \in Nat
    <3>1. t < s /\ s \in Nat
      BY <1>1, <1>2, <1>7 DEF In, WellFormed
    <3>2. t \in Nat
      BY SomeThreads
    <3> HIDE DEF s
    <3> QED BY <3>1, <3>2
  <2>2. /\ t + s \in Threads
        /\ Kept(c, k, x, t, Shares(i.result, Class(t, 2 * s)))
        /\ Settled(c, k, x, t + s, Shares(i.result, Class(t + s, 2 * s)))
    BY <1>1, <1>7, <2>1 DEF Sound, SoundAt, FoldSound
  <2>3. cells[x][t] = Shares(i.result, Class(t, 2 * s))
    BY <1>2, <2>2, KeptHolds DEF Runs
  <2>4. cells[x][t + s] = Shares(i.result, Class(t + s, 2 * s))
    <3> DEFINE u == t + s
               v == Shares(i.result, Class(t + s, 2 * s))
    <3>1. u \in Threads /\ Settled(c, k, x, u, v)
      BY <2>2
    <3>2. Len(c) \in Nat /\ Places(c) /\ Together(c) /\ Stored(c)
      BY DEF Sound, SoundAt, Runs
    <3> HIDE DEF u, v
    <3>3. cells[x][u] = v
      BY <1>2, <3>1, <3>2, SettledHolds
    <3> QED BY <3>3 DEF u, v
  <2>5. cells[x][t] (+) cells[x][t + s] = Left(c, k, t)
    <3> DEFINE A == Class(t, 2 * s)
               B == Class(t + s, 2 * s)
               C == Class(t, s)
    <3>1. A \intersect B = {} /\ A \union B = C
      BY <2>1, ClassOfTwo
    <3>2. Left(c, k, t) = Shares(i.result, C)
      BY <1>7 DEF Left
    <3>3. cells[x][t] = Shares(i.result, A) /\ cells[x][t + s] = Shares(i.result, B)
      BY <2>3, <2>4
    <3> HIDE DEF A, B, C
    <3>4. Shares(i.result, A) (+) Shares(i.result, B) = Shares(i.result, A \union B)
      BY <3>1, TwoShares
    <3> QED BY <3>1, <3>2, <3>3, <3>4
  <2>6. Sets(c, t, t, Left(c, k, t))
    BY <1>3, <1>7, <2>5
  <2> QED BY <1>7, <2>6, PutKeeps
<1> QED BY <1>1, <1>4, <1>5, <1>6, <1>7 DEF Write

-----------------------------------------------------------------------------
(***************************************************************************)
(* What sound code gives.                                                  *)
(***************************************************************************)
\* What a thread writes next no other one touches.
LEMMA SoundIsRaceFree ==
    ASSUME NEW c, c = Code[kernel], Sound(c), Runs(c)
    PROVE  RaceFree
<1> SUFFICES ASSUME NEW t \in Threads, NEW u \in Threads, t # u,
                    Written1(t) \intersect Touched(u) # {},
                    Next1(t).array = Next1(u).array
             PROVE  Next1(t).op = "atomic" /\ Next1(u).op = "atomic"
  BY DEF RaceFree
<1> DEFINE k == ip[t]
           n == ip[u]
           x == c[k].array
<1>1. /\ Active(t) /\ Takes(t) /\ Active(u) /\ Takes(u)
      /\ Next1(t).op \in {"own", "fold", "clear", "atomic"}
  BY DEF Written1, Touched
<1>2. /\ Len(c) \in Nat /\ Leader \in Threads /\ Threads \subseteq Nat
      /\ \A w \in Threads : ip[w] \in 1 .. Len(c) + 1
  BY SomeThreads DEF Sound, SoundAt, Runs, Places
<1>3. /\ k \in 1 .. Len(c) /\ Next1(t) = c[k] /\ In(c, k, t) /\ ~Waits(c, k)
      /\ n \in 1 .. Len(c) /\ Next1(u) = c[n] /\ In(c, n, u) /\ ~Waits(c, n)
  BY <1>1, <1>2 DEF Active, Running, Next1, Takes, In, Waits
<1>4. ASSUME NEW b \in Nat, Waits(c, b)
      PROVE  ~(k <= b /\ b < n) /\ ~(n <= b /\ b < k)
  BY <1>2, <1>3, <1>4 DEF Runs, Together
<1>5. WellFormed(c[k]) /\ WellFormed(c[n]) /\ c[n].array = x /\ x \in Arrays
  BY <1>3 DEF Sound, SoundAt, WellFormed, Waits
<1>6. ASSUME NEW p \in 1 .. Len(c), c[p].op = "atomic", c[p].array = x,
             NEW q \in 1 .. Len(c), c[q].op = "clear", c[q].array = x
      PROVE  c[k].op = "atomic" /\ c[n].op = "atomic"
  <2>1. /\ q < p /\ \E b \in q + 1 .. p - 1 : Waits(c, b)
        /\ \A m \in (1 .. Len(c)) \ {p, q} :
              ~Waits(c, m) /\ c[m].array = c[p].array =>
                  /\ c[m].op = "first"
                  /\ m > p /\ \E b \in p + 1 .. m - 1 : Waits(c, b)
    <3>1. c[q].array = c[p].array
      BY <1>6
    <3> HIDE DEF x
    <3> QED BY <1>6, <3>1, OneClear
  <2>2. PICK b \in q + 1 .. p - 1 : Waits(c, b)
    BY <2>1
  <2>3. k \in {p, q}
    BY <1>1, <1>3, <1>6, <2>1
  <2>4. CASE n \notin {p, q}
    <3>1. n > p /\ \E d \in p + 1 .. n - 1 : Waits(c, d)
      BY <1>3, <1>5, <1>6, <2>1, <2>4
    <3>2. PICK d \in p + 1 .. n - 1 : Waits(c, d)
      BY <3>1
    <3>3. d \in Nat /\ k <= d /\ d < n
      BY <1>3, <2>1, <2>3, <3>2
    <3> QED BY <1>4, <3>2, <3>3
  <2>5. CASE n \in {p, q}
    <3>1. n = k
      BY <1>4, <2>1, <2>2, <2>3, <2>5
    <3>2. n # q
      <4>1. n = q => u = Leader /\ t = Leader
        BY <1>3, <1>5, <1>6, <3>1 DEF In, WellFormed
      <4> QED BY <4>1
    <3> QED BY <1>6, <2>5, <3>1, <3>2
  <2> QED BY <2>4, <2>5
<1>7. CASE c[k].op \in {"clear", "atomic"}
  <2>1. PICK p \in 1 .. Len(c) : c[p].op = "atomic" /\ c[p].array = x
    BY <1>3, <1>7 DEF Sound, SoundAt, Summed
  <2>2. PICK q \in 1 .. Len(c) : c[q].op = "clear" /\ c[q].array = x
    <3>1. SumSound(c, p)
      BY <2>1, SumFact
    <3>2. PICK q \in 1 .. p - 1 : c[q].op = "clear" /\ c[q].array = c[p].array
      BY <3>1 DEF SumSound
    <3>3. q \in 1 .. Len(c)
      BY <1>2, <3>2
    <3> QED BY <2>1, <3>2, <3>3
  <2> QED BY <1>3, <1>6, <2>1, <2>2
<1>8. CASE c[k].op \in {"own", "fold"}
  <2>1. Written1(t) = {t} /\ Puts(c, k, x, t) /\ ~Summed(c, x)
    BY <1>1, <1>3, <1>8 DEF Written1, Puts, Sound, SoundAt
  <2>2. t \in Touched(u)
    BY <2>1
  <2>3. c[n].op \notin {"atomic", "clear"}
    BY <1>3, <1>5, <2>1 DEF Sound, SoundAt, Summed
  <2>4. \E v : Settled(c, n, x, t, v)
    <3>1. CASE c[n].op = "first"
      <4>1. t = 0
        BY <1>1, <1>3, <2>2, <3>1 DEF Touched
      <4>2. Settled(c, n, x, 0, Shares(c[n].result, c[n].of))
        BY <1>3, <1>5, <2>1, <3>1 DEF Sound, SoundAt, ReadSound
      <4> QED BY <4>1, <4>2
    <3>2. CASE c[n].op = "all"
      BY <1>3, <1>5, <3>2 DEF Sound, SoundAt, ReadSound
    <3>3. CASE c[n].op = "fold"
      <4>1. t = u + c[n].half
        BY <1>1, <1>3, <2>2, <3>3 DEF Touched
      <4>2. Settled(c, n, x, u + c[n].half,
                    Shares(c[n].result, Class(u + c[n].half, 2 * c[n].half)))
        BY <1>3, <1>5, <3>3 DEF Sound, SoundAt, FoldSound, In
      <4> QED BY <4>1, <4>2
    <3>4. CASE c[n].op = "own"
      BY <1>1, <1>3, <2>2, <3>4 DEF Touched, Written1
    <3>5. c[n].op \in {"own", "first", "all", "fold"}
      BY <1>3, <1>5, <2>3 DEF WellFormed, Waits
    <3> QED BY <3>1, <3>2, <3>3, <3>4, <3>5
  <2>5. PICK v : Settled(c, n, x, t, v)
    BY <2>4
  <2>6. PICK j \in 1 .. n - 1 :
          /\ \E b \in j + 1 .. n - 1 : Waits(c, b)
          /\ \A m \in j + 1 .. Len(c) : Puts(c, m, x, t) =>
                m > n /\ \E b \in n .. m - 1 : Waits(c, b)
    BY <2>5 DEF Settled
  <2>7. PICK b \in j + 1 .. n - 1 : Waits(c, b)
    BY <2>6
  <2>8. k > b
    BY <1>3, <1>4, <2>7
  <2>9. k \in j + 1 .. Len(c)
    BY <1>3, <2>7, <2>8
  <2>10. PICK d \in n .. k - 1 : Waits(c, d)
    BY <2>1, <2>6, <2>9
  <2> QED BY <1>3, <1>4, <2>10
<1> QED BY <1>1, <1>3, <1>7, <1>8

\* Nothing is stored, added or read at first.
LEMMA BlockStarts ==
    ASSUME BlockInit, Sound(Code[kernel])
    PROVE  BlockInv
<1> DEFINE c == Code[kernel]
<1>1. Len(c) \in Nat /\ 0 \in Threads /\ Leader \in Threads
  BY SomeThreads DEF Sound, SoundAt
<1>2. \A t \in Threads : ip[t] = 1
  BY DEF BlockInit
<1>3. Places(c)
  BY <1>1 DEF BlockInit, Places
<1>4. Memory
  BY DEF BlockInit, Memory
<1> HIDE DEF c
<1>5. Together(c) /\ Stored(c)
  BY <1>2 DEF Together, Stored
<1>6. Added(c)
  BY <1>1, <1>2 DEF Added
<1>7. ReductionsExact
  BY DEF BlockInit, ReductionsExact
<1> QED BY <1>3, <1>4, <1>5, <1>6, <1>7 DEF BlockInit, BlockInv, Runs, c

\* A block that runs sound code keeps the invariant.
LEMMA BlockKeeps ==
    ASSUME BlockInv, Sound(Code[kernel]), [BlockNext]_blockVars
    PROVE  BlockInv'
<1> DEFINE c == Code[kernel]
<1>1. Sound(c) /\ Runs(c)
  BY DEF BlockInv
<1>2. kernel' = kernel
  BY DEF BlockNext, Sync, Write, Read, PassBy, blockVars
<1> SUFFICES Runs(c)'
  BY <1>2 DEF BlockInv
<1>3. Runs(c)'
  <2> SUFFICES ASSUME NEW d, d = c
               PROVE  Runs(d)'
    BY <1>2 DEF Runs, Places, Together, Stored, Added, Puts, In, Left, Waits
  <2>1. d = Code[kernel] /\ Sound(d) /\ Runs(d)
    BY <1>1
  <2>2. CASE Sync
    BY <2>1, <2>2, SyncKeeps
  <2>3. ASSUME NEW t \in Threads, Write(t) \/ Read(t) \/ PassBy(t)
        PROVE  Runs(d)'
    BY <2>1, <2>3, WriteKeeps, ReadKeeps, PassByKeeps
  <2>4. CASE UNCHANGED blockVars
    <3>1. cells' = cells /\ ip' = ip /\ loaded' = loaded
      BY <2>4 DEF blockVars
    <3>2. Places(d)' /\ Memory' /\ ReductionsExact'
      BY <2>1, <3>1 DEF Runs, Places, Memory, ReductionsExact
    <3>3. Together(d)' /\ Stored(d)' /\ Added(d)'
      BY <2>1, <3>1 DEF Runs, Together, Stored, Added
    <3> QED BY <3>2, <3>3 DEF Runs
  <2> QED BY <2>2, <2>3, <2>4 DEF BlockNext
<1> QED BY <1>3

-----------------------------------------------------------------------------
(***************************************************************************)
(* The kernels are sound.                                                  *)
(***************************************************************************)
Rounds == Len(Strides)

\* A code without sums is sound at k.
PlainAt(c, k) ==
    /\ WellFormed(c[k])
    /\ c[k].op \notin {"atomic", "clear"}
    /\ c[k].op = "fold" => FoldSound(c, k)
    /\ ReadSound(c, k)

\* All of it.
LEMMA PlainIsSound ==
    ASSUME NEW c, Len(c) \in Nat, \A k \in 1 .. Len(c) : PlainAt(c, k)
    PROVE  Sound(c)
<1>1. \A a : ~Summed(c, a)
  BY DEF Summed, PlainAt
<1> QED BY <1>1 DEF Sound, SoundAt, PlainAt

\* What the instructions are.
LEMMA Instructions ==
    /\ \A a \in Arrays : \A r : WellFormed(Own(a, r)) /\ Own(a, r).op = "own"
          /\ Own(a, r).array = a /\ Own(a, r).result = r /\ Own(a, r).by = Threads
    /\ \A a \in Arrays : \A r : WellFormed(First(a, r)) /\ First(a, r).op = "first"
          /\ First(a, r).array = a /\ First(a, r).result = r /\ First(a, r).of = Threads
    /\ \A a \in Arrays : \A r : WellFormed(All(a, r)) /\ All(a, r).op = "all"
          /\ All(a, r).array = a /\ All(a, r).result = r
    /\ WellFormed(Barrier) /\ Barrier.op = "barrier"
    /\ \A a \in Arrays : \A r : \A s \in Nat : WellFormed(Fold(a, r, s))
          /\ Fold(a, r, s).op = "fold" /\ Fold(a, r, s).array = a
          /\ Fold(a, r, s).result = r /\ Fold(a, r, s).by = Threads
          /\ Fold(a, r, s).half = s
BY DEF WellFormed, Own, First, All, Barrier, Fold, Instr

\* A barrier, and a thread's own share, are sound wherever they stand.
LEMMA SimplyPlain ==
    ASSUME NEW c, NEW k,
           \/ c[k] = Barrier
           \/ \E a \in Arrays : \E r : c[k] = Own(a, r)
    PROVE  PlainAt(c, k)
BY Instructions DEF PlainAt, ReadSound

\* A share in array a, a barrier, and the rounds of a tree, from o on.
TreeAt(c, o, a, r) ==
    /\ c[o + 1] = Own(a, r)
    /\ c[o + 2] = Barrier
    /\ \A i \in 1 .. Rounds :
          /\ c[(o + 1) + 2 * i] = Fold(a, r, Strides[i])
          /\ c[(o + 2) + 2 * i] = Barrier

\* A tree is that.
LEMMA TreeIs ==
    ASSUME NEW a, NEW r
    PROVE  /\ IsSeq(Tree(a, r), 2 * Rounds)
           /\ \A i \in 1 .. Rounds :
                 /\ Tree(a, r)[2 * i - 1] = Fold(a, r, Strides[i])
                 /\ Tree(a, r)[2 * i] = Barrier
<1>1. Rounds \in Nat
  BY SomeThreads DEF Rounds
<1>2. IsSeq(Tree(a, r), 2 * Rounds)
  BY DEF IsSeq, Tree, Rounds
<1>3. ASSUME NEW i \in 1 .. Rounds
      PROVE  /\ Tree(a, r)[2 * i - 1] = Fold(a, r, Strides[i])
             /\ Tree(a, r)[2 * i] = Barrier
  <2>1. /\ 2 * i - 1 \in 1 .. 2 * Rounds /\ (2 * i - 1) % 2 = 1
        /\ ((2 * i - 1) + 1) \div 2 = i
        /\ 2 * i \in 1 .. 2 * Rounds /\ (2 * i) % 2 # 1
    BY <1>1
  <2> QED BY <2>1 DEF Tree, Rounds
<1> QED BY <1>2, <1>3

\* The positions of one.
LEMMA TreePositions ==
    ASSUME NEW o \in Nat, NEW m \in o + 1 .. (o + 2) + 2 * Rounds
    PROVE  \/ m = o + 1 \/ m = o + 2
           \/ \E i \in 1 .. Rounds : m = (o + 1) + 2 * i \/ m = (o + 2) + 2 * i
<1>1. Rounds \in Nat
  BY SomeThreads DEF Rounds
<1> DEFINE d == m - o
           i == (d - 1) \div 2
<1>2. CASE d > 2
  <2>1. d \in 3 .. 2 + 2 * Rounds
    BY <1>1, <1>2
  <2> HIDE DEF d
  <2>2. i \in 1 .. Rounds /\ (d = 1 + 2 * i \/ d = 2 + 2 * i)
    BY <1>1, <2>1
  <2>3. i \in 1 .. Rounds /\ (m = (o + 1) + 2 * i \/ m = (o + 2) + 2 * i)
    <3> HIDE DEF i
    <3> QED BY <1>1, <2>1, <2>2 DEF d
  <2> QED BY <2>3
<1>3. CASE d <= 2
  BY <1>1, <1>3
<1> QED BY <1>1, <1>2, <1>3

\* It has no other array.
LEMMA TreeArray ==
    ASSUME NEW c, NEW o \in Nat, NEW a \in Arrays, NEW r, TreeAt(c, o, a, r),
           NEW m \in o + 1 .. (o + 2) + 2 * Rounds
    PROVE  Waits(c, m) \/ c[m].array = a
<1>1. \A i \in 1 .. Rounds : Strides[i] \in Nat
  BY SomeThreads DEF Rounds
<1>2. CASE m = o + 1
  <2>1. c[m].array = a
    BY <1>2, Instructions DEF TreeAt
  <2> QED BY <2>1
<1>3. CASE m = o + 2
  <2>1. Waits(c, m)
    BY <1>3, Instructions DEF TreeAt, Waits
  <2> QED BY <2>1
<1>4. ASSUME NEW i \in 1 .. Rounds, m = (o + 1) + 2 * i
      PROVE  c[m].array = a
  BY <1>1, <1>4, Instructions DEF TreeAt
<1>5. ASSUME NEW i \in 1 .. Rounds, m = (o + 2) + 2 * i
      PROVE  Waits(c, m)
  BY <1>5, Instructions DEF TreeAt, Waits
<1> QED BY <1>2, <1>3, <1>4, <1>5, TreePositions

\* Every fold finds what the one before, or the shares, left there.
LEMMA FoldIsSound ==
    ASSUME NEW c, Len(c) \in Nat, NEW o \in Nat, NEW a \in Arrays, NEW r,
           TreeAt(c, o, a, r), (o + 2) + 2 * Rounds <= Len(c), NEW i \in 1 .. Rounds
    PROVE  FoldSound(c, (o + 1) + 2 * i)
<1> DEFINE k == (o + 1) + 2 * i
           s == Strides[i]
           j == k - 2
<1>1. /\ Rounds \in Nat /\ s \in Nat \ {0} /\ 2 * s <= NumThreads
      /\ NumThreads \in Nat /\ Threads = 0 .. NumThreads - 1
  BY SomeThreads, StrideFits DEF Rounds, Threads
<1>2. /\ c[k].op = "fold" /\ c[k].array = a /\ c[k].result = r
      /\ c[k].by = Threads /\ c[k].half = s
  <2>1. c[k] = Fold(a, r, s)
    BY DEF TreeAt
  <2> HIDE DEF k, s
  <2> QED BY <1>1, <2>1, Instructions
<1>3. Waits(c, k - 1) /\ Waits(c, k + 1)
  <2>1. k + 1 = (o + 2) + 2 * i
    OBVIOUS
  <2>2. CASE i = 1
    BY <2>1, <2>2, Instructions DEF TreeAt, Waits
  <2>3. CASE i # 1
    <3>1. i - 1 \in 1 .. Rounds /\ (o + 2) + 2 * (i - 1) = k - 1
      BY <1>1, <2>3
    <3> QED BY <2>1, <3>1, Instructions DEF TreeAt, Waits
  <2> QED BY <2>2, <2>3
<1>4. ASSUME NEW t \in Threads, t < 2 * s
      PROVE  Puts(c, j, a, t) /\ Left(c, j, t) = Shares(r, Class(t, 2 * s))
  <2>1. CASE i = 1
    <3>1. j = o + 1 /\ 2 * s = NumThreads
      BY <1>1, <2>1 DEF NumThreads
    <3>2. c[j] = Own(a, r)
      BY <3>1 DEF TreeAt
    <3>3. Puts(c, j, a, t) /\ Left(c, j, t) = Shares(r, {t})
      BY <3>2, Instructions DEF Puts, In, Left
    <3>4. Class(t, 2 * s) = {t}
      BY <3>1, ClassOfOne
    <3> QED BY <3>3, <3>4
  <2>2. CASE i # 1
    <3>1. i - 1 \in 1 .. Rounds /\ (o + 1) + 2 * (i - 1) = j
      BY <1>1, <2>2
    <3>2. Strides[i - 1] = 2 * s
      <4>1. i - 1 \in 1 .. Len(Strides) - 1 /\ (i - 1) + 1 = i
        BY <1>1, <3>1 DEF Rounds
      <4> QED BY <4>1, BlockAssumption
    <3>3. c[j] = Fold(a, r, 2 * s) /\ 2 * s \in Nat
      <4>1. c[(o + 1) + 2 * (i - 1)] = Fold(a, r, Strides[i - 1])
        BY <3>1 DEF TreeAt
      <4> HIDE DEF j, s
      <4> QED BY <1>1, <3>1, <3>2, <4>1
    <3> DEFINE w == 2 * s
    <3>4. /\ c[j].op = "fold" /\ c[j].array = a /\ c[j].result = r
          /\ c[j].by = Threads /\ c[j].half = w
      BY <3>3, Instructions
    <3> HIDE DEF w
    <3>5. t < w
      BY <1>4 DEF w
    <3>6. Puts(c, j, a, t) /\ Left(c, j, t) = Shares(r, Class(t, w))
      BY <3>4, <3>5 DEF Puts, In, Left
    <3> QED BY <3>6 DEF w
  <2> QED BY <2>1, <2>2
<1>5. /\ k \in 1 .. Len(c) /\ j \in 1 .. k - 1 /\ k - 1 \in j + 1 .. k - 1
      /\ \A m \in j + 1 .. k - 1 : m = k - 1
  BY <1>1
<1>6. \A t : ~Puts(c, k - 1, a, t) /\ ~Puts(c, k + 1, a, t)
  BY <1>3 DEF Puts, Waits
<1> SUFFICES ASSUME NEW t \in Threads, t < s
             PROVE  /\ t + s \in Threads
                    /\ Kept(c, k, a, t, Shares(r, Class(t, 2 * s)))
                    /\ Settled(c, k, a, t + s, Shares(r, Class(t + s, 2 * s)))
  BY <1>2 DEF FoldSound
<1>7. t + s \in Threads /\ t < 2 * s /\ t + s < 2 * s /\ ~(t + s < s)
  BY <1>1
<1>8. Kept(c, k, a, t, Shares(r, Class(t, 2 * s)))
  <2> HIDE DEF k, j, s
  <2> QED BY <1>4, <1>5, <1>6, <1>7 DEF Kept
<1>9. Settled(c, k, a, t + s, Shares(r, Class(t + s, 2 * s)))
  <2> DEFINE u == t + s
  <2>1. u \in Threads /\ Puts(c, j, a, u) /\ Left(c, j, u) = Shares(r, Class(u, 2 * s))
    BY <1>4, <1>7
  <2>2. ~Puts(c, k, a, u)
    BY <1>2, <1>7 DEF Puts, In
  <2>3. k \in Nat /\ j = k - 2
    OBVIOUS
  <2> HIDE DEF u, k, j
  <2>4. ASSUME NEW m \in j + 1 .. Len(c), Puts(c, m, a, u)
        PROVE  m > k /\ k + 1 \in k .. m - 1
    <3>1. m # k /\ m # k - 1 /\ m # k + 1
      BY <1>6, <2>2, <2>4
    <3> QED BY <2>3, <3>1
  <2>5. Settled(c, k, a, u, Shares(r, Class(u, 2 * s)))
    BY <1>3, <1>5, <2>1, <2>4 DEF Settled
  <2> QED BY <2>5 DEF u
<1> QED BY <1>7, <1>8, <1>9

\* So a tree is sound,
LEMMA TreePlain ==
    ASSUME NEW c, Len(c) \in Nat, NEW o \in Nat, NEW a \in Arrays, NEW r,
           TreeAt(c, o, a, r), (o + 2) + 2 * Rounds <= Len(c),
           NEW m \in o + 1 .. (o + 2) + 2 * Rounds
    PROVE  PlainAt(c, m)
<1>1. \A i \in 1 .. Rounds : Strides[i] \in Nat
  BY SomeThreads DEF Rounds
<1>2. CASE m = o + 1 \/ m = o + 2
  BY <1>2, SimplyPlain DEF TreeAt
<1>3. ASSUME NEW i \in 1 .. Rounds, m = (o + 1) + 2 * i
      PROVE  PlainAt(c, m)
  <2>1. c[m] = Fold(a, r, Strides[i])
    BY <1>3 DEF TreeAt
  <2>2. FoldSound(c, m)
    BY <1>3, FoldIsSound
  <2> QED BY <1>1, <2>1, <2>2, Instructions DEF PlainAt, ReadSound
<1>4. ASSUME NEW i \in 1 .. Rounds, m = (o + 2) + 2 * i
      PROVE  PlainAt(c, m)
  BY <1>4, SimplyPlain DEF TreeAt
<1> QED BY <1>2, <1>3, <1>4, TreePositions

\* and so is reading its result behind it, before the array is used again.
LEMMA ResultPlain ==
    ASSUME NEW c, Len(c) \in Nat, NEW o \in Nat, NEW a \in Arrays, NEW r,
           TreeAt(c, o, a, r),
           NEW f \in (o + 3) + 2 * Rounds .. Len(c), c[f] = First(a, r),
           \A m \in (o + 3) + 2 * Rounds .. f : ~Puts(c, m, a, 0),
           \A m \in f + 1 .. Len(c) : Puts(c, m, a, 0) => \E b \in f .. m - 1 : Waits(c, b)
    PROVE  PlainAt(c, f)
<1> DEFINE j == (o + 1) + 2 * Rounds
<1>1. /\ Rounds \in 1 .. Rounds /\ Rounds \in Nat /\ Strides[Rounds] = 1
      /\ 0 \in Threads
  BY SomeThreads, BlockAssumption DEF Rounds
<1>2. c[j] = Fold(a, r, 1) /\ c[j + 1] = Barrier
  <2>1. (o + 2) + 2 * Rounds = j + 1
    BY <1>1
  <2> QED BY <1>1, <2>1 DEF TreeAt
<1>3. Puts(c, j, a, 0) /\ Left(c, j, 0) = Shares(r, Threads) /\ Waits(c, j + 1)
  BY <1>1, <1>2, Instructions, ClassOfAll DEF Puts, In, Left, Waits
<1>4. j \in 1 .. f - 1 /\ j + 1 \in j + 1 .. f - 1 /\ j \in Nat
      /\ (o + 3) + 2 * Rounds = j + 2
  BY <1>1
<1> HIDE DEF j
<1>5. ASSUME NEW m \in j + 1 .. Len(c), Puts(c, m, a, 0)
      PROVE  m > f /\ \E b \in f .. m - 1 : Waits(c, b)
  <2>1. m # j + 1
    BY <1>3, <1>5 DEF Puts, Waits
  <2>2. m \notin j + 2 .. f
    BY <1>4, <1>5
  <2>3. m \in f + 1 .. Len(c)
    BY <1>4, <2>1, <2>2
  <2> QED BY <1>5, <2>3
<1>6. Settled(c, f, a, 0, Shares(r, Threads))
  BY <1>3, <1>4, <1>5 DEF Settled
<1> QED BY <1>6, Instructions DEF PlainAt, ReadSound

\* A thread's share that is not written again is settled behind a barrier.
LEMMA ShareSettled ==
    ASSUME NEW c, NEW j \in Nat \ {0}, NEW b \in Nat, NEW k \in Nat, j < b, b < k,
           NEW a \in Arrays, NEW r, c[j] = Own(a, r), Waits(c, b), NEW t \in Threads,
           \A m \in j + 1 .. Len(c) : ~Puts(c, m, a, t)
    PROVE  Settled(c, k, a, t, Shares(r, {t}))
<1>1. Puts(c, j, a, t) /\ Left(c, j, t) = Shares(r, {t})
  BY Instructions DEF Puts, In, Left
<1>2. j \in 1 .. k - 1 /\ b \in j + 1 .. k - 1
  OBVIOUS
<1> QED BY <1>1, <1>2 DEF Settled

\* Behind two elements, a tree and a read of its result.
LEMMA HeadIs ==
    ASSUME NEW a, NEW r
    PROVE  LET h == <<Own(a, r), Barrier>> \o Tree(a, r)
           IN  IsSeq(h, 2 + 2 * Rounds) /\ TreeAt(h, 0, a, r)
<1> DEFINE p == <<Own(a, r), Barrier>>
           t == Tree(a, r)
           n == 2 * Rounds
           h == p \o t
<1>1. Rounds \in Nat /\ n \in Nat
  BY SomeThreads DEF Rounds
<1>2. IsSeq(p, 2) /\ p[1] = Own(a, r) /\ p[2] = Barrier
  BY DEF IsSeq
<1>3. IsSeq(t, n)
  BY TreeIs
<1>4. \A i \in 1 .. Rounds : t[2 * i - 1] = Fold(a, r, Strides[i]) /\ t[2 * i] = Barrier
  BY TreeIs
<1> HIDE DEF p, t, n
<1>5. IsSeq(h, 2 + n) /\ Behind(h, 0, p, 2) /\ Behind(h, 2, t, n)
  BY <1>1, <1>2, <1>3, ConcatIs
<1> HIDE DEF h
<1>6. h[0 + 1] = Own(a, r) /\ h[0 + 2] = Barrier
  BY <1>2, <1>5 DEF Behind
<1>7. ASSUME NEW i \in 1 .. Rounds
      PROVE  /\ h[(0 + 1) + 2 * i] = Fold(a, r, Strides[i])
             /\ h[(0 + 2) + 2 * i] = Barrier
  <2>1. /\ 2 * i - 1 \in 1 .. n /\ 2 * i \in 1 .. n
        /\ 2 + (2 * i - 1) = (0 + 1) + 2 * i /\ 2 + 2 * i = (0 + 2) + 2 * i
    BY <1>1 DEF n
  <2>2. h[2 + (2 * i - 1)] = t[2 * i - 1] /\ h[2 + 2 * i] = t[2 * i]
    BY <1>5, <2>1 DEF Behind
  <2> QED BY <1>4, <2>1, <2>2
<1>8. TreeAt(h, 0, a, r)
  BY <1>6, <1>7 DEF TreeAt
<1> QED BY <1>5, <1>8 DEF h, p, t, n

\* A tree that is a part of a code.
LEMMA TreeMoved ==
    ASSUME NEW a, NEW r, NEW s, TreeAt(s, 0, a, r), NEW c, NEW o \in Nat, NEW n \in Nat,
           2 + 2 * Rounds <= n, Behind(c, o, s, n)
    PROVE  TreeAt(c, o, a, r)
<1>1. Rounds \in Nat
  BY SomeThreads DEF Rounds
<1>2. c[o + 1] = Own(a, r) /\ c[o + 2] = Barrier
  BY <1>1 DEF Behind, TreeAt
<1>3. ASSUME NEW i \in 1 .. Rounds
      PROVE  /\ c[(o + 1) + 2 * i] = Fold(a, r, Strides[i])
             /\ c[(o + 2) + 2 * i] = Barrier
  <2>1. /\ (0 + 1) + 2 * i \in 1 .. n /\ (0 + 2) + 2 * i \in 1 .. n
        /\ o + ((0 + 1) + 2 * i) = (o + 1) + 2 * i
        /\ o + ((0 + 2) + 2 * i) = (o + 2) + 2 * i
    BY <1>1
  <2>2. /\ c[o + ((0 + 1) + 2 * i)] = s[(0 + 1) + 2 * i]
        /\ c[o + ((0 + 2) + 2 * i)] = s[(0 + 2) + 2 * i]
    BY <2>1 DEF Behind
  <2> QED BY <2>1, <2>2 DEF TreeAt
<1> QED BY <1>2, <1>3 DEF TreeAt

\* A reduction is a tree and a read.
LEMMA ReduceIs ==
    ASSUME NEW a, NEW r
    PROVE  /\ IsSeq(Reduce(a, r), 3 + 2 * Rounds)
           /\ TreeAt(Reduce(a, r), 0, a, r)
           /\ Reduce(a, r)[3 + 2 * Rounds] = First(a, r)
<1> DEFINE h == <<Own(a, r), Barrier>> \o Tree(a, r)
           f == <<First(a, r)>>
           n == 2 + 2 * Rounds
           s == h \o f
<1>1. n \in Nat /\ n + 1 = 3 + 2 * Rounds
  BY SomeThreads DEF Rounds
<1>2. IsSeq(h, n) /\ TreeAt(h, 0, a, r)
  BY HeadIs
<1>3. IsSeq(f, 1) /\ f[1] = First(a, r)
  BY DEF IsSeq
<1>4. s = Reduce(a, r)
  BY DEF Reduce
<1> HIDE DEF h, f, n
<1>5. IsSeq(s, n + 1) /\ Behind(s, 0, h, n) /\ Behind(s, n, f, 1)
  BY <1>1, <1>2, <1>3, ConcatIs
<1> HIDE DEF s
<1>6. TreeAt(s, 0, a, r)
  BY <1>1, <1>2, <1>5, TreeMoved DEF n
<1>7. s[n + 1] = First(a, r)
  BY <1>3, <1>5 DEF Behind
<1> QED BY <1>1, <1>4, <1>5, <1>6, <1>7

\* A reduction that is a part of a code.
LEMMA ReduceMoved ==
    ASSUME NEW a, NEW r, NEW c, NEW o \in Nat, Behind(c, o, Reduce(a, r), 3 + 2 * Rounds)
    PROVE  TreeAt(c, o, a, r) /\ c[(o + 3) + 2 * Rounds] = First(a, r)
<1> DEFINE s == Reduce(a, r)
           n == 3 + 2 * Rounds
<1>1. n \in Nat /\ 2 + 2 * Rounds <= n /\ n \in 1 .. n /\ o + n = (o + 3) + 2 * Rounds
  BY SomeThreads DEF Rounds
<1>2. TreeAt(s, 0, a, r) /\ s[n] = First(a, r) /\ Behind(c, o, s, n)
  BY ReduceIs
<1> HIDE DEF s, n
<1>3. TreeAt(c, o, a, r)
  BY <1>1, <1>2, TreeMoved
<1>4. c[o + n] = s[n]
  BY <1>1, <1>2 DEF Behind
<1> QED BY <1>1, <1>2, <1>3, <1>4

\* One reduction.
LEMMA ReduceSound == Sound(Reduce("red", 1))
<1> DEFINE c == Reduce("red", 1)
           n == 3 + 2 * Rounds
<1>1. n \in Nat /\ Rounds \in Nat /\ n = (0 + 3) + 2 * Rounds /\ "red" \in Arrays
  BY SomeThreads DEF Rounds, Arrays
<1>2. IsSeq(c, n) /\ TreeAt(c, 0, "red", 1) /\ c[n] = First("red", 1)
  BY ReduceIs
<1> HIDE DEF c, n
<1>3. Len(c) = n
  BY <1>1, <1>2, SeqIs
<1>4. \A m \in 1 .. (0 + 2) + 2 * Rounds : PlainAt(c, m)
  BY <1>1, <1>2, <1>3, TreePlain
<1>5. PlainAt(c, n)
  <2>1. ~Puts(c, n, "red", 0)
    BY <1>1, <1>2, Instructions DEF Puts
  <2> QED BY <1>1, <1>2, <1>3, <2>1, ResultPlain
<1>6. \A k \in 1 .. n : k \in 1 .. (0 + 2) + 2 * Rounds \/ k = n
  BY <1>1
<1> QED BY <1>1, <1>3, <1>4, <1>5, <1>6, PlainIsSound DEF c

\* One with a barrier more before its result is read.
LEMMA RmsNormSound == Sound(RmsNorm)
<1> DEFINE h == <<Own("red", 1), Barrier>> \o Tree("red", 1)
           f == <<Barrier, First("red", 1)>>
           e == 2 + 2 * Rounds
           c == h \o f
<1>1. e \in Nat /\ Rounds \in Nat /\ "red" \in Arrays
      /\ e = (0 + 2) + 2 * Rounds /\ e + 1 = (0 + 3) + 2 * Rounds
  BY SomeThreads DEF Rounds, Arrays
<1>2. IsSeq(h, e) /\ TreeAt(h, 0, "red", 1)
  BY HeadIs
<1>3. IsSeq(f, 2) /\ f[1] = Barrier /\ f[2] = First("red", 1)
  BY DEF IsSeq
<1>4. c = RmsNorm
  BY DEF RmsNorm
<1> HIDE DEF h, f, e
<1>5. IsSeq(c, e + 2) /\ Behind(c, 0, h, e) /\ Behind(c, e, f, 2)
  BY <1>1, <1>2, <1>3, ConcatIs
<1> HIDE DEF c
<1>6. Len(c) = e + 2
  <2> DEFINE l == e + 2
  <2>1. l \in Nat /\ IsSeq(c, l)
    BY <1>1, <1>5
  <2> HIDE DEF l
  <2>2. Len(c) = l
    BY <2>1, SeqIs
  <2> QED BY <2>2 DEF l
<1>7. TreeAt(c, 0, "red", 1)
  BY <1>1, <1>2, <1>5, TreeMoved DEF e
<1>8. c[e + 1] = Barrier /\ c[e + 2] = First("red", 1)
  BY <1>3, <1>5 DEF Behind
<1>9. \A m \in 1 .. e : PlainAt(c, m)
  BY <1>1, <1>6, <1>7, TreePlain
<1>10. PlainAt(c, e + 1)
  BY <1>8, SimplyPlain
<1>11. PlainAt(c, e + 2)
  <2>1. ~Puts(c, e + 1, "red", 0) /\ ~Puts(c, e + 2, "red", 0)
    BY <1>1, <1>8, Instructions DEF Puts
  <2>2. e + 2 \in (0 + 3) + 2 * Rounds .. Len(c)
        /\ \A m \in (0 + 3) + 2 * Rounds .. e + 2 : m = e + 1 \/ m = e + 2
    BY <1>1, <1>6
  <2>3. \A m \in (e + 2) + 1 .. Len(c) : FALSE
    BY <1>1, <1>6
  <2> DEFINE g == e + 2
  <2>4. /\ g \in (0 + 3) + 2 * Rounds .. Len(c) /\ c[g] = First("red", 1)
        /\ \A m \in (0 + 3) + 2 * Rounds .. g : ~Puts(c, m, "red", 0)
        /\ \A m \in g + 1 .. Len(c) : FALSE
    BY <1>8, <2>1, <2>2, <2>3
  <2>5. Len(c) \in Nat
    BY <1>1, <1>6
  <2> HIDE DEF g
  <2>6. PlainAt(c, g)
    BY <1>1, <1>7, <2>4, <2>5, ResultPlain
  <2> QED BY <2>6 DEF g
<1>12. \A k \in 1 .. Len(c) : k \in 1 .. e \/ k = e + 1 \/ k = e + 2
  BY <1>1, <1>6
<1>13. Len(c) \in Nat
  BY <1>1, <1>6
<1> QED BY <1>4, <1>9, <1>10, <1>11, <1>12, <1>13, PlainIsSound

\* The leader selects from what all have stored.
LEMMA QsaTopKSound == Sound(QsaTopK)
<1> DEFINE c == QsaTopK
<1>1. /\ Len(c) = 3 /\ "scores" \in Arrays
      /\ c[1] = Own("scores", 1) /\ c[2] = Barrier /\ c[3] = ByLeader(All("scores", 1))
  BY DEF QsaTopK, Arrays
<1>2. /\ c[3].op = "all" /\ c[3].array = "scores" /\ c[3].result = 1
      /\ WellFormed(c[3])
  BY <1>1, SomeThreads DEF ByLeader, All, Instr, WellFormed
<1> HIDE DEF c
<1>3. PlainAt(c, 1) /\ PlainAt(c, 2)
  BY <1>1, SimplyPlain
<1>4. Waits(c, 2) /\ \A m \in 1 + 1 .. Len(c) : \A t : ~Puts(c, m, "scores", t)
  <2>1. \A m \in 1 + 1 .. Len(c) : m = 2 \/ m = 3
    BY <1>1
  <2>2. Waits(c, 2)
    BY <1>1, Instructions DEF Waits
  <2> QED BY <1>2, <2>1, <2>2 DEF Puts, Waits
<1>5. \A t \in Threads : Settled(c, 3, "scores", t, Shares(1, {t}))
  <2>1. ASSUME NEW t \in Threads, NEW j \in Nat \ {0}, NEW b \in Nat, NEW k \in Nat,
               j = 1, b = 2, k = 3
        PROVE  Settled(c, k, "scores", t, Shares(1, {t}))
    <3>1. j < b /\ b < k /\ c[j] = Own("scores", 1) /\ Waits(c, b)
          /\ \A m \in j + 1 .. Len(c) : ~Puts(c, m, "scores", t)
      BY <1>1, <1>4, <2>1
    <3> QED BY <1>1, <3>1, ShareSettled
  <2> QED BY <2>1
<1>6. PlainAt(c, 3)
  BY <1>2, <1>5 DEF PlainAt, ReadSound
<1>7. \A k \in 1 .. Len(c) : k = 1 \/ k = 2 \/ k = 3
  BY <1>1
<1>8. Len(c) \in Nat
  BY <1>1
<1> QED BY <1>3, <1>6, <1>7, <1>8, PlainIsSound DEF c

\* The router: a maximum of the leader, a sum of all, a selection.
LEMMA MoeRouterSound == Sound(MoeRouter)
<1> DEFINE c == MoeRouter
<1>1. /\ Len(c) = 11
      /\ c[1] = ByLeader(Own("max", 1)) /\ c[2] = ByLeader(Clear("sum"))
      /\ c[3] = Barrier /\ c[4] = OfLeader(First("max", 1))
      /\ c[5] = Own("scores", 2) /\ c[6] = Atomic("sum", 3)
      /\ c[7] = Barrier /\ c[8] = First("sum", 3) /\ c[9] = Own("scores", 4)
      /\ c[10] = Barrier /\ c[11] = ByLeader(All("scores", 4))
  BY DEF MoeRouter
<1> HIDE DEF c
<1>2. Leader \in Threads /\ 0 \in Threads /\ Leader = 0
  BY SomeThreads DEF Leader
<1>3. /\ c[1].op = "own" /\ c[1].array = "max" /\ c[1].result = 1 /\ c[1].by = {Leader}
      /\ c[2].op = "clear" /\ c[2].array = "sum" /\ c[2].by = {Leader}
      /\ c[4].op = "first" /\ c[4].array = "max" /\ c[4].result = 1 /\ c[4].of = {Leader}
      /\ c[6].op = "atomic" /\ c[6].array = "sum" /\ c[6].result = 3 /\ c[6].by = Threads
      /\ c[11].op = "all" /\ c[11].array = "scores" /\ c[11].result = 4
  BY <1>1 DEF ByLeader, OfLeader, Own, Clear, First, Atomic, All, Instr
<1>4. WellFormed(c[1]) /\ WellFormed(c[2]) /\ WellFormed(c[4]) /\ WellFormed(c[6])
      /\ WellFormed(c[11])
  BY <1>1, <1>2 DEF ByLeader, OfLeader, Own, Clear, First, Atomic, All, Instr,
     WellFormed, Arrays
<1>5. /\ "scores" \in Arrays /\ "sum" \in Arrays
      /\ c[5].op = "own" /\ c[5].array = "scores" /\ WellFormed(c[5])
      /\ c[9].op = "own" /\ c[9].array = "scores" /\ WellFormed(c[9])
      /\ c[8].op = "first" /\ c[8].array = "sum" /\ c[8].result = 3
      /\ c[8].of = Threads /\ WellFormed(c[8])
      /\ Waits(c, 3) /\ Waits(c, 7) /\ Waits(c, 10)
      /\ c[3].op = "barrier" /\ c[7].op = "barrier" /\ c[10].op = "barrier"
      /\ WellFormed(Barrier)
  <2>1. "scores" \in Arrays /\ "sum" \in Arrays
    BY DEF Arrays
  <2> QED BY <1>1, <2>1, Instructions DEF Waits
<1>6. \A m \in 1 .. Len(c) : m \in {1, 2, 3, 4, 5, 6, 7, 8, 9, 10, 11}
  BY <1>1
<1>7. ASSUME NEW a
      PROVE  Summed(c, a) <=> a = "sum"
  <2>1. \A p \in 1 .. Len(c) : c[p].op = "atomic" => p = 6
    BY <1>3, <1>5, <1>6
  <2>2. 6 \in 1 .. Len(c)
    BY <1>1
  <2> QED BY <1>3, <2>1, <2>2 DEF Summed
<1>8. Settled(c, 4, "max", 0, Shares(1, {Leader}))
  <2>1. Puts(c, 1, "max", 0) /\ Left(c, 1, 0) = Shares(1, {Leader})
    BY <1>2, <1>3 DEF Puts, In, Left
  <2>2. ASSUME NEW m \in 1 + 1 .. Len(c)
        PROVE  ~Puts(c, m, "max", 0)
    <3>1. m \in {2, 3, 4, 5, 6, 7, 8, 9, 10, 11}
      BY <1>1
    <3> QED BY <1>3, <1>5, <3>1 DEF Puts
  <2>3. 1 \in 1 .. 4 - 1 /\ 3 \in 1 + 1 .. 4 - 1
    OBVIOUS
  <2> QED BY <1>5, <2>1, <2>2, <2>3 DEF Settled
<1>9. ASSUME NEW t \in Threads
      PROVE  Settled(c, 11, "scores", t, Shares(4, {t}))
  <2>1. c[9].by = Threads /\ c[9].result = 4
    BY <1>1, <1>5, Instructions
  <2>2. Puts(c, 9, "scores", t) /\ Left(c, 9, t) = Shares(4, {t})
    BY <1>5, <2>1 DEF Puts, In, Left
  <2>3. ASSUME NEW m \in 9 + 1 .. Len(c)
        PROVE  ~Puts(c, m, "scores", t)
    <3>1. m \in {10, 11}
      BY <1>1
    <3> QED BY <1>3, <1>5, <3>1 DEF Puts
  <2>4. 9 \in 1 .. 11 - 1 /\ 10 \in 9 + 1 .. 11 - 1
    OBVIOUS
  <2> QED BY <1>5, <2>2, <2>3, <2>4 DEF Settled
<1>10. SumSound(c, 6)
  <2>1. ASSUME NEW m \in (1 .. Len(c)) \ {6, 2}, ~Waits(c, m), c[m].array = "sum"
        PROVE  m = 8
    <3>1. m \in {1, 3, 4, 5, 7, 8, 9, 10, 11}
      BY <1>6
    <3> QED BY <1>3, <1>5, <2>1, <3>1
  <2>2. 2 \in 1 .. 6 - 1 /\ 3 \in 2 + 1 .. 6 - 1 /\ 7 \in 6 + 1 .. 8 - 1
    OBVIOUS
  <2>3. c[8].op = "first" /\ c[8].of = Threads /\ c[8].result = c[6].result /\ 8 > 6
    BY <1>3, <1>5
  <2>4. \A m \in (1 .. Len(c)) \ {6, 2} :
           ~Waits(c, m) /\ c[m].array = c[6].array =>
               /\ c[m].op = "first" /\ c[m].of = Threads /\ c[m].result = c[6].result
               /\ m > 6 /\ \E b \in 6 + 1 .. m - 1 : Waits(c, b)
    BY <1>3, <1>5, <2>1, <2>2, <2>3
  <2>5. c[2].op = "clear" /\ c[2].array = c[6].array /\ Waits(c, 3)
    BY <1>3, <1>5
  <2> HIDE DEF c
  <2> QED BY <2>2, <2>4, <2>5 DEF SumSound
<1>11. SoundAt(c, 1) /\ SoundAt(c, 2)
  BY <1>3, <1>4, <1>7 DEF SoundAt, ReadSound
<1>12. SoundAt(c, 3) /\ SoundAt(c, 7) /\ SoundAt(c, 10)
  BY <1>1, <1>5 DEF SoundAt, ReadSound
<1>13. SoundAt(c, 4)
  BY <1>3, <1>4, <1>8 DEF SoundAt, ReadSound
<1>14. SoundAt(c, 5) /\ SoundAt(c, 9)
  BY <1>5, <1>7 DEF SoundAt, ReadSound
<1>15. SoundAt(c, 6)
  BY <1>3, <1>4, <1>10 DEF SoundAt, ReadSound
<1>16. SoundAt(c, 8)
  BY <1>5, <1>7 DEF SoundAt, ReadSound
<1>17. SoundAt(c, 11)
  BY <1>3, <1>4, <1>7, <1>9 DEF SoundAt, ReadSound
<1>18. Len(c) \in Nat
  BY <1>1
<1> QED BY <1>6, <1>11, <1>12, <1>13, <1>14, <1>15, <1>16, <1>17, <1>18 DEF Sound, c

\* A reduction and a barrier.
LEMMA AgainIs ==
    ASSUME NEW r
    PROVE  /\ IsSeq(Again(r), 4 + 2 * Rounds)
           /\ Behind(Again(r), 0, Reduce("red", r), 3 + 2 * Rounds)
           /\ Again(r)[4 + 2 * Rounds] = Barrier
<1> DEFINE s == Reduce("red", r)
           n == 3 + 2 * Rounds
           f == <<Barrier>>
           c == s \o f
<1>1. n \in Nat /\ n + 1 = 4 + 2 * Rounds
  BY SomeThreads DEF Rounds
<1>2. IsSeq(s, n)
  BY ReduceIs
<1>3. IsSeq(f, 1) /\ f[1] = Barrier
  BY DEF IsSeq
<1>4. c = Again(r)
  BY DEF Again
<1> HIDE DEF s, n, f
<1>5. IsSeq(c, n + 1) /\ Behind(c, 0, s, n) /\ Behind(c, n, f, 1)
  BY <1>1, <1>2, <1>3, ConcatIs
<1> HIDE DEF c
<1>6. c[n + 1] = Barrier
  BY <1>3, <1>5 DEF Behind
<1> QED BY <1>1, <1>4, <1>5, <1>6 DEF s, n

\* What is behind something in a part is so in the whole.
LEMMA BehindMoved ==
    ASSUME NEW c, NEW o \in Nat, NEW s, NEW n \in Nat, Behind(c, o, s, n),
           NEW p \in Nat, NEW t, NEW m \in Nat, Behind(s, p, t, m), p + m <= n
    PROVE  Behind(c, o + p, t, m)
<1> SUFFICES ASSUME NEW i \in 1 .. m
             PROVE  c[(o + p) + i] = t[i]
  BY DEF Behind
<1>1. s[p + i] = t[i]
  BY DEF Behind
<1>2. p + i \in 1 .. n /\ o + (p + i) = (o + p) + i
  OBVIOUS
<1>3. c[o + (p + i)] = s[p + i]
  BY <1>2 DEF Behind
<1> QED BY <1>1, <1>2, <1>3

\* Two reductions with the same array, a barrier between them.
LEMMA TwiceSound == Sound(Again(1) \o Again(2))
<1> DEFINE u == Again(1)
           v == Again(2)
           n == 4 + 2 * Rounds
           l == 3 + 2 * Rounds
           N == n + n
           c == u \o v
<1>1. /\ Rounds \in Nat /\ n \in Nat /\ l \in Nat /\ N \in Nat /\ n = l + 1 /\ 0 + l <= n
      /\ "red" \in Arrays
      /\ l = (0 + 3) + 2 * Rounds /\ l - 1 = (0 + 2) + 2 * Rounds
      /\ n + l = (n + 3) + 2 * Rounds /\ n + (l - 1) = (n + 2) + 2 * Rounds
      /\ N = (n + l) + 1
  BY SomeThreads DEF Rounds, Arrays
<1>2. /\ IsSeq(u, n) /\ Behind(u, 0, Reduce("red", 1), l) /\ u[n] = Barrier
      /\ IsSeq(v, n) /\ Behind(v, 0, Reduce("red", 2), l) /\ v[n] = Barrier
  BY AgainIs
<1> HIDE DEF u, v, n
<1>3. IsSeq(c, n + n) /\ Behind(c, 0, u, n) /\ Behind(c, n, v, n)
  BY <1>1, <1>2, ConcatIs
<1> HIDE DEF c, N
<1>4. Len(c) = N
  BY <1>1, <1>3, SeqIs DEF N
<1>5. /\ Behind(c, 0 + 0, Reduce("red", 1), l)
      /\ Behind(c, n + 0, Reduce("red", 2), l)
  <2> HIDE DEF l
  <2>1. 0 \in Nat
    OBVIOUS
  <2>2. Behind(c, 0 + 0, Reduce("red", 1), l)
    BY <1>1, <1>2, <1>3, <2>1, BehindMoved
  <2>3. Behind(c, n + 0, Reduce("red", 2), l)
    BY <1>1, <1>2, <1>3, <2>1, BehindMoved
  <2> QED BY <2>2, <2>3
<1>6. /\ TreeAt(c, 0, "red", 1) /\ c[(0 + 3) + 2 * Rounds] = First("red", 1)
      /\ TreeAt(c, n, "red", 2) /\ c[(n + 3) + 2 * Rounds] = First("red", 2)
  <2>1. 0 + 0 = 0 /\ n + 0 = n
    BY <1>1
  <2> QED BY <1>1, <1>5, <2>1, ReduceMoved
<1>7. c[n] = Barrier /\ c[N] = Barrier
  <2>1. n \in 1 .. n /\ 0 + n = n
    BY <1>1
  <2> QED BY <1>2, <1>3, <2>1 DEF Behind, N
<1> HIDE DEF l
<1>8. \A m \in 0 + 1 .. l - 1 : PlainAt(c, m)
  <2>1. (0 + 2) + 2 * Rounds <= Len(c)
    BY <1>1, <1>4
  <2> QED BY <1>1, <1>4, <1>6, <2>1, TreePlain
<1>9. \A m \in n + 1 .. n + (l - 1) : PlainAt(c, m)
  <2>1. (n + 2) + 2 * Rounds <= Len(c)
    BY <1>1, <1>4
  <2> QED BY <1>1, <1>4, <1>6, <2>1, TreePlain
<1>10. PlainAt(c, n) /\ PlainAt(c, N)
  BY <1>7, SimplyPlain
<1>11. ASSUME NEW m, NEW b
       PROVE  /\ c[m] = Barrier => Waits(c, m) /\ ~Puts(c, m, "red", 0)
              /\ c[m] = First("red", b) => ~Puts(c, m, "red", 0)
  BY <1>1, Instructions DEF Waits, Puts
<1>12. PlainAt(c, l)
  <2>1. l \in (0 + 3) + 2 * Rounds .. Len(c) /\ c[l] = First("red", 1)
    BY <1>1, <1>4, <1>6
  <2>2. \A m \in (0 + 3) + 2 * Rounds .. l : ~Puts(c, m, "red", 0)
    <3>1. \A m \in (0 + 3) + 2 * Rounds .. l : m = l
      BY <1>1
    <3> QED BY <1>11, <2>1, <3>1
  <2>3. ASSUME NEW m \in l + 1 .. Len(c), Puts(c, m, "red", 0)
        PROVE  \E b \in l .. m - 1 : Waits(c, b)
    <3>1. m # n /\ Waits(c, n)
      BY <1>7, <1>11, <2>3
    <3>2. n \in l .. m - 1
      BY <1>1, <1>4, <3>1
    <3> QED BY <3>1, <3>2
  <2>4. Len(c) \in Nat /\ 0 \in Nat
    BY <1>1, <1>4
  <2> QED BY <1>1, <1>6, <2>1, <2>2, <2>3, <2>4, ResultPlain
<1>13. PlainAt(c, n + l)
  <2> DEFINE f == n + l
  <2>1. f \in (n + 3) + 2 * Rounds .. Len(c) /\ c[f] = First("red", 2)
    BY <1>1, <1>4, <1>6
  <2>2. \A m \in (n + 3) + 2 * Rounds .. f : ~Puts(c, m, "red", 0)
    <3>1. \A m \in (n + 3) + 2 * Rounds .. f : m = f
      BY <1>1
    <3> QED BY <1>11, <2>1, <3>1
  <2>3. ASSUME NEW m \in f + 1 .. Len(c), Puts(c, m, "red", 0)
        PROVE  \E b \in f .. m - 1 : Waits(c, b)
    <3>1. m = N
      BY <1>1, <1>4
    <3> QED BY <1>7, <1>11, <2>3, <3>1
  <2>4. Len(c) \in Nat
    BY <1>1, <1>4
  <2> HIDE DEF f
  <2>5. PlainAt(c, f)
    BY <1>1, <1>6, <2>1, <2>2, <2>3, <2>4, ResultPlain
  <2> QED BY <2>5 DEF f
<1>14. \A k \in 1 .. Len(c) :
          \/ k \in 0 + 1 .. l - 1 \/ k = l \/ k = n
          \/ k \in n + 1 .. n + (l - 1) \/ k = n + l \/ k = N
  BY <1>1, <1>4
<1>15. Len(c) \in Nat
  BY <1>1, <1>4
<1> QED BY <1>8, <1>9, <1>10, <1>12, <1>13, <1>14, <1>15, PlainIsSound DEF c, u, v

\* Two reductions in two arrays, and two arrays of shares that all read.
LEMMA SparseSound == Sound(SparseAttention)
<1> DEFINE A == <<Own("valid", 1), Own("scores", 2)>>
           R == Reduce("red", 3)
           B == <<Own("scores", 4)>>
           S == Reduce("sred", 5)
           D == <<All("valid", 1), All("scores", 4)>>
           l == 3 + 2 * Rounds
           b == (2 + l) + 1
           d == b + l
           N == d + 2
           u == A \o R
           v == u \o B
           w == v \o S
           c == w \o D
<1>1. /\ Rounds \in Nat /\ l \in Nat /\ 2 + l \in Nat /\ b \in Nat /\ d \in Nat /\ N \in Nat
      /\ l >= 3 /\ b = l + 3 /\ d = b + l
      /\ 2 + l = (2 + 3) + 2 * Rounds /\ (2 + l) - 1 = (2 + 2) + 2 * Rounds
      /\ d = (b + 3) + 2 * Rounds /\ d - 1 = (b + 2) + 2 * Rounds
  BY SomeThreads DEF Rounds
<1>2. c = SparseAttention
  BY DEF SparseAttention
<1>3. /\ IsSeq(A, 2) /\ A[1] = Own("valid", 1) /\ A[2] = Own("scores", 2)
      /\ IsSeq(B, 1) /\ B[1] = Own("scores", 4)
      /\ IsSeq(D, 2) /\ D[1] = All("valid", 1) /\ D[2] = All("scores", 4)
  BY DEF IsSeq
<1>4. IsSeq(R, l) /\ IsSeq(S, l)
  BY ReduceIs
<1> HIDE DEF A, B, D
<1> DEFINE k == 2 + l
<1>5. /\ IsSeq(u, k) /\ Behind(u, 0, A, 2) /\ Behind(u, 2, R, l)
      /\ IsSeq(v, b) /\ Behind(v, 0, u, k) /\ Behind(v, k, B, 1)
      /\ IsSeq(w, d) /\ Behind(w, 0, v, b) /\ Behind(w, b, S, l)
      /\ IsSeq(c, N) /\ Behind(c, 0, w, d) /\ Behind(c, d, D, 2)
  <2> HIDE DEF R, S, l
  <2>1. IsSeq(u, 2 + l) /\ Behind(u, 0, A, 2) /\ Behind(u, 2, R, l)
    BY <1>1, <1>3, <1>4, ConcatIs
  <2> HIDE DEF u
  <2>2. IsSeq(v, k + 1) /\ Behind(v, 0, u, k) /\ Behind(v, k, B, 1)
    <3>1. k \in Nat /\ IsSeq(u, k)
      BY <1>1, <2>1
    <3> HIDE DEF k
    <3> QED BY <1>3, <3>1, ConcatIs
  <2> HIDE DEF v
  <2>3. IsSeq(w, b + l) /\ Behind(w, 0, v, b) /\ Behind(w, b, S, l)
    <3>1. b \in Nat /\ IsSeq(v, b)
      BY <1>1, <2>2
    <3> HIDE DEF b
    <3> QED BY <1>1, <1>4, <3>1, ConcatIs
  <2> HIDE DEF w
  <2>4. IsSeq(c, d + 2) /\ Behind(c, 0, w, d) /\ Behind(c, d, D, 2)
    <3>1. d \in Nat /\ IsSeq(w, d)
      BY <1>1, <2>3
    <3> HIDE DEF d
    <3> QED BY <1>3, <3>1, ConcatIs
  <2> QED BY <2>1, <2>2, <2>3, <2>4
<1> HIDE DEF u, v, w, c
<1>6. Len(c) = N
  <2> HIDE DEF N
  <2> QED BY <1>1, <1>5, SeqIs
<1>7. /\ c[1] = Own("valid", 1) /\ c[2] = Own("scores", 2) /\ c[b] = Own("scores", 4)
      /\ c[d + 1] = All("valid", 1) /\ c[d + 2] = All("scores", 4)
  <2>1. /\ \A i \in 1 .. 2 : c[0 + i] = w[0 + i] /\ w[0 + i] = v[0 + i]
              /\ v[0 + i] = u[0 + i] /\ u[0 + i] = A[i]
    <3>1. \A i \in 1 .. 2 : i \in 1 .. d /\ i \in 1 .. b /\ i \in 1 .. k /\ 0 + i = i
      BY <1>1
    <3> HIDE DEF k, b, d
    <3> QED BY <1>5, <3>1 DEF Behind
  <2>2. c[b] = B[1]
    <3>1. b \in 1 .. d /\ b \in 1 .. b /\ 0 + b = b /\ b = k + 1 /\ 1 \in 1 .. 1
      BY <1>1
    <3> HIDE DEF k, b, d
    <3> QED BY <1>5, <3>1 DEF Behind
  <2>3. \A i \in 1 .. 2 : c[d + i] = D[i]
    BY <1>5 DEF Behind
  <2> QED BY <1>3, <2>1, <2>2, <2>3
<1>8. /\ TreeAt(c, 2, "red", 3) /\ c[k] = First("red", 3)
      /\ TreeAt(c, b, "sred", 5) /\ c[d] = First("sred", 5)
  <2>1. /\ 2 + l <= k /\ k + 1 = b /\ 0 + k <= b /\ 0 + b <= d /\ b + l <= d
        /\ 0 + 2 = 2 /\ 0 + b = b /\ k <= b
        /\ 0 \in Nat /\ 2 \in Nat /\ k \in Nat
    BY <1>1
  <2>2. Behind(c, 0 + 2, R, l)
    <3> HIDE DEF k, b, d, l, R
    <3>1. Behind(v, 0 + 2, R, l)
      BY <1>1, <1>5, <2>1, BehindMoved
    <3>2. Behind(w, 0 + 2, R, l)
      <4>1. 2 + l <= b
        BY <1>1, <2>1
      <4> QED BY <1>1, <1>5, <2>1, <3>1, <4>1, BehindMoved
    <3>3. 2 + l <= d
      BY <1>1, <2>1
    <3> QED BY <1>1, <1>5, <2>1, <3>2, <3>3, BehindMoved
  <2>3. Behind(c, 0 + b, S, l)
    <3> HIDE DEF k, b, d, l, S
    <3> QED BY <1>1, <1>5, <2>1, BehindMoved
  <2>4. TreeAt(c, 2, "red", 3) /\ c[(2 + 3) + 2 * Rounds] = First("red", 3)
    BY <2>1, <2>2, ReduceMoved
  <2>5. TreeAt(c, b, "sred", 5) /\ c[(b + 3) + 2 * Rounds] = First("sred", 5)
    <3> HIDE DEF b
    <3> QED BY <1>1, <2>1, <2>3, ReduceMoved
  <2> QED BY <1>1, <2>4, <2>5
<1>9. /\ "valid" \in Arrays /\ "scores" \in Arrays /\ "red" \in Arrays /\ "sred" \in Arrays
      /\ Len(c) \in Nat
  BY <1>1, <1>6 DEF Arrays
<1>10. /\ Len(c) = d + 2 /\ k = l + 2 /\ b = l + 3
       /\ \A m \in 1 .. Len(c) :
             \/ m = 1 \/ m = 2 \/ m \in 2 + 1 .. k - 1 \/ m = k \/ m = b
             \/ m \in b + 1 .. d - 1 \/ m = d \/ m = d + 1 \/ m = d + 2
  BY <1>1, <1>6
<1> HIDE DEF R, S, l, b, d, N, k
\* What each position may put.
<1>11. ASSUME NEW m \in 1 .. Len(c), NEW a, NEW t, Puts(c, m, a, t)
       PROVE  \/ m = 1 /\ a = "valid"
              \/ (m = 2 \/ m = b) /\ a = "scores"
              \/ m \in 2 + 1 .. k - 1 /\ a = "red"
              \/ m \in b + 1 .. d - 1 /\ a = "sred"
  <2>1. CASE m \in 2 + 1 .. k - 1
    <3>1. Waits(c, m) \/ c[m].array = "red"
      <4>1. m \in 2 + 1 .. (2 + 2) + 2 * Rounds
        BY <1>1, <1>10, <2>1
      <4> QED BY <1>8, <1>9, <4>1, TreeArray
    <3> QED BY <1>11, <2>1, <3>1 DEF Puts, Waits
  <2>2. CASE m \in b + 1 .. d - 1
    <3>1. Waits(c, m) \/ c[m].array = "sred"
      <4>1. m \in b + 1 .. (b + 2) + 2 * Rounds
        BY <1>1, <2>2
      <4> QED BY <1>1, <1>8, <1>9, <4>1, TreeArray
    <3> QED BY <1>11, <2>2, <3>1 DEF Puts, Waits
  <2>3. CASE m = k \/ m = d \/ m = d + 1 \/ m = d + 2
    BY <1>7, <1>8, <1>9, <1>11, <2>3, Instructions DEF Puts
  <2>4. CASE m = 1 \/ m = 2 \/ m = b
    <3>1. /\ c[1].array = "valid" /\ c[2].array = "scores" /\ c[b].array = "scores"
      BY <1>7, <1>9, Instructions
    <3>2. c[m].array = a
      BY <1>11 DEF Puts
    <3>3. CASE m = 1
      BY <3>1, <3>2, <3>3
    <3>4. CASE m = 2 \/ m = b
      BY <3>1, <3>2, <3>4
    <3> QED BY <2>4, <3>3, <3>4
  <2> QED BY <1>10, <2>1, <2>2, <2>3, <2>4
<1>12. PlainAt(c, 1) /\ PlainAt(c, 2) /\ PlainAt(c, b)
  BY <1>7, <1>9, SimplyPlain
<1>13. \A m \in 2 + 1 .. k - 1 : PlainAt(c, m)
  <2>1. (2 + 2) + 2 * Rounds <= Len(c) /\ k - 1 = (2 + 2) + 2 * Rounds
    BY <1>1, <1>10
  <2> QED BY <1>8, <1>9, <2>1, TreePlain
<1>14. \A m \in b + 1 .. d - 1 : PlainAt(c, m)
  <2>1. (b + 2) + 2 * Rounds <= Len(c)
    BY <1>1, <1>10
  <2> QED BY <1>1, <1>8, <1>9, <2>1, TreePlain
<1>15. PlainAt(c, k)
  <2>1. k \in (2 + 3) + 2 * Rounds .. Len(c)
    BY <1>1, <1>10
  <2>2. \A m \in (2 + 3) + 2 * Rounds .. Len(c) : ~Puts(c, m, "red", 0)
    <3>1. \A m \in (2 + 3) + 2 * Rounds .. Len(c) : m \in 1 .. Len(c) /\ m \notin 2 + 1 .. k - 1
      BY <1>1, <1>10
    <3> QED BY <1>11, <3>1
  <2>3. /\ \A m \in (2 + 3) + 2 * Rounds .. k : m \in (2 + 3) + 2 * Rounds .. Len(c)
        /\ \A m \in k + 1 .. Len(c) : m \in (2 + 3) + 2 * Rounds .. Len(c)
    BY <1>1, <1>9, <1>10
  <2>4. 2 \in Nat
    OBVIOUS
  <2> QED BY <1>8, <1>9, <2>1, <2>2, <2>3, <2>4, ResultPlain
<1>16. PlainAt(c, d)
  <2>1. d \in (b + 3) + 2 * Rounds .. Len(c)
    BY <1>1, <1>10
  <2>2. \A m \in (b + 3) + 2 * Rounds .. Len(c) : ~Puts(c, m, "sred", 0)
    <3>1. \A m \in (b + 3) + 2 * Rounds .. Len(c) : m \in 1 .. Len(c) /\ m \notin b + 1 .. d - 1
      BY <1>1, <1>10
    <3> QED BY <1>11, <3>1
  <2>3. /\ \A m \in (b + 3) + 2 * Rounds .. d : m \in (b + 3) + 2 * Rounds .. Len(c)
        /\ \A m \in d + 1 .. Len(c) : m \in (b + 3) + 2 * Rounds .. Len(c)
    BY <1>1, <1>9, <1>10
  <2> QED BY <1>1, <1>8, <1>9, <2>1, <2>2, <2>3, ResultPlain
\* The barriers of the trees are between the shares and their readers.
<1>17. Waits(c, 4) /\ Waits(c, b + 2)
  <2>1. c[2 + 2] = Barrier /\ c[b + 2] = Barrier
    BY <1>8 DEF TreeAt
  <2> QED BY <2>1, Instructions DEF Waits
<1>18. PlainAt(c, d + 1)
  <2> DEFINE n == d + 1
  <2>1. ASSUME NEW t \in Threads, NEW j \in Nat \ {0}, NEW e \in Nat, j = 1, e = 4
        PROVE  Settled(c, n, "valid", t, Shares(1, {t}))
    <3>1. j < e /\ e < n /\ n \in Nat
      BY <1>1, <1>10, <2>1
    <3>2. c[j] = Own("valid", 1) /\ Waits(c, e)
      BY <1>7, <1>17, <2>1
    <3>3. ASSUME NEW m \in j + 1 .. Len(c)
          PROVE  ~Puts(c, m, "valid", t)
      <4>1. m \in 1 .. Len(c) /\ m # 1
        BY <1>9, <2>1
      <4> QED BY <1>11, <4>1
    <3> HIDE DEF n
    <3> QED BY <1>9, <3>1, <3>2, <3>3, ShareSettled
  <2>2. \A t \in Threads : Settled(c, n, "valid", t, Shares(1, {t}))
    BY <2>1
  <2>3. c[n] = All("valid", 1)
    BY <1>7
  <2> HIDE DEF n
  <2>4. PlainAt(c, n)
    BY <1>9, <2>2, <2>3, Instructions DEF PlainAt, ReadSound
  <2> QED BY <2>4 DEF n
<1>19. PlainAt(c, d + 2)
  <2> DEFINE n == d + 2
  <2>1. ASSUME NEW t \in Threads, NEW e \in Nat, e = b + 2
        PROVE  Settled(c, n, "scores", t, Shares(4, {t}))
    <3>1. b \in Nat \ {0} /\ b < e /\ e < n /\ n \in Nat
      BY <1>1, <1>10, <2>1
    <3>2. c[b] = Own("scores", 4) /\ Waits(c, e)
      BY <1>7, <1>17, <2>1
    <3>3. ASSUME NEW m \in b + 1 .. Len(c)
          PROVE  ~Puts(c, m, "scores", t)
      <4>1. m \in 1 .. Len(c) /\ m # 2 /\ m # b
        BY <1>1, <1>9, <1>10
      <4> QED BY <1>11, <4>1
    <3> HIDE DEF n
    <3> QED BY <1>9, <3>1, <3>2, <3>3, ShareSettled
  <2>2. \A t \in Threads : Settled(c, n, "scores", t, Shares(4, {t}))
    <3>1. b + 2 \in Nat
      BY <1>1
    <3> QED BY <2>1, <3>1
  <2>3. c[n] = All("scores", 4)
    BY <1>7
  <2> HIDE DEF n
  <2>4. PlainAt(c, n)
    BY <1>9, <2>2, <2>3, Instructions DEF PlainAt, ReadSound
  <2> QED BY <2>4 DEF n
<1>20. \A m \in 1 .. Len(c) : PlainAt(c, m)
  BY <1>10, <1>12, <1>13, <1>14, <1>15, <1>16, <1>18, <1>19
<1> QED BY <1>2, <1>9, <1>20, PlainIsSound

\* Every kernel but the three of attention is sound.
LEMMA KernelsSound ==
    ASSUME NEW k \in DOMAIN Code \ AttentionKernels
    PROVE  Sound(Code[k])
<1>1. k \in {"rms_norm", "add_rms", "gemma_rmsnorm", "hc_combine", "grouped_gemma_rmsnorm",
             "qsa_mqa", "qsa_sparse_attn", "moe_router", "qsa_topk_sm"}
  BY DEF Code, AttentionKernels
<1>2. /\ Code["rms_norm"] = RmsNorm
      /\ Code["add_rms"] = Reduce("red", 1)
      /\ Code["gemma_rmsnorm"] = Reduce("red", 1)
      /\ Code["hc_combine"] = Reduce("red", 1)
      /\ Code["grouped_gemma_rmsnorm"] = Again(1) \o Again(2)
      /\ Code["qsa_mqa"] = Again(1) \o Again(2)
      /\ Code["qsa_sparse_attn"] = SparseAttention
      /\ Code["moe_router"] = MoeRouter
      /\ Code["qsa_topk_sm"] = QsaTopK
  BY DEF Code, AddRms, GemmaNorm, HcCombine, GroupedNorm, MqaLogits
<1> QED BY <1>1, <1>2, RmsNormSound, ReduceSound, TwiceSound, SparseSound, MoeRouterSound,
        QsaTopKSound

\* In the nine kernels that have a barrier wherever one is needed, no thread
\* touches between two barriers what another one writes, and every thread
\* reads the same finished result, for any power of two of threads: what
\* BlocksExact says of kernels.cu and qwen4.cu.
THEOREM BlocksAlwaysExact ==
    ASSUME Kernels \intersect AttentionKernels = {}
    PROVE  BlockSpec => []BlocksExact
<1>1. ASSUME kernel \in Kernels
      PROVE  Sound(Code[kernel])
  BY <1>1, KernelsAssumption, KernelsSound
<1>2. BlockInit => BlockInv
  BY <1>1, BlockStarts DEF BlockInit
<1>3. BlockInv /\ [BlockNext]_blockVars => BlockInv'
  BY <1>1, BlockKeeps DEF BlockInv
<1>4. BlockInv => BlocksExact
  BY <1>1, SoundIsRaceFree DEF BlockInv, BlocksExact, Runs
<1> QED BY <1>2, <1>3, <1>4, PTL DEF BlockSpec

-----------------------------------------------------------------------------
(***************************************************************************)
(* Sharding: plans.                                                        *)
(***************************************************************************)
\* Every plan has one segment or three; what is said of a plan with three is
\* that qwen4_exp splits its rows.
Segment == [size : Nat, unit : Dim]

Segmented(segs) ==
    /\ Len(segs) \in {1, 3} /\ IsSeq(segs, Len(segs)) /\ DOMAIN segs = 1 .. Len(segs)
    /\ \A i \in DOMAIN segs : segs[i] \in Segment

Planned(cls, plan) ==
    /\ plan.kind \in {"split_out", "split_in", "replicated", "experts"}
    /\ plan.kind \in {"replicated", "experts"} => plan.segments = <<>>
    /\ plan.kind \in {"split_out", "split_in"} =>
          /\ Segmented(plan.segments)
          /\ IsDynamic(plan.segments) =>
                Len(plan.segments) = 1 /\ plan.segments[1].unit = 1
          /\ ~IsDynamic(plan.segments) =>
                \A i \in DOMAIN plan.segments : plan.segments[i].size # 0
          /\ Len(plan.segments) > 1 => cls = "qwen4" /\ plan.kind = "split_out"

\* A segment of n heads of d rows each.
LEMMA HeadsAre ==
    ASSUME NEW n \in Dim, NEW d \in Dim
    PROVE  /\ Heads(n, d) = <<[size |-> n * d, unit |-> d]>>
           /\ n * d \in Dim
           /\ [size |-> n * d, unit |-> d] \in Segment
<1>1. n * d \in Dim
  <2>1. n * d \in Nat /\ n * d >= d
    <3>1. PICK m \in Nat : n = m + 1
      <4>1. n - 1 \in Nat /\ n = (n - 1) + 1
        BY DEF Dim
      <4> QED BY <4>1
    <3>2. m * d \in Nat /\ n * d = m * d + d /\ d \in Nat
      BY <3>1 DEF Dim
    <3> QED BY <3>2
  <2> QED BY <2>1 DEF Dim
<1> QED BY <1>1 DEF Heads, Segment, Dim

\* A plan of heads that are split.
LEMMA HeadsPlanned ==
    ASSUME NEW n \in Dim, NEW d \in Dim, NEW cls,
           NEW kind \in {"split_out", "split_in"}
    PROVE  Planned(cls, Plan(kind, Heads(n, d)))
<1> DEFINE s == [size |-> n * d, unit |-> d]
           segs == Heads(n, d)
<1>1. segs = <<s>> /\ s \in Segment /\ s.size \in Dim
  BY HeadsAre
<1> HIDE DEF s, segs
<1>2. /\ DOMAIN segs = {1} /\ segs[1] = s /\ Len(segs) = 1
  BY <1>1
<1>3. Segmented(segs)
  BY <1>1, <1>2 DEF Segmented, IsSeq
<1>4. ~IsDynamic(segs) /\ \A i \in DOMAIN segs : segs[i].size # 0
  BY <1>1, <1>2 DEF IsDynamic, Dynamic, Dim
<1>5. Plan(kind, segs).kind = kind /\ Plan(kind, segs).segments = segs
  BY DEF Plan
<1>6. Planned(cls, Plan(kind, segs))
  <2> DEFINE p == Plan(kind, segs)
  <2>1. p.kind = kind /\ p.segments = segs
    BY <1>5
  <2> HIDE DEF p
  <2>2. /\ Segmented(p.segments) /\ ~IsDynamic(p.segments) /\ Len(p.segments) = 1
        /\ \A i \in DOMAIN p.segments : p.segments[i].size # 0
    BY <1>2, <1>3, <1>4, <2>1
  <2>3. Planned(cls, p)
    BY <2>1, <2>2 DEF Planned
  <2> QED BY <2>3 DEF p
<1> QED BY <1>6 DEF segs

\* The vocabulary, and what is not split.
LEMMA OtherPlanned ==
    ASSUME NEW cls
    PROVE  Planned(cls, VocabRows) /\ Planned(cls, Whole) /\ Planned(cls, Expert)
<1> DEFINE s == [size |-> Dynamic, unit |-> 1]
           segs == <<s>>
<1>1. s \in Segment /\ s.size = 0 /\ s.unit = 1
  BY DEF Segment, Dynamic, Dim
<1>2. VocabRows.kind = "split_out" /\ VocabRows.segments = segs
  BY DEF VocabRows, Plan
<1> HIDE DEF s
<1>3. DOMAIN segs = {1} /\ segs[1] = s /\ Len(segs) = 1
  OBVIOUS
<1>4. IsDynamic(segs) /\ Segmented(segs)
  BY <1>1, <1>3 DEF IsDynamic, Dynamic, Segmented, IsSeq
<1> HIDE DEF segs
<1>5. Planned(cls, VocabRows)
  BY <1>1, <1>2, <1>3, <1>4 DEF Planned
<1> QED BY <1>5 DEF Planned, Whole, Expert, Plan

\* Every plan of every geometry; experts are those named so.
LEMMA PlansAre ==
    ASSUME NEW g \in Geometries, NEW name \in DOMAIN Plans(g)
    PROVE  /\ Planned(g.cls, Plans(g)[name])
           /\ Plans(g)[name].kind = "experts" <=> name = "expert"
           /\ name # "none"
           /\ g.experts \in Dim /\ g.experts \in Counts(g)
           /\ g.vocab \in Dim
<1>1. CASE g.cls = "qwen4"
  <2>1. g \in [cls : {"qwen4"}, heads : Dim, kv_heads : Dim, head_dim : Dim,
               lin_k_heads : Dim, lin_k_dim : Dim, lin_v_heads : Dim,
               lin_v_dim : Dim, experts : Dim, vocab : Dim]
    BY <1>1, GeometryAssumption
  <2>2. Plans(g) = QwenPlans(g)
    BY <1>1 DEF Plans
  <2> DEFINE keys == Heads(g.lin_k_heads, g.lin_k_dim)
             values == Heads(g.lin_v_heads, g.lin_v_dim)
             k == [size |-> g.lin_k_heads * g.lin_k_dim, unit |-> g.lin_k_dim]
             v == [size |-> g.lin_v_heads * g.lin_v_dim, unit |-> g.lin_v_dim]
             segs == keys \o keys \o values
             qkv == Plan("split_out", segs)
  <2>3. keys = <<k>> /\ values = <<v>> /\ k \in Segment /\ v \in Segment
        /\ k.size \in Dim /\ v.size \in Dim
    BY <2>1, HeadsAre
  <2>4. Planned("qwen4", qkv)
    <3> HIDE DEF keys, values, k, v
    <3> DEFINE two == keys \o keys
    <3>1. IsSeq(keys, 1) /\ IsSeq(values, 1) /\ keys[1] = k /\ values[1] = v
      BY <2>3 DEF IsSeq
    <3>2. IsSeq(two, 2) /\ Behind(two, 0, keys, 1) /\ Behind(two, 1, keys, 1)
      <4>1. IsSeq(two, 1 + 1) /\ Behind(two, 0, keys, 1) /\ Behind(two, 1, keys, 1)
        BY <3>1, ConcatIs
      <4> QED BY <4>1
    <3>3. segs = two \o values
      BY <2>3
    <3> HIDE DEF two
    <3>4. IsSeq(segs, 3) /\ Behind(segs, 0, two, 2) /\ Behind(segs, 2, values, 1)
      <4> DEFINE s == two \o values
      <4>1. IsSeq(s, 2 + 1) /\ Behind(s, 0, two, 2) /\ Behind(s, 2, values, 1)
        BY <3>1, <3>2, ConcatIs
      <4> HIDE DEF s
      <4>2. s = segs
        BY <3>3 DEF s
      <4> QED BY <4>1, <4>2
    <3>5. qkv.kind = "split_out" /\ qkv.segments = segs
      BY DEF Plan
    <3> HIDE DEF segs, qkv
    <3>6. DOMAIN segs = 1 .. 3 /\ Len(segs) = 3
          /\ segs[1] = k /\ segs[2] = k /\ segs[3] = v
      <4>1. Len(segs) = 3 /\ DOMAIN segs = 1 .. 3
        BY <3>4, SeqIs
      <4>2. two[1] = k /\ two[2] = k
        <5>1. two[0 + 1] = keys[1] /\ two[1 + 1] = keys[1]
          BY <3>2 DEF Behind
        <5> QED BY <3>1, <5>1
      <4>3. segs[0 + 1] = two[1] /\ segs[0 + 2] = two[2] /\ segs[2 + 1] = values[1]
        BY <3>4 DEF Behind
      <4> QED BY <3>1, <4>1, <4>2, <4>3
    <3>7. Segmented(segs)
      BY <2>3, <3>4, <3>6 DEF Segmented
    <3>8. ~IsDynamic(segs) /\ \A i \in DOMAIN segs : segs[i].size # 0
      BY <2>3, <3>6 DEF IsDynamic, Dynamic, Dim
    <3> QED BY <3>5, <3>7, <3>8 DEF Planned
  <2>5. 2 * g.head_dim \in Dim /\ 1 \in Dim
    BY <2>1 DEF Dim
  <2>6. /\ QwenPlans(g)["embed"] = VocabRows
        /\ QwenPlans(g)["q"] = Plan("split_out", Heads(g.heads, 2 * g.head_dim))
        /\ QwenPlans(g)["kv"] = Plan("split_out", Heads(g.kv_heads, g.head_dim))
        /\ QwenPlans(g)["o"] = Plan("split_in", Heads(g.heads, g.head_dim))
        /\ QwenPlans(g)["gdn_qkv"] = qkv
        /\ QwenPlans(g)["gdn_z"] = Plan("split_out", values)
        /\ QwenPlans(g)["gdn_ba"] = Plan("split_out", Heads(g.lin_v_heads, 1))
        /\ QwenPlans(g)["gdn_out"] = Plan("split_in", values)
        /\ QwenPlans(g)["expert"] = Expert
        /\ QwenPlans(g)["other"] = Whole
        /\ DOMAIN QwenPlans(g) = {"embed", "q", "kv", "o", "gdn_qkv", "gdn_z",
                                  "gdn_ba", "gdn_out", "expert", "other"}
    BY DEF QwenPlans
  <2>7. /\ Planned("qwen4", QwenPlans(g)["q"]) /\ Planned("qwen4", QwenPlans(g)["kv"])
        /\ Planned("qwen4", QwenPlans(g)["o"]) /\ Planned("qwen4", QwenPlans(g)["gdn_z"])
        /\ Planned("qwen4", QwenPlans(g)["gdn_ba"])
        /\ Planned("qwen4", QwenPlans(g)["gdn_out"])
        /\ Planned("qwen4", VocabRows) /\ Planned("qwen4", Whole)
        /\ Planned("qwen4", Expert)
    <3>1. /\ Planned("qwen4", Plan("split_out", Heads(g.heads, 2 * g.head_dim)))
          /\ Planned("qwen4", Plan("split_out", Heads(g.kv_heads, g.head_dim)))
          /\ Planned("qwen4", Plan("split_in", Heads(g.heads, g.head_dim)))
          /\ Planned("qwen4", Plan("split_out", values))
          /\ Planned("qwen4", Plan("split_in", values))
          /\ Planned("qwen4", Plan("split_out", Heads(g.lin_v_heads, 1)))
      BY ONLY <2>1, <2>5, HeadsPlanned
    <3>2. /\ Planned("qwen4", VocabRows) /\ Planned("qwen4", Whole)
          /\ Planned("qwen4", Expert)
      BY OtherPlanned
    <3> HIDE DEF qkv, values
    <3> QED BY <2>6, <3>1, <3>2
  <2>8. Planned(g.cls, Plans(g)[name])
    <3> HIDE DEF qkv, keys, values
    <3> QED BY <1>1, <2>2, <2>4, <2>6, <2>7
  <2>9. Plans(g)[name].kind = "experts" <=> name = "expert"
    <3> HIDE DEF segs, values
    <3> QED BY <2>2, <2>6 DEF VocabRows, Expert, Whole, Plan
  <2>10. name # "none"
    BY <2>2, <2>6
  <2> QED BY <1>1, <2>1, <2>8, <2>9, <2>10 DEF Counts
<1>2. CASE g.cls # "qwen4"
  <2>1. g \in [cls : {"deepseek"}, heads : Dim, head_dim : Dim,
               q_lora_rank : Dim, groups : Dim, o_lora_rank : Dim,
               index_heads : Dim, index_dim : Dim, experts : Dim, vocab : Dim]
    BY <1>2, GeometryAssumption
  <2>2. Plans(g) = DeepseekPlans(g) /\ 1 \in Dim
    BY <1>2 DEF Plans, Dim
  <2>3. /\ DeepseekPlans(g)["embed"] = VocabRows
        /\ DeepseekPlans(g)["wq_a"] = Plan("split_out", Heads(g.q_lora_rank, 1))
        /\ DeepseekPlans(g)["wq_b"] = Plan("split_out", Heads(g.heads, g.head_dim))
        /\ DeepseekPlans(g)["wo_a"] = Plan("split_out", Heads(g.groups, g.o_lora_rank))
        /\ DeepseekPlans(g)["wo_b"] = Plan("split_in", Heads(g.groups, g.o_lora_rank))
        /\ DeepseekPlans(g)["idx_wq_b"]
              = Plan("split_out", Heads(g.index_heads, g.index_dim))
        /\ DeepseekPlans(g)["idx_wproj"] = Plan("split_out", Heads(g.index_heads, 1))
        /\ DeepseekPlans(g)["expert"] = Expert
        /\ DeepseekPlans(g)["other"] = Whole
        /\ DOMAIN DeepseekPlans(g) = {"embed", "wq_a", "wq_b", "wo_a", "wo_b",
                                      "idx_wq_b", "idx_wproj", "expert", "other"}
    BY DEF DeepseekPlans
  <2>4. \A x \in DOMAIN DeepseekPlans(g) : Planned(g.cls, DeepseekPlans(g)[x])
    <3>1. /\ Planned(g.cls, Plan("split_out", Heads(g.q_lora_rank, 1)))
          /\ Planned(g.cls, Plan("split_out", Heads(g.heads, g.head_dim)))
          /\ Planned(g.cls, Plan("split_out", Heads(g.groups, g.o_lora_rank)))
          /\ Planned(g.cls, Plan("split_in", Heads(g.groups, g.o_lora_rank)))
          /\ Planned(g.cls, Plan("split_out", Heads(g.index_heads, g.index_dim)))
          /\ Planned(g.cls, Plan("split_out", Heads(g.index_heads, 1)))
      BY ONLY <2>1, <2>2, HeadsPlanned
    <3>2. /\ Planned(g.cls, VocabRows) /\ Planned(g.cls, Whole)
          /\ Planned(g.cls, Expert)
      BY OtherPlanned
    <3> QED BY <2>3, <3>1, <3>2
  <2>5. Plans(g)[name].kind = "experts" <=> name = "expert"
    BY <2>2, <2>3 DEF VocabRows, Expert, Whole, Plan
  <2>6. name # "none"
    BY <2>2, <2>3
  <2> QED BY <1>2, <2>1, <2>2, <2>4, <2>5, <2>6 DEF Counts
<1> QED BY <1>1, <1>2

-----------------------------------------------------------------------------
(***************************************************************************)
(* Sharding: where segments begin, and what they are joined to.  The       *)
(* recursive functions have four values at most, which are named.          *)
(***************************************************************************)
LEMMA BasesAre ==
    ASSUME NEW segs, Segmented(segs)
    PROVE  /\ Base(segs, 1) = 0
           /\ \A i \in DOMAIN segs :
                 /\ Base(segs, i) \in Nat /\ Base(segs, i + 1) \in Nat
                 /\ Base(segs, i + 1) = Base(segs, i) + segs[i].size
<1> DEFINE n == Len(segs)
           z(i) == segs[i].size
           Is(b) == b = [i \in 1 .. n + 1 |->
                            IF i = 1 THEN 0 ELSE b[i - 1] + segs[i - 1].size]
           w == [i \in 1 .. n + 1 |->
                    IF i = 1 THEN 0
                    ELSE IF i = 2 THEN z(1)
                    ELSE IF i = 3 THEN z(1) + z(2)
                    ELSE z(1) + z(2) + z(3)]
           b == CHOOSE b : Is(b)
<1>1. n \in {1, 3} /\ DOMAIN segs = 1 .. n /\ \A i \in 1 .. n : z(i) \in Nat
  BY DEF Segmented, Segment
<1> HIDE DEF z
<1>2. ASSUME NEW i \in 1 .. n + 1
      PROVE  w[i] = IF i = 1 THEN 0 ELSE w[i - 1] + z(i - 1)
  <2>1. CASE i = 1
    BY <2>1
  <2>2. CASE i = 2
    <3>1. w[i - 1] = 0 /\ z(i - 1) = z(1) /\ w[i] = z(1) /\ z(1) \in Nat
      BY <1>1, <2>2
    <3> QED BY <2>2, <3>1
  <2>3. CASE i = 3
    <3>1. w[i - 1] = z(1) /\ z(i - 1) = z(2) /\ w[i] = z(1) + z(2)
      BY <1>1, <2>3
    <3> QED BY <2>3, <3>1
  <2>4. CASE i = 4
    <3>1. w[i - 1] = z(1) + z(2) /\ z(i - 1) = z(3) /\ w[i] = z(1) + z(2) + z(3)
      BY <1>1, <2>4
    <3> QED BY <2>4, <3>1
  <2>5. i \in {1, 2, 3, 4}
    BY <1>1
  <2> QED BY <2>1, <2>2, <2>3, <2>4, <2>5
<1>3. w = [i \in 1 .. n + 1 |-> w[i]]
  OBVIOUS
<1> HIDE DEF w
<1>4. Is(w)
  BY <1>2, <1>3 DEF z
<1>5. Is(b)
  BY <1>4
<1>6. Bases(segs) = b
  BY DEF Bases
<1> HIDE DEF b
<1>7. \A i \in 1 .. n + 1 : b[i] = IF i = 1 THEN 0 ELSE b[i - 1] + z(i - 1)
  BY <1>5 DEF z
<1>8. b[1] = 0 /\ b[2] = b[1] + z(1)
      /\ (n = 3 => b[3] = b[2] + z(2) /\ b[4] = b[3] + z(3))
  <2>1. /\ 1 \in 1 .. n + 1 /\ 2 \in 1 .. n + 1
        /\ n = 3 => 3 \in 1 .. n + 1 /\ 4 \in 1 .. n + 1
    <3>1. n \in {1, 3}
      BY <1>1
    <3> HIDE DEF n
    <3> QED BY <3>1
  <2>2. 2 - 1 = 1 /\ 3 - 1 = 2 /\ 4 - 1 = 3
    OBVIOUS
  <2> QED BY <1>7, <2>1, <2>2
<1>9. \A i \in 1 .. n : b[i] \in Nat /\ b[i + 1] \in Nat /\ b[i + 1] = b[i] + z(i)
  <2>1. CASE n = 1
    BY <1>1, <1>8, <2>1
  <2>2. CASE n = 3
    <3>1. z(1) \in Nat /\ z(2) \in Nat /\ z(3) \in Nat
      BY <1>1, <2>2
    <3>2. b[1] \in Nat /\ b[2] \in Nat /\ b[3] \in Nat /\ b[4] \in Nat
      BY <1>8, <2>2, <3>1
    <3>3. \A i \in 1 .. n : i \in {1, 2, 3}
      BY <2>2
    <3> QED BY <1>8, <2>2, <3>2, <3>3
  <2> QED BY <1>1, <2>1, <2>2
<1> QED BY <1>1, <1>6, <1>8, <1>9 DEF Base, z

\* The parts lie one behind the other, if at[i] is how much lies before the
\* i-th.
LEMMA JoinedIs ==
    ASSUME NEW m \in {1, 3}, NEW parts, IsSeq(parts, m), NEW at, NEW len,
           \A i \in 1 .. m : /\ at[i] \in Nat /\ len[i] \in Nat
                             /\ at[i + 1] = at[i] + len[i]
                             /\ IsSeq(parts[i], len[i]),
           at[1] = 0
    PROVE  /\ IsSeq(Joined(parts), at[m + 1])
           /\ \A i \in 1 .. m : Behind(Joined(parts), at[i], parts[i], len[i])
<1> DEFINE Cat(s, t) == s \o t
           s1 == Cat(<<>>, parts[1])
           s2 == Cat(s1, parts[2])
           s3 == Cat(s2, parts[3])
           Is(u) == u = [i \in 0 .. Len(parts) |->
                            IF i = 0 THEN <<>> ELSE Cat(u[i - 1], parts[i])]
           w == [i \in 0 .. m |-> IF i = 0 THEN <<>>
                                  ELSE IF i = 1 THEN s1
                                  ELSE IF i = 2 THEN s2 ELSE s3]
           u == CHOOSE u : Is(u)
<1>1. Len(parts) = m
  BY SeqIs
<1>2. ASSUME NEW i \in 0 .. m
      PROVE  w[i] = IF i = 0 THEN <<>> ELSE Cat(w[i - 1], parts[i])
  <2> HIDE DEF Cat
  <2>1. CASE i = 0
    BY <2>1
  <2>2. CASE i = 1
    BY <2>2
  <2>3. CASE i = 2
    BY <2>3
  <2>4. CASE i = 3
    BY <2>4
  <2> QED BY <2>1, <2>2, <2>3, <2>4
<1>3. w = [i \in 0 .. m |-> w[i]]
  OBVIOUS
<1> HIDE DEF w
<1>4. Is(w)
  BY <1>1, <1>2, <1>3
<1>5. Is(u)
  BY <1>4
<1>6. Joined(parts) = u[m]
  BY <1>1 DEF Joined
<1> HIDE DEF u
<1>7. u[0] = <<>> /\ \A i \in 1 .. m : u[i] = u[i - 1] \o parts[i]
  <2> HIDE DEF Cat
  <2>1. \A i \in 0 .. m : u[i] = IF i = 0 THEN <<>> ELSE Cat(u[i - 1], parts[i])
    BY <1>1, <1>5
  <2>2. u[0] = <<>> /\ \A i \in 1 .. m : u[i] = Cat(u[i - 1], parts[i])
    BY <2>1
  <2> QED BY <2>2 DEF Cat
\* What holds of the first k parts.
<1> DEFINE Fits(k) == /\ IsSeq(u[k], at[k + 1])
                      /\ \A i \in 1 .. k : Behind(u[k], at[i], parts[i], len[i])
<1>8. Fits(0)
  <2>1. u[0] = [i \in 1 .. 0 |-> u[0][i]]
    BY <1>7
  <2> QED BY <2>1 DEF IsSeq
<1>9. ASSUME NEW k \in 1 .. m, Fits(k - 1)
      PROVE  Fits(k)
  <2> DEFINE s == u[k - 1]
             t == parts[k]
             x == s \o t
  <2>1. /\ IsSeq(s, at[k]) /\ IsSeq(t, len[k])
        /\ at[k] \in Nat /\ len[k] \in Nat /\ at[k + 1] = at[k] + len[k]
    <3>1. (k - 1) + 1 = k
      OBVIOUS
    <3> QED BY <1>9, <3>1
  <2>2. u[k] = x
    BY <1>7
  <2>3. \A i \in 1 .. k - 1 : Behind(s, at[i], parts[i], len[i])
    BY <1>9
  <2> HIDE DEF s, t, Fits
  <2>4. IsSeq(x, at[k + 1]) /\ Behind(x, 0, s, at[k]) /\ Behind(x, at[k], t, len[k])
    <3> DEFINE a == at[k]
               l == len[k]
    <3>1. IsSeq(s, a) /\ IsSeq(t, l) /\ a \in Nat /\ l \in Nat /\ at[k + 1] = a + l
      BY <2>1
    <3> HIDE DEF a, l
    <3>2. IsSeq(x, a + l) /\ Behind(x, 0, s, a) /\ Behind(x, a, t, l)
      BY <3>1, ConcatIs
    <3> QED BY <3>1, <3>2 DEF a, l
  <2> HIDE DEF x
  <2>5. ASSUME NEW i \in 1 .. k - 1
        PROVE  Behind(x, at[i], parts[i], len[i])
    <3>1. i \in 1 .. m /\ at[i] \in Nat /\ len[i] \in Nat
      OBVIOUS
    <3>2. at[i] + len[i] <= at[k]
      <4>1. CASE i + 1 = k
        BY <3>1, <4>1
      <4>2. CASE i + 1 # k
        <5>1. i = 1 /\ k = 3 /\ m = 3
          BY <4>2
        <5>2. at[1 + 1] = at[1] + len[1] /\ at[2 + 1] = at[2] + len[2]
          BY <5>1
        <5>3. at[2] \in Nat /\ len[2] \in Nat
          BY <5>1
        <5> QED BY <3>1, <5>1, <5>2, <5>3
      <4> QED BY <4>1, <4>2
    <3>3. ASSUME NEW o \in 1 .. len[i]
          PROVE  x[at[i] + o] = parts[i][o]
      <4>1. at[i] + o \in 1 .. at[k]
        BY <2>1, <3>1, <3>2
      <4>2. x[0 + (at[i] + o)] = s[at[i] + o]
        BY <2>4, <4>1 DEF Behind
      <4>3. s[at[i] + o] = parts[i][o]
        BY <2>3 DEF Behind
      <4>4. 0 + (at[i] + o) = at[i] + o
        BY <4>1
      <4> QED BY <4>2, <4>3, <4>4
    <3> QED BY <3>3 DEF Behind
  <2>6. ASSUME NEW i \in 1 .. k
        PROVE  Behind(x, at[i], parts[i], len[i])
    <3>1. CASE i = k
      BY <2>4, <3>1 DEF t
    <3>2. CASE i # k
      BY <2>5, <3>2
    <3> QED BY <3>1, <3>2
  <2> QED BY <2>2, <2>4, <2>6 DEF Fits
<1> HIDE DEF Fits
<1>10. Fits(1)
  <2>1. 1 \in 1 .. m /\ 1 - 1 = 0
    OBVIOUS
  <2> QED BY <1>8, <1>9, <2>1
<1>11. Fits(m)
  <2>1. CASE m = 1
    BY <1>10, <2>1
  <2>2. CASE m = 3
    <3>1. 2 \in 1 .. m /\ 3 \in 1 .. m /\ 2 - 1 = 1 /\ 3 - 1 = 2
      BY <2>2
    <3>2. Fits(2)
      BY <1>9, <1>10, <3>1
    <3>3. Fits(3)
      BY <1>9, <3>1, <3>2
    <3> QED BY <2>2, <3>3
  <2> QED BY <2>1, <2>2
<1> QED BY <1>6, <1>11 DEF Fits

-----------------------------------------------------------------------------
(***************************************************************************)
(* Sharding: how a rank's slice is made up.                                *)
(***************************************************************************)
\* Segment i of an axis of n rows, what a rank has of it, where it begins on
\* the axis and where in a rank's slice.
Size(segs, n, i) == IF IsDynamic(segs) THEN n ELSE segs[i].size
Per(segs, n, i) == Size(segs, n, i) \div TP
Begin(segs, i) == IF IsDynamic(segs) THEN 0 ELSE Base(segs, i)

From(segs, n, i) ==
    IF IsDynamic(segs) THEN (IF i = 1 THEN 0 ELSE n \div TP)
    ELSE Base(segs, i) \div TP

\* A plan that splits an axis of n rows.
Splits(segs, n) ==
    /\ n \in Nat /\ Segmented(segs) /\ HasRanges(segs, n)
    /\ IsDynamic(segs) => Len(segs) = 1 /\ segs[1].unit = 1

\* Multiples of tp are divided and added as their quotients are.
LEMMA Multiples ==
    ASSUME NEW a \in Nat, NEW b \in Nat, a % TP = 0, b % TP = 0
    PROVE  /\ a \div TP \in Nat /\ a = TP * (a \div TP)
           /\ (a + b) % TP = 0
           /\ (a + b) \div TP = (a \div TP) + (b \div TP)
<1> DEFINE p == a \div TP
           q == b \div TP
<1>1. TP \in Nat \ {0} /\ 0 \in 0 .. TP - 1
  BY ShardAssumption
<1>2. p \in Nat /\ a = TP * p + 0 /\ q \in Nat /\ b = TP * q + 0
  BY <1>1, Division
<1> HIDE DEF p, q
<1>3. TP * p \in Nat /\ TP * q \in Nat /\ TP * (p + q) = TP * p + TP * q
  BY <1>1, <1>2
<1>4. p + q \in Nat /\ a + b = TP * (p + q) + 0 /\ a = TP * p
  BY <1>2, <1>3
<1>5. (TP * (p + q) + 0) \div TP = p + q /\ (TP * (p + q) + 0) % TP = 0
  BY <1>1, <1>4, DivMod
<1> QED BY <1>2, <1>4, <1>5 DEF p, q

\* A rank's slice has a part of every segment, one behind the other, and the
\* ranks' parts of a segment make it up.
LEMMA CutIs ==
    ASSUME NEW segs, NEW n, Splits(segs, n)
    PROVE  /\ From(segs, n, 1) = 0
           /\ \A i \in DOMAIN segs :
                 /\ Per(segs, n, i) \in Nat /\ From(segs, n, i) \in Nat
                 /\ Size(segs, n, i) = TP * Per(segs, n, i)
                 /\ Begin(segs, i) = TP * From(segs, n, i)
                 /\ From(segs, n, i + 1) = From(segs, n, i) + Per(segs, n, i)
           /\ n = TP * From(segs, n, Len(segs) + 1)
<1>1. TP \in Nat \ {0} /\ n \in Nat /\ Segmented(segs) /\ HasRanges(segs, n)
  BY ShardAssumption DEF Splits
<1>2. CASE IsDynamic(segs)
  <2>1. Len(segs) = 1 /\ DOMAIN segs = 1 .. 1 /\ n % TP = 0
    BY <1>1, <1>2 DEF Splits, Segmented, HasRanges
  <2>2. n \div TP \in Nat /\ n = TP * (n \div TP)
    BY <1>1, <2>1, Multiples
  <2>3. TP * 0 = 0 /\ 0 + (n \div TP) = n \div TP /\ 1 + 1 # 1
    BY <1>1, <2>2
  <2> QED BY <1>2, <2>1, <2>2, <2>3 DEF From, Per, Size, Begin
<1>3. CASE ~IsDynamic(segs)
  <2> DEFINE m == Len(segs)
             B(i) == Base(segs, i)
             z(i) == segs[i].size
  <2>1. /\ m \in {1, 3} /\ DOMAIN segs = 1 .. m
        /\ B(m + 1) = n /\ \A i \in 1 .. m : z(i) \in Nat /\ z(i) % TP = 0
    BY <1>1, <1>3 DEF Segmented, Segment, HasRanges, SegmentSplits, Total
  <2>2. /\ B(1) = 0
        /\ \A i \in 1 .. m : B(i) \in Nat /\ B(i + 1) \in Nat /\ B(i + 1) = B(i) + z(i)
    BY <1>1, <2>1, BasesAre
  <2> HIDE DEF m, B, z
  <2>3. B(1) % TP = 0 /\ B(1) \div TP = 0
    <3>1. 0 < TP /\ 0 \in Nat
      BY <1>1
    <3> QED BY <1>1, <2>2, <3>1, SmallDivMod
  <2>4. ASSUME NEW i \in 1 .. m, B(i) % TP = 0
        PROVE  /\ B(i + 1) % TP = 0
               /\ B(i + 1) \div TP = (B(i) \div TP) + (z(i) \div TP)
    BY <2>1, <2>2, <2>4, Multiples
  <2>5. \A i \in 1 .. m + 1 : B(i) % TP = 0
    <3>1. B(1 + 1) % TP = 0
      BY <2>1, <2>3, <2>4
    <3>2. CASE m = 1
      BY <2>3, <3>1, <3>2
    <3>3. CASE m = 3
      <4>1. B(2 + 1) % TP = 0
        BY <2>4, <3>1, <3>3
      <4>2. B(3 + 1) % TP = 0
        BY <2>4, <3>3, <4>1
      <4>3. \A i \in 1 .. m + 1 : i \in {1, 2, 3, 4}
        BY <3>3
      <4> QED BY <2>3, <3>1, <4>1, <4>2, <4>3
    <3> QED BY <2>1, <3>2, <3>3
  <2>6. ASSUME NEW i \in 1 .. m
        PROVE  /\ z(i) \div TP \in Nat /\ z(i) = TP * (z(i) \div TP)
               /\ B(i) \div TP \in Nat /\ B(i) = TP * (B(i) \div TP)
               /\ B(i + 1) \div TP = (B(i) \div TP) + (z(i) \div TP)
    <3>1. B(i) % TP = 0 /\ B(i) \in Nat /\ z(i) \in Nat /\ z(i) % TP = 0
      BY <2>1, <2>2, <2>5
    <3> QED BY <2>4, <3>1, Multiples
  <2>7. n = TP * (B(m + 1) \div TP)
    <3>1. B(m + 1) % TP = 0 /\ B(m + 1) \in Nat
      BY <1>1, <2>1, <2>5
    <3> QED BY <2>1, <3>1, Multiples
  <2> QED BY <1>3, <2>1, <2>3, <2>6, <2>7 DEF From, Per, Size, Begin, m, B, z
<1> QED BY <1>2, <1>3

\* Rank r's part of segment i.
LEMMA RangeIs ==
    ASSUME NEW segs, NEW n, Splits(segs, n), NEW r \in Ranks, NEW i \in DOMAIN segs
    PROVE  LET rng == RankRanges(segs, n, r)[i] IN
           /\ rng.b = Begin(segs, i) + r * Per(segs, n, i)
           /\ rng.b \in Nat /\ rng.e \in Nat
           /\ rng.e = rng.b + Per(segs, n, i)
<1> DEFINE per == Per(segs, n, i)
           base == Begin(segs, i)
           rng == RankRanges(segs, n, r)[i]
<1>1. per \in Nat /\ base \in Nat /\ r \in Nat
  <2>1. TP \in Nat /\ From(segs, n, i) \in Nat /\ base = TP * From(segs, n, i)
    BY CutIs, ShardAssumption
  <2> QED BY <2>1, CutIs DEF Ranks
<1>2. rng = [b |-> base + r * per, e |-> base + (r + 1) * per]
  BY DEF RankRanges, Per, Size, Begin
<1> HIDE DEF per, base
<1>3. r * per \in Nat /\ (r + 1) * per = r * per + per
  BY <1>1
<1> HIDE DEF rng
<1>4. /\ rng.b = base + r * per /\ rng.e = base + (r + 1) * per
  BY <1>2
<1>5. rng.b \in Nat /\ rng.e \in Nat /\ rng.e = rng.b + per
  <2> DEFINE x == r * per
             y == (r + 1) * per
  <2>1. x \in Nat /\ y = x + per /\ rng.b = base + x /\ rng.e = base + y
    BY <1>3, <1>4
  <2> HIDE DEF x, y
  <2> QED BY <1>1, <2>1
<1> QED BY <1>4, <1>5 DEF per, base, rng

\* A range's rows.
LEMMA IndicesAre ==
    ASSUME NEW b \in Nat, NEW e \in Nat, b <= e
    PROVE  /\ IsSeq(Indices(b, e), e - b)
           /\ \A o \in 1 .. e - b : Indices(b, e)[o] = b + o - 1
BY DEF Indices, IsSeq

\* The rows of rank r's slice.
LEMMA RowsAre ==
    ASSUME NEW segs, NEW n, Splits(segs, n), NEW r \in Ranks
    PROVE  /\ IsSeq(Rows(segs, n, r), From(segs, n, Len(segs) + 1))
           /\ \A i \in DOMAIN segs : \A o \in 1 .. Per(segs, n, i) :
                 Rows(segs, n, r)[From(segs, n, i) + o]
                    = Begin(segs, i) + r * Per(segs, n, i) + o - 1
<1> DEFINE m == Len(segs)
           rng(i) == RankRanges(segs, n, r)[i]
           part(i) == Indices(rng(i).b, rng(i).e)
           parts == [i \in 1 .. m |-> part(i)]
           at == [i \in 1 .. m + 1 |-> From(segs, n, i)]
           len == [i \in 1 .. m |-> Per(segs, n, i)]
           s == Joined(parts)
<1>1. m \in {1, 3} /\ DOMAIN segs = 1 .. m
  BY DEF Splits, Segmented
<1>2. ASSUME NEW i \in 1 .. m
      PROVE  /\ rng(i).b \in Nat /\ rng(i).e \in Nat
             /\ rng(i).b = Begin(segs, i) + r * Per(segs, n, i)
             /\ rng(i).b <= rng(i).e /\ rng(i).e - rng(i).b = Per(segs, n, i)
  <2>1. Per(segs, n, i) \in Nat
    BY <1>1, CutIs
  <2>2. /\ rng(i).b = Begin(segs, i) + r * Per(segs, n, i)
        /\ rng(i).b \in Nat /\ rng(i).e \in Nat
        /\ rng(i).e = rng(i).b + Per(segs, n, i)
    BY <1>1, RangeIs
  <2> HIDE DEF rng
  <2> QED BY <2>1, <2>2
<1>3. Rows(segs, n, r) = s
  BY <1>1 DEF Rows
<1> HIDE DEF rng
<1>4. ASSUME NEW i \in 1 .. m
      PROVE  /\ IsSeq(part(i), Per(segs, n, i))
             /\ \A o \in 1 .. Per(segs, n, i) :
                   part(i)[o] = Begin(segs, i) + r * Per(segs, n, i) + o - 1
  <2> DEFINE b == rng(i).b
             e == rng(i).e
  <2>1. /\ b \in Nat /\ e \in Nat /\ b <= e /\ e - b = Per(segs, n, i)
        /\ b = Begin(segs, i) + r * Per(segs, n, i)
    BY <1>2
  <2>2. part(i) = Indices(b, e)
    OBVIOUS
  <2> HIDE DEF b, e, part
  <2>3. IsSeq(Indices(b, e), e - b) /\ \A o \in 1 .. e - b : Indices(b, e)[o] = b + o - 1
    BY <2>1, IndicesAre
  <2> QED BY <2>1, <2>2, <2>3
<1> HIDE DEF part
<1>5. /\ IsSeq(parts, m) /\ at[1] = 0
      /\ \A i \in 1 .. m : /\ at[i] \in Nat /\ len[i] \in Nat
                           /\ at[i + 1] = at[i] + len[i]
                           /\ IsSeq(parts[i], len[i])
  <2>1. IsSeq(parts, m)
    BY DEF IsSeq
  <2>2. /\ 1 \in 1 .. m + 1 /\ m + 1 \in 1 .. m + 1
        /\ \A i \in 1 .. m : i \in 1 .. m + 1 /\ i + 1 \in 1 .. m + 1
    <3> HIDE DEF m
    <3> QED BY <1>1
  <2> HIDE DEF m
  <2>3. at[1] = 0
    BY <2>2, CutIs
  <2>4. ASSUME NEW i \in 1 .. m
        PROVE  /\ at[i] \in Nat /\ len[i] \in Nat /\ at[i + 1] = at[i] + len[i]
               /\ IsSeq(parts[i], len[i])
    <3>1. at[i] = From(segs, n, i) /\ at[i + 1] = From(segs, n, i + 1)
          /\ len[i] = Per(segs, n, i) /\ parts[i] = part(i)
      BY <2>2
    <3> QED BY <1>1, <1>4, <3>1, CutIs
  <2> QED BY <2>1, <2>3, <2>4
<1>6. /\ at[m + 1] = From(segs, n, m + 1)
      /\ \A i \in 1 .. m : /\ at[i] = From(segs, n, i) /\ len[i] = Per(segs, n, i)
                           /\ parts[i] = part(i)
  <2>1. m + 1 \in 1 .. m + 1 /\ \A i \in 1 .. m : i \in 1 .. m + 1
    <3> HIDE DEF m
    <3> QED BY <1>1
  <2> HIDE DEF m
  <2> QED BY <2>1
<1> HIDE DEF at, len, parts
<1>7. IsSeq(s, at[m + 1]) /\ \A i \in 1 .. m : Behind(s, at[i], parts[i], len[i])
  <2> HIDE DEF m
  <2> QED BY <1>1, <1>5, JoinedIs
<1> HIDE DEF s, m
<1>8. ASSUME NEW i \in 1 .. m, NEW o \in 1 .. Per(segs, n, i)
      PROVE  s[From(segs, n, i) + o] = Begin(segs, i) + r * Per(segs, n, i) + o - 1
  <2>1. s[at[i] + o] = parts[i][o]
    BY <1>6, <1>7 DEF Behind
  <2> QED BY <1>4, <1>6, <2>1
<1> QED BY <1>1, <1>3, <1>6, <1>7, <1>8 DEF m

-----------------------------------------------------------------------------
(***************************************************************************)
(* Sharding: the slices make up the tensor.                                *)
(***************************************************************************)
\* Between which of the places f[1] = 0, .. f[m + 1] a number lies.
LEMMA Between ==
    ASSUME NEW m \in {1, 3}, NEW f, f[1] = 0, \A i \in 1 .. m + 1 : f[i] \in Nat,
           NEW x \in Nat, x < f[m + 1]
    PROVE  \E i \in 1 .. m : f[i] <= x /\ x < f[i + 1]
<1>1. CASE m = 1
  BY <1>1
<1>2. CASE m = 3
  <2>1. f[2] \in Nat /\ f[3] \in Nat /\ f[4] \in Nat /\ x < f[4]
    BY <1>2
  <2>2. \/ f[1] <= x /\ x < f[1 + 1]
        \/ f[2] <= x /\ x < f[2 + 1]
        \/ f[3] <= x /\ x < f[3 + 1]
    BY <2>1
  <2>3. 1 \in 1 .. m /\ 2 \in 1 .. m /\ 3 \in 1 .. m
    BY <1>2
  <2> QED BY <2>2, <2>3
<1> QED BY <1>1, <1>2

\* Put back where full_from_shards() puts them, the rows of the ranks' slices
\* are those of the checkpoint.
LEMMA TileIs ==
    ASSUME NEW segs, NEW n, Splits(segs, n),
           \A r \in Ranks : views[r].rows = Rows(segs, n, r)
    PROVE  FullFromShards(segs, n) = [k \in 0 .. n - 1 |-> k]
<1> DEFINE m == Len(segs)
           Here(k, j) == /\ Base(segs, j) =< k
                         /\ IsDynamic(segs) \/ k < Base(segs, j + 1)
           seg(k) == CHOOSE j \in DOMAIN segs : Here(k, j)
           size(k) == IF IsDynamic(segs) THEN n ELSE segs[seg(k)].size
           off(k) == k - Base(segs, seg(k))
           row(k) == views[off(k) \div (size(k) \div TP)].rows
                        [Base(segs, seg(k)) \div TP + (off(k) % (size(k) \div TP)) + 1]
<1>1. m \in {1, 3} /\ DOMAIN segs = 1 .. m /\ n \in Nat /\ TP \in Nat \ {0}
  BY ShardAssumption DEF Splits, Segmented
<1>2. /\ Base(segs, 1) = 0
      /\ \A i \in 1 .. m :
            /\ Base(segs, i) \in Nat /\ Base(segs, i + 1) \in Nat
            /\ Base(segs, i + 1) = Base(segs, i) + segs[i].size
  BY <1>1, BasesAre DEF Splits
<1> HIDE DEF m
<1>3. IsDynamic(segs) => m = 1
  BY DEF Splits, m
<1>4. ASSUME NEW k \in 0 .. n - 1
      PROVE  \E j \in DOMAIN segs : Here(k, j)
  <2>1. CASE IsDynamic(segs)
    BY <1>1, <1>2, <2>1
  <2>2. CASE ~IsDynamic(segs)
    <3> DEFINE f == [i \in 1 .. m + 1 |-> Base(segs, i)]
    <3>1. Base(segs, m + 1) = n
      BY <2>2 DEF Splits, HasRanges, Total, m
    <3>2. \A i \in 1 .. m + 1 : Base(segs, i) \in Nat
      <4>1. \A i \in 1 .. m + 1 : i \in 1 .. m \/ i = m + 1
        BY <1>1
      <4> QED BY <1>1, <1>2, <3>1, <4>1
    <3>3. 1 \in 1 .. m + 1 /\ m + 1 \in 1 .. m + 1
          /\ \A i \in 1 .. m : i \in 1 .. m + 1 /\ i + 1 \in 1 .. m + 1
      BY <1>1
    <3>4. /\ f[1] = 0 /\ f[m + 1] = n /\ \A i \in 1 .. m + 1 : f[i] \in Nat
          /\ \A i \in 1 .. m : f[i] = Base(segs, i) /\ f[i + 1] = Base(segs, i + 1)
      BY <1>2, <3>1, <3>2, <3>3
    <3> HIDE DEF f
    <3>5. PICK i \in 1 .. m : f[i] <= k /\ k < f[i + 1]
      BY <1>1, <3>4, Between
    <3> QED BY <1>1, <3>4, <3>5
  <2> QED BY <2>1, <2>2
<1>5. ASSUME NEW k \in 0 .. n - 1
      PROVE  row(k) = k
  <2> DEFINE i == seg(k)
             per == Per(segs, n, i)
             o == off(k)
             q == o \div per
             c == o % per
             from == From(segs, n, i)
  <2>1. i \in 1 .. m /\ Here(k, i)
    BY <1>1, <1>4
  <2> HIDE DEF i
  <2>2. /\ per \in Nat /\ from \in Nat /\ Size(segs, n, i) = TP * per
        /\ Begin(segs, i) = TP * from
    BY <1>1, <2>1, CutIs
  <2>3. Begin(segs, i) = Base(segs, i) /\ size(k) = Size(segs, n, i)
        /\ Base(segs, i) \in Nat
    <3>1. IsDynamic(segs) => i = 1
      BY <1>3, <2>1
    <3> QED BY <1>2, <2>1, <3>1 DEF Begin, Size, i
  <2>4. Base(segs, i) \div TP = from
    <3>1. CASE IsDynamic(segs)
      <4>1. i = 1 /\ Base(segs, i) = 0 /\ 0 \div TP = 0
        BY <1>1, <1>2, <1>3, <2>1, <3>1, SmallDivMod
      <4> QED BY <3>1, <4>1 DEF From
    <3>2. CASE ~IsDynamic(segs)
      BY <3>2 DEF From
    <3> QED BY <3>1, <3>2
  <2>5. o \in Nat /\ o < TP * per /\ o = k - Base(segs, i)
    <3>1. o = k - Base(segs, i) /\ Base(segs, i) <= k
      BY <2>1 DEF i
    <3>2. CASE IsDynamic(segs)
      <4>1. Base(segs, i) = 0 /\ n = TP * per
        BY <1>2, <1>3, <2>1, <2>2, <3>2 DEF Size
      <4> HIDE DEF o, per
      <4> QED BY <1>1, <3>1, <4>1
    <3>3. CASE ~IsDynamic(segs)
      <4>1. k < Base(segs, i) + segs[i].size /\ segs[i].size = TP * per
        BY <1>2, <2>1, <2>2, <3>3 DEF Size
      <4>2. TP * per \in Nat
        BY <1>1, <2>2
      <4> HIDE DEF o, per
      <4> QED BY <2>3, <3>1, <4>1, <4>2
    <3> QED BY <3>2, <3>3
  <2>6. per \in Nat \ {0}
    <3>1. TP * 0 = 0
      BY <1>1
    <3> HIDE DEF per, o
    <3> QED BY <2>2, <2>5, <3>1
  <2>7. size(k) \div TP = per
    BY <2>3 DEF Per
  <2>8. row(k) = views[q].rows[from + c + 1]
    BY <2>4, <2>7 DEF i
  <2> HIDE DEF row, per, o, from
  <2>9. q \in Nat /\ c \in 0 .. per - 1 /\ o = per * q + c
    BY <2>5, <2>6, Division
  <2> HIDE DEF q, c
  <2>10. q \in Ranks
    <3>1. TP <= q => per * TP <= per * q
      BY <1>1, <2>6, <2>9, ProductGrows
    <3>2. per * q \in Nat /\ per * TP = TP * per /\ TP * per \in Nat
      BY <1>1, <2>6, <2>9
    <3>3. ~(TP <= q)
      BY <2>5, <2>9, <3>1, <3>2
    <3> QED BY <1>1, <2>9, <3>3 DEF Ranks
  <2>11. Rows(segs, n, q)[from + (c + 1)] = Begin(segs, i) + q * per + (c + 1) - 1
    <3>1. c + 1 \in 1 .. per
      BY <2>6, <2>9
    <3> QED BY <1>1, <2>1, <2>10, <3>1, RowsAre DEF per, from
  <2>12. from + c + 1 = from + (c + 1)
    BY <2>2, <2>9
  <2>13. Begin(segs, i) + q * per + (c + 1) - 1 = k
    <3>1. q * per = per * q /\ per * q \in Nat
      BY <2>6, <2>9
    <3>2. k = Base(segs, i) + o /\ k \in Nat
      BY <2>3, <2>5
    <3> QED BY <2>3, <2>9, <3>1, <3>2
  <2> QED BY <2>8, <2>10, <2>11, <2>12, <2>13
<1>6. FullFromShards(segs, n) = [k \in 0 .. n - 1 |-> row(k)]
  BY DEF FullFromShards
<1> HIDE DEF row
<1> QED BY <1>5, <1>6

\* A multiple of a unit's multiple.
LEMMA UnitMultiple ==
    ASSUME NEW r \in Nat, NEW per \in Nat, NEW unit \in Dim, per % unit = 0
    PROVE  (r * per) % unit = 0
<1> DEFINE q == per \div unit
<1>1. unit \in Nat \ {0} /\ 0 \in 0 .. unit - 1
  BY DEF Dim
<1>2. q \in Nat /\ per = unit * q + 0
  BY <1>1, Division
<1> HIDE DEF q
<1>3. unit * q \in Nat /\ per = unit * q
  BY <1>1, <1>2
<1>4. r * per = r * (unit * q)
  BY <1>3
<1>5. r * (unit * q) = unit * (r * q) + 0 /\ r * q \in Nat
  BY <1>1, <1>2
<1>6. (unit * (r * q) + 0) % unit = 0
  BY <1>1, <1>5, DivMod
<1> QED BY <1>4, <1>5, <1>6

\* No unit is cut.
LEMMA UnitsAre ==
    ASSUME NEW segs, NEW n, Splits(segs, n)
    PROVE  UnitsWhole(segs, n)
<1> SUFFICES ASSUME NEW r \in Ranks, NEW i \in DOMAIN segs
             PROVE  LET rng == RankRanges(segs, n, r)[i]
                        base == Begin(segs, i)
                    IN /\ (rng.b - base) % segs[i].unit = 0
                       /\ (rng.e - base) % segs[i].unit = 0
  BY DEF UnitsWhole, Begin
<1> DEFINE rng == RankRanges(segs, n, r)[i]
           base == Begin(segs, i)
           per == Per(segs, n, i)
           unit == segs[i].unit
<1>1. r \in Nat /\ r + 1 \in Nat /\ per \in Nat /\ unit \in Dim
  <2>1. r \in Nat /\ r + 1 \in Nat
    BY ShardAssumption DEF Ranks
  <2>2. per \in Nat
    BY CutIs
  <2>3. unit \in Dim
    BY DEF Splits, Segmented, Segment
  <2> QED BY <2>1, <2>2, <2>3
<1>2. base \in Nat
  <2>1. TP \in Nat /\ From(segs, n, i) \in Nat /\ base = TP * From(segs, n, i)
    BY CutIs, ShardAssumption
  <2> QED BY <2>1
<1>3. per % unit = 0
  <2>1. CASE IsDynamic(segs)
    <3>1. unit = 1
      BY <2>1 DEF Splits, Segmented
    <3> QED BY <1>1, <3>1
  <2>2. CASE ~IsDynamic(segs)
    BY <2>2 DEF Splits, HasRanges, SegmentSplits, Per, Size
  <2> QED BY <2>1, <2>2
<1>4. rng.b = base + r * per /\ rng.e = rng.b + per
  BY RangeIs
<1> HIDE DEF rng, base, per, unit
<1>5. r * per \in Nat /\ (r + 1) * per = r * per + per
  BY <1>1
<1>6. rng.b - base = r * per /\ rng.e - base = (r + 1) * per
  <2> DEFINE x == r * per
  <2>1. x \in Nat /\ rng.b = base + x /\ rng.e = rng.b + per /\ (r + 1) * per = x + per
    BY <1>4, <1>5
  <2> HIDE DEF x
  <2>2. rng.b - base = x /\ rng.e - base = x + per
    BY <1>1, <1>2, <2>1
  <2> QED BY <2>1, <2>2 DEF x
<1>7. (r * per) % unit = 0 /\ ((r + 1) * per) % unit = 0
  BY <1>1, <1>3, UnitMultiple
<1> QED BY <1>6, <1>7 DEF rng, base, per, unit

-----------------------------------------------------------------------------
(***************************************************************************)
(* Sharding: the scales of a slice.                                        *)
(***************************************************************************)
\* Whole blocks before a number count in its quotient.
LEMMA BlocksBefore ==
    ASSUME NEW q \in Nat, NEW x \in Nat
    PROVE  /\ Block * q + x \in Nat
           /\ (Block * q + x) \div Block = q + (x \div Block)
<1> DEFINE y == x \div Block
           c == x % Block
<1>1. Block \in Nat \ {0}
  BY ShardAssumption
<1>2. y \in Nat /\ c \in 0 .. Block - 1 /\ x = Block * y + c
  BY <1>1, Division
<1> HIDE DEF y, c
<1>3. Block * q \in Nat /\ Block * y \in Nat /\ Block * (q + y) = Block * q + Block * y
  BY <1>1, <1>2
<1>4. Block * q + x = Block * (q + y) + c /\ q + y \in Nat /\ Block * q + x \in Nat
  BY <1>1, <1>2, <1>3
<1>5. (Block * (q + y) + c) \div Block = q + y
  BY <1>1, <1>2, <1>4, DivMod
<1> QED BY <1>4, <1>5 DEF y

\* Blocks that n rows take, alone or behind whole blocks, and the block of one
\* of them.
LEMMA CeilIs ==
    ASSUME NEW q \in Nat, NEW n \in Nat
    PROVE  /\ Ceil(n, Block) \in Nat
           /\ Ceil(Block * q + n, Block) = q + Ceil(n, Block)
           /\ \A k \in Nat : k < n =>
                 k \div Block \in Nat /\ k \div Block < Ceil(n, Block)
           /\ Ceil(Block * q, Block) = q
<1>1. Block \in Nat \ {0}
  BY ShardAssumption
<1>2. Block * q \in Nat /\ Block - 1 \in Nat
  BY <1>1
<1>3. Ceil(n, Block) = (n + (Block - 1)) \div Block
      /\ Ceil(Block * q + n, Block) = (Block * q + (n + (Block - 1))) \div Block
      /\ Ceil(Block * q, Block) = (Block * q + (Block - 1)) \div Block
  <2> DEFINE x == Block * q
  <2>1. /\ n + Block - 1 = n + (Block - 1)
        /\ x + n + Block - 1 = x + (n + (Block - 1))
        /\ x + Block - 1 = x + (Block - 1)
    <3>1. x \in Nat
      BY <1>2
    <3> HIDE DEF x
    <3> QED BY <1>1, <3>1
  <2> QED BY <2>1 DEF Ceil
<1>4. n + (Block - 1) \in Nat
  BY <1>1
<1>5. Ceil(n, Block) \in Nat
  BY <1>1, <1>3, <1>4, Division
<1>6. Ceil(Block * q + n, Block) = q + Ceil(n, Block)
  BY <1>3, <1>4, BlocksBefore
<1>7. Ceil(Block * q, Block) = q
  <2>1. (Block - 1) \div Block = 0
    BY <1>1, <1>2, SmallDivMod
  <2> QED BY <1>2, <1>3, <2>1, BlocksBefore
<1>8. ASSUME NEW k \in Nat, k < n
      PROVE  k \div Block \in Nat /\ k \div Block < Ceil(n, Block)
  <2> DEFINE y == k \div Block
             c == k % Block
  <2>1. y \in Nat /\ c \in 0 .. Block - 1 /\ k = Block * y + c
    BY <1>1, Division
  <2> HIDE DEF y, c
  <2>2. Block * (y + 1) = Block * y + Block /\ Block * y \in Nat
    BY <1>1, <2>1
  <2>3. PICK d \in Nat : n + (Block - 1) = Block * (y + 1) + d
    <3> DEFINE d == n + (Block - 1) - (Block * y + Block)
    <3>1. d \in Nat
      <4> DEFINE x == Block * y
      <4>1. x \in Nat /\ k = x + c
        BY <2>1, <2>2
      <4> HIDE DEF x
      <4> QED BY <1>1, <1>8, <2>1, <4>1 DEF x
    <3>2. n + (Block - 1) = Block * (y + 1) + d
      BY <1>1, <2>1, <2>2
    <3> QED BY <3>1, <3>2
  <2>4. (Block * (y + 1) + d) \div Block = (y + 1) + (d \div Block)
    BY <2>1, BlocksBefore
  <2>5. d \div Block \in Nat
    BY <1>1, Division
  <2> QED BY <1>3, <2>1, <2>3, <2>4, <2>5 DEF y
<1> QED BY <1>5, <1>6, <1>7, <1>8

\* A range of p rows that is safe to cut takes as many blocks as p rows take
\* alone, and each of its rows is in the block that counting from its own
\* first row gives.
LEMMA SafeRange ==
    ASSUME NEW b \in Nat, NEW p \in Nat, NEW rng,
           rng.b = b, rng.e = b + p, BlockSafe(rng)
    PROVE  /\ b \div Block \in Nat /\ p # 0
           /\ Ceil(b + p, Block) = (b \div Block) + Ceil(p, Block)
           /\ \A o \in Nat : o < p =>
                 (b + o) \div Block = (b \div Block) + (o \div Block)
<1> DEFINE q == b \div Block
           c == b % Block
<1>1. Block \in Nat \ {0} /\ p # 0
  BY ShardAssumption DEF BlockSafe
<1>2. q \in Nat /\ c \in 0 .. Block - 1 /\ b = Block * q + c
  BY <1>1, Division
<1>3. c = 0 \/ (b + p - 1) \div Block = q
  BY DEF BlockSafe
<1> HIDE DEF q, c
<1>4. Block * q \in Nat
  BY <1>1, <1>2
<1>5. CASE c = 0
  <2>1. b = Block * q
    BY <1>2, <1>4, <1>5
  <2>2. Ceil(b + p, Block) = q + Ceil(p, Block)
    BY <1>2, <2>1, CeilIs
  <2>3. \A o \in Nat : (b + o) \div Block = q + (o \div Block)
    BY <1>2, <2>1, BlocksBefore
  <2> QED BY <1>1, <1>2, <2>2, <2>3 DEF q
<1>6. CASE (b + p - 1) \div Block = q
  <2> DEFINE x == c + (p - 1)
             y == x \div Block
  <2>1. x \in Nat /\ p - 1 \in Nat
    BY <1>1, <1>2
  <2>2. b + p - 1 = Block * q + x
    <3> DEFINE z == Block * q
    <3>1. z \in Nat /\ b = z + c
      BY <1>2, <1>4
    <3> HIDE DEF z
    <3> QED BY <1>1, <1>2, <3>1 DEF z
  <2> HIDE DEF x
  <2>3. y = 0
    <3>1. (Block * q + x) \div Block = q + y
      BY <1>2, <2>1, BlocksBefore
    <3>2. y \in Nat
      BY <1>1, <2>1, Division
    <3> HIDE DEF y
    <3> QED BY <1>2, <1>6, <2>2, <3>1, <3>2
  <2>4. x < Block
    <3>1. x >= Block => y >= 1
      BY <1>1, <2>1, SmallDivMod
    <3> HIDE DEF y
    <3> QED BY <1>1, <2>1, <2>3, <3>1
  <2>5. ASSUME NEW o \in Nat, o < p
        PROVE  (b + o) \div Block = q + (o \div Block)
    <3>1. o \in Nat /\ c + o \in Nat /\ c + o < Block /\ o < Block
      BY <1>1, <1>2, <2>1, <2>4, <2>5 DEF x
    <3>2. o \div Block = 0 /\ (c + o) \div Block = 0
      BY <1>1, <3>1, SmallDivMod
    <3>3. b + o = Block * q + (c + o)
      <4> DEFINE z == Block * q
      <4>1. z \in Nat /\ b = z + c
        BY <1>2, <1>4
      <4> HIDE DEF z
      <4>2. b + o = z + (c + o)
        BY <1>2, <4>1
      <4> QED BY <4>2 DEF z
    <3>4. (Block * q + (c + o)) \div Block = q + ((c + o) \div Block)
      BY <1>2, <3>1, BlocksBefore
    <3> QED BY <3>2, <3>3, <3>4
  <2>6. Ceil(p, Block) = 1 /\ Ceil(b + p, Block) = q + 1
    <3>1. /\ p + Block - 1 = Block * 1 + (p - 1)
          /\ b + p + Block - 1 = Block * (q + 1) + x
      <4> DEFINE z == Block * q
      <4>1. z \in Nat /\ b = z + c /\ Block * (q + 1) = z + Block /\ Block * 1 = Block
        BY <1>1, <1>2, <1>4
      <4> HIDE DEF z
      <4>2. b + p + Block - 1 = (z + Block) + x
        BY <1>1, <1>2, <2>1, <4>1 DEF x
      <4> QED BY <1>1, <4>1, <4>2
    <3>2. /\ (Block * 1 + (p - 1)) \div Block = 1 + ((p - 1) \div Block)
          /\ (Block * (q + 1) + x) \div Block = (q + 1) + (x \div Block)
      <4>1. q + 1 \in Nat /\ 1 \in Nat
        BY <1>2
      <4> DEFINE w == p - 1
                 v == q + 1
      <4>2. w \in Nat /\ v \in Nat
        BY <2>1, <4>1
      <4> HIDE DEF w, v
      <4>3. /\ (Block * 1 + w) \div Block = 1 + (w \div Block)
            /\ (Block * v + x) \div Block = v + (x \div Block)
        BY <2>1, <4>1, <4>2, BlocksBefore
      <4> QED BY <4>3 DEF w, v
    <3>3. (p - 1) \div Block = 0 /\ x \div Block = 0
      <4>1. p - 1 < Block
        BY <1>1, <1>2, <2>1, <2>4 DEF x
      <4> QED BY <1>1, <2>1, <2>4, <4>1, SmallDivMod
    <3> QED BY <1>2, <3>1, <3>2, <3>3 DEF Ceil
  <2> QED BY <1>1, <1>2, <2>5, <2>6 DEF q
<1> QED BY <1>3, <1>5, <1>6

\* A tensor whose slices can be dequantised: validate_tensor() and
\* shard_scale() take it.
Scaled(cls, plan, n) ==
    /\ Splits(plan.segments, n)
    /\ Len(plan.segments) > 1 => cls = "qwen4" /\ plan.kind = "split_out"
    /\ validate_tensor(plan.segments, n)
    /\ ScaleSplits(cls, plan)

\* In a slice every segment but the last takes whole blocks.
LEMMA BlocksBetween ==
    ASSUME NEW cls, NEW plan, NEW n, Scaled(cls, plan, n),
           NEW i \in DOMAIN plan.segments
    PROVE  From(plan.segments, n, i) = Block * (From(plan.segments, n, i) \div Block)
<1> DEFINE segs == plan.segments
           m == Len(segs)
           F(j) == From(segs, n, j)
           p(j) == Per(segs, n, j)
<1>1. /\ m \in {1, 3} /\ DOMAIN segs = 1 .. m /\ Splits(segs, n) /\ ~IsDynamic(segs)
      /\ Block \in Nat \ {0}
  BY ShardAssumption DEF Scaled, Splits, Segmented, ScaleSplits
<1>2. /\ F(1) = 0
      /\ \A j \in 1 .. m : p(j) \in Nat /\ F(j) \in Nat /\ F(j + 1) = F(j) + p(j)
  BY <1>1, CutIs
<1>3. m = 3 => \A j \in 1 .. m : p(j) % Block = 0
  BY <1>1 DEF Scaled, ScaleSplits, Per, Size
<1> HIDE DEF F, p, m
<1>4. \A x \in Nat : x % Block = 0 => x = Block * (x \div Block)
  <2> SUFFICES ASSUME NEW x \in Nat, x % Block = 0
               PROVE  x = Block * (x \div Block)
    OBVIOUS
  <2> DEFINE y == x \div Block
  <2>1. y \in Nat /\ x = Block * y + 0
    BY <1>1, Division
  <2> HIDE DEF y
  <2>2. Block * y \in Nat
    BY <1>1, <2>1
  <2>3. x = Block * y
    BY <2>1, <2>2
  <2> QED BY <2>3 DEF y
<1>5. F(1) = Block * (F(1) \div Block)
  <2>1. 0 % Block = 0 /\ 0 \in Nat
    BY <1>1, SmallDivMod
  <2> QED BY <1>2, <1>4, <2>1
<1>6. ASSUME m = 3, NEW j \in {1, 2}, F(j) = Block * (F(j) \div Block)
      PROVE  F(j + 1) = Block * (F(j + 1) \div Block)
  <2> DEFINE x == F(j)
             y == p(j)
             a == x \div Block
             b == y \div Block
  <2>1. j \in 1 .. m
    BY <1>6
  <2>2. x \in Nat /\ y \in Nat /\ F(j + 1) = x + y /\ y % Block = 0
    BY <1>2, <1>3, <1>6, <2>1
  <2>3. x = Block * a /\ y = Block * b
    BY <1>4, <1>6, <2>2
  <2> HIDE DEF x, y
  <2>4. a \in Nat /\ b \in Nat
    BY <1>1, <2>2, Division
  <2> HIDE DEF a, b
  <2>5. Block * (a + b) = Block * a + Block * b /\ a + b \in Nat
    BY <1>1, <2>4
  <2>6. F(j + 1) = Block * (a + b) + 0
    <3>1. Block * (a + b) \in Nat
      BY <1>1, <2>5
    <3> QED BY <2>2, <2>3, <2>5, <3>1
  <2>7. (Block * (a + b) + 0) \div Block = a + b
    <3>1. 0 \in 0 .. Block - 1
      BY <1>1
    <3> QED BY <1>1, <2>5, <3>1, DivMod
  <2>8. F(j + 1) = Block * (a + b)
    BY <2>2, <2>3, <2>5
  <2>9. F(j + 1) \div Block = a + b
    BY <2>6, <2>7
  <2> QED BY <2>8, <2>9
<1>7. m = 3 => \A j \in 1 .. m : F(j) = Block * (F(j) \div Block)
  <2> SUFFICES ASSUME m = 3
               PROVE  \A j \in 1 .. m : F(j) = Block * (F(j) \div Block)
    OBVIOUS
  <2>1. F(1 + 1) = Block * (F(1 + 1) \div Block)
    BY <1>5, <1>6
  <2>2. F(2 + 1) = Block * (F(2 + 1) \div Block)
    BY <1>6, <2>1
  <2>3. \A j \in 1 .. m : j \in {1, 2, 3}
    OBVIOUS
  <2> QED BY <1>5, <2>1, <2>2, <2>3
<1>8. i \in 1 .. m
  BY <1>1
<1>9. F(i) = Block * (F(i) \div Block)
  <2>1. CASE m = 1
    BY <1>5, <1>8, <2>1
  <2>2. CASE m = 3
    BY <1>7, <1>8, <2>2
  <2> QED BY <1>1, <2>1, <2>2
<1> QED BY <1>9 DEF F

\* The scales of rank r's slice: as many as its rows take, those of a segment
\* behind those of the ones before it.
LEMMA ScalesAre ==
    ASSUME NEW cls, NEW plan, NEW n, Scaled(cls, plan, n), NEW r \in Ranks
    PROVE  LET segs == plan.segments
               at(i) == Ceil(From(segs, n, i), Block)
               begin(i) == Begin(segs, i) + r * Per(segs, n, i)
           IN /\ IsSeq(Scales(segs, n, r), at(Len(segs) + 1))
              /\ \A i \in DOMAIN segs :
                    /\ at(i) = From(segs, n, i) \div Block
                    /\ begin(i) \in Nat
                    /\ \A o \in Nat : o < Per(segs, n, i) =>
                          /\ Scales(segs, n, r)[at(i) + (o \div Block) + 1]
                                = (begin(i) + o) \div Block
                          /\ o \div Block \in Nat
<1> DEFINE segs == plan.segments
           m == Len(segs)
           F(i) == From(segs, n, i)
           p(i) == Per(segs, n, i)
           B(i) == Begin(segs, i) + r * p(i)
           rng(i) == RankRanges(segs, n, r)[i]
           part(i) == Indices(rng(i).b \div Block, Ceil(rng(i).e, Block))
           parts == [i \in 1 .. m |-> part(i)]
           C(i) == Ceil(F(i), Block)
           at == [i \in 1 .. m + 1 |-> C(i)]
           len == [i \in 1 .. m |-> Ceil(p(i), Block)]
           s == Joined(parts)
<1>1. /\ m \in {1, 3} /\ DOMAIN segs = 1 .. m /\ Splits(segs, n)
      /\ Block \in Nat \ {0}
  BY ShardAssumption DEF Scaled, Splits, Segmented
<1>2. /\ F(1) = 0
      /\ \A i \in 1 .. m : p(i) \in Nat /\ F(i) \in Nat /\ F(i + 1) = F(i) + p(i)
  BY <1>1, CutIs
<1>3. \A i \in 1 .. m : /\ rng(i).b = B(i) /\ rng(i).b \in Nat
                        /\ rng(i).e = rng(i).b + p(i)
                        /\ BlockSafe(rng(i))
  <2>1. \A i \in 1 .. m : BlockSafe(rng(i))
    BY <1>1 DEF Scaled, validate_tensor
  <2>2. \A i \in 1 .. m : /\ rng(i).b = B(i) /\ rng(i).b \in Nat
                          /\ rng(i).e = rng(i).b + p(i)
    BY <1>1, RangeIs
  <2> QED BY <2>1, <2>2
<1>4. Scales(segs, n, r) = s
  BY <1>1 DEF Scales
<1>5. \A i \in 1 .. m : F(i) = Block * (F(i) \div Block)
  BY <1>1, BlocksBetween
<1> HIDE DEF F, p, B, rng
<1>6. ASSUME NEW i \in 1 .. m
      PROVE  /\ C(i) \in Nat /\ C(i) = F(i) \div Block
             /\ C(i + 1) = C(i) + Ceil(p(i), Block)
             /\ Ceil(p(i), Block) \in Nat
  <2> DEFINE q == F(i) \div Block
  <2>1. q \in Nat /\ F(i) = Block * q /\ p(i) \in Nat
    BY <1>1, <1>2, <1>5, Division
  <2> HIDE DEF q
  <2>2. Ceil(Block * q, Block) = q /\ Ceil(p(i), Block) \in Nat
        /\ Ceil(Block * q + p(i), Block) = q + Ceil(p(i), Block)
    BY <2>1, CeilIs
  <2>3. F(i + 1) = Block * q + p(i)
    BY <1>2, <2>1
  <2> QED BY <2>1, <2>2, <2>3 DEF q
<1>7. ASSUME NEW i \in 1 .. m
      PROVE  /\ IsSeq(part(i), Ceil(p(i), Block))
             /\ \A o \in 1 .. Ceil(p(i), Block) :
                   part(i)[o] = (B(i) \div Block) + o - 1
             /\ B(i) \in Nat
             /\ \A o \in Nat : o < p(i) =>
                   (B(i) + o) \div Block = (B(i) \div Block) + (o \div Block)
  <2> DEFINE b == B(i)
             d == b \div Block
             c == Ceil(p(i), Block)
             x == rng(i)
             e == Ceil(x.e, Block)
  <2>1. /\ x.b = b /\ b \in Nat /\ x.e = b + p(i) /\ BlockSafe(x) /\ p(i) \in Nat
        /\ c \in Nat
    BY <1>2, <1>3, <1>6
  <2>2. part(i) = Indices(d, e)
    BY <2>1
  <2> HIDE DEF b, x
  <2>3. /\ d \in Nat /\ e = d + c
        /\ \A o \in Nat : o < p(i) => (b + o) \div Block = d + (o \div Block)
    BY <2>1, SafeRange
  <2> HIDE DEF c, d, e, part
  <2>4. d \in Nat /\ e \in Nat /\ d <= e /\ e - d = c
    BY <2>1, <2>3
  <2>5. IsSeq(Indices(d, e), e - d) /\ \A o \in 1 .. e - d : Indices(d, e)[o] = d + o - 1
    BY <2>4, IndicesAre
  <2>6. IsSeq(part(i), c) /\ \A o \in 1 .. c : part(i)[o] = d + o - 1
    BY <2>2, <2>4, <2>5
  <2> QED BY <2>1, <2>3, <2>6 DEF b, c, d
<1> HIDE DEF part
<1>8. /\ IsSeq(parts, m) /\ at[1] = 0
      /\ \A i \in 1 .. m : /\ at[i] \in Nat /\ len[i] \in Nat
                           /\ at[i + 1] = at[i] + len[i]
                           /\ IsSeq(parts[i], len[i])
  <2>1. IsSeq(parts, m)
    BY DEF IsSeq
  <2>2. /\ 1 \in 1 .. m + 1 /\ m + 1 \in 1 .. m + 1
        /\ \A i \in 1 .. m : i \in 1 .. m + 1 /\ i + 1 \in 1 .. m + 1
    <3> HIDE DEF m
    <3> QED BY <1>1
  <2>3. 1 \in 1 .. m
    <3> HIDE DEF m
    <3> QED BY <1>1
  <2>4. C(1) = 0
    <3>1. 0 \div Block = 0
      BY <1>1, SmallDivMod
    <3> HIDE DEF C, m
    <3> QED BY <1>2, <1>6, <2>3, <3>1
  <2> HIDE DEF m, C
  <2>5. at[1] = 0
    BY <2>2, <2>4
  <2>6. ASSUME NEW i \in 1 .. m
        PROVE  /\ at[i] \in Nat /\ len[i] \in Nat /\ at[i + 1] = at[i] + len[i]
               /\ IsSeq(parts[i], len[i])
    <3>1. at[i] = C(i) /\ at[i + 1] = C(i + 1)
          /\ len[i] = Ceil(p(i), Block) /\ parts[i] = part(i)
      BY <2>2
    <3> QED BY <1>6, <1>7, <3>1
  <2> QED BY <2>1, <2>5, <2>6
<1>9. /\ at[m + 1] = C(m + 1)
      /\ \A i \in 1 .. m : /\ at[i] = C(i) /\ len[i] = Ceil(p(i), Block)
                           /\ parts[i] = part(i)
  <2>1. m + 1 \in 1 .. m + 1 /\ \A i \in 1 .. m : i \in 1 .. m + 1
    <3> HIDE DEF m
    <3> QED BY <1>1
  <2> HIDE DEF m
  <2> QED BY <2>1
<1> HIDE DEF at, len, parts
<1>10. IsSeq(s, at[m + 1]) /\ \A i \in 1 .. m : Behind(s, at[i], parts[i], len[i])
  <2> HIDE DEF m
  <2> QED BY <1>1, <1>8, JoinedIs
<1> HIDE DEF s, m, C
<1>11. ASSUME NEW i \in 1 .. m, NEW o \in Nat, o < p(i)
       PROVE  /\ s[C(i) + (o \div Block) + 1] = (B(i) + o) \div Block
              /\ o \div Block \in Nat
  <2> DEFINE t == o \div Block
             c == Ceil(p(i), Block)
             d == B(i) \div Block
  <2>1. t \in Nat /\ t < c
    BY <1>2, <1>11, CeilIs
  <2>2. c \in Nat /\ C(i) \in Nat
    BY <1>6
  <2>3. d \in Nat
    BY <1>1, <1>7, Division
  <2>4. (B(i) + o) \div Block = d + t
    BY <1>7, <1>11
  <2>5. \A j \in 1 .. c : s[C(i) + j] = part(i)[j] /\ part(i)[j] = d + j - 1
    BY <1>7, <1>9, <1>10 DEF Behind
  <2> HIDE DEF t, c, d
  <2>6. t + 1 \in 1 .. c /\ d + (t + 1) - 1 = d + t /\ C(i) + t + 1 = C(i) + (t + 1)
    BY <2>1, <2>2, <2>3
  <2>7. s[C(i) + t + 1] = d + t
    BY <2>5, <2>6
  <2> QED BY <2>1, <2>4, <2>7 DEF t
<1> QED BY <1>1, <1>4, <1>6, <1>7, <1>9, <1>10, <1>11 DEF F, p, B, m, C

\* A slice's scales fit its rows.
LEMMA PairIs ==
    ASSUME NEW cls, NEW plan, NEW n, Scaled(cls, plan, n), NEW r \in Ranks
    PROVE  LET rows == Rows(plan.segments, n, r)
               scales == Scales(plan.segments, n, r)
           IN /\ Len(scales) = Ceil(Len(rows), Block)
              /\ \A k \in DOMAIN rows :
                    scales[((k - 1) \div Block) + 1] = rows[k] \div Block
<1> DEFINE segs == plan.segments
           m == Len(segs)
           rows == Rows(segs, n, r)
           scales == Scales(segs, n, r)
           F(i) == From(segs, n, i)
           p(i) == Per(segs, n, i)
           B(i) == Begin(segs, i) + r * p(i)
           C(i) == Ceil(F(i), Block)
           f == [i \in 1 .. m + 1 |-> F(i)]
<1>1. /\ m \in {1, 3} /\ DOMAIN segs = 1 .. m /\ Splits(segs, n)
      /\ Block \in Nat \ {0}
  BY ShardAssumption DEF Scaled, Splits, Segmented
<1>2. /\ F(1) = 0
      /\ \A i \in 1 .. m : p(i) \in Nat /\ F(i) \in Nat /\ F(i + 1) = F(i) + p(i)
  BY <1>1, CutIs
<1>3. \A i \in 1 .. m : F(i) = Block * (F(i) \div Block)
  BY <1>1, BlocksBetween
<1>4. /\ IsSeq(rows, F(m + 1))
      /\ \A i \in 1 .. m : \A o \in 1 .. p(i) : rows[F(i) + o] = B(i) + o - 1
  BY <1>1, RowsAre
<1>5. /\ IsSeq(scales, C(m + 1))
      /\ \A i \in 1 .. m :
            /\ C(i) = F(i) \div Block /\ B(i) \in Nat
            /\ \A o \in Nat : o < p(i) =>
                  scales[C(i) + (o \div Block) + 1] = (B(i) + o) \div Block
  <2>1. /\ IsSeq(scales, C(Len(plan.segments) + 1))
        /\ \A i \in DOMAIN plan.segments :
              /\ C(i) = F(i) \div Block /\ B(i) \in Nat
              /\ \A o \in Nat : o < p(i) =>
                    /\ scales[C(i) + (o \div Block) + 1] = (B(i) + o) \div Block
                    /\ o \div Block \in Nat
    BY ScalesAre
  <2> HIDE DEF rows, scales, F, p, B, C
  <2> QED BY <1>1, <2>1
<1> HIDE DEF rows, scales, F, p, B, C
<1>6. \A i \in 1 .. m + 1 : F(i) \in Nat
  <2> HIDE DEF m
  <2>1. m \in 1 .. m /\ \A i \in 1 .. m + 1 : i \in 1 .. m \/ i = m + 1
    BY <1>1
  <2>2. F(m + 1) \in Nat
    BY <1>2, <2>1
  <2> QED BY <1>2, <2>1, <2>2
<1>7. F(m + 1) \in Nat /\ m + 1 \in 1 .. m + 1 /\ 1 \in 1 .. m + 1
      /\ \A i \in 1 .. m : i \in 1 .. m + 1 /\ i + 1 \in 1 .. m + 1
  <2> HIDE DEF m
  <2>1. m + 1 \in 1 .. m + 1
    BY <1>1
  <2> QED BY <1>1, <1>6, <2>1
<1>8. Len(rows) = F(m + 1) /\ DOMAIN rows = 1 .. F(m + 1)
  BY <1>4, <1>7, SeqIs
<1>9. Len(scales) = C(m + 1)
  <2>1. C(m + 1) \in Nat
    BY <1>7, CeilIs DEF C
  <2> QED BY <1>5, <2>1, SeqIs
<1>10. ASSUME NEW k \in DOMAIN rows
       PROVE  scales[((k - 1) \div Block) + 1] = rows[k] \div Block
  <2>1. k - 1 \in Nat /\ k - 1 < F(m + 1) /\ k \in Nat
    BY <1>7, <1>8
  <2>2. /\ f[1] = 0 /\ f[m + 1] = F(m + 1) /\ \A i \in 1 .. m + 1 : f[i] \in Nat
        /\ \A i \in 1 .. m : f[i] = F(i) /\ f[i + 1] = F(i + 1)
    BY <1>2, <1>6, <1>7
  <2> HIDE DEF f
  <2>3. PICK i \in 1 .. m : f[i] <= k - 1 /\ k - 1 < f[i + 1]
    <3> DEFINE x == k - 1
    <3>1. x \in Nat /\ x < f[m + 1]
      BY <2>1, <2>2
    <3> HIDE DEF x, m
    <3>2. \E i \in 1 .. m : f[i] <= x /\ x < f[i + 1]
      BY <1>1, <2>2, <3>1, Between
    <3> QED BY <3>2 DEF x
  <2> DEFINE o == (k - 1) - F(i)
             q == F(i) \div Block
             t == o \div Block
  <2>4. o \in Nat /\ o < p(i) /\ k - 1 = F(i) + o
    BY <1>2, <2>1, <2>2, <2>3
  <2>5. q \in Nat /\ F(i) = Block * q /\ C(i) = q
    BY <1>1, <1>2, <1>3, <1>5, Division
  <2> HIDE DEF o, q
  <2>6. (k - 1) \div Block = q + t
    BY <2>4, <2>5, BlocksBefore
  <2>7. scales[C(i) + t + 1] = (B(i) + o) \div Block
    BY <1>5, <2>4
  <2>8. rows[F(i) + (o + 1)] = B(i) + (o + 1) - 1
    <3>1. o + 1 \in 1 .. p(i)
      BY <1>2, <2>4
    <3> QED BY <1>4, <3>1
  <2>9. F(i) + (o + 1) = k /\ B(i) + (o + 1) - 1 = B(i) + o
    <3>1. F(i) \in Nat /\ B(i) \in Nat
      BY <1>2, <1>5
    <3> HIDE DEF m
    <3> QED BY <2>1, <2>4, <3>1
  <2> QED BY <2>5, <2>6, <2>7, <2>8, <2>9
<1> QED BY <1>8, <1>9, <1>10 DEF rows, scales, C

\* So do those of a whole tensor.
LEMMA WholeIs ==
    ASSUME NEW n \in Nat, NEW k \in DOMAIN Indices(0, n)
    PROVE  Indices(0, Ceil(n, Block))[((k - 1) \div Block) + 1]
              = Indices(0, n)[k] \div Block
<1> DEFINE c == Ceil(n, Block)
           t == (k - 1) \div Block
<1>1. k \in 1 .. n /\ Indices(0, n)[k] = k - 1
  BY DEF Indices
<1>2. c \in Nat /\ t \in Nat /\ t < c
  <2>1. k - 1 \in Nat /\ k - 1 < n
    BY <1>1
  <2> QED BY <2>1, CeilIs
<1> HIDE DEF c, t
<1>3. Indices(0, c)[t + 1] = t
  BY <1>2 DEF Indices
<1> QED BY <1>1, <1>3 DEF c, t

-----------------------------------------------------------------------------
(***************************************************************************)
(* Sharding: the invariant.                                                *)
(***************************************************************************)
\* What Get and Dequant return to rank r.
Got(r) == IF owns(r) THEN RawView(r) ELSE NotOwned

Dequantised(r) ==
    IF ~owns(r) THEN NotOwned ELSE IF Split THEN PairView(r) ELSE WholeView

\* A tensor of an accepted geometry.
Opened ==
    /\ tensor.geo \in Geometries /\ tensor.name \in DOMAIN Plans(tensor.geo)
    /\ \A count \in Counts(tensor.geo) : count % TP = 0
    /\ tensor.n \in Nat
    /\ tensor.expert \in 0 .. tensor.geo.experts - 1

\* A rank's view follows from the tensor alone.
ShardInv ==
    /\ views = [r \in Ranks |-> views[r]]
    /\ tensor = NoTensor => \A r \in Ranks : views[r] = Unread
    /\ tensor # NoTensor =>
          /\ Opened
          /\ \A r \in Ranks : views[r] \in {Unread, Got(r), Dequantised(r)}

\* The expert's owner is one of the ranks, although the last one takes what
\* an uneven division would leave.
LEMMA OwnerIs ==
    ASSUME Opened
    PROVE  owner(tensor.expert) \in Ranks
<1> DEFINE x == tensor.expert
           N == tensor.geo.experts
           per == N \div TP
           q == x \div per
<1>1. N \in Dim /\ N % TP = 0 /\ x \in 0 .. N - 1 /\ TP \in Nat \ {0, 1}
  BY PlansAre, ShardAssumption DEF Opened
<1>2. per \in Nat /\ N = TP * per
  BY <1>1, Multiples DEF Dim
<1>3. per \in Nat \ {0}
  <2>1. TP * 0 = 0
    BY <1>1
  <2> HIDE DEF per, N
  <2> QED BY <1>1, <1>2, <2>1 DEF Dim
<1>4. q \in Nat
  <2>1. x \in Nat
    BY <1>1 DEF Dim
  <2> HIDE DEF per, x, N
  <2> QED BY <1>3, <2>1, Division
<1>5. owner(x) = IF q < TP - 1 THEN q ELSE TP - 1
  BY DEF owner
<1> HIDE DEF q
<1> QED BY <1>1, <1>4, <1>5 DEF Ranks

\* What the invariant says.
LEMMA ShardSafe == ShardInv => ShardsExact
<1> SUFFICES ASSUME ShardInv, tensor # NoTensor
             PROVE  ShardsExact
  <2>1. ASSUME ShardInv, tensor = NoTensor
        PROVE  ShardsExact
    <3>1. \A r \in Ranks : views[r].st = "unread"
      BY <2>1 DEF ShardInv, Unread, View
    <3> QED BY <2>1, <3>1 DEF ShardsExact, ShardsTile, AllRead, ScalesFollowRows
  <2> QED BY <2>1
<1> DEFINE plan == plan_for
           segs == plan_for.segments
           n == tensor.n
           cls == tensor.geo.cls
<1>1. Opened /\ \A r \in Ranks : views[r] \in {Unread, Got(r), Dequantised(r)}
  BY DEF ShardInv
<1>2. /\ Planned(cls, plan) /\ n \in Nat
      /\ plan.kind = "experts" => owner(tensor.expert) \in Ranks
  BY <1>1, PlansAre, OwnerIs DEF Opened, plan_for
<1>3. /\ Unread.st = "unread" /\ NotOwned.st = "not_owned" /\ ShardError.st = "error"
      /\ Unread.scales = <<>> /\ NotOwned.scales = <<>>
      /\ WholeView.st = "read" /\ WholeView.rows = Indices(0, n)
      /\ WholeView.scales = Indices(0, Ceil(n, Block))
  BY DEF Unread, NotOwned, ShardError, WholeView, View
<1>4. CASE ~Split
  <2>1. \A r \in Ranks : /\ ~owns(r) => views[r].st \in {"unread", "not_owned"}
                                        /\ views[r].scales = <<>>
                         /\ owns(r) => \/ views[r] = Unread
                                       \/ views[r] = WholeView
                                       \/ views[r] = View("read", Indices(0, n), <<>>)
    BY <1>1, <1>3, <1>4 DEF Got, Dequantised, RawView
  <2>2. \A r \in Ranks :
           /\ views[r].st # "error"
           /\ owns(r) /\ views[r].st # "unread" =>
                 views[r].st = "read" /\ views[r].rows = Indices(0, n)
           /\ views[r].scales # <<>> => views[r].rows = Indices(0, n)
                                        /\ views[r].scales = Indices(0, Ceil(n, Block))
    <3>1. /\ View("read", Indices(0, n), <<>>).st = "read"
          /\ View("read", Indices(0, n), <<>>).rows = Indices(0, n)
          /\ View("read", Indices(0, n), <<>>).scales = <<>>
      BY DEF View
    <3> QED BY <1>3, <2>1, <3>1
  <2>3. ScalesFollowRows
    BY <1>2, <2>2, WholeIs DEF ScalesFollowRows
  <2>4. ShardsTile
    <3> SUFFICES ASSUME AllRead
                 PROVE  ShardsTile
      BY DEF ShardsTile
    <3>1. \A r \in Ranks : views[r].st # "unread"
      BY DEF AllRead
    <3>2. CASE plan.kind = "experts"
      <4> DEFINE w == owner(tensor.expert)
      <4>1. w \in Ranks /\ \A q \in Ranks : owns(q) <=> q = w
        BY <1>2, <3>2 DEF owns
      <4>2. \A q \in Ranks : (views[q].st = "read") <=> (q = w)
        BY <2>1, <2>2, <3>1, <4>1
      <4> QED BY <3>2, <4>1, <4>2 DEF ShardsTile
    <3>3. CASE plan.kind = "replicated"
      <4>1. \A r \in Ranks : owns(r)
        BY <3>3 DEF owns
      <4>2. \A r \in Ranks : views[r].rows = Indices(0, tensor.n)
        BY <2>2, <3>1, <4>1
      <4> QED BY <3>3, <4>2 DEF ShardsTile
    <3> QED BY <1>2, <1>4, <3>2, <3>3 DEF Planned, Split
  <2> QED BY <2>3, <2>4 DEF ShardsExact
<1>5. CASE Split
  <2>1. /\ plan.kind \notin {"experts", "replicated"} /\ Segmented(segs)
        /\ IsDynamic(segs) => Len(segs) = 1 /\ segs[1].unit = 1
        /\ Len(segs) > 1 => cls = "qwen4" /\ plan.kind = "split_out"
    BY <1>2, <1>5 DEF Planned, Split
  <2>2. HasRanges(segs, n) => Splits(segs, n)
    BY <1>2, <2>1 DEF Splits
  <2>3. \A r \in Ranks : views[r] \in {Unread, RawView(r), PairView(r)}
    <3>1. \A r \in Ranks : owns(r)
      BY <2>1 DEF owns
    <3> QED BY <1>1, <1>5, <3>1 DEF Got, Dequantised
  <2> DEFINE raw(r) == View("read", Rows(segs, n, r), <<>>)
             pair(r) == View("read", Rows(segs, n, r), Scales(segs, n, r))
             Can == validate_tensor(segs, n) /\ ScaleSplits(cls, plan)
  <2>4. \A r \in Ranks :
           /\ raw(r).st = "read" /\ raw(r).rows = Rows(segs, n, r) /\ raw(r).scales = <<>>
           /\ pair(r).st = "read" /\ pair(r).rows = Rows(segs, n, r)
           /\ pair(r).scales = Scales(segs, n, r)
    BY DEF View
  <2>5. \A r \in Ranks : RawView(r) = IF HasRanges(segs, n) THEN raw(r) ELSE ShardError
    BY <1>5 DEF RawView
  <2>6. \A r \in Ranks :
           PairView(r) = IF /\ Can
                            /\ Len(Scales(segs, n, r)) = Ceil(Len(Rows(segs, n, r)), Block)
                         THEN pair(r) ELSE ShardError
    BY DEF PairView
  <2>7. Can => /\ HasRanges(segs, n)
               /\ \A r \in Ranks :
                     /\ Len(Scales(segs, n, r)) = Ceil(Len(Rows(segs, n, r)), Block)
                     /\ \A k \in DOMAIN Rows(segs, n, r) :
                           Scales(segs, n, r)[((k - 1) \div Block) + 1]
                              = Rows(segs, n, r)[k] \div Block
    <3> SUFFICES ASSUME Can
                 PROVE  /\ HasRanges(segs, n)
                        /\ \A r \in Ranks :
                              /\ Len(Scales(segs, n, r))
                                    = Ceil(Len(Rows(segs, n, r)), Block)
                              /\ \A k \in DOMAIN Rows(segs, n, r) :
                                    Scales(segs, n, r)[((k - 1) \div Block) + 1]
                                       = Rows(segs, n, r)[k] \div Block
      OBVIOUS
    <3>1. HasRanges(segs, n)
      BY DEF validate_tensor
    <3>2. Scaled(cls, plan, n)
      BY <2>1, <2>2, <3>1 DEF Scaled
    <3> QED BY <3>1, <3>2, PairIs
  <2>8. \A r \in Ranks : PairView(r) = IF Can THEN pair(r) ELSE ShardError
    BY <2>6, <2>7
  <2> HIDE DEF raw, pair, Can
  <2>9. \A r \in Ranks :
           \/ views[r].st \in {"unread", "error"} /\ views[r].scales = <<>>
           \/ HasRanges(segs, n) /\ views[r] = raw(r)
           \/ Can /\ views[r] = pair(r)
    <3>1. ShardError.scales = <<>>
      BY DEF ShardError, View
    <3> QED BY <1>3, <2>3, <2>5, <2>8, <3>1
  <2>10. ShardsTile
    <3> SUFFICES ASSUME AllRead, \A r \in Ranks : views[r].st # "error"
                 PROVE  ShardsTile
      BY DEF ShardsTile
    <3>1. \A r \in Ranks : views[r].rows = Rows(segs, n, r) /\ HasRanges(segs, n)
      BY <2>4, <2>7, <2>9 DEF AllRead
    <3>2. 0 \in Ranks
      BY ShardAssumption DEF Ranks
    <3>3. Splits(segs, n)
      BY <2>2, <3>1, <3>2
    <3>4. FullFromShards(segs, n) = [k \in 0 .. n - 1 |-> k] /\ UnitsWhole(segs, n)
      BY <3>1, <3>3, TileIs, UnitsAre
    <3> QED BY <2>1, <3>4 DEF ShardsTile
  <2>11. ScalesFollowRows
    <3> SUFFICES ASSUME NEW r \in Ranks, views[r].st = "read", views[r].scales # <<>>
                 PROVE  /\ \A k \in DOMAIN views[r].rows :
                              views[r].scales[((k - 1) \div Block) + 1]
                                 = views[r].rows[k] \div Block
                        /\ \A q \in Ranks : views[q].st # "error"
      BY DEF ScalesFollowRows
    <3>1. Can /\ views[r] = pair(r)
      BY <2>4, <2>9
    <3>2. views[r].rows = Rows(segs, n, r) /\ views[r].scales = Scales(segs, n, r)
      BY <2>4, <3>1
    <3>3. \A q \in Ranks : views[q].st # "error"
      BY <1>3, <2>3, <2>4, <2>5, <2>7, <2>8, <3>1
    <3> QED BY <2>7, <3>1, <3>2, <3>3
  <2> QED BY <2>10, <2>11 DEF ShardsExact
<1> QED BY <1>4, <1>5

\* No rank has asked yet.
LEMMA ShardInitInv == ShardInit => ShardInv
BY DEF ShardInit, ShardInv

\* What a rank is given depends on the tensor alone.
LEMMA SameTensor ==
    ASSUME tensor' = tensor
    PROVE  /\ Opened' <=> Opened
           /\ \A r \in Ranks : Got(r)' = Got(r) /\ Dequantised(r)' = Dequantised(r)
<1>1. Opened' <=> Opened
  BY DEF Opened
<1>2. \A r \in Ranks : owns(r)' <=> owns(r)
  BY DEF owns, owner, plan_for
<1>3. \A r \in Ranks : RawView(r)' = RawView(r) /\ PairView(r)' = PairView(r)
  BY DEF RawView, PairView, plan_for, Split
<1>4. (Split' <=> Split) /\ WholeView' = WholeView
  BY DEF Split, WholeView, plan_for
<1> QED BY <1>1, <1>2, <1>3, <1>4 DEF Got, Dequantised

\* Opening a tensor gives it a size and a plan; a rank that asks is given what
\* its view says, and the others keep theirs.
LEMMA ShardNextInv == ShardInv /\ [ShardNext]_shardVars => ShardInv'
<1> SUFFICES ASSUME ShardInv, [ShardNext]_shardVars
             PROVE  ShardInv'
  OBVIOUS
<1>1. ASSUME NEW g \in Geometries, NEW name \in DOMAIN Plans(g), Open(g, name)
      PROVE  ShardInv'
  <2> DEFINE segs == Plans(g)[name].segments
             planned == IF segs = <<>> \/ Total(segs) = Dynamic THEN g.vocab
                        ELSE Total(segs)
  <2>1. /\ tensor = NoTensor /\ views' = views
        /\ \A count \in Counts(g) : count % TP = 0
    BY <1>1 DEF Open
  <2>2. PICK n \in {planned, planned + 1}, expert \in 0 .. g.experts - 1,
             quantized \in BOOLEAN :
          tensor' = [name |-> name, geo |-> g, n |-> n,
                     expert |-> expert, quantized |-> quantized]
    BY <1>1 DEF Open
  <2>3. name # "none" /\ Planned(g.cls, Plans(g)[name]) /\ g.vocab \in Dim
    BY PlansAre
  <2>4. planned \in Nat
    <3>1. CASE Plans(g)[name].kind \in {"split_out", "split_in"}
      <4>1. Segmented(segs)
        BY <2>3, <3>1 DEF Planned
      <4>2. Total(segs) \in Nat
        <5>1. Len(segs) \in DOMAIN segs
          <6> HIDE DEF segs
          <6>1. Len(segs) \in {1, 3} /\ DOMAIN segs = 1 .. Len(segs)
            BY <4>1 DEF Segmented
          <6> QED BY <6>1
        <5> QED BY <4>1, <5>1, BasesAre DEF Total
      <4> QED BY <2>3, <4>2 DEF Dim
    <3>2. CASE Plans(g)[name].kind \notin {"split_out", "split_in"}
      <4>1. segs = <<>>
        BY <2>3, <3>2 DEF Planned
      <4> QED BY <2>3, <4>1 DEF Dim
    <3> QED BY <3>1, <3>2
  <2>5. n \in Nat
    <3> HIDE DEF planned
    <3> QED BY <2>4
  <2>6. /\ tensor'.geo = g /\ tensor'.name = name /\ tensor'.n = n
        /\ tensor'.expert = expert /\ tensor' # NoTensor
    BY <2>2, <2>3 DEF NoTensor
  <2>7. Opened'
    BY <2>1, <2>5, <2>6 DEF Opened
  <2> QED BY <2>1, <2>6, <2>7 DEF ShardInv
<1>2. ASSUME NEW r \in Ranks, Get(r) \/ Dequant(r)
      PROVE  ShardInv'
  <2>1. /\ tensor # NoTensor /\ tensor' = tensor
        /\ \E v \in {Got(r), Dequantised(r)} : views' = [views EXCEPT ![r] = v]
    BY <1>2 DEF Get, Dequant, Got, Dequantised
  <2>2. PICK v \in {Got(r), Dequantised(r)} : views' = [views EXCEPT ![r] = v]
    BY <2>1
  <2>3. /\ views' = [q \in Ranks |-> views'[q]]
        /\ \A q \in Ranks : views'[q] = IF q = r THEN v ELSE views[q]
    BY <2>2 DEF ShardInv
  <2>4. Opened' /\ \A q \in Ranks : Got(q)' = Got(q) /\ Dequantised(q)' = Dequantised(q)
    BY <2>1, SameTensor DEF ShardInv
  <2>5. \A q \in Ranks : views'[q] \in {Unread, Got(q), Dequantised(q)}
    BY <2>1, <2>2, <2>3 DEF ShardInv
  <2>6. \A q \in Ranks : views'[q] \in {Unread, Got(q)', Dequantised(q)'}
    BY <2>4, <2>5
  <2>7. Unread' = Unread /\ NoTensor' = NoTensor
    OBVIOUS
  <2> QED BY <2>1, <2>3, <2>4, <2>6 DEF ShardInv
<1>3. CASE UNCHANGED shardVars
  <2>1. tensor' = tensor /\ views' = views
    BY <1>3 DEF shardVars
  <2>2. \A q \in Ranks : Got(q)' = Got(q) /\ Dequantised(q)' = Dequantised(q)
    BY <2>1, SameTensor
  <2>3. Opened' <=> Opened
    BY <2>1, SameTensor
  <2> QED BY <2>1, <2>2, <2>3 DEF ShardInv
<1> QED BY <1>1, <1>2, <1>3 DEF ShardNext

\* The slices that the ranks compute apart make up the tensor, with every row
\* at its place, no unit cut and every expert on one rank; and a slice's
\* scales are those of its rows: for every geometry, number of ranks and block
\* size, what ShardsExact says of tp_shard.py and rank_table.py.
THEOREM ShardsAlwaysExact == ShardSpec => []ShardsExact
<1>1. ShardInv => ShardsExact
  BY ShardSafe
<1> QED BY <1>1, ShardInitInv, ShardNextInv, PTL DEF ShardSpec
=============================================================================

--------------------------- MODULE HttpServer_proofs ---------------------------
(***************************************************************************)
(* Proofs about HttpServer, for any number of connections and slots: a     *)
(* body that do_POST reads or refuses never becomes a request line, a      *)
(* request gets one status line as long as its client reads, and no slot   *)
(* of conn_sem is lost or given back twice.                                *)
(*                                                                         *)
(* What a connection has in flight when its handler waits for a request    *)
(* depends on how the last one ended, so it has to be known at every place *)
(* of the handler (InFlight); and that no second status line is written    *)
(* rests on what a handler at that place has written (Written).            *)
(***************************************************************************)
EXTENDS HttpServer, FiniteSets, FiniteSetTheorems, SequenceTheorems, TLAPS

Places == {"enter", "head", "method", "body", "run", "reply", "stream", "error",
           "end", "closed"}

Tasks == [kind : Kinds, events : Nat, keep : BOOLEAN, caught : BOOLEAN]

HttpTypeOK ==
    /\ wire \in [Conns -> Seq(Kinds \union Bodies)]
    /\ left \in Nat
    /\ owes \in [Conns -> {"nothing"} \union Bodies]
    /\ gone \in [Conns -> BOOLEAN]
    /\ stalled \in [Conns -> BOOLEAN]
    /\ lazy \in [Conns -> BOOLEAN]
    /\ hpc \in [Conns -> Places]
    /\ task \in [Conns -> Tasks]
    /\ lines \in [Conns -> Nat]
    /\ deaf \in [Conns -> BOOLEAN]
    /\ slots \in Nat

\* Nothing of the last request is in flight, nor will be.
Drained(c) == wire[c] = <<>> /\ (owes[c] # "nothing" => gone[c])

\* What follows the head k is on its way, or not yet.
Following(c, k) ==
    \/ wire[c] = <<>> /\ owes[c] \in {"nothing", Follows(k)}
    \/ wire[c] = <<Follows(k)>> /\ owes[c] = "nothing" /\ Follows(k) # "nothing"

\* The head of the next request, with what follows it or before it.
Requested(c) ==
    \E k \in Kinds :
        \/ wire[c] = <<k>> /\ owes[c] \in {"nothing", Follows(k)}
        \/ /\ wire[c] = <<k, Follows(k)>>
           /\ owes[c] = "nothing" /\ Follows(k) # "nothing"

\* Bytes that no branch accounts for come first, or will.
Strayed(c) ==
    \/ wire[c] = <<>> /\ owes[c] = "stray"
    \/ wire[c] # <<>> /\ Head(wire[c]) = "stray"

\* What is in flight on a connection, by where its handler is.  A connection
\* whose reads fail, and one that will be closed, may carry anything.
InFlight(c) ==
    /\ hpc[c] \in {"enter", "head"} /\ ~deaf[c] =>
          Drained(c) \/ Requested(c) \/ Strayed(c)
    /\ hpc[c] \in {"method", "body"} => Following(c, task[c].kind)
    /\ hpc[c] = "run" => Drained(c)
    /\ hpc[c] = "reply" /\ (task[c].keep \/ task[c].caught) /\ ~deaf[c] =>
          Drained(c) \/ Strayed(c)
    /\ deaf[c] => hpc[c] \in {"enter", "head", "reply", "closed"}

\* The status lines a handler has written, by where it is, for a client that
\* reads.
Written(c) ==
    /\ stalled[c] => lazy[c]
    /\ ~lazy[c] /\ ~gone[c] =>
          /\ lines[c] <= 1
          /\ hpc[c] \in {"head", "method", "body", "run", "reply"} => lines[c] = 0

\* Connections whose handlers hold a slot.
Holding == {c \in Conns : hpc[c] \notin {"enter", "closed"}}

\* The semaphore and the handlers agree: a slot is free or one handler's.
SlotsCounted == IsFiniteSet(Holding) /\ slots + Cardinality(Holding) = MaxSlots

HttpInv ==
    /\ HttpTypeOK
    /\ \A c \in Conns : InFlight(c) /\ Written(c)
    /\ SlotsCounted

-----------------------------------------------------------------------------
(***************************************************************************)
(* What a step of one connection leaves alone.                             *)
(***************************************************************************)
\* Every other connection stays as it is.
Others(c) ==
    \A d \in Conns \ {c} :
        /\ wire'[d] = wire[d] /\ owes'[d] = owes[d] /\ gone'[d] = gone[d]
        /\ stalled'[d] = stalled[d] /\ lazy'[d] = lazy[d] /\ hpc'[d] = hpc[d]
        /\ task'[d] = task[d] /\ lines'[d] = lines[d] /\ deaf'[d] = deaf[d]

\* What holds of a connection is disturbed by its own steps only.
LEMMA OthersInv ==
    ASSUME HttpInv, NEW c \in Conns, Others(c), HttpTypeOK',
           InFlight(c)', Written(c)', SlotsCounted'
    PROVE  HttpInv'
<1> SUFFICES ASSUME NEW d \in Conns, d # c PROVE InFlight(d)' /\ Written(d)'
    BY DEF HttpInv
<1>1. InFlight(d) /\ Written(d)
    BY DEF HttpInv
<1>2. /\ wire'[d] = wire[d] /\ owes'[d] = owes[d] /\ gone'[d] = gone[d]
      /\ stalled'[d] = stalled[d] /\ lazy'[d] = lazy[d] /\ hpc'[d] = hpc[d]
      /\ task'[d] = task[d] /\ lines'[d] = lines[d] /\ deaf'[d] = deaf[d]
    BY DEF Others
<1> QED
    BY <1>1, <1>2 DEF InFlight, Written, Drained, Following, Requested, Strayed

\* A step that neither takes nor gives back a slot.
LEMMA SlotKept ==
    ASSUME HttpInv, NEW c \in Conns, Others(c), slots' = slots,
           hpc'[c] \in {"enter", "closed"} <=> hpc[c] \in {"enter", "closed"}
    PROVE  SlotsCounted'
<1>1. Holding' = Holding
    BY DEF Holding, Others
<1> QED
    BY <1>1 DEF HttpInv, SlotsCounted

\* A handler takes a slot.
LEMMA SlotTaken ==
    ASSUME HttpInv, NEW c \in Conns, Others(c), slots > 0, slots' = slots - 1,
           hpc[c] = "enter", hpc'[c] = "head"
    PROVE  SlotsCounted'
<1>1. Holding' = Holding \union {c} /\ c \notin Holding
    BY DEF Holding, Others
<1>2. /\ IsFiniteSet(Holding) /\ slots \in Nat
      /\ slots + Cardinality(Holding) = MaxSlots
    BY DEF HttpInv, HttpTypeOK, SlotsCounted
<1>3. /\ IsFiniteSet(Holding')
      /\ Cardinality(Holding') = Cardinality(Holding) + 1
    BY <1>1, <1>2, FS_AddElement
<1>4. Cardinality(Holding) \in Nat
    BY <1>2, FS_CardinalityType
<1> QED
    BY <1>2, <1>3, <1>4 DEF SlotsCounted

\* A handler gives its slot back.
LEMMA SlotGiven ==
    ASSUME HttpInv, NEW c \in Conns, Others(c), slots' = slots + 1,
           hpc[c] \notin {"enter", "closed"}, hpc'[c] \in {"enter", "closed"}
    PROVE  SlotsCounted'
<1>1. Holding' = Holding \ {c} /\ c \in Holding
    BY DEF Holding, Others
<1>2. /\ IsFiniteSet(Holding) /\ slots \in Nat
      /\ slots + Cardinality(Holding) = MaxSlots
    BY DEF HttpInv, HttpTypeOK, SlotsCounted
<1>3. /\ IsFiniteSet(Holding')
      /\ Cardinality(Holding') = Cardinality(Holding) - 1
    BY <1>1, <1>2, FS_RemoveElement
<1>4. Cardinality(Holding) \in Nat
    BY <1>2, FS_CardinalityType
<1> QED
    BY <1>2, <1>3, <1>4 DEF SlotsCounted

\* What is in flight: a head, what follows it, or both.
LEMMA WireFacts ==
    ASSUME NEW k, NEW b
    PROVE  /\ <<k>> # <<>> /\ Head(<<k>>) = k /\ Tail(<<k>>) = <<>>
           /\ <<k, b>> # <<>> /\ Head(<<k, b>>) = k
           /\ Tail(<<k, b>>) = <<b>>
           /\ Append(<<>>, b) = <<b>>
           /\ Append(<<k>>, b) = <<k, b>>
<1>1. <<k>> # <<>> /\ <<k, b>> # <<>>
    OBVIOUS
<1>2. Head(<<k>>) = k /\ Head(<<k, b>>) = k
    OBVIOUS
<1>3. Tail(<<k>>) = <<>>
    OBVIOUS
<1>4. Tail(<<k, b>>) = <<b>>
    OBVIOUS
<1>5. Append(<<>>, b) = <<b>>
    OBVIOUS
<1>6. Append(<<k>>, b) = <<k, b>>
  <2> DEFINE S == {k, b}
             u == Append(<<k>>, b)
             v == <<k, b>>
  <2>1. /\ <<k>> \in Seq(S) /\ Len(<<k>>) = 1 /\ <<k>>[1] = k
        /\ v \in Seq(S) /\ Len(v) = 2 /\ v[1] = k /\ v[2] = b
      OBVIOUS
  <2>2. u \in Seq(S) /\ Len(u) = 2 /\ u[1] = k /\ u[2] = b
      BY <2>1
  <2> HIDE DEF u, v, S
  <2>3. \A i \in 1 .. 2 : u[i] = v[i]
      BY <2>1, <2>2
  <2>4. u = v
      BY ONLY <2>1, <2>2, <2>3, SeqEqual
  <2> QED
      BY <2>4 DEF u, v
<1> QED
    BY <1>1, <1>2, <1>3, <1>4, <1>5, <1>6

\* What comes first stays first when more is sent.
LEMMA FirstStays ==
    ASSUME NEW S, NEW s \in Seq(S), NEW e, s # <<>>
    PROVE  Append(s, e) # <<>> /\ Head(Append(s, e)) = Head(s)
<1> DEFINE T == S \union {e}
<1>1. s \in Seq(T) /\ e \in T
    OBVIOUS
<1>2. Append(s, e) \in Seq(T) /\ Len(Append(s, e)) = Len(s) + 1
      /\ Append(s, e)[1] = s[1] /\ Len(s) > 0
    BY <1>1
<1> QED
    BY <1>1, <1>2

\* Heads are no bodies, and what follows a head is no head.
LEMMA FollowsFacts ==
    ASSUME NEW k \in Kinds
    PROVE  /\ k \notin Bodies
           /\ Follows(k) \in {"nothing"} \union Bodies
           /\ k \in WithoutBody => Follows(k) = "nothing"
           /\ k \in Ignored => Follows(k) = "stray"
           /\ k \notin WithoutBody \union Ignored => Follows(k) = "body"
BY DEF Kinds, WithoutBody, Ignored, Refused, Bodies, Follows

-----------------------------------------------------------------------------
(***************************************************************************)
(* How a handler moves.                                                    *)
(***************************************************************************)
\* It goes to h with task t.
Moves(c, h, t) ==
    /\ hpc' = [hpc EXCEPT ![c] = h]
    /\ task' = [task EXCEPT ![c] = t]

\* It is there then, and the others are where they were.
LEMMA MovesFacts ==
    ASSUME HttpTypeOK, NEW c \in Conns, NEW h \in Places, NEW t \in Tasks,
           Moves(c, h, t)
    PROVE  /\ hpc' \in [Conns -> Places] /\ task' \in [Conns -> Tasks]
           /\ hpc'[c] = h /\ task'[c] = t
           /\ \A d \in Conns \ {c} : hpc'[d] = hpc[d] /\ task'[d] = task[d]
BY DEF HttpTypeOK, Moves

\* A handler that has done with a request has no task.
LEMMA NoTaskTyped == NoTask \in Tasks
BY DEF NoTask, Tasks, Kinds, WithoutBody

\* It has a reply to write and keeps the connection.
LEMMA SendKeeping ==
    ASSUME NEW c, NEW q \in BOOLEAN, Send(c, TRUE, q)
    PROVE  /\ slots' = slots
           /\ \E t \in Tasks :
                 Moves(c, "reply", t) /\ t.keep /\ t.caught = q
<1> DEFINE t == [NoTask EXCEPT !.keep = TRUE, !.caught = q]
<1>1. t \in Tasks
    BY DEF NoTask, Tasks, Kinds, WithoutBody
<1>2. t.keep = TRUE
    BY DEF NoTask
<1>3. t.caught = q
    BY DEF NoTask
<1>4. slots' = slots /\ Moves(c, "reply", t)
    BY DEF Send, To, Moves
<1> HIDE DEF t
<1> QED
    BY <1>1, <1>2, <1>3, <1>4

\* It has a reply to write and closes the connection.
LEMMA SendClosing ==
    ASSUME NEW c, Send(c, FALSE, FALSE)
    PROVE  /\ slots' = slots
           /\ \E t \in Tasks : Moves(c, "reply", t) /\ ~t.keep /\ ~t.caught
<1> DEFINE t == [NoTask EXCEPT !.keep = FALSE, !.caught = FALSE]
<1>1. t \in Tasks
    BY DEF NoTask, Tasks, Kinds, WithoutBody
<1>2. t.keep = FALSE /\ t.caught = FALSE
    BY DEF NoTask
<1>3. slots' = slots /\ Moves(c, "reply", t)
    BY DEF Send, To, Moves
<1> HIDE DEF t
<1> QED
    BY <1>1, <1>2, <1>3

\* It has done with the request and waits for the next.
LEMMA LeaveKeeping ==
    ASSUME NEW c, Leave(c, TRUE)
    PROVE  slots' = slots + 1 /\ Moves(c, "enter", NoTask) /\ NoTask \in Tasks
BY NoTaskTyped DEF Leave, Moves

\* It has done with the request and the connection.
LEMMA LeaveClosing ==
    ASSUME NEW c, Leave(c, FALSE)
    PROVE  slots' = slots + 1 /\ Moves(c, "closed", NoTask) /\ NoTask \in Tasks
BY NoTaskTyped DEF Leave, Moves

\* It goes on with its task.
LEMMA GoFacts ==
    ASSUME HttpTypeOK, NEW c \in Conns, NEW h, Go(c, h)
    PROVE  /\ slots' = slots
           /\ task[c] \in Tasks /\ Moves(c, h, task[c])
BY DEF Go, To, Moves, HttpTypeOK

-----------------------------------------------------------------------------
(***************************************************************************)
(* The invariant, action by action.                                        *)
(***************************************************************************)
\* No connection has begun.
LEMMA InitInv == HttpInit => HttpInv
<1> SUFFICES ASSUME HttpInit PROVE HttpInv
    OBVIOUS
<1>1. HttpTypeOK
  <2>1. NoTask \in Tasks /\ {MaxRequests, MaxSlots} \subseteq Nat
      BY NoTaskTyped, HttpAssumption
  <2>2. <<>> \in Seq(Kinds \union Bodies)
      OBVIOUS
  <2> QED
      BY <2>1, <2>2 DEF HttpInit, HttpTypeOK, Places
<1>2. \A c \in Conns : InFlight(c) /\ Written(c)
  <2> TAKE c \in Conns
  <2>1. /\ wire[c] = <<>> /\ owes[c] = "nothing" /\ stalled[c] = FALSE
        /\ lines[c] = 0 /\ hpc[c] = "enter" /\ deaf[c] = FALSE
      BY DEF HttpInit
  <2> QED
      BY <2>1 DEF InFlight, Written, Drained
<1>3. Holding = {}
    BY DEF HttpInit, Holding
<1>4. SlotsCounted
    BY <1>3, FS_EmptySet, HttpAssumption DEF HttpInit, SlotsCounted
<1> QED
    BY <1>1, <1>2, <1>4 DEF HttpInv

\* A client sends a head when nothing of it is in flight but stray bytes.
LEMMA SendHeadInv ==
    ASSUME HttpInv, NEW c \in Conns, SendHead(c)
    PROVE  HttpInv'
<1> USE DEF SendHead, clientVars
<1>1. HttpTypeOK /\ InFlight(c) /\ Written(c)
    BY DEF HttpInv
<1>k. PICK k \in Kinds :
          /\ wire' = [wire EXCEPT ![c] = Append(@, k)]
          /\ owes' = [owes EXCEPT ![c] = Follows(k)]
    OBVIOUS
<1>v. wire'[c] = Append(wire[c], k) /\ owes'[c] = Follows(k)
    BY <1>1, <1>k DEF HttpTypeOK
<1>t. HttpTypeOK'
  <2>1. Append(wire[c], k) \in Seq(Kinds \union Bodies)
      BY <1>1 DEF HttpTypeOK
  <2>2. wire' \in [Conns -> Seq(Kinds \union Bodies)]
      BY <1>1, <1>k, <2>1 DEF HttpTypeOK
  <2>3. owes' \in [Conns -> {"nothing"} \union Bodies]
      BY <1>1, <1>k, FollowsFacts DEF HttpTypeOK
  <2> QED
      BY <1>1, <2>2, <2>3 DEF HttpTypeOK
<1>o. Others(c)
    BY <1>1, <1>k DEF HttpTypeOK, Others
<1>f. InFlight(c)'
  <2>1. CASE wire[c] = <<>>
    <3>1. wire'[c] = <<k>>
        BY <1>v, <2>1, WireFacts
    <3>2. Requested(c)'
        BY <1>v, <3>1 DEF Requested
    <3> QED
        BY <1>1, <3>2 DEF InFlight, Unanswered
  <2>2. CASE wire[c] = <<"stray">>
    <3>1. wire'[c] = <<"stray", k>>
        BY <1>v, <2>2, WireFacts
    <3>2. Strayed(c)'
        BY <3>1, WireFacts DEF Strayed
    <3> QED
        BY <1>1, <3>2 DEF InFlight, Unanswered
  <2> QED
      BY <2>1, <2>2
<1>w. Written(c)'
    BY <1>1, <1>v DEF Written
<1>s. SlotsCounted'
    BY <1>o, SlotKept
<1> QED
    BY <1>t, <1>o, <1>f, <1>w, <1>s, OthersInv

\* The body follows its head, which may have been read.
LEMMA SendBodyInv ==
    ASSUME HttpInv, NEW c \in Conns, SendBody(c)
    PROVE  HttpInv'
<1> USE DEF SendBody, clientVars
<1>1. HttpTypeOK /\ InFlight(c) /\ Written(c)
    BY DEF HttpInv
<1>v. /\ wire'[c] = Append(wire[c], owes[c]) /\ owes'[c] = "nothing"
      /\ owes[c] # "nothing" /\ ~gone[c]
    BY <1>1 DEF HttpTypeOK
<1>t. HttpTypeOK'
  <2>1. Append(wire[c], owes[c]) \in Seq(Kinds \union Bodies)
      BY <1>1 DEF HttpTypeOK
  <2>2. wire' \in [Conns -> Seq(Kinds \union Bodies)]
      BY <1>1, <2>1 DEF HttpTypeOK
  <2>3. owes' \in [Conns -> {"nothing"} \union Bodies]
      BY <1>1 DEF HttpTypeOK
  <2> QED
      BY <1>1, <2>2, <2>3 DEF HttpTypeOK
<1>o. Others(c)
    BY <1>1 DEF HttpTypeOK, Others
<1>r. Requested(c) => Requested(c)'
    BY <1>v, WireFacts DEF Requested
<1>y. Strayed(c) => Strayed(c)'
  <2>1. CASE wire[c] = <<>>
      BY <1>v, <2>1, WireFacts DEF Strayed
  <2>2. CASE wire[c] # <<>>
    <3>1. wire[c] \in Seq(Kinds \union Bodies)
        BY <1>1 DEF HttpTypeOK
    <3>2. wire'[c] # <<>> /\ Head(wire'[c]) = Head(wire[c])
        BY <1>v, <2>2, <3>1, FirstStays
    <3> QED
        BY <2>2, <3>2 DEF Strayed
  <2> QED
      BY <2>1, <2>2
<1>b. Following(c, task[c].kind) => Following(c, task[c].kind)'
    BY <1>v, WireFacts DEF Following
<1>d. ~Drained(c)
    BY <1>v DEF Drained
<1>f. InFlight(c)'
    BY <1>1, <1>r, <1>y, <1>b, <1>d DEF InFlight
<1>w. Written(c)'
    BY <1>1, <1>v DEF Written
<1>s. SlotsCounted'
    BY <1>o, <1>v, SlotKept
<1> QED
    BY <1>t, <1>o, <1>f, <1>w, <1>s, OthersInv

\* A client that goes away sends nothing more.
LEMMA DisconnectInv ==
    ASSUME HttpInv, NEW c \in Conns, Disconnect(c)
    PROVE  HttpInv'
<1> USE DEF Disconnect, clientVars
<1>1. HttpTypeOK /\ InFlight(c) /\ Written(c)
    BY DEF HttpInv
<1>v. gone'[c] = TRUE
    BY <1>1 DEF HttpTypeOK
<1>t. HttpTypeOK'
    BY <1>1, <1>v DEF HttpTypeOK, Places
<1>o. Others(c)
    BY <1>1 DEF HttpTypeOK, Others
<1>f. InFlight(c)'
    BY <1>1, <1>v DEF InFlight, Drained, Following, Requested, Strayed
<1>w. Written(c)'
    BY <1>1, <1>v DEF Written
<1>s. SlotsCounted'
    BY <1>o, <1>v, SlotKept
<1> QED
    BY <1>t, <1>o, <1>f, <1>w, <1>s, OthersInv

\* A client that does not read is known not to.
LEMMA StallInv ==
    ASSUME HttpInv, NEW c \in Conns, Stall(c)
    PROVE  HttpInv'
<1> USE DEF Stall, clientVars
<1>1. HttpTypeOK /\ InFlight(c) /\ Written(c)
    BY DEF HttpInv
<1>v. lazy'[c] = TRUE
    BY <1>1 DEF HttpTypeOK
<1>t. HttpTypeOK'
    BY <1>1, <1>v DEF HttpTypeOK, Places
<1>o. Others(c)
    BY <1>1 DEF HttpTypeOK, Others
<1>f. InFlight(c)'
    BY <1>1, <1>v DEF InFlight, Drained, Following, Requested, Strayed
<1>w. Written(c)'
    BY <1>1, <1>v DEF Written
<1>s. SlotsCounted'
    BY <1>o, <1>v, SlotKept
<1> QED
    BY <1>t, <1>o, <1>f, <1>w, <1>s, OthersInv

\* A handler enters with what the last request left: nothing.
LEMMA AcquireInv ==
    ASSUME HttpInv, NEW c \in Conns, Acquire(c)
    PROVE  HttpInv'
<1> USE DEF Acquire, clientVars
<1>1. HttpTypeOK /\ InFlight(c) /\ Written(c)
    BY DEF HttpInv
<1>v. hpc'[c] = "head" /\ lines'[c] = 0 /\ slots \in Nat
    BY <1>1 DEF HttpTypeOK
<1>t. HttpTypeOK'
    BY <1>1, <1>v DEF HttpTypeOK, Places
<1>o. Others(c)
    BY <1>1 DEF HttpTypeOK, Others
<1>f. InFlight(c)'
    BY <1>1, <1>v DEF InFlight, Drained, Following, Requested, Strayed
<1>w. Written(c)'
    BY <1>1, <1>v DEF Written
<1>s. SlotsCounted'
    BY <1>o, <1>v, SlotTaken
<1> QED
    BY <1>t, <1>o, <1>f, <1>w, <1>s, OthersInv

\* A connection refused for want of a slot is closed.
LEMMA SaturatedInv ==
    ASSUME HttpInv, NEW c \in Conns, Saturated(c)
    PROVE  HttpInv'
<1> USE DEF Saturated, clientVars
<1>1. HttpTypeOK /\ InFlight(c) /\ Written(c)
    BY DEF HttpInv
<1>v. hpc'[c] = "closed" /\ lines'[c] = 1
    BY <1>1 DEF HttpTypeOK
<1>t. HttpTypeOK'
    BY <1>1, <1>v DEF HttpTypeOK, Places
<1>o. Others(c)
    BY <1>1 DEF HttpTypeOK, Others
<1>f. InFlight(c)'
    BY <1>1, <1>v DEF InFlight, Drained, Following, Requested, Strayed
<1>w. Written(c)'
    BY <1>1, <1>v DEF Written
<1>s. SlotsCounted'
    BY <1>o, <1>v, SlotKept
<1> QED
    BY <1>t, <1>o, <1>f, <1>w, <1>s, OthersInv

\* The head that is read is that of a request.
LEMMA ReadHeadInv ==
    ASSUME HttpInv, NEW c \in Conns, ReadHead(c)
    PROVE  HttpInv'
<1> USE DEF ReadHead, clientVars
<1>1. HttpTypeOK /\ InFlight(c) /\ Written(c)
    BY DEF HttpInv
<1>h. PICK k \in Kinds :
          \/ wire[c] = <<k>> /\ owes[c] \in {"nothing", Follows(k)}
          \/ /\ wire[c] = <<k, Follows(k)>>
             /\ owes[c] = "nothing" /\ Follows(k) # "nothing"
  <2>1. ~Drained(c)
      BY DEF Drained
  <2>2. ~Strayed(c)
      BY FollowsFacts DEF Strayed, Bodies
  <2> QED
      BY <1>1, <2>1, <2>2 DEF InFlight, Requested
<1>k. Head(wire[c]) = k /\ wire[c] # <<>>
    BY <1>h, WireFacts
<1>m. PICK h \in {"method"}, t \in Tasks :
          /\ Moves(c, h, t)
          /\ t.kind = k
  <2>1. PICK t : t = [NoTask EXCEPT !.kind = k]
      OBVIOUS
  <2>2. t \in Tasks /\ t.kind = k
      BY <2>1 DEF NoTask, Tasks, Kinds, WithoutBody
  <2> QED
      BY <1>k, <2>1, <2>2 DEF To, Moves
<1>2. h \in Places
    BY DEF Places
<1>3. /\ hpc' \in [Conns -> Places] /\ task' \in [Conns -> Tasks]
      /\ \A d \in Conns \ {c} : hpc'[d] = hpc[d] /\ task'[d] = task[d]
    BY <1>1, <1>m, <1>2, MovesFacts
<1>v. /\ hpc'[c] = h /\ task'[c] = t
      /\ t.kind = k
      /\ wire'[c] = Tail(wire[c])
      /\ slots' = slots
    BY <1>1, <1>m, <1>2, MovesFacts DEF HttpTypeOK, To
<1>t. HttpTypeOK'
  <2>1. wire' \in [Conns -> Seq(Kinds \union Bodies)]
    <3>1. Tail(wire[c]) \in Seq(Kinds \union Bodies)
        BY <1>1, <1>k DEF HttpTypeOK
    <3> QED
        BY <1>1, <3>1 DEF HttpTypeOK
  <2> QED
      BY <1>1, <1>3, <1>v, <2>1 DEF HttpTypeOK
<1>o. Others(c)
    BY <1>1, <1>3 DEF HttpTypeOK, Others
<1>f. InFlight(c)'
  <2>1. owes'[c] = owes[c]
      OBVIOUS
  <2>2. /\ task'[c].kind = k
        /\ \/ wire'[c] = <<>> /\ owes'[c] \in {"nothing", Follows(k)}
           \/ /\ wire'[c] = <<Follows(k)>>
              /\ owes'[c] = "nothing" /\ Follows(k) # "nothing"
    <3>1. CASE wire[c] = <<k>> /\ owes[c] \in {"nothing", Follows(k)}
      <4>1. Tail(wire[c]) = <<>>
          BY <3>1, WireFacts
      <4> QED
          BY <1>v, <2>1, <3>1, <4>1
    <3>2. CASE /\ wire[c] = <<k, Follows(k)>>
               /\ owes[c] = "nothing" /\ Follows(k) # "nothing"
      <4>1. Tail(wire[c]) = <<Follows(k)>>
          BY <3>2, WireFacts
      <4> QED
          BY <1>v, <2>1, <3>2, <4>1
    <3> QED
        BY <1>h, <3>1, <3>2
  <2>3. Following(c, task[c].kind)'
      BY <2>2 DEF Following
  <2> QED
      BY <1>1, <1>v, <2>3 DEF InFlight
<1>w. Written(c)'
    BY <1>1, <1>v DEF Written
<1>s. SlotsCounted'
    BY <1>o, <1>v, SlotKept
<1> QED
    BY <1>t, <1>o, <1>f, <1>w, <1>s, OthersInv

\* After what is no request line the connection is closed.
LEMMA BadRequestLineInv ==
    ASSUME HttpInv, NEW c \in Conns, BadRequestLine(c)
    PROVE  HttpInv'
<1> USE DEF BadRequestLine, clientVars
<1>1. HttpTypeOK /\ InFlight(c) /\ Written(c)
    BY DEF HttpInv
<1>m. PICK h \in {"reply", "closed"}, t \in Tasks :
          /\ Moves(c, h, t)
          /\ h = "reply" => ~t.keep /\ ~t.caught
          /\ IF h = "closed" THEN slots' = slots + 1 ELSE slots' = slots
    BY SendClosing, LeaveClosing
<1>2. h \in Places
    BY DEF Places
<1>3. /\ hpc' \in [Conns -> Places] /\ task' \in [Conns -> Tasks]
      /\ \A d \in Conns \ {c} : hpc'[d] = hpc[d] /\ task'[d] = task[d]
    BY <1>1, <1>m, <1>2, MovesFacts
<1>v. /\ hpc'[c] = h /\ task'[c] = t
      /\ h = "reply" => ~t.keep /\ ~t.caught
      /\ IF h = "closed" THEN slots' = slots + 1 ELSE slots' = slots
    BY <1>1, <1>m, <1>2, MovesFacts DEF HttpTypeOK
<1>t. HttpTypeOK'
  <2>1. wire' \in [Conns -> Seq(Kinds \union Bodies)]
    <3>1. Tail(wire[c]) \in Seq(Kinds \union Bodies)
        BY <1>1 DEF HttpTypeOK
    <3> QED
        BY <1>1, <3>1 DEF HttpTypeOK
  <2> QED
      BY <1>1, <1>3, <1>v, <2>1 DEF HttpTypeOK
<1>o. Others(c)
    BY <1>1, <1>3 DEF HttpTypeOK, Others
<1>f. InFlight(c)'
    BY <1>1, <1>v DEF InFlight
<1>w. Written(c)'
    BY <1>1, <1>v DEF Written
<1>s. SlotsCounted'
    BY <1>o, <1>v, SlotKept, SlotGiven
<1> QED
    BY <1>t, <1>o, <1>f, <1>w, <1>s, OthersInv

\* A handler that gets no head gives its slot back.
LEMMA NoHeadInv ==
    ASSUME HttpInv, NEW c \in Conns, NoHead(c)
    PROVE  HttpInv'
<1> USE DEF NoHead, clientVars
<1>1. HttpTypeOK /\ InFlight(c) /\ Written(c)
    BY DEF HttpInv
<1>m. PICK h \in {"closed"}, t \in Tasks :
          /\ Moves(c, h, t)
    BY LeaveClosing
<1>2. h \in Places
    BY DEF Places
<1>3. /\ hpc' \in [Conns -> Places] /\ task' \in [Conns -> Tasks]
      /\ \A d \in Conns \ {c} : hpc'[d] = hpc[d] /\ task'[d] = task[d]
    BY <1>1, <1>m, <1>2, MovesFacts
<1>v. /\ hpc'[c] = h /\ task'[c] = t
      /\ slots' = slots + 1
    BY <1>1, <1>m, <1>2, MovesFacts, LeaveClosing DEF HttpTypeOK
<1>t. HttpTypeOK'
    BY <1>1, <1>3, <1>v DEF HttpTypeOK
<1>o. Others(c)
    BY <1>1, <1>3 DEF HttpTypeOK, Others
<1>f. InFlight(c)'
    BY <1>1, <1>v DEF InFlight, Drained, Following, Requested, Strayed
<1>w. Written(c)'
    BY <1>1, <1>v DEF Written
<1>s. SlotsCounted'
    BY <1>o, <1>v, SlotGiven
<1> QED
    BY <1>t, <1>o, <1>f, <1>w, <1>s, OthersInv

\* Without a body the connection is kept, and so it is where stray bytes
\* follow; with a body that is refused it is closed; else the body is read.
LEMMA MethodInv ==
    ASSUME HttpInv, NEW c \in Conns, Method(c)
    PROVE  HttpInv'
<1> USE DEF Method, clientVars
<1>1. HttpTypeOK /\ InFlight(c) /\ Written(c)
    BY DEF HttpInv
<1>m. PICK h \in {"reply", "body"}, t \in Tasks :
          /\ Moves(c, h, t)
          /\ h = "reply" => ~t.caught
          /\ h = "reply" /\ t.keep => task[c].kind \in WithoutBody \union Ignored
          /\ h = "body" => t = task[c]
          /\ slots' = slots
  <2>1. CASE task[c].kind \in WithoutBody \union Ignored
    <3>0. task[c].kind \notin Refused
        BY <2>1 DEF WithoutBody, Ignored, Refused
    <3>1. Send(c, TRUE, FALSE)
        BY <2>1, <3>0
    <3> QED
        BY <2>1, <3>1, SendKeeping
  <2>2. CASE task[c].kind \in Refused
    <3>1. task[c].kind \notin WithoutBody \union Ignored
        BY <2>2 DEF WithoutBody, Ignored, Refused
    <3>2. Send(c, FALSE, FALSE)
        BY <2>2, <3>1
    <3> QED
        BY <3>2, SendClosing
  <2>3. CASE task[c].kind \notin WithoutBody \union Ignored \union Refused
    <3>1. Go(c, "body")
        BY <2>3
    <3> QED
        BY <1>1, <3>1, GoFacts
  <2> QED
      BY <2>1, <2>2, <2>3
<1>2. h \in Places
    BY DEF Places
<1>3. /\ hpc' \in [Conns -> Places] /\ task' \in [Conns -> Tasks]
      /\ \A d \in Conns \ {c} : hpc'[d] = hpc[d] /\ task'[d] = task[d]
    BY <1>1, <1>m, <1>2, MovesFacts
<1>v. /\ hpc'[c] = h /\ task'[c] = t
      /\ h = "reply" => ~t.caught
      /\ h = "reply" /\ t.keep => task[c].kind \in WithoutBody \union Ignored
      /\ h = "body" => t = task[c]
      /\ slots' = slots
    BY <1>1, <1>m, <1>2, MovesFacts DEF HttpTypeOK
<1>t. HttpTypeOK'
    BY <1>1, <1>3, <1>v DEF HttpTypeOK
<1>o. Others(c)
    BY <1>1, <1>3 DEF HttpTypeOK, Others
<1>f. InFlight(c)'
  <2>0. Following(c, task[c].kind) /\ task[c].kind \in Kinds /\ ~deaf[c]
      BY <1>1 DEF InFlight, HttpTypeOK, Tasks
  <2>1. wire' = wire /\ owes' = owes /\ gone' = gone /\ deaf' = deaf
      OBVIOUS
  <2>2. CASE h = "body"
    <3>1. Following(c, task[c].kind)'
        BY <1>v, <2>0, <2>1, <2>2 DEF Following
    <3> QED
        BY <1>v, <2>0, <2>1, <2>2, <3>1 DEF InFlight
  <2>3. CASE h = "reply" /\ t.keep
    <3>1. Follows(task[c].kind) \in {"nothing", "stray"}
        BY <1>v, <2>0, <2>3, FollowsFacts
    <3>2. Drained(c)' \/ Strayed(c)'
        BY <2>0, <2>1, <3>1, WireFacts DEF Following, Drained, Strayed
    <3> QED
        BY <1>v, <2>0, <2>1, <2>3, <3>2 DEF InFlight
  <2>4. CASE h = "reply" /\ ~t.keep
      BY <1>v, <2>0, <2>1, <2>4 DEF InFlight
  <2> QED
      BY <2>2, <2>3, <2>4
<1>w. Written(c)'
    BY <1>1, <1>v DEF Written
<1>s. SlotsCounted'
    BY <1>o, <1>v, SlotKept
<1> QED
    BY <1>t, <1>o, <1>f, <1>w, <1>s, OthersInv

\* Once the body is read nothing is in flight.
LEMMA ReadBodyInv ==
    ASSUME HttpInv, NEW c \in Conns, ReadBody(c)
    PROVE  HttpInv'
<1> USE DEF ReadBody, clientVars
<1>1. HttpTypeOK /\ InFlight(c) /\ Written(c)
    BY DEF HttpInv
<1>b. owes[c] = "nothing" /\ \E b : wire[c] = <<b>>
    BY <1>1 DEF InFlight, Following
<1>m. PICK h \in {"run"}, t \in Tasks :
          /\ Moves(c, h, t)
    BY <1>1, GoFacts
<1>2. h \in Places
    BY DEF Places
<1>3. /\ hpc' \in [Conns -> Places] /\ task' \in [Conns -> Tasks]
      /\ \A d \in Conns \ {c} : hpc'[d] = hpc[d] /\ task'[d] = task[d]
    BY <1>1, <1>m, <1>2, MovesFacts
<1>v. /\ hpc'[c] = h /\ task'[c] = t
      /\ wire'[c] = <<>>
      /\ owes'[c] = "nothing"
      /\ slots' = slots
    BY <1>1, <1>m, <1>2, MovesFacts, <1>b, WireFacts, GoFacts DEF HttpTypeOK
<1>t. HttpTypeOK'
  <2>1. wire' \in [Conns -> Seq(Kinds \union Bodies)]
    <3>1. Tail(wire[c]) \in Seq(Kinds \union Bodies)
        BY <1>1, <1>b DEF HttpTypeOK
    <3> QED
        BY <1>1, <3>1 DEF HttpTypeOK
  <2> QED
      BY <1>1, <1>3, <1>v, <2>1 DEF HttpTypeOK
<1>o. Others(c)
    BY <1>1, <1>3 DEF HttpTypeOK, Others
<1>f. InFlight(c)'
    BY <1>1, <1>v DEF InFlight, Drained, Following, Requested, Strayed
<1>w. Written(c)'
    BY <1>1, <1>v DEF Written
<1>s. SlotsCounted'
    BY <1>o, <1>v, SlotKept
<1> QED
    BY <1>t, <1>o, <1>f, <1>w, <1>s, OthersInv

\* A client that is gone owes nothing any more.
LEMMA ShortBodyInv ==
    ASSUME HttpInv, NEW c \in Conns, ShortBody(c)
    PROVE  HttpInv'
<1> USE DEF ShortBody, clientVars
<1>1. HttpTypeOK /\ InFlight(c) /\ Written(c)
    BY DEF HttpInv
<1>m. PICK h \in {"reply"}, t \in Tasks :
          /\ Moves(c, h, t)
          /\ slots' = slots
    BY SendKeeping
<1>2. h \in Places
    BY DEF Places
<1>3. /\ hpc' \in [Conns -> Places] /\ task' \in [Conns -> Tasks]
      /\ \A d \in Conns \ {c} : hpc'[d] = hpc[d] /\ task'[d] = task[d]
    BY <1>1, <1>m, <1>2, MovesFacts
<1>v. /\ hpc'[c] = h /\ task'[c] = t
      /\ slots' = slots
    BY <1>1, <1>m, <1>2, MovesFacts DEF HttpTypeOK
<1>t. HttpTypeOK'
    BY <1>1, <1>3, <1>v DEF HttpTypeOK
<1>o. Others(c)
    BY <1>1, <1>3 DEF HttpTypeOK, Others
<1>f. InFlight(c)'
    BY <1>1, <1>v DEF InFlight, Drained, Following, Requested, Strayed
<1>w. Written(c)'
    BY <1>1, <1>v DEF Written
<1>s. SlotsCounted'
    BY <1>o, <1>v, SlotKept
<1> QED
    BY <1>t, <1>o, <1>f, <1>w, <1>s, OthersInv

\* After a body that did not come nothing is read from the connection.
LEMMA BodyTimeoutInv ==
    ASSUME HttpInv, NEW c \in Conns, BodyTimeout(c)
    PROVE  HttpInv'
<1> USE DEF BodyTimeout, clientVars
<1>1. HttpTypeOK /\ InFlight(c) /\ Written(c)
    BY DEF HttpInv
<1>m. PICK h \in {"reply"}, t \in Tasks :
          /\ Moves(c, h, t)
          /\ slots' = slots
    BY SendKeeping
<1>2. h \in Places
    BY DEF Places
<1>3. /\ hpc' \in [Conns -> Places] /\ task' \in [Conns -> Tasks]
      /\ \A d \in Conns \ {c} : hpc'[d] = hpc[d] /\ task'[d] = task[d]
    BY <1>1, <1>m, <1>2, MovesFacts
<1>v. /\ hpc'[c] = h /\ task'[c] = t
      /\ slots' = slots
      /\ deaf'[c] = TRUE
    BY <1>1, <1>m, <1>2, MovesFacts DEF HttpTypeOK
<1>t. HttpTypeOK'
    BY <1>1, <1>3, <1>v DEF HttpTypeOK
<1>o. Others(c)
    BY <1>1, <1>3 DEF HttpTypeOK, Others
<1>f. InFlight(c)'
    BY <1>1, <1>v DEF InFlight, Drained, Following, Requested, Strayed
<1>w. Written(c)'
    BY <1>1, <1>v DEF Written
<1>s. SlotsCounted'
    BY <1>o, <1>v, SlotKept
<1> QED
    BY <1>t, <1>o, <1>f, <1>w, <1>s, OthersInv

\* The request is answered with nothing in flight.
LEMMA AnswerInv ==
    ASSUME HttpInv, NEW c \in Conns, Answer(c)
    PROVE  HttpInv'
<1> USE DEF Answer, clientVars
<1>1. HttpTypeOK /\ InFlight(c) /\ Written(c)
    BY DEF HttpInv
<1>m. PICK h \in {"reply"}, t \in Tasks :
          /\ Moves(c, h, t)
          /\ slots' = slots
  <2>1. PICK q : q \in BOOLEAN /\ q = (task[c].kind = "nopath")
      OBVIOUS
  <2>2. Send(c, TRUE, q)
      BY <2>1
  <2> QED
      BY <2>1, <2>2, SendKeeping
<1>2. h \in Places
    BY DEF Places
<1>3. /\ hpc' \in [Conns -> Places] /\ task' \in [Conns -> Tasks]
      /\ \A d \in Conns \ {c} : hpc'[d] = hpc[d] /\ task'[d] = task[d]
    BY <1>1, <1>m, <1>2, MovesFacts
<1>v. /\ hpc'[c] = h /\ task'[c] = t
      /\ slots' = slots
    BY <1>1, <1>m, <1>2, MovesFacts DEF HttpTypeOK
<1>t. HttpTypeOK'
    BY <1>1, <1>3, <1>v DEF HttpTypeOK
<1>o. Others(c)
    BY <1>1, <1>3 DEF HttpTypeOK, Others
<1>f. InFlight(c)'
    BY <1>1, <1>v DEF InFlight, Drained, Following, Requested, Strayed
<1>w. Written(c)'
    BY <1>1, <1>v DEF Written
<1>s. SlotsCounted'
    BY <1>o, <1>v, SlotKept
<1> QED
    BY <1>t, <1>o, <1>f, <1>w, <1>s, OthersInv

\* The head of the stream is the request's status line; a client that reads
\* gets it.
LEMMA StartStreamInv ==
    ASSUME HttpInv, NEW c \in Conns, StartStream(c)
    PROVE  HttpInv'
<1> USE DEF StartStream, clientVars
<1>1. HttpTypeOK /\ InFlight(c) /\ Written(c)
    BY DEF HttpInv
<1>m. PICK h \in {"stream", "reply"}, t \in Tasks :
          /\ Moves(c, h, t)
          /\ h = "reply" => ~t.keep /\ ~t.caught /\ (stalled[c] \/ gone[c])
          /\ slots' = slots
  <2>1. PICK w \in Writes(c) :
            IF w = "ok"
            THEN \E n \in 0 .. MaxEvents :
                     To(c, "stream", [task[c] EXCEPT !.events = n])
            ELSE Send(c, FALSE, FALSE)
      OBVIOUS
  <2>2. CASE w = "ok"
    <3>1. PICK n \in 0 .. MaxEvents :
              To(c, "stream", [task[c] EXCEPT !.events = n])
        BY <2>1, <2>2
    <3>2. task[c] \in Tasks
        BY <1>1 DEF HttpTypeOK
    <3>3. PICK t : t = [task[c] EXCEPT !.events = n]
        OBVIOUS
    <3>4. t \in Tasks
        BY <3>2, <3>3 DEF Tasks
    <3> QED
        BY <3>1, <3>3, <3>4 DEF To, Moves
  <2>3. CASE w # "ok"
    <3>1. stalled[c] \/ gone[c]
        BY <2>1, <2>3 DEF Writes
    <3>2. Send(c, FALSE, FALSE)
        BY <2>1, <2>3
    <3> QED
        BY <3>1, <3>2, SendClosing
  <2> QED
      BY <2>2, <2>3
<1>2. h \in Places
    BY DEF Places
<1>3. /\ hpc' \in [Conns -> Places] /\ task' \in [Conns -> Tasks]
      /\ \A d \in Conns \ {c} : hpc'[d] = hpc[d] /\ task'[d] = task[d]
    BY <1>1, <1>m, <1>2, MovesFacts
<1>v. /\ hpc'[c] = h /\ task'[c] = t
      /\ h = "reply" => ~t.keep /\ ~t.caught /\ (stalled[c] \/ gone[c])
      /\ slots' = slots
      /\ lines'[c] = lines[c] + 1
    BY <1>1, <1>m, <1>2, MovesFacts DEF HttpTypeOK
<1>t. HttpTypeOK'
    BY <1>1, <1>3, <1>v DEF HttpTypeOK
<1>o. Others(c)
    BY <1>1, <1>3 DEF HttpTypeOK, Others
<1>f. InFlight(c)'
    BY <1>1, <1>v DEF InFlight, Drained, Following, Requested, Strayed
<1>w. Written(c)'
    BY <1>1, <1>v DEF Written
<1>s. SlotsCounted'
    BY <1>o, <1>v, SlotKept
<1> QED
    BY <1>t, <1>o, <1>f, <1>w, <1>s, OthersInv

\* A stream that cannot be written ends, one way or another.
LEMMA EventInv ==
    ASSUME HttpInv, NEW c \in Conns, Event(c)
    PROVE  HttpInv'
<1> USE DEF Event, clientVars
<1>1. HttpTypeOK /\ InFlight(c) /\ Written(c)
    BY DEF HttpInv
<1>m. PICK h \in {"stream", "error", "closed"}, t \in Tasks :
          /\ Moves(c, h, t)
          /\ IF h = "closed" THEN slots' = slots + 1 ELSE slots' = slots
  <2>1. PICK w \in Writes(c) :
            IF w = "ok" THEN To(c, "stream", [task[c] EXCEPT !.events = @ - 1])
            ELSE IF w = "broken" THEN Leave(c, FALSE) ELSE Go(c, "error")
      OBVIOUS
  <2>2. CASE w = "ok"
    <3>1. To(c, "stream", [task[c] EXCEPT !.events = @ - 1])
        BY <2>1, <2>2
    <3>2. task[c] \in Tasks /\ task[c].events - 1 \in Nat
        BY <1>1 DEF HttpTypeOK, Tasks
    <3>3. PICK t : t = [task[c] EXCEPT !.events = @ - 1]
        OBVIOUS
    <3>4. t \in Tasks
        BY <3>2, <3>3 DEF Tasks
    <3> QED
        BY <3>1, <3>3, <3>4 DEF To, Moves
  <2>3. CASE w = "broken"
      BY <2>1, <2>3, LeaveClosing
  <2>4. CASE w \notin {"ok", "broken"}
      BY <1>1, <2>1, <2>4, GoFacts
  <2> QED
      BY <2>2, <2>3, <2>4
<1>2. h \in Places
    BY DEF Places
<1>3. /\ hpc' \in [Conns -> Places] /\ task' \in [Conns -> Tasks]
      /\ \A d \in Conns \ {c} : hpc'[d] = hpc[d] /\ task'[d] = task[d]
    BY <1>1, <1>m, <1>2, MovesFacts
<1>v. /\ hpc'[c] = h /\ task'[c] = t
      /\ IF h = "closed" THEN slots' = slots + 1 ELSE slots' = slots
    BY <1>1, <1>m, <1>2, MovesFacts DEF HttpTypeOK
<1>t. HttpTypeOK'
    BY <1>1, <1>3, <1>v DEF HttpTypeOK
<1>o. Others(c)
    BY <1>1, <1>3 DEF HttpTypeOK, Others
<1>f. InFlight(c)'
    BY <1>1, <1>v DEF InFlight, Drained, Following, Requested, Strayed
<1>w. Written(c)'
    BY <1>1, <1>v DEF Written
<1>s. SlotsCounted'
    BY <1>o, <1>v, SlotKept, SlotGiven
<1> QED
    BY <1>t, <1>o, <1>f, <1>w, <1>s, OthersInv

\* The engine raises: the stream is told so.
LEMMA StreamFailsInv ==
    ASSUME HttpInv, NEW c \in Conns, StreamFails(c)
    PROVE  HttpInv'
<1> USE DEF StreamFails, clientVars
<1>1. HttpTypeOK /\ InFlight(c) /\ Written(c)
    BY DEF HttpInv
<1>m. PICK h \in {"error"}, t \in Tasks :
          /\ Moves(c, h, t)
          /\ slots' = slots
    BY <1>1, GoFacts
<1>2. h \in Places
    BY DEF Places
<1>3. /\ hpc' \in [Conns -> Places] /\ task' \in [Conns -> Tasks]
      /\ \A d \in Conns \ {c} : hpc'[d] = hpc[d] /\ task'[d] = task[d]
    BY <1>1, <1>m, <1>2, MovesFacts
<1>v. /\ hpc'[c] = h /\ task'[c] = t
      /\ slots' = slots
    BY <1>1, <1>m, <1>2, MovesFacts DEF HttpTypeOK
<1>t. HttpTypeOK'
    BY <1>1, <1>3, <1>v DEF HttpTypeOK
<1>o. Others(c)
    BY <1>1, <1>3 DEF HttpTypeOK, Others
<1>f. InFlight(c)'
    BY <1>1, <1>v DEF InFlight, Drained, Following, Requested, Strayed
<1>w. Written(c)'
    BY <1>1, <1>v DEF Written
<1>s. SlotsCounted'
    BY <1>o, <1>v, SlotKept
<1> QED
    BY <1>t, <1>o, <1>f, <1>w, <1>s, OthersInv

\* The stream is over.
LEMMA StreamEndsInv ==
    ASSUME HttpInv, NEW c \in Conns, StreamEnds(c)
    PROVE  HttpInv'
<1> USE DEF StreamEnds, clientVars
<1>1. HttpTypeOK /\ InFlight(c) /\ Written(c)
    BY DEF HttpInv
<1>m. PICK h \in {"end"}, t \in Tasks :
          /\ Moves(c, h, t)
          /\ slots' = slots
    BY <1>1, GoFacts
<1>2. h \in Places
    BY DEF Places
<1>3. /\ hpc' \in [Conns -> Places] /\ task' \in [Conns -> Tasks]
      /\ \A d \in Conns \ {c} : hpc'[d] = hpc[d] /\ task'[d] = task[d]
    BY <1>1, <1>m, <1>2, MovesFacts
<1>v. /\ hpc'[c] = h /\ task'[c] = t
      /\ slots' = slots
    BY <1>1, <1>m, <1>2, MovesFacts DEF HttpTypeOK
<1>t. HttpTypeOK'
    BY <1>1, <1>3, <1>v DEF HttpTypeOK
<1>o. Others(c)
    BY <1>1, <1>3 DEF HttpTypeOK, Others
<1>f. InFlight(c)'
    BY <1>1, <1>v DEF InFlight, Drained, Following, Requested, Strayed
<1>w. Written(c)'
    BY <1>1, <1>v DEF Written
<1>s. SlotsCounted'
    BY <1>o, <1>v, SlotKept
<1> QED
    BY <1>t, <1>o, <1>f, <1>w, <1>s, OthersInv

\* The error frame leaves no second status line to a client that reads.
LEMMA ErrorFrameInv ==
    ASSUME HttpInv, NEW c \in Conns, ErrorFrame(c)
    PROVE  HttpInv'
<1> USE DEF ErrorFrame, clientVars
<1>1. HttpTypeOK /\ InFlight(c) /\ Written(c)
    BY DEF HttpInv
<1>m. PICK h \in {"end", "reply", "closed"}, t \in Tasks :
          /\ Moves(c, h, t)
          /\ h = "reply" => ~t.keep /\ ~t.caught /\ stalled[c]
          /\ IF h = "closed" THEN slots' = slots + 1 ELSE slots' = slots
  <2>1. PICK w \in Writes(c) :
            IF w = "ok" THEN Go(c, "end")
            ELSE IF w = "broken" THEN Leave(c, FALSE) ELSE Send(c, FALSE, FALSE)
      OBVIOUS
  <2>2. CASE w = "ok"
      BY <1>1, <2>1, <2>2, GoFacts
  <2>3. CASE w = "broken"
      BY <2>1, <2>3, LeaveClosing
  <2>4. CASE w \notin {"ok", "broken"}
    <3>1. stalled[c]
        BY <2>1, <2>4 DEF Writes
    <3> QED
        BY <2>1, <2>4, <3>1, SendClosing
  <2> QED
      BY <2>2, <2>3, <2>4
<1>2. h \in Places
    BY DEF Places
<1>3. /\ hpc' \in [Conns -> Places] /\ task' \in [Conns -> Tasks]
      /\ \A d \in Conns \ {c} : hpc'[d] = hpc[d] /\ task'[d] = task[d]
    BY <1>1, <1>m, <1>2, MovesFacts
<1>v. /\ hpc'[c] = h /\ task'[c] = t
      /\ h = "reply" => ~t.keep /\ ~t.caught /\ stalled[c]
      /\ IF h = "closed" THEN slots' = slots + 1 ELSE slots' = slots
    BY <1>1, <1>m, <1>2, MovesFacts DEF HttpTypeOK
<1>t. HttpTypeOK'
    BY <1>1, <1>3, <1>v DEF HttpTypeOK
<1>o. Others(c)
    BY <1>1, <1>3 DEF HttpTypeOK, Others
<1>f. InFlight(c)'
    BY <1>1, <1>v DEF InFlight, Drained, Following, Requested, Strayed
<1>w. Written(c)'
    BY <1>1, <1>v DEF Written
<1>s. SlotsCounted'
    BY <1>o, <1>v, SlotKept, SlotGiven
<1> QED
    BY <1>t, <1>o, <1>f, <1>w, <1>s, OthersInv

\* After [DONE] the connection is closed.
LEMMA WriteDoneInv ==
    ASSUME HttpInv, NEW c \in Conns, WriteDone(c)
    PROVE  HttpInv'
<1> USE DEF WriteDone, clientVars
<1>1. HttpTypeOK /\ InFlight(c) /\ Written(c)
    BY DEF HttpInv
<1>m. PICK h \in {"reply", "closed"}, t \in Tasks :
          /\ Moves(c, h, t)
          /\ h = "reply" => ~t.keep /\ ~t.caught /\ stalled[c]
          /\ IF h = "closed" THEN slots' = slots + 1 ELSE slots' = slots
  <2>1. PICK w \in Writes(c) :
            IF w = "timeout" THEN Send(c, FALSE, FALSE) ELSE Leave(c, FALSE)
      OBVIOUS
  <2>2. CASE w = "timeout"
    <3>1. stalled[c]
        BY <2>1, <2>2 DEF Writes
    <3> QED
        BY <2>1, <2>2, <3>1, SendClosing
  <2>3. CASE w # "timeout"
      BY <2>1, <2>3, LeaveClosing
  <2> QED
      BY <2>2, <2>3
<1>2. h \in Places
    BY DEF Places
<1>3. /\ hpc' \in [Conns -> Places] /\ task' \in [Conns -> Tasks]
      /\ \A d \in Conns \ {c} : hpc'[d] = hpc[d] /\ task'[d] = task[d]
    BY <1>1, <1>m, <1>2, MovesFacts
<1>v. /\ hpc'[c] = h /\ task'[c] = t
      /\ h = "reply" => ~t.keep /\ ~t.caught /\ stalled[c]
      /\ IF h = "closed" THEN slots' = slots + 1 ELSE slots' = slots
    BY <1>1, <1>m, <1>2, MovesFacts DEF HttpTypeOK
<1>t. HttpTypeOK'
    BY <1>1, <1>3, <1>v DEF HttpTypeOK
<1>o. Others(c)
    BY <1>1, <1>3 DEF HttpTypeOK, Others
<1>f. InFlight(c)'
    BY <1>1, <1>v DEF InFlight, Drained, Following, Requested, Strayed
<1>w. Written(c)'
    BY <1>1, <1>v DEF Written
<1>s. SlotsCounted'
    BY <1>o, <1>v, SlotKept, SlotGiven
<1> QED
    BY <1>t, <1>o, <1>f, <1>w, <1>s, OthersInv

\* A reply keeps the connection only when nothing is in flight; a second
\* status line follows only a write that failed.
LEMMA WriteReplyInv ==
    ASSUME HttpInv, NEW c \in Conns, WriteReply(c)
    PROVE  HttpInv'
<1> USE DEF WriteReply, clientVars
<1>1. HttpTypeOK /\ InFlight(c) /\ Written(c)
    BY DEF HttpInv
<1>m. PICK h \in {"enter", "reply", "closed"}, t \in Tasks :
          /\ Moves(c, h, t)
          /\ h = "enter" => task[c].keep
          /\ h = "reply" => task[c].caught /\ (stalled[c] \/ gone[c])
          /\ IF h = "reply" THEN slots' = slots ELSE slots' = slots + 1
  <2>1. PICK w \in Writes(c) :
            IF w = "ok" THEN Leave(c, task[c].keep)
            ELSE IF task[c].caught THEN Send(c, TRUE, FALSE)
            ELSE Leave(c, FALSE)
      OBVIOUS
  <2>2. CASE w = "ok"
    <3>1. task[c].keep \in BOOLEAN
        BY <1>1 DEF HttpTypeOK, Tasks
    <3>2. CASE task[c].keep
      <4>1. Leave(c, task[c].keep)
          BY <2>1, <2>2
      <4> QED
          BY <3>1, <3>2, <4>1, LeaveKeeping
    <3>3. CASE ~task[c].keep
      <4>1. Leave(c, task[c].keep)
          BY <2>1, <2>2
      <4> QED
          BY <3>1, <3>3, <4>1, LeaveClosing
    <3> QED
        BY <3>2, <3>3
  <2>3. CASE w # "ok" /\ task[c].caught
    <3>1. stalled[c] \/ gone[c]
        BY <2>1, <2>3 DEF Writes
    <3>2. Send(c, TRUE, FALSE)
        BY <2>1, <2>3
    <3> QED
        BY <2>3, <3>1, <3>2, SendKeeping
  <2>4. CASE w # "ok" /\ ~task[c].caught
      BY <2>1, <2>4, LeaveClosing
  <2> QED
      BY <2>2, <2>3, <2>4
<1>2. h \in Places
    BY DEF Places
<1>3. /\ hpc' \in [Conns -> Places] /\ task' \in [Conns -> Tasks]
      /\ \A d \in Conns \ {c} : hpc'[d] = hpc[d] /\ task'[d] = task[d]
    BY <1>1, <1>m, <1>2, MovesFacts
<1>v. /\ hpc'[c] = h /\ task'[c] = t
      /\ h = "enter" => task[c].keep
      /\ h = "reply" => task[c].caught /\ (stalled[c] \/ gone[c])
      /\ IF h = "reply" THEN slots' = slots ELSE slots' = slots + 1
      /\ lines'[c] = lines[c] + 1
    BY <1>1, <1>m, <1>2, MovesFacts DEF HttpTypeOK
<1>t. HttpTypeOK'
    BY <1>1, <1>3, <1>v DEF HttpTypeOK
<1>o. Others(c)
    BY <1>1, <1>3 DEF HttpTypeOK, Others
<1>f. InFlight(c)'
    BY <1>1, <1>v DEF InFlight, Drained, Following, Requested, Strayed
<1>w. Written(c)'
    BY <1>1, <1>v DEF Written
<1>s. SlotsCounted'
    BY <1>o, <1>v, SlotKept, SlotGiven
<1> QED
    BY <1>t, <1>o, <1>f, <1>w, <1>s, OthersInv

\* Every step keeps the invariant.
LEMMA NextInv == HttpInv /\ [HttpNext]_httpVars => HttpInv'
<1> SUFFICES ASSUME HttpInv, [HttpNext]_httpVars PROVE HttpInv'
    OBVIOUS
<1>1. CASE UNCHANGED httpVars
    BY <1>1 DEF httpVars, clientVars, HttpInv, HttpTypeOK, InFlight, Written,
                Drained, Following, Requested, Strayed, SlotsCounted, Holding
<1>2. CASE HttpNext
  <2> PICK c \in Conns : Client(c) \/ Handler(c)
      BY <1>2 DEF HttpNext
  <2>1. CASE Client(c)
      BY <2>1, SendHeadInv, SendBodyInv, DisconnectInv, StallInv DEF Client
  <2>2. CASE Handler(c)
      BY <2>2, AcquireInv, SaturatedInv, ReadHeadInv, BadRequestLineInv,
         NoHeadInv, MethodInv, ReadBodyInv, ShortBodyInv, BodyTimeoutInv,
         AnswerInv, StartStreamInv, EventInv, StreamFailsInv, ErrorFrameInv,
         StreamEndsInv, WriteDoneInv, WriteReplyInv DEF Handler
  <2> QED
      BY <2>1, <2>2
<1> QED
    BY <1>1, <1>2

-----------------------------------------------------------------------------
(***************************************************************************)
(* The theorems.                                                           *)
(***************************************************************************)
\* The inductive invariant holds of every state of the server.
THEOREM HttpInvariant == HttpSpec => []HttpInv
<1>1. HttpInit => HttpInv
    BY InitInv
<1>2. HttpInv /\ [HttpNext]_httpVars => HttpInv'
    BY NextInv
<1> QED
    BY <1>1, <1>2, PTL DEF HttpSpec

\* A body that do_POST reads, or refuses without reading it
\* (server.py:137-139), never becomes a request line; the body of a GET and
\* what follows a negative Content-Length may.
THEOREM AlwaysFramed == HttpSpec => []Framed
<1>1. HttpInv => Framed
  <2> SUFFICES ASSUME HttpInv, NEW c \in Conns, AtRequestLine(c)
               PROVE  Head(wire[c]) # "body"
      BY DEF Framed
  <2>1. Requested(c) \/ Strayed(c)
      BY DEF HttpInv, InFlight, AtRequestLine, Drained
  <2> QED
      BY <2>1, WireFacts, FollowsFacts
      DEF Requested, Strayed, AtRequestLine, Bodies
<1> QED
    BY <1>1, HttpInvariant, PTL

\* A client that reads what it is sent gets one status line for a request,
\* whatever fails in the engine and when.
THEOREM OneStatusLineAlways == HttpSpec => []OneStatusLine
<1>1. HttpInv => OneStatusLine
  <2> SUFFICES ASSUME HttpInv, NEW c \in Conns
               PROVE  lines[c] <= 1 \/ lazy[c] \/ gone[c]
      BY DEF OneStatusLine
  <2>1. HttpTypeOK /\ Written(c)
      BY DEF HttpInv
  <2> QED
      BY <2>1 DEF HttpTypeOK, Written
<1> QED
    BY <1>1, HttpInvariant, PTL

\* However a request ends, its slot of conn_sem is given back exactly once:
\* the free slots and the handlers at work are max_connections together, so a
\* handler is refused only while that many others are at work.
THEOREM SlotsAlwaysCounted ==
    HttpSpec => [](SlotsCounted /\ Cardinality(Holding) <= MaxSlots)
<1>1. HttpInv => SlotsCounted /\ Cardinality(Holding) <= MaxSlots
  <2> SUFFICES ASSUME HttpInv PROVE SlotsCounted /\ Cardinality(Holding) <= MaxSlots
      OBVIOUS
  <2>1. SlotsCounted /\ slots \in Nat
      BY DEF HttpInv, HttpTypeOK
  <2>2. Cardinality(Holding) \in Nat
      BY <2>1, FS_CardinalityType DEF SlotsCounted
  <2> QED
      BY <2>1, <2>2 DEF SlotsCounted
<1> QED
    BY <1>1, HttpInvariant, PTL
================================================================================

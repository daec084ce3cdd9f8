---------------------------- MODULE Serving_proofs ----------------------------
(***************************************************************************)
(* Proofs about Serving, for any number of requests of any kinds and sizes *)
(* and any interleaving of their handlers with the executor: ServingTypeOK,*)
(* EngineMatchesScheduler, DoneIsOver, ReplyComplete, NothingAfterDone,    *)
(* NotForgotten and NoPlaceLost.                                           *)
(*                                                                         *)
(* The scheduler's part of the invariant is EngineInv of Scheduler_proofs; *)
(* the rest ties the facade to it.  That a client is told of a sequence    *)
(* only when the scheduler has let go of it (Ends) rests on the two counts *)
(* of its tokens, the scheduler's and the sink's, being the same (Counts): *)
(* the scheduler decides by one that a sequence is over, the engine tells  *)
(* the sink by the other.  That a reply is complete (Replies) rests on the *)
(* stream queue holding what was emitted and not read, the terminal event  *)
(* last (Streams).  That nobody is forgotten and no place lost rests on    *)
(* where each request is that was let in (AllPlaced) and on what of it has *)
(* been done when it is released (PlacesHeld).                             *)
(***************************************************************************)
EXTENDS Serving, Scheduler_proofs, Basics

-----------------------------------------------------------------------------
\* The scheduler between the actions of the server: pump's skipped list is
\* empty outside pump, and a decode action is one token.
Quiet ==
    /\ pc # "pump" => skipped = <<>>
    /\ \A i \in DOMAIN todo : todo[i].phase = "decode" => todo[i].length = 1

\* ServingTypeOK without the scheduler's part.
FacadeTypes ==
    /\ \A r \in Reqs : kind[r] \in Kinds[r]
    /\ hpc \in [Reqs -> HandlerStates]
    /\ reply \in [Reqs -> {"none", "ok", "error"}]
    /\ taken \in [Reqs -> Nat]
    /\ inflight \in Int
    /\ submitQ \in Seq(Reqs)
    /\ exclQ \in Seq(Reqs)
    /\ abortQ \in Seq(SeqIds)
    /\ doneSet \in [Reqs -> BOOLEAN]
    /\ outcome \in [Reqs -> {"none", "finish", "error"}]
    /\ released \in [Reqs -> BOOLEAN]
    /\ q \in [Reqs -> Seq({"tok", "finish", "error"})]
    /\ ids \in [Reqs -> Nat]
    /\ seqOf \in [Reqs -> SeqIds \union {NoSeq}]
    /\ seqs \subseteq SeqIds
    /\ epc \in ExecStates
    /\ ending \in [req : Reqs, stage : {"idle", "set", "check", "commit"}]
    /\ toFail \subseteq SeqIds
    /\ stop \in BOOLEAN

\* The sequences the scheduler may still act on.
Known == ToSet(waiting) \union ToSet(skipped) \union ToSet(running)

\* The executor's records: _seqs has the known sequences and the finished
\* ones, and finished ones are reaped before the loop goes on.
Accounted ==
    /\ seqs = Known \union ToSet(done)
    /\ toFail \subseteq seqs
    /\ epc # "failing" => toFail = {}
    /\ epc # "stepping" => pc = "idle"
    /\ epc \notin {"aborted", "stepping", "failing", "abortall", "reap"}
          => done = <<>>

\* Every sequence has one request, a text request.
Owners ==
    /\ \A s \in seqs : \E r \in Reqs : seqOf[r] = s
    /\ \A r \in Reqs : seqOf[r] # NoSeq => IsText(r) /\ seqOf[r] < nextSeq
    /\ \A r, x \in Reqs : seqOf[r] = seqOf[x] /\ seqOf[r] # NoSeq => r = x

\* Nothing has happened yet to a request.
Untold(r) == seqOf[r] = NoSeq /\ outcome[r] = "none" /\ ids[r] = 0

\* What has not come, or still waits in a queue; the head of the exclusive
\* queue stays while its job runs.
Waits ==
    /\ epc = "job" => exclQ # <<>>
    /\ IsInjective(submitQ) /\ IsInjective(exclQ)
    /\ \A r \in ToSet(submitQ) : IsText(r) /\ Untold(r)
    /\ \A r \in ToSet(exclQ) : ~IsText(r) /\ outcome[r] = "none"
    /\ \A r \in Reqs : hpc[r] = "start" =>
          Untold(r) /\ r \notin ToSet(submitQ) \union ToSet(exclQ)

\* How a request ends: the event follows the outcome, and the scheduler has
\* let go of the sequence unless everything is being failed.
Ends ==
    /\ \A r \in Reqs : doneSet[r] => outcome[r] # "none"
    /\ \A r \in Reqs : outcome[r] # "none" /\ ~doneSet[r] =>
          ending.stage = "set" /\ ending.req = r
    /\ ending.stage = "set" => outcome[ending.req] # "none"
    /\ \A r \in Reqs : seqOf[r] \in Known /\ outcome[r] # "none" =>
          outcome[r] = "error" /\ epc \in {"failing", "abortall"}

\* The scheduler and the sink count the same tokens.
Counts ==
    \A r \in Reqs : seqOf[r] \in Known =>
        /\ req[seqOf[r]].generated = ids[r]
        /\ req[seqOf[r]].maxNew = MaxNew[r]

\* A stream being read: what was read and what waits in the queue is what
\* the sink was given, and the terminal event comes last.
Unread(r) ==
    /\ taken[r] + Len(q[r]) = IF outcome[r] = "none" THEN ids[r] ELSE ids[r] + 1
    /\ \A i \in 1 .. Len(q[r]) :
          q[r][i] # "tok" => i = Len(q[r]) /\ q[r][i] = outcome[r]
    /\ outcome[r] # "none" => Len(q[r]) > 0 /\ q[r][Len(q[r])] = outcome[r]

Streams ==
    \A r \in Reqs :
        /\ ~IsStream(r) => q[r] = <<>>
        /\ IsStream(r) /\ hpc[r] \in {"start", "ready", "read"} => Unread(r)
        /\ hpc[r] \in {"wait", "timedout"} => ~IsStream(r)
        /\ hpc[r] \in {"ready", "read", "finally"} => IsStream(r)

\* What a client was told.
Replies ==
    \A r \in Reqs :
        /\ hpc[r] \in {"start", "wait", "ready", "read"} => reply[r] = "none"
        /\ reply[r] = "ok" => /\ outcome[r] = "finish"
                              /\ IsStream(r) => taken[r] = ids[r]

ServingInv ==
    EngineInv /\ Quiet /\ FacadeTypes /\ Accounted /\ Owners /\ Waits /\ Ends
    /\ Counts /\ Streams /\ Replies

\* What NothingAfterDone asks of a step.
NothingMore ==
    \A r \in Reqs : doneSet[r] =>
        /\ doneSet'[r]
        /\ ids'[r] = ids[r]
        /\ outcome'[r] = outcome[r]
        /\ Len(q'[r]) <= Len(q[r])

-----------------------------------------------------------------------------
(***************************************************************************)
(* Sequences of numbers and events.                                        *)
(***************************************************************************)
\* A set of natural numbers has a smallest one, which is its Min.
LEMMA MinExists ==
    ASSUME NEW T, T \subseteq Nat, T # {}
    PROVE  Min(T) \in T
<1>1. \E m \in T : \A y \in T : m <= y
  BY SmallestOf
<1> QED BY <1>1 DEF Min

\* Three sequences joined.
LEMMA JoinFacts ==
    ASSUME NEW E, NEW s \in Seq(E), NEW a \in Seq(E), NEW b \in Seq(E)
    PROVE  /\ s \o a \o b \in Seq(E)
           /\ Len(s \o a \o b) = Len(s) + Len(a) + Len(b)
           /\ \A i \in 1 .. Len(s) : (s \o a \o b)[i] = s[i]
           /\ Len(a) = 1 => (s \o a \o b)[Len(s) + 1] = a[1]
           /\ Len(b) = 1 => (s \o a \o b)[Len(s) + Len(a) + 1] = b[1]
<1> DEFINE sa == s \o a
           t == sa \o b
<1>1. /\ sa \in Seq(E) /\ Len(sa) = Len(s) + Len(a)
      /\ \A i \in 1 .. Len(s) + Len(a) :
            sa[i] = IF i <= Len(s) THEN s[i] ELSE a[i - Len(s)]
  BY ONLY s \in Seq(E), a \in Seq(E), ConcatProperties
<1>7. sa \in Seq(E)
  BY <1>1
<1> HIDE DEF sa
<1>2. /\ t \in Seq(E) /\ Len(t) = Len(sa) + Len(b)
      /\ \A i \in 1 .. Len(sa) + Len(b) :
            t[i] = IF i <= Len(sa) THEN sa[i] ELSE b[i - Len(sa)]
  BY ONLY <1>7, b \in Seq(E), ConcatProperties
<1> HIDE DEF t
<1>3. Len(s) \in Nat /\ Len(a) \in Nat /\ Len(b) \in Nat
  OBVIOUS
<1>4. \A i \in 1 .. Len(s) : t[i] = s[i]
  BY <1>1, <1>2, <1>3
<1>5. ASSUME Len(a) = 1 PROVE t[Len(s) + 1] = a[1]
  <2>1. /\ Len(s) + 1 \in 1 .. Len(s) + Len(a) /\ ~(Len(s) + 1 <= Len(s))
        /\ (Len(s) + 1) - Len(s) = 1
    BY <1>3, <1>5
  <2>2. sa[Len(s) + 1] = a[1]
    BY <1>1, <2>1
  <2> QED BY <1>1, <1>2, <1>3, <2>1, <2>2
<1>6. ASSUME Len(b) = 1 PROVE t[Len(s) + Len(a) + 1] = b[1]
  <2>1. /\ Len(s) + Len(a) + 1 \in 1 .. Len(sa) + Len(b)
        /\ ~(Len(s) + Len(a) + 1 <= Len(sa))
        /\ (Len(s) + Len(a) + 1) - Len(sa) = 1
    BY <1>1, <1>3, <1>6
  <2> QED BY <1>2, <2>1
<1> QED BY <1>1, <1>2, <1>4, <1>5, <1>6 DEF t, sa

-----------------------------------------------------------------------------
(***************************************************************************)
(* The parts of the invariant an action does not concern.                  *)
(***************************************************************************)
\* A step the scheduler takes no part in.
LEMMA EngineFrame ==
    ASSUME EngineInv, Quiet, UNCHANGED vars
    PROVE  /\ EngineInv' /\ Quiet' /\ Known' = Known /\ nextSeq' = nextSeq
           /\ done' = done /\ pc' = pc /\ req' = req
<1>1. EngineInv'
  BY SchedStutterInv
<1>2. /\ waiting' = waiting /\ skipped' = skipped /\ running' = running
      /\ done' = done /\ pc' = pc /\ req' = req /\ todo' = todo
      /\ nextSeq' = nextSeq
  BY DEF vars, schedVars, queueVars
<1> QED BY <1>1, <1>2 DEF Quiet, Known

\* Sequences may be forgotten, requests keep theirs.
LEMMA OwnersFrame ==
    ASSUME Owners, seqs' \subseteq seqs, UNCHANGED <<seqOf, kind, nextSeq>>
    PROVE  Owners'
BY DEF Owners, IsText

\* The queues of the executor and what has happened to who is in them.
LEMMA WaitsFrame ==
    ASSUME Waits, UNCHANGED <<submitQ, exclQ, seqOf, outcome, ids, kind, hpc>>,
           epc' = "job" => exclQ # <<>>
    PROVE  Waits'
BY DEF Waits, Untold, IsText

\* Nothing ends, and the scheduler takes in nothing.
LEMMA EndsFrame ==
    ASSUME Ends, UNCHANGED <<doneSet, outcome, ending, seqOf>>,
           Known' \subseteq Known,
           epc \in {"failing", "abortall"} /\ Known' # {}
              => epc' \in {"failing", "abortall"}
    PROVE  Ends'
BY DEF Ends

\* No token is generated.
LEMMA CountsFrame ==
    ASSUME Counts, UNCHANGED <<seqOf, ids>>, Known' \subseteq Known,
           \A s \in Known : /\ req'[s].generated = req[s].generated
                            /\ req'[s].maxNew = req[s].maxNew
    PROVE  Counts'
BY DEF Counts

\* Nothing is put in a stream queue or taken from one.
LEMMA StreamsFrame ==
    ASSUME Streams, UNCHANGED <<kind, hpc, q, taken, ids, outcome>>
    PROVE  Streams'
BY DEF Streams, Unread, IsStream

\* No client is told anything.
LEMMA RepliesFrame ==
    ASSUME Replies, UNCHANGED <<kind, hpc, reply, outcome, taken, ids>>
    PROVE  Replies'
BY DEF Replies, IsStream

\* Nothing is delivered.
LEMMA QuietFrame ==
    ASSUME UNCHANGED <<doneSet, ids, outcome, q>>, FacadeTypes
    PROVE  NothingMore
<1>1. \A r \in Reqs : Len(q[r]) \in Nat
  BY DEF FacadeTypes
<1> QED BY <1>1 DEF NothingMore

-----------------------------------------------------------------------------
(***************************************************************************)
(* on_token, on_finish and fail.                                           *)
(***************************************************************************)
Events == {"tok", "finish", "error"}

\* Outside on_finish and fail the event is set of exactly what has ended.
LEMMA DoneIffEnded ==
    ASSUME Ends, ending.stage = "idle", NEW r \in Reqs
    PROVE  doneSet[r] <=> outcome[r] # "none"
BY DEF Ends

\* What a sink does to its request: the outcome is set once, and the queue of
\* a stream that has not ended gets the tokens and then the terminal event.
Emitted(r, n, how) ==
    /\ ids' \in [Reqs -> Nat] /\ q' \in [Reqs -> Seq(Events)]
    /\ outcome' \in [Reqs -> {"none", "finish", "error"}]
    /\ ending' \in [req : Reqs, stage : {"idle", "set", "check", "commit"}]
    /\ \A x \in Reqs \ {r} :
          ids'[x] = ids[x] /\ outcome'[x] = outcome[x] /\ q'[x] = q[x]
    /\ ids'[r] = ids[r] + n
    /\ outcome'[r] = IF outcome[r] = "none" THEN how ELSE outcome[r]
    /\ \A x \in Reqs : doneSet'[x] => outcome'[x] # "none"
    /\ \A x \in Reqs : outcome'[x] # "none" /\ ~doneSet'[x] =>
          ending'.stage = "set" /\ ending'.req = x
    /\ ending'.stage = "set" => outcome'[ending'.req] # "none"
    /\ ~IsStream(r) => q'[r] = q[r]
    /\ IsStream(r) => \A i \in 1 .. Len(q[r]) : q'[r][i] = q[r][i]
    /\ IsStream(r) /\ outcome[r] # "none" => Len(q'[r]) = Len(q[r])
    /\ IsStream(r) /\ outcome[r] = "none" =>
          /\ Len(q'[r]) = Len(q[r]) + n + (IF how # "none" THEN 1 ELSE 0)
          /\ n = 1 => q'[r][Len(q[r]) + 1] = "tok"
          /\ how # "none" => q'[r][Len(q[r]) + n + 1] = how

\* Emit does this, called outside on_finish and fail.
LEMMA EmitFacts ==
    ASSUME FacadeTypes, Ends, ending.stage = "idle", NEW r \in Reqs,
           NEW n \in {0, 1}, NEW how \in {"none", "finish", "error"},
           n = 1 => outcome[r] = "none", Emit(r, n, how),
           kind' = kind, doneSet' = doneSet
    PROVE  Emitted(r, n, how)
<1> DEFINE ends == how # "none" /\ ~doneSet[r]
           a == [i \in 1 .. n |-> "tok"]
           b == IF ends THEN <<how>> ELSE <<>>
           t == q[r] \o a \o b
<1>1. /\ ids' = [ids EXCEPT ![r] = @ + n]
      /\ outcome' = IF ends THEN [outcome EXCEPT ![r] = how] ELSE outcome
      /\ ending' = IF ends THEN [req |-> r, stage |-> "set"] ELSE ending
      /\ q' = IF ~IsStream(r) THEN q ELSE [q EXCEPT ![r] = t]
      /\ doneSet' = doneSet
  BY DEF Emit
<1>2. /\ ids \in [Reqs -> Nat] /\ q \in [Reqs -> Seq(Events)]
      /\ outcome \in [Reqs -> {"none", "finish", "error"}]
      /\ ending \in [req : Reqs, stage : {"idle", "set", "check", "commit"}]
  BY DEF FacadeTypes, Events
<1>3. doneSet[r] <=> outcome[r] # "none"
  BY DoneIffEnded
<1>4. ends \in BOOLEAN /\ (ends <=> how # "none" /\ outcome[r] = "none")
  BY <1>3
<1>5. /\ t \in Seq(Events) /\ Len(q[r]) \in Nat
      /\ Len(t) = Len(q[r]) + n + (IF ends THEN 1 ELSE 0)
      /\ \A i \in 1 .. Len(q[r]) : t[i] = q[r][i]
      /\ n = 1 => t[Len(q[r]) + 1] = "tok"
      /\ ends => t[Len(q[r]) + n + 1] = how
  <2>1. q[r] \in Seq(Events) /\ "tok" \in Events /\ (ends => how \in Events)
    BY <1>2 DEF Events
  <2>2. a \in Seq(Events) /\ Len(a) = n /\ (n = 1 => a[1] = "tok")
    <3>1. n \in Nat /\ a \in [1 .. n -> Events]
      BY <2>1
    <3> QED BY <3>1
  <2>3. /\ b \in Seq(Events) /\ Len(b) = IF ends THEN 1 ELSE 0
        /\ ends => b[1] = how
    <3> HIDE DEF ends
    <3> QED BY <1>4, <2>1
  <2> HIDE DEF ends, a, b
  <2>4. /\ t \in Seq(Events) /\ Len(t) = Len(q[r]) + Len(a) + Len(b)
        /\ \A i \in 1 .. Len(q[r]) : t[i] = q[r][i]
        /\ Len(a) = 1 => t[Len(q[r]) + 1] = a[1]
        /\ Len(b) = 1 => t[Len(q[r]) + Len(a) + 1] = b[1]
    <3>1. q[r] \in Seq(Events) /\ a \in Seq(Events) /\ b \in Seq(Events)
      BY <2>1, <2>2, <2>3
    <3> QED BY ONLY <3>1, JoinFacts
  <2>5. Len(q[r]) \in Nat /\ n \in Nat
    BY <2>1
  <2> HIDE DEF t
  <2>6. CASE ends
    <3>1. Len(a) = n /\ Len(b) = 1
      BY <2>2, <2>3, <2>6
    <3> QED BY <2>2, <2>3, <2>4, <2>5, <2>6, <3>1
  <2>7. CASE ~ends
    <3>1. Len(a) = n /\ Len(b) = 0
      BY <2>2, <2>3, <2>7
    <3> QED BY <2>2, <2>4, <2>5, <2>7, <3>1
  <2> QED BY <1>4, <2>6, <2>7
<1> HIDE DEF ends, a, b, t
<1>6. ids' \in [Reqs -> Nat] /\ ids'[r] = ids[r] + n
      /\ \A x \in Reqs \ {r} : ids'[x] = ids[x]
  BY <1>1, <1>2
<1>7. /\ outcome' \in [Reqs -> {"none", "finish", "error"}]
      /\ \A x \in Reqs \ {r} : outcome'[x] = outcome[x]
      /\ outcome'[r] = IF outcome[r] = "none" THEN how ELSE outcome[r]
  <2>1. CASE ends
    BY <1>1, <1>2, <1>4, <2>1
  <2>2. CASE ~ends
    BY <1>1, <1>2, <1>4, <2>2
  <2> QED BY <2>1, <2>2
<1>8. /\ q' \in [Reqs -> Seq(Events)] /\ (~IsStream(r) => q'[r] = q[r])
      /\ \A x \in Reqs \ {r} : q'[x] = q[x]
      /\ IsStream(r) => q'[r] = t
  BY <1>1, <1>2, <1>5
<1>9. ending' \in [req : Reqs, stage : {"idle", "set", "check", "commit"}]
  BY <1>1, <1>2
<1>10. ASSUME NEW x \in Reqs
       PROVE  /\ doneSet'[x] => outcome'[x] # "none"
              /\ outcome'[x] # "none" /\ ~doneSet'[x] =>
                    ending'.stage = "set" /\ ending'.req = x
  <2>1. doneSet[x] <=> outcome[x] # "none"
    BY DoneIffEnded
  <2>2. CASE x = r
    BY <1>1, <1>4, <1>7, <2>1, <2>2
  <2>3. CASE x # r
    BY <1>1, <1>7, <2>1, <2>3
  <2> QED BY <2>2, <2>3
<1>13. ending'.stage = "set" => outcome'[ending'.req] # "none"
  <2>1. CASE ends
    BY <1>1, <1>4, <1>7, <2>1
  <2>2. CASE ~ends
    BY <1>1, <2>2
  <2> QED BY <2>1, <2>2
<1>11. ASSUME IsStream(r), outcome[r] # "none"
       PROVE  /\ Len(q'[r]) = Len(q[r])
              /\ \A i \in 1 .. Len(q[r]) : q'[r][i] = q[r][i]
  <2>1. ~ends /\ n = 0
    BY <1>4, <1>11
  <2>2. q'[r] = t /\ Len(t) = Len(q[r])
    BY <1>5, <1>8, <1>11, <2>1
  <2> QED BY <1>5, <2>2
<1>12. ASSUME IsStream(r), outcome[r] = "none"
       PROVE  /\ Len(q'[r]) = Len(q[r]) + n + (IF how # "none" THEN 1 ELSE 0)
              /\ \A i \in 1 .. Len(q[r]) : q'[r][i] = q[r][i]
              /\ n = 1 => q'[r][Len(q[r]) + 1] = "tok"
              /\ how # "none" => q'[r][Len(q[r]) + n + 1] = how
  BY <1>4, <1>5, <1>8, <1>12
<1> QED
  BY <1>5, <1>6, <1>7, <1>8, <1>9, <1>10, <1>11, <1>12, <1>13 DEF Emitted

\* A sink keeps the account of a stream, says nothing to the client and
\* delivers nothing of what is over.
LEMMA EmitKeeps ==
    ASSUME FacadeTypes, Ends, Streams, Replies, ending.stage = "idle",
           NEW r \in Reqs, NEW n \in {0, 1},
           NEW how \in {"none", "finish", "error"},
           n = 1 => outcome[r] = "none", Emit(r, n, how),
           UNCHANGED <<handlerVars, doneSet>>
    PROVE  Streams' /\ Replies' /\ NothingMore
<1>1. kind' = kind /\ hpc' = hpc /\ reply' = reply /\ taken' = taken
      /\ doneSet' = doneSet
  BY DEF handlerVars
<1>0. Emitted(r, n, how)
  BY <1>1, EmitFacts
<1>2. /\ ids' \in [Reqs -> Nat] /\ q' \in [Reqs -> Seq(Events)]
      /\ \A x \in Reqs \ {r} : /\ ids'[x] = ids[x]
                               /\ outcome'[x] = outcome[x]
                               /\ q'[x] = q[x]
      /\ ids'[r] = ids[r] + n
      /\ outcome'[r] = IF outcome[r] = "none" THEN how ELSE outcome[r]
      /\ ~IsStream(r) => q'[r] = q[r]
      /\ IsStream(r) => \A i \in 1 .. Len(q[r]) : q'[r][i] = q[r][i]
      /\ IsStream(r) /\ outcome[r] # "none" => Len(q'[r]) = Len(q[r])
      /\ IsStream(r) /\ outcome[r] = "none" =>
            /\ Len(q'[r]) = Len(q[r]) + n + (IF how # "none" THEN 1 ELSE 0)
            /\ n = 1 => q'[r][Len(q[r]) + 1] = "tok"
            /\ how # "none" => q'[r][Len(q[r]) + n + 1] = how
  BY <1>0 DEF Emitted
<1>3. /\ ids[r] \in Nat /\ taken[r] \in Nat
      /\ \A x \in Reqs : q[x] \in Seq(Events)
      /\ outcome[r] \in {"none", "finish", "error"}
  BY DEF FacadeTypes, Events
<1>4. \A x \in Reqs : /\ Len(q[x]) \in Nat
                      /\ \A i \in 1 .. Len(q[x]) : q[x][i] \in Events
  BY <1>3
<1>5. \A x \in Reqs : IsStream(x)' = IsStream(x)
  BY <1>1 DEF IsStream
<1>6. Streams'
  <2>1. ASSUME Unread(r), IsStream(r) PROVE Unread(r)'
    <3>1. CASE outcome[r] # "none"
      <4>1. n = 0 /\ ids'[r] = ids[r] /\ outcome'[r] = outcome[r]
            /\ Len(q'[r]) = Len(q[r]) /\ taken'[r] = taken[r]
            /\ \A i \in 1 .. Len(q[r]) : q'[r][i] = q[r][i]
        BY <1>1, <1>2, <1>3, <2>1, <3>1
      <4>2. Len(q[r]) > 0 => Len(q[r]) \in 1 .. Len(q[r])
        BY <1>4
      <4> QED BY <2>1, <3>1, <4>1, <4>2 DEF Unread
    <3>2. CASE outcome[r] = "none"
      <4>1. /\ taken[r] + Len(q[r]) = ids[r]
            /\ \A i \in 1 .. Len(q[r]) : q[r][i] = "tok"
        BY <1>4, <2>1, <3>2 DEF Unread, Events
      <4>2. outcome'[r] = how /\ taken'[r] = taken[r]
        BY <1>1, <1>2, <3>2
      <4>3. taken'[r] + Len(q'[r])
              = IF outcome'[r] = "none" THEN ids'[r] ELSE ids'[r] + 1
        <5>1. Len(q'[r]) = Len(q[r]) + n + (IF how # "none" THEN 1 ELSE 0)
          BY <1>2, <2>1, <3>2
        <5>2. /\ Len(q'[r]) = Len(q[r]) + n + (IF how # "none" THEN 1 ELSE 0)
              /\ ids'[r] = ids[r] + n /\ n \in Nat /\ Len(q[r]) \in Nat
          BY <1>2, <1>4, <5>1
        <5>3. CASE how = "none"
          BY <1>3, <4>1, <4>2, <5>2, <5>3
        <5>4. CASE how # "none"
          BY <1>3, <4>1, <4>2, <5>2, <5>4
        <5> QED BY <5>3, <5>4
      <4>4. ASSUME NEW i \in 1 .. Len(q'[r]), q'[r][i] # "tok"
            PROVE  i = Len(q'[r]) /\ q'[r][i] = outcome'[r]
        <5>1. Len(q'[r]) = Len(q[r]) + n + (IF how # "none" THEN 1 ELSE 0)
          BY <1>2, <2>1, <3>2
        <5>2. i \notin 1 .. Len(q[r])
          BY <1>2, <2>1, <3>2, <4>1, <4>4
        <5>3. ~(n = 1 /\ i = Len(q[r]) + 1)
          BY <1>2, <2>1, <3>2, <4>4
        <5>4. how # "none" /\ i = Len(q[r]) + n + 1
          BY <1>4, <4>4, <5>1, <5>2, <5>3
        <5> QED BY <1>2, <2>1, <3>2, <4>2, <5>1, <5>4
      <4>5. ASSUME outcome'[r] # "none"
            PROVE  Len(q'[r]) > 0 /\ q'[r][Len(q'[r])] = outcome'[r]
        <5>1. Len(q'[r]) = Len(q[r]) + n + 1
              /\ q'[r][Len(q[r]) + n + 1] = how
          BY <1>2, <2>1, <3>2, <4>2, <4>5
        <5> QED BY <1>4, <4>2, <5>1
      <4> QED BY <4>3, <4>4, <4>5 DEF Unread
    <3> QED BY <3>1, <3>2
  <2>2. ASSUME NEW x \in Reqs, x # r, Unread(x) PROVE Unread(x)'
    <3>1. ids'[x] = ids[x] /\ outcome'[x] = outcome[x] /\ q'[x] = q[x]
          /\ taken'[x] = taken[x]
      BY <1>1, <1>2, <2>2
    <3> QED BY <2>2, <3>1 DEF Unread
  <2>3. ~IsStream(r) => q'[r] = <<>>
    BY <1>2 DEF Streams
  <2> QED BY <1>1, <1>2, <1>5, <2>1, <2>2, <2>3 DEF Streams
<1>7. Replies'
  <2> SUFFICES ASSUME NEW x \in Reqs, reply[x] = "ok"
               PROVE  /\ outcome'[x] = "finish"
                      /\ IsStream(x) => taken[x] = ids'[x]
    BY <1>1, <1>5 DEF Replies
  <2>1. outcome[x] = "finish" /\ (IsStream(x) => taken[x] = ids[x])
    BY DEF Replies
  <2>2. CASE x = r
    BY <1>2, <1>3, <2>1, <2>2
  <2>3. CASE x # r
    BY <1>2, <2>1, <2>3
  <2> QED BY <2>2, <2>3
<1>8. NothingMore
  <2> SUFFICES ASSUME NEW x \in Reqs, doneSet[x]
               PROVE  /\ ids'[x] = ids[x] /\ outcome'[x] = outcome[x]
                      /\ Len(q'[x]) <= Len(q[x])
    BY <1>1 DEF NothingMore
  <2>1. outcome[x] # "none"
    BY DEF Ends
  <2>2. CASE x = r
    BY <1>2, <1>3, <1>4, <2>1, <2>2
  <2>3. CASE x # r
    BY <1>2, <1>4, <2>3
  <2> QED BY <2>2, <2>3
<1> QED BY <1>6, <1>7, <1>8

-----------------------------------------------------------------------------
(***************************************************************************)
(* Handler threads.  They touch neither the scheduler nor the executor's   *)
(* records, and of a request only its reply, its `_released` flag and the  *)
(* head of its queue.                                                      *)
(***************************************************************************)
\* What no handler changes keeps its part of the invariant.
LEMMA HandlerFrame ==
    ASSUME ServingInv,
           UNCHANGED <<vars, kind, doneSet, outcome, ids, seqOf, execVars, stop>>
    PROVE  /\ EngineInv' /\ Quiet' /\ Accounted' /\ Owners' /\ Ends' /\ Counts'
           /\ kind' = kind /\ doneSet' = doneSet /\ outcome' = outcome
           /\ ids' = ids /\ seqOf' = seqOf /\ seqs' = seqs /\ epc' = epc
           /\ ending' = ending /\ toFail' = toFail /\ stop' = stop
<1>1. /\ kind' = kind /\ doneSet' = doneSet /\ outcome' = outcome
      /\ ids' = ids /\ seqOf' = seqOf /\ seqs' = seqs /\ epc' = epc
      /\ ending' = ending /\ toFail' = toFail /\ stop' = stop
      /\ UNCHANGED vars
  BY DEF execVars
<1>2. EngineInv /\ Quiet /\ Accounted /\ Owners /\ Ends /\ Counts
  BY DEF ServingInv
<1>3. /\ EngineInv' /\ Quiet' /\ Known' = Known /\ nextSeq' = nextSeq
      /\ done' = done /\ pc' = pc /\ req' = req
  BY <1>1, <1>2, EngineFrame
<1>4. Accounted'
  BY <1>1, <1>2, <1>3 DEF Accounted
<1>5. Owners'
  BY <1>1, <1>2, <1>3, OwnersFrame
<1>6. Ends'
  BY <1>1, <1>2, <1>3, EndsFrame
<1>7. Counts'
  BY <1>1, <1>2, <1>3, CountsFrame
<1> QED BY <1>1, <1>3, <1>4, <1>5, <1>6, <1>7

\* A handler moves on, and may tell its client how it ended.
LEMMA HandlerMoves ==
    ASSUME ServingInv, NEW r \in Reqs, NEW at \in HandlerStates,
           at \notin {"start", "wait", "ready"}, Goto(r, at),
           at = "read" => hpc[r] = "ready",
           at = "finally" => IsStream(r), at = "timedout" => ~IsStream(r),
           NEW rep \in {"none", "ok", "error"},
           reply' = [reply EXCEPT ![r] = rep], at = "read" => rep = reply[r],
           rep = "ok" => /\ outcome[r] = "finish"
                         /\ IsStream(r) => taken[r] = ids[r],
           abortQ' \in Seq(SeqIds), released' \in [Reqs -> BOOLEAN],
           inflight' \in Int,
           UNCHANGED <<vars, kind, taken, doneSet, outcome, q, ids, seqOf,
                       submitQ, exclQ, execVars, stop>>
    PROVE  ServingInv' /\ NothingMore
<1>1. /\ EngineInv' /\ Quiet' /\ Accounted' /\ Owners' /\ Ends' /\ Counts'
      /\ kind' = kind /\ doneSet' = doneSet /\ outcome' = outcome
      /\ ids' = ids /\ seqOf' = seqOf /\ seqs' = seqs /\ epc' = epc
      /\ ending' = ending /\ toFail' = toFail /\ stop' = stop
  BY HandlerFrame
<1>2. /\ taken' = taken /\ q' = q /\ submitQ' = submitQ /\ exclQ' = exclQ
  OBVIOUS
<1>3. FacadeTypes /\ Waits /\ Streams /\ Replies
  BY DEF ServingInv
<1>4. /\ hpc' \in [Reqs -> HandlerStates] /\ hpc'[r] = at
      /\ \A x \in Reqs \ {r} : hpc'[x] = hpc[x]
      /\ reply' \in [Reqs -> {"none", "ok", "error"}] /\ reply'[r] = rep
      /\ \A x \in Reqs \ {r} : reply'[x] = reply[x]
  BY <1>3 DEF FacadeTypes, Goto
<1>5. FacadeTypes'
  BY <1>1, <1>2, <1>3, <1>4 DEF FacadeTypes
<1>6. Waits'
  <2>1. \A x \in Reqs : hpc'[x] = "start" => hpc[x] = "start"
    BY <1>4
  <2> QED BY <1>1, <1>2, <1>3, <2>1 DEF Waits, Untold, IsText
<1>7. \A x \in Reqs : IsStream(x)' = IsStream(x) /\ (Unread(x) => Unread(x)')
  BY <1>1, <1>2 DEF IsStream, Unread
<1>8. Streams'
  <2>1. ASSUME NEW x \in Reqs, x # r
        PROVE  /\ ~IsStream(x)' => q'[x] = <<>>
               /\ IsStream(x)' /\ hpc'[x] \in {"start", "ready", "read"}
                     => Unread(x)'
               /\ hpc'[x] \in {"wait", "timedout"} => ~IsStream(x)'
               /\ hpc'[x] \in {"ready", "read", "finally"} => IsStream(x)'
    BY <1>2, <1>3, <1>4, <1>7, <2>1 DEF Streams
  <2>2. /\ ~IsStream(r)' => q'[r] = <<>>
        /\ IsStream(r)' /\ hpc'[r] \in {"start", "ready", "read"}
              => Unread(r)'
        /\ hpc'[r] \in {"wait", "timedout"} => ~IsStream(r)'
        /\ hpc'[r] \in {"ready", "read", "finally"} => IsStream(r)'
    BY <1>2, <1>3, <1>4, <1>7 DEF Streams
  <2> QED BY <2>1, <2>2 DEF Streams
<1>9. Replies'
  <2>1. ASSUME NEW x \in Reqs, x # r
        PROVE  /\ hpc'[x] \in {"start", "wait", "ready", "read"} =>
                     reply'[x] = "none"
               /\ reply'[x] = "ok" =>
                     /\ outcome'[x] = "finish"
                     /\ IsStream(x)' => taken'[x] = ids'[x]
    BY <1>1, <1>2, <1>3, <1>4, <1>7, <2>1 DEF Replies
  <2>2. /\ hpc'[r] \in {"start", "wait", "ready", "read"} => reply'[r] = "none"
        /\ reply'[r] = "ok" => /\ outcome'[r] = "finish"
                               /\ IsStream(r)' => taken'[r] = ids'[r]
    BY <1>1, <1>2, <1>3, <1>4, <1>7 DEF Replies
  <2> QED BY <2>1, <2>2 DEF Replies
<1>10. NothingMore
  BY <1>1, <1>2, <1>3, QuietFrame
<1> QED BY <1>1, <1>5, <1>6, <1>8, <1>9, <1>10 DEF ServingInv

\* _request_abort sends sequence ids.
LEMMA RequestAbortTypes ==
    ASSUME FacadeTypes, NEW r \in Reqs, RequestAbort(r)
    PROVE  abortQ' \in Seq(SeqIds)
<1>1. abortQ \in Seq(SeqIds) /\ seqOf[r] \in SeqIds \union {NoSeq}
  BY DEF FacadeTypes
<1>2. CASE abortQ' = abortQ
  BY <1>1, <1>2
<1>3. CASE seqOf[r] # NoSeq /\ abortQ' = Append(abortQ, seqOf[r])
  <2>1. seqOf[r] \in SeqIds
    BY <1>1, <1>3
  <2> QED BY <1>1, <1>3, <2>1
<1> QED BY <1>2, <1>3 DEF RequestAbort

\* A request that is let in: it waits in one queue, untold.
LEMMA EnterInv ==
    ASSUME ServingInv, NEW r \in Reqs, Enter(r)
    PROVE  ServingInv' /\ NothingMore
<1>0. PICK at : at = IF IsStream(r) THEN "ready" ELSE "wait"
  OBVIOUS
<1>1. /\ hpc[r] = "start" /\ inflight' = inflight + 1
      /\ IF IsText(r)
         THEN submitQ' = Append(submitQ, r) /\ exclQ' = exclQ
         ELSE exclQ' = Append(exclQ, r) /\ submitQ' = submitQ
      /\ hpc' = [hpc EXCEPT ![r] = at]
      /\ reply' = reply /\ taken' = taken /\ q' = q
      /\ released' = released /\ abortQ' = abortQ
      /\ UNCHANGED <<vars, kind, doneSet, outcome, ids, seqOf, execVars, stop>>
  BY <1>0 DEF Enter, Goto, reqVars
<1>2. /\ EngineInv' /\ Quiet' /\ Accounted' /\ Owners' /\ Ends' /\ Counts'
      /\ kind' = kind /\ doneSet' = doneSet /\ outcome' = outcome
      /\ ids' = ids /\ seqOf' = seqOf /\ seqs' = seqs /\ epc' = epc
      /\ ending' = ending /\ toFail' = toFail /\ stop' = stop
  BY <1>1, HandlerFrame
<1>3. FacadeTypes /\ Waits /\ Streams /\ Replies
  BY DEF ServingInv
<1>4. /\ hpc' \in [Reqs -> HandlerStates] /\ hpc'[r] = at
      /\ \A x \in Reqs \ {r} : hpc'[x] = hpc[x]
      /\ at \in {"ready", "wait"} /\ (at = "ready" <=> IsStream(r))
  BY <1>0, <1>1, <1>3 DEF FacadeTypes, HandlerStates
<1>5. /\ submitQ \in Seq(Reqs) /\ exclQ \in Seq(Reqs)
      /\ IsInjective(submitQ) /\ IsInjective(exclQ)
      /\ Untold(r) /\ r \notin ToSet(submitQ) \union ToSet(exclQ)
      /\ inflight \in Int
  BY <1>1, <1>3 DEF FacadeTypes, Waits
<1>6. /\ submitQ' \in Seq(Reqs) /\ IsInjective(submitQ')
      /\ ToSet(submitQ') = IF IsText(r) THEN ToSet(submitQ) \union {r}
                           ELSE ToSet(submitQ)
  <2>1. CASE IsText(r)
    <3>1. /\ submitQ \in Seq(Reqs) /\ r \in Reqs
          /\ IsInjective(submitQ) /\ r \notin ToSet(submitQ)
      BY <1>5
    <3>2. /\ Append(submitQ, r) \in Seq(Reqs)
          /\ ToSet(Append(submitQ, r)) = ToSet(submitQ) \union {r}
          /\ IsInjective(Append(submitQ, r))
      BY <3>1, AppendFacts
    <3> QED BY <1>1, <2>1, <3>2
  <2>2. CASE ~IsText(r)
    BY <1>1, <1>5, <2>2
  <2> QED BY <2>1, <2>2
<1>7. /\ exclQ' \in Seq(Reqs) /\ IsInjective(exclQ')
      /\ ToSet(exclQ') = IF IsText(r) THEN ToSet(exclQ)
                         ELSE ToSet(exclQ) \union {r}
  <2>1. CASE IsText(r)
    BY <1>1, <1>5, <2>1
  <2>2. CASE ~IsText(r)
    <3>1. /\ exclQ \in Seq(Reqs) /\ r \in Reqs
          /\ IsInjective(exclQ) /\ r \notin ToSet(exclQ)
      BY <1>5
    <3>2. /\ Append(exclQ, r) \in Seq(Reqs)
          /\ ToSet(Append(exclQ, r)) = ToSet(exclQ) \union {r}
          /\ IsInjective(Append(exclQ, r))
      BY <3>1, AppendFacts
    <3> QED BY <1>1, <2>2, <3>2
  <2> QED BY <2>1, <2>2
<1>8. FacadeTypes'
  <2>1. inflight' \in Int
    BY <1>1, <1>5
  <2> QED BY <1>1, <1>2, <1>3, <1>4, <1>6, <1>7, <2>1 DEF FacadeTypes
<1>9. Waits'
  <2>1. \A x \in Reqs : /\ Untold(x)' = Untold(x) /\ IsText(x)' = IsText(x)
                        /\ hpc'[x] = "start" => hpc[x] = "start" /\ x # r
    BY <1>2, <1>4 DEF Untold, IsText
  <2>2. ASSUME NEW x \in ToSet(submitQ') PROVE IsText(x)' /\ Untold(x)'
    <3>1. x \in Reqs
      BY <1>5, <1>6, ToSetFacts
    <3> QED BY <1>3, <1>5, <1>6, <2>1, <3>1 DEF Waits
  <2>3. ASSUME NEW x \in ToSet(exclQ') PROVE ~IsText(x)' /\ outcome'[x] = "none"
    <3>1. x \in Reqs
      BY <1>5, <1>7, ToSetFacts
    <3> QED BY <1>2, <1>3, <1>5, <1>7, <2>1, <3>1 DEF Waits, Untold
  <2>4. ASSUME NEW x \in Reqs, hpc'[x] = "start"
        PROVE  Untold(x)' /\ x \notin ToSet(submitQ') \union ToSet(exclQ')
    <3>1. hpc[x] = "start" /\ x # r
      BY <2>1, <2>4
    <3> QED BY <1>3, <1>6, <1>7, <2>1, <3>1 DEF Waits
  <2>5. epc' = "job" => exclQ' # <<>>
    <3>1. epc = "job" => exclQ # <<>>
      BY <1>3 DEF Waits
    <3>2. exclQ' = exclQ \/ r \in ToSet(exclQ')
      BY <1>1, <1>7
    <3> QED BY <1>2, <3>1, <3>2, EmptyFacts
  <2> QED BY <1>6, <1>7, <2>2, <2>3, <2>4, <2>5 DEF Waits
<1>10. \A x \in Reqs : IsStream(x)' = IsStream(x) /\ Unread(x)' = Unread(x)
  BY <1>1, <1>2 DEF IsStream, Unread
<1>11. Streams'
  <2>1. ASSUME NEW x \in Reqs, x # r, hpc'[x] = hpc[x]
        PROVE  /\ ~IsStream(x)' => q'[x] = <<>>
               /\ IsStream(x)' /\ hpc'[x] \in {"start", "ready", "read"}
                     => Unread(x)'
               /\ hpc'[x] \in {"wait", "timedout"} => ~IsStream(x)'
               /\ hpc'[x] \in {"ready", "read", "finally"} => IsStream(x)'
    BY <1>1, <1>3, <1>10, <2>1 DEF Streams
  <2>2. /\ ~IsStream(r)' => q'[r] = <<>>
        /\ IsStream(r)' /\ hpc'[r] \in {"start", "ready", "read"}
              => Unread(r)'
        /\ hpc'[r] \in {"wait", "timedout"} => ~IsStream(r)'
        /\ hpc'[r] \in {"ready", "read", "finally"} => IsStream(r)'
    BY <1>1, <1>3, <1>4, <1>10 DEF Streams
  <2> QED BY <1>4, <2>1, <2>2 DEF Streams
<1>12. Replies'
  <2>1. reply[r] = "none"
    BY <1>1, <1>3 DEF Replies
  <2>2. \A x \in Reqs : /\ hpc'[x] = hpc[x] \/ x = r
    BY <1>4
  <2> QED BY <1>1, <1>2, <1>3, <1>10, <2>1, <2>2 DEF Replies
<1>13. NothingMore
  BY <1>1, <1>2, <1>3, QuietFrame
<1> QED BY <1>2, <1>8, <1>9, <1>11, <1>12, <1>13 DEF ServingInv

\* A handler reads a token, or the end of its stream.
LEMMA ReadInv ==
    ASSUME ServingInv, NEW r \in Reqs, hpc[r] = "read", q[r] # <<>>,
           q' = [q EXCEPT ![r] = Tail(@)],
           NEW at \in {"read", "finally"}, hpc' = [hpc EXCEPT ![r] = at],
           \/ /\ Head(q[r]) = "tok"
              /\ taken' = [taken EXCEPT ![r] = @ + 1] /\ reply' = reply
           \/ /\ Head(q[r]) # "tok" /\ at = "finally" /\ taken' = taken
              /\ reply' = [reply EXCEPT ![r] = IF Head(q[r]) = "finish"
                                               THEN "ok" ELSE "error"],
           UNCHANGED <<vars, kind, doneSet, outcome, released, ids, seqOf,
                       chanVars, execVars, stop>>
    PROVE  ServingInv' /\ NothingMore
<1>1. /\ inflight' = inflight /\ submitQ' = submitQ /\ exclQ' = exclQ
      /\ released' = released /\ abortQ' = abortQ
      /\ UNCHANGED <<vars, kind, doneSet, outcome, ids, seqOf, execVars, stop>>
  BY DEF chanVars
<1>2. /\ EngineInv' /\ Quiet' /\ Accounted' /\ Owners' /\ Ends' /\ Counts'
      /\ kind' = kind /\ doneSet' = doneSet /\ outcome' = outcome
      /\ ids' = ids /\ seqOf' = seqOf /\ seqs' = seqs /\ epc' = epc
      /\ ending' = ending /\ toFail' = toFail /\ stop' = stop
  BY <1>1, HandlerFrame
<1>3. FacadeTypes /\ Waits /\ Streams /\ Replies
  BY DEF ServingInv
<1>4. /\ hpc' \in [Reqs -> HandlerStates] /\ hpc'[r] = at
      /\ \A x \in Reqs \ {r} : hpc'[x] = hpc[x]
  BY <1>3 DEF FacadeTypes, HandlerStates
<1>5. /\ q[r] \in Seq(Events) /\ Len(q[r]) \in Nat /\ ids[r] \in Nat
      /\ taken[r] \in Nat /\ q \in [Reqs -> Seq(Events)]
      /\ \A i \in 1 .. Len(q[r]) : q[r][i] \in Events
  BY <1>3 DEF FacadeTypes, Events
<1>6. /\ Head(q[r]) = q[r][1] /\ Tail(q[r]) \in Seq(Events)
      /\ 1 \in 1 .. Len(q[r])
      /\ Len(Tail(q[r])) = Len(q[r]) - 1
      /\ \A i \in 1 .. Len(Tail(q[r])) : Tail(q[r])[i] = q[r][i + 1]
  BY <1>5, TailWithout DEF Without
<1>7. /\ q' \in [Reqs -> Seq(Events)] /\ q'[r] = Tail(q[r])
      /\ \A x \in Reqs \ {r} : q'[x] = q[x]
  BY <1>5, <1>6
<1>8. /\ taken' \in [Reqs -> Nat] /\ reply' \in [Reqs -> {"none", "ok", "error"}]
      /\ \A x \in Reqs \ {r} : taken'[x] = taken[x] /\ reply'[x] = reply[x]
  <2>1. /\ taken \in [Reqs -> Nat]
        /\ reply \in [Reqs -> {"none", "ok", "error"}]
    BY <1>3 DEF FacadeTypes
  <2>2. /\ taken' \in [Reqs -> Nat]
        /\ \A x \in Reqs \ {r} : taken'[x] = taken[x]
    <3>1. CASE taken' = taken
      BY <2>1, <3>1
    <3>2. CASE taken' = [taken EXCEPT ![r] = @ + 1]
      BY <1>5, <2>1, <3>2
    <3> QED BY <3>1, <3>2
  <2>3. PICK rep : rep = IF Head(q[r]) = "finish" THEN "ok" ELSE "error"
    OBVIOUS
  <2>4. reply' = reply \/ reply' = [reply EXCEPT ![r] = rep]
    BY <2>3
  <2> QED BY <2>1, <2>2, <2>3, <2>4
<1>9. IsStream(r) /\ Unread(r) /\ reply[r] = "none"
  BY <1>3 DEF Streams, Replies
<1>10. \A x \in Reqs : IsStream(x)' = IsStream(x)
  BY <1>2 DEF IsStream
<1>11. FacadeTypes'
  BY <1>1, <1>2, <1>3, <1>4, <1>7, <1>8 DEF FacadeTypes, Events
<1>12. Waits'
  <2>1. \A x \in Reqs : hpc'[x] = "start" => hpc[x] = "start"
    BY <1>4
  <2> QED BY <1>1, <1>2, <1>3, <2>1 DEF Waits, Untold, IsText
<1>13. ASSUME Head(q[r]) = "tok" PROVE Unread(r)'
  <2>1. taken'[r] = taken[r] + 1
    BY <1>3, <1>13 DEF FacadeTypes
  <2>2. taken'[r] + Len(q'[r])
           = IF outcome'[r] = "none" THEN ids'[r] ELSE ids'[r] + 1
    <3>1. Len(q'[r]) = Len(q[r]) - 1 /\ ids'[r] = ids[r]
          /\ outcome'[r] = outcome[r]
      BY <1>2, <1>6, <1>7
    <3>2. taken[r] + Len(q[r]) = IF outcome[r] = "none" THEN ids[r] ELSE ids[r] + 1
      BY <1>9 DEF Unread
    <3> QED BY <1>5, <2>1, <3>1, <3>2
  <2>3. ASSUME NEW i \in 1 .. Len(q'[r]), q'[r][i] # "tok"
        PROVE  i = Len(q'[r]) /\ q'[r][i] = outcome'[r]
    <3>1. i + 1 \in 1 .. Len(q[r]) /\ q'[r][i] = q[r][i + 1]
      BY <1>5, <1>6, <1>7
    <3>2. i + 1 = Len(q[r]) /\ q[r][i + 1] = outcome[r]
      BY <1>9, <2>3, <3>1 DEF Unread
    <3>3. Len(q'[r]) = Len(q[r]) - 1 /\ outcome'[r] = outcome[r]
      BY <1>2, <1>6, <1>7
    <3>4. i \in Int
      OBVIOUS
    <3>5. i = Len(q'[r])
      BY ONLY <3>2, <3>3, <3>4
    <3> QED BY <3>1, <3>2, <3>3, <3>5
  <2>4. ASSUME outcome'[r] # "none"
        PROVE  Len(q'[r]) > 0 /\ q'[r][Len(q'[r])] = outcome'[r]
    <3>1. q[r][Len(q[r])] = outcome[r] /\ outcome[r] # "none"
          /\ outcome[r] \in {"none", "finish", "error"}
      BY <1>2, <1>3, <1>9, <2>4 DEF Unread, FacadeTypes
    <3>2. Len(q[r]) # 1
      BY <1>6, <1>13, <3>1
    <3>3. Len(q'[r]) > 0 /\ Len(q'[r]) \in 1 .. Len(q'[r])
          /\ Len(q'[r]) + 1 = Len(q[r])
      BY <1>5, <1>6, <1>7, <3>2
    <3> QED BY <1>2, <1>6, <1>7, <3>1, <3>3
  <2> QED BY <2>2, <2>3, <2>4 DEF Unread
<1>14. \A x \in Reqs : x # r => (Unread(x) => Unread(x)')
  BY <1>2, <1>7, <1>8 DEF Unread
<1>15. Streams'
  <2>1. ASSUME NEW x \in Reqs, x # r
        PROVE  /\ ~IsStream(x)' => q'[x] = <<>>
               /\ IsStream(x)' /\ hpc'[x] \in {"start", "ready", "read"}
                     => Unread(x)'
               /\ hpc'[x] \in {"wait", "timedout"} => ~IsStream(x)'
               /\ hpc'[x] \in {"ready", "read", "finally"} => IsStream(x)'
    BY <1>3, <1>4, <1>7, <1>10, <1>14, <2>1 DEF Streams
  <2>2. at = "read" => Unread(r)'
    BY <1>13
  <2> QED BY <1>4, <1>9, <1>10, <2>1, <2>2 DEF Streams
<1>16. Replies'
  <2>1. ASSUME NEW x \in Reqs, x # r
        PROVE  /\ hpc'[x] \in {"start", "wait", "ready", "read"} =>
                     reply'[x] = "none"
               /\ reply'[x] = "ok" =>
                     /\ outcome'[x] = "finish"
                     /\ IsStream(x)' => taken'[x] = ids'[x]
    BY <1>2, <1>3, <1>4, <1>8, <1>10, <2>1 DEF Replies
  <2>2. CASE Head(q[r]) = "tok"
    <3>1. reply'[r] = "none"
      BY <1>9, <2>2
    <3> QED BY <2>1, <3>1 DEF Replies
  <2>3. CASE Head(q[r]) # "tok"
    <3>1. /\ at = "finally" /\ taken'[r] = taken[r]
          /\ reply'[r] = IF Head(q[r]) = "finish" THEN "ok" ELSE "error"
      BY <1>3, <2>3 DEF FacadeTypes
    <3>2. 1 = Len(q[r]) /\ q[r][1] = outcome[r]
      BY <1>6, <1>9, <2>3 DEF Unread
    <3>3. outcome[r] # "none" /\ outcome[r] = Head(q[r])
      BY <1>5, <1>6, <3>2 DEF Events
    <3>4. taken[r] = ids[r]
      BY <1>5, <1>9, <3>2, <3>3 DEF Unread
    <3> QED BY <1>2, <1>4, <2>1, <3>1, <3>3, <3>4 DEF Replies
  <2> QED BY <2>2, <2>3
<1>17. NothingMore
  <2> SUFFICES ASSUME NEW x \in Reqs PROVE Len(q'[x]) <= Len(q[x])
    BY <1>2 DEF NothingMore
  <2>1. Len(q[x]) \in Nat
    BY <1>5
  <2> QED BY <1>5, <1>6, <1>7, <2>1
<1> QED BY <1>2, <1>11, <1>12, <1>15, <1>16, <1>17 DEF ServingInv

\* Every step of a handler.
LEMMA HandlerInv ==
    ASSUME ServingInv, NEW r \in Reqs, HandlerNext(r)
    PROVE  ServingInv' /\ NothingMore
<1>0. /\ FacadeTypes /\ Ends /\ Streams /\ Replies /\ Accounted
  BY DEF ServingInv
<1>1. /\ reply[r] \in {"none", "ok", "error"}
      /\ reply = [reply EXCEPT ![r] = reply[r]]
      /\ hpc = [hpc EXCEPT ![r] = hpc[r]] /\ taken[r] \in Nat
      /\ abortQ \in Seq(SeqIds) /\ released \in [Reqs -> BOOLEAN]
      /\ inflight \in Int /\ outcome[r] \in {"none", "finish", "error"}
  BY <1>0 DEF FacadeTypes
<1>2. reply[r] = "ok" => outcome[r] = "finish" /\ (IsStream(r) => taken[r] = ids[r])
  BY <1>0 DEF Replies
<1>3. {"over", "check", "commit", "finally", "timedout", "read"}
         \subseteq HandlerStates
  BY DEF HandlerStates
<1>4. CASE Refuse(r)
  <2>1. /\ Goto(r, "over") /\ reply' = [reply EXCEPT ![r] = "error"]
        /\ abortQ' = abortQ /\ released' = released /\ inflight' = inflight
        /\ UNCHANGED <<vars, kind, taken, doneSet, outcome, q, ids, seqOf,
                       submitQ, exclQ, execVars, stop>>
    BY <1>4 DEF Refuse, reqVars, chanVars
  <2> QED BY <1>1, <1>3, <2>1, HandlerMoves
<1>5. CASE Enter(r)
  BY <1>5, EnterInv
<1>6. CASE Timeout(r)
  <2>1. /\ hpc[r] = "wait" /\ reply' = [reply EXCEPT ![r] = reply[r]]
        /\ abortQ' = abortQ /\ released' = released /\ inflight' = inflight
        /\ UNCHANGED <<vars, kind, taken, doneSet, outcome, q, ids, seqOf,
                       submitQ, exclQ, execVars, stop>>
    BY <1>1, <1>6 DEF Timeout, reqVars, chanVars
  <2>2. PICK at \in {"timedout", "check"} : Goto(r, at)
    BY <1>6 DEF Timeout
  <2>3. ~IsStream(r)
    BY <1>0, <2>1 DEF Streams
  <2> QED BY <1>1, <1>2, <1>3, <2>1, <2>2, <2>3, HandlerMoves
<1>7. CASE StreamTimeout(r)
  <2>1. /\ hpc[r] = "read" /\ Goto(r, "finally") /\ RequestAbort(r)
        /\ reply' = [reply EXCEPT ![r] = reply[r]]
        /\ released' = released /\ inflight' = inflight
        /\ UNCHANGED <<vars, kind, taken, doneSet, outcome, q, ids, seqOf,
                       submitQ, exclQ, execVars, stop>>
    BY <1>1, <1>7 DEF StreamTimeout, reqVars
  <2>2. IsStream(r) /\ abortQ' \in Seq(SeqIds)
    BY <1>0, <2>1, RequestAbortTypes DEF Streams
  <2> QED BY <1>1, <1>2, <1>3, <2>1, <2>2, HandlerMoves
<1>8. CASE Return(r)
  <2>1. /\ hpc[r] = "wait" /\ doneSet[r]
        /\ abortQ' = abortQ /\ released' = released /\ inflight' = inflight
        /\ UNCHANGED <<vars, kind, taken, doneSet, outcome, q, ids, seqOf,
                       submitQ, exclQ, execVars, stop>>
    BY <1>8 DEF Return, reqVars, chanVars
  <2>2. outcome[r] # "none" /\ ~IsStream(r)
    BY <1>0, <2>1 DEF Ends, Streams
  <2>3. CASE outcome[r] = "error"
    <3>1. Goto(r, "check") /\ reply' = [reply EXCEPT ![r] = reply[r]]
      BY <1>1, <1>8, <2>3 DEF Return
    <3> QED BY <1>1, <1>2, <1>3, <2>1, <3>1, HandlerMoves
  <2>4. CASE outcome[r] # "error"
    <3>1. Goto(r, "over") /\ reply' = [reply EXCEPT ![r] = "ok"]
      BY <1>8, <2>4 DEF Return
    <3>2. outcome[r] = "finish"
      BY <1>1, <2>2, <2>4
    <3> QED BY <1>1, <1>3, <2>1, <2>2, <3>1, <3>2, HandlerMoves
  <2> QED BY <2>3, <2>4
<1>9. CASE AbortTimedOut(r)
  <2>1. /\ Goto(r, "check") /\ RequestAbort(r)
        /\ reply' = [reply EXCEPT ![r] = reply[r]]
        /\ released' = released /\ inflight' = inflight
        /\ UNCHANGED <<vars, kind, taken, doneSet, outcome, q, ids, seqOf,
                       submitQ, exclQ, execVars, stop>>
    BY <1>1, <1>9 DEF AbortTimedOut, reqVars
  <2>2. abortQ' \in Seq(SeqIds)
    BY <1>0, <2>1, RequestAbortTypes
  <2> QED BY <1>1, <1>2, <1>3, <2>1, <2>2, HandlerMoves
<1>10. CASE DropUnstarted(r)
  <2>1. /\ Goto(r, "over") /\ reply' = [reply EXCEPT ![r] = reply[r]]
        /\ abortQ' = abortQ /\ released' = released /\ inflight' = inflight
        /\ UNCHANGED <<vars, kind, taken, doneSet, outcome, q, ids, seqOf,
                       submitQ, exclQ, execVars, stop>>
    BY <1>1, <1>10 DEF DropUnstarted, reqVars, chanVars
  <2> QED BY <1>1, <1>2, <1>3, <2>1, HandlerMoves
<1>11. CASE StartReading(r)
  <2>1. /\ Goto(r, "read") /\ reply' = [reply EXCEPT ![r] = reply[r]]
        /\ hpc[r] = "ready"
        /\ abortQ' = abortQ /\ released' = released /\ inflight' = inflight
        /\ UNCHANGED <<vars, kind, taken, doneSet, outcome, q, ids, seqOf,
                       submitQ, exclQ, execVars, stop>>
    BY <1>1, <1>11 DEF StartReading, reqVars, chanVars
  <2> QED BY <1>1, <1>2, <1>3, <2>1, HandlerMoves
<1>12. CASE \E gone \in BOOLEAN : ReadToken(r, gone)
  <2>1. PICK gone \in BOOLEAN : ReadToken(r, gone)
    BY <1>12
  <2>2. PICK at : at = IF gone THEN "finally" ELSE "read"
    OBVIOUS
  <2>3. at \in {"read", "finally"} /\ hpc' = [hpc EXCEPT ![r] = at]
    BY <1>1, <2>1, <2>2 DEF ReadToken, Goto
  <2>4. /\ hpc[r] = "read" /\ q[r] # <<>> /\ q' = [q EXCEPT ![r] = Tail(@)]
        /\ Head(q[r]) = "tok"
        /\ taken' = [taken EXCEPT ![r] = @ + 1] /\ reply' = reply
        /\ UNCHANGED <<vars, kind, doneSet, outcome, released, ids, seqOf,
                       chanVars, execVars, stop>>
    BY <2>1 DEF ReadToken
  <2> QED BY <2>3, <2>4, ReadInv
<1>13. CASE ReadTerminal(r)
  <2>1. /\ hpc[r] = "read" /\ q[r] # <<>> /\ q' = [q EXCEPT ![r] = Tail(@)]
        /\ Head(q[r]) # "tok" /\ taken' = taken
        /\ reply' = [reply EXCEPT ![r] = IF Head(q[r]) = "finish"
                                         THEN "ok" ELSE "error"]
        /\ hpc' = [hpc EXCEPT ![r] = "finally"]
        /\ UNCHANGED <<vars, kind, doneSet, outcome, released, ids, seqOf,
                       chanVars, execVars, stop>>
    BY <1>13 DEF ReadTerminal, Goto
  <2> QED BY <2>1, ReadInv
<1>14. CASE Finally(r)
  <2>1. /\ reply' = [reply EXCEPT ![r] = reply[r]]
        /\ released' = released /\ inflight' = inflight
        /\ UNCHANGED <<vars, kind, taken, doneSet, outcome, q, ids, seqOf,
                       submitQ, exclQ, execVars, stop>>
    BY <1>1, <1>14 DEF Finally, reqVars
  <2>2. abortQ' \in Seq(SeqIds)
    BY <1>0, <1>1, <1>14, RequestAbortTypes DEF Finally
  <2>3. PICK at \in {"over", "check"} : Goto(r, at)
    BY <1>14 DEF Finally
  <2> QED BY <1>1, <1>2, <1>3, <2>1, <2>2, <2>3, HandlerMoves
<1>15. CASE HandlerCheck(r) \/ HandlerCommit(r)
  <2>1. /\ UNCHANGED <<vars, kind, taken, doneSet, outcome, q, ids, seqOf,
                       submitQ, exclQ, execVars, stop>>
        /\ abortQ' = abortQ
    BY <1>15 DEF HandlerCheck, HandlerCommit, reqVars, chanVars
  <2>2. released' \in [Reqs -> BOOLEAN] /\ inflight' \in Int
    <3>1. CASE HandlerCheck(r)
      BY <1>1, <3>1 DEF HandlerCheck, reqVars, chanVars
    <3>2. CASE HandlerCommit(r)
      <4>1. released' = [released EXCEPT ![r] = TRUE] /\ inflight' = inflight - 1
        BY <3>2 DEF HandlerCommit
      <4> QED BY <1>1, <4>1
    <3> QED BY <1>15, <3>1, <3>2
  <2>3. PICK rep \in {reply[r], "error"} : reply' = [reply EXCEPT ![r] = rep]
    BY <1>1, <1>15 DEF HandlerCheck, HandlerCommit
  <2>4. PICK at \in {"over", "commit"} : Goto(r, at)
    BY <1>15 DEF HandlerCheck, HandlerCommit
  <2>5. /\ rep \in {"none", "ok", "error"}
        /\ rep = "ok" => /\ outcome[r] = "finish"
                         /\ IsStream(r) => taken[r] = ids[r]
    BY <1>1, <1>2, <2>3
  <2> QED BY <1>1, <1>3, <2>1, <2>2, <2>3, <2>4, <2>5, HandlerMoves
<1> QED
  BY <1>4, <1>5, <1>6, <1>7, <1>8, <1>9, <1>10, <1>11, <1>12, <1>13, <1>14,
     <1>15 DEF HandlerNext, HandlerStep

-----------------------------------------------------------------------------
(***************************************************************************)
(* What the executor's calls do to the scheduler.                          *)
(***************************************************************************)
\* What follows the head moves up by one.
LEMMA TailShifts ==
    ASSUME NEW S, NEW s \in Seq(S), s # <<>>
    PROVE  /\ 1 \in DOMAIN s /\ Head(s) = s[1]
           /\ \A i \in DOMAIN Tail(s) : i + 1 \in DOMAIN s /\ Tail(s)[i] = s[i + 1]
<1>1. /\ Tail(s) \in Seq(S) /\ Without(Tail(s), s, 1)
      /\ Head(s) = s[1] /\ 1 \in 1 .. Len(s)
  BY TailWithout
<1>2. /\ DOMAIN s = 1 .. Len(s) /\ Len(s) \in Nat
      /\ DOMAIN Tail(s) = 1 .. Len(Tail(s)) /\ Len(Tail(s)) \in Nat
  BY <1>1, ToSetFacts
<1>3. ASSUME NEW i \in 1 .. Len(Tail(s))
      PROVE  i + 1 \in 1 .. Len(s) /\ Tail(s)[i] = s[i + 1]
  <2>1. Len(Tail(s)) = Len(s) - 1 /\ ~(i < 1) /\ i + 1 \in 1 .. Len(s)
    BY <1>1, <1>2 DEF Without
  <2> QED BY <1>1, <2>1 DEF Without
<1> QED BY <1>1, <1>2, <1>3

\* engine.abort of a sequence the scheduler has.
LEMMA AbortFacts ==
    ASSUME EngineInv, Quiet, NEW s,
           \/ \E i \in DOMAIN running : running[i] = s /\ AbortRunning(i)
           \/ \E i \in DOMAIN waiting : waiting[i] = s /\ AbortWaiting(i)
    PROVE  /\ EngineInv' /\ Quiet' /\ s \in Known /\ Known' = Known \ {s}
           /\ ToSet(done') = ToSet(done) \union {s}
           /\ req' = req /\ pc' = pc /\ nextSeq' = nextSeq
<1>1. SchedTypeOK /\ Apart
  BY DEF EngineInv
<1>2. CASE \E i \in DOMAIN running : running[i] = s /\ AbortRunning(i)
  <2>1. PICK i \in DOMAIN running : running[i] = s /\ AbortRunning(i)
    BY <1>2
  <2>2. /\ FreeSequence(running[i]) /\ running' = RemoveAt(running, i)
        /\ done' = Append(done, running[i])
        /\ UNCHANGED <<waiting, skipped, nextSeq>>
        /\ waiting' = waiting /\ skipped' = skipped /\ nextSeq' = nextSeq
        /\ req' = req /\ todo' = todo /\ pc' = pc
    BY <2>1 DEF AbortRunning
  <2>3. /\ running[i] \in ToSet(running)
        /\ ToSet(running') = ToSet(running) \ {running[i]}
        /\ ToSet(done') = ToSet(done) \union {running[i]}
    BY <2>2, LeaveFacts
  <2>4. EngineInv'
    BY <2>1, AbortRunningInv
  <2>5. Quiet'
    BY <2>2 DEF Quiet
  <2>6. s \notin ToSet(waiting) \union ToSet(skipped)
    BY <1>1, <2>1, <2>3 DEF Apart
  <2> QED BY <2>1, <2>2, <2>3, <2>4, <2>5, <2>6 DEF Known
<1>3. CASE \E i \in DOMAIN waiting : waiting[i] = s /\ AbortWaiting(i)
  <2>1. PICK i \in DOMAIN waiting : waiting[i] = s /\ AbortWaiting(i)
    BY <1>3
  <2>2. /\ waiting' = RemoveAt(waiting, i) /\ done' = Append(done, s)
        /\ running' = running /\ skipped' = skipped /\ nextSeq' = nextSeq
        /\ req' = req /\ todo' = todo /\ pc' = pc
    BY <2>1 DEF AbortWaiting
  <2>3. /\ waiting \in Seq(SeqIds) /\ done \in Seq(SeqIds)
        /\ i \in 1 .. Len(waiting) /\ s \in ToSet(waiting) /\ s \in SeqIds
    BY <1>1, <2>1, QueueTypes, ToSetFacts
  <2>4. waiting' \in Seq(SeqIds) /\ Without(waiting', waiting, i)
    BY <2>2, <2>3, RemoveAtWithout
  <2>5. ToSet(waiting') = ToSet(waiting) \ {s}
    <3>1. IsInjective(waiting)
      BY <1>1 DEF Apart
    <3>2. ToSet(waiting') = ToSet(waiting) \ {waiting[i]}
      BY ONLY <2>3, <2>4, <3>1, WithoutFacts
    <3> QED BY <2>1, <3>2
  <2>6. ToSet(done') = ToSet(done) \union {s}
    BY <2>2, <2>3, AppendFacts
  <2>7. EngineInv'
    BY <2>1, AbortWaitingInv
  <2>8. Quiet'
    BY <2>2 DEF Quiet
  <2>9. s \notin ToSet(running) \union ToSet(skipped)
    BY <1>1, <2>3 DEF Apart
  <2> QED BY <2>2, <2>3, <2>5, <2>6, <2>7, <2>8, <2>9 DEF Known
<1> QED BY <1>2, <1>3

\* The parts of a step no sink hears of: requests change places.
LEMMA StepFacts ==
    ASSUME EngineInv, Quiet,
           BeginStep \/ EndStep \/ Admit \/ Skip \/ Schedule \/ Prefill
    PROVE  /\ EngineInv' /\ Quiet' /\ Known' = Known /\ done' = done
           /\ nextSeq' = nextSeq
           /\ \A s \in SeqIds : /\ req'[s].generated = req[s].generated
                                /\ req'[s].maxNew = req[s].maxNew
<1>1. SchedTypeOK /\ Snapshot /\ Held
  BY DEF EngineInv
<1>2. CASE BeginStep \/ EndStep
  <2>1. /\ waiting' = waiting /\ skipped' = skipped /\ running' = running
        /\ done' = done /\ req' = req /\ todo' = todo /\ nextSeq' = nextSeq
        /\ (pc' # "pump" => pc # "pump")
    BY <1>2 DEF BeginStep, EndStep, queueVars
  <2>2. EngineInv'
    BY <1>2, BoundaryInv
  <2> QED BY <2>1, <2>2 DEF Quiet, Known
<1>3. CASE Admit
  <2>0. PICK h : h = Head(waiting)
    OBVIOUS
  <2>1. /\ waiting # <<>> /\ waiting' = Tail(waiting)
        /\ running' = Append(running, h) /\ skipped' = skipped
        /\ done' = done /\ req' = req /\ todo' = todo /\ pc' = pc
        /\ nextSeq' = nextSeq
    BY <1>3, <2>0 DEF Admit
  <2>2. /\ h \in SeqIds /\ h \in ToSet(waiting)
        /\ ToSet(waiting') = ToSet(waiting) \ {h}
    BY <2>0, <2>1, PopFacts
  <2>3. ToSet(running') = ToSet(running) \union {h}
    BY <1>1, <2>1, <2>2, QueueTypes, AppendFacts
  <2>4. EngineInv'
    BY <1>3, AdmitInv
  <2> QED BY <2>1, <2>2, <2>3, <2>4 DEF Quiet, Known
<1>4. CASE Skip
  <2>0. PICK h : h = Head(waiting)
    OBVIOUS
  <2>1. /\ waiting # <<>> /\ waiting' = Tail(waiting)
        /\ skipped' = Append(skipped, h) /\ running' = running
        /\ done' = done /\ req' = req /\ todo' = todo /\ pc' = pc
        /\ nextSeq' = nextSeq /\ pc = "pump"
    BY <1>4, <2>0 DEF Skip
  <2>2. /\ h \in SeqIds /\ h \in ToSet(waiting)
        /\ ToSet(waiting') = ToSet(waiting) \ {h}
    BY <2>0, <2>1, PopFacts
  <2>3. ToSet(skipped') = ToSet(skipped) \union {h}
    BY <1>1, <2>1, <2>2, QueueTypes, AppendFacts
  <2>4. EngineInv'
    BY <1>4, SkipInv
  <2> QED BY <2>1, <2>2, <2>3, <2>4 DEF Quiet, Known
<1>5. CASE Schedule
  <2>1. /\ waiting = <<>> /\ waiting' = skipped /\ skipped' = <<>>
        /\ todo' = [i \in DOMAIN running |-> EntryFor(running[i])]
        /\ running' = running /\ done' = done /\ req' = req
        /\ nextSeq' = nextSeq
    BY <1>5 DEF Schedule
  <2>2. \A i \in DOMAIN todo' : todo'[i].phase = "decode" => todo'[i].length = 1
    BY <2>1 DEF EntryFor
  <2>3. Quiet'
    BY <2>1, <2>2 DEF Quiet
  <2>4. Known' = Known
    BY <2>1, EmptyFacts DEF Known
  <2>5. EngineInv'
    BY <1>5, ScheduleInv
  <2> QED BY <2>1, <2>3, <2>4, <2>5
<1>6. CASE Prefill
  <2> DEFINE x == Head(todo).seq
  <2>1. /\ todo # <<>> /\ todo' = Tail(todo)
        /\ waiting' = waiting /\ skipped' = skipped /\ pc' = pc
        /\ nextSeq' = nextSeq
        /\ \E p : req' = [req EXCEPT ![x].position = p]
        /\ \E b : FinishIf(b /\ req[x].generated >= req[x].maxNew, x)
    BY <1>6 DEF Prefill
  <2>2. /\ req[x] \in Request /\ req \in [SeqIds -> Request] /\ x \in SeqIds
        /\ req[x].generated < req[x].maxNew
    BY <2>1, AdvanceTypes
  <2>3. ~(req[x].generated >= req[x].maxNew)
    BY <2>2, RequestTypes
  <2>4. running' = running /\ done' = done
    BY <2>1, <2>3 DEF FinishIf
  <2>5. \A s \in SeqIds : /\ req'[s].generated = req[s].generated
                          /\ req'[s].maxNew = req[s].maxNew
    <3>1. PICK p : req' = [req EXCEPT ![x].position = p]
      BY <2>1
    <3> QED BY <2>2, <3>1 DEF Request
  <2>6. \A i \in DOMAIN todo' :
           todo'[i].phase = "decode" => todo'[i].length = 1
    <3>1. todo \in Seq(Entry)
      BY <1>1 DEF SchedTypeOK
    <3>2. \A i \in DOMAIN todo' : i + 1 \in DOMAIN todo /\ todo'[i] = todo[i + 1]
      BY <2>1, <3>1, TailShifts
    <3> QED BY <3>2 DEF Quiet
  <2>7. EngineInv'
    BY <1>6, PrefillInv
  <2> QED BY <2>1, <2>4, <2>5, <2>6, <2>7 DEF Quiet, Known
<1> QED BY <1>2, <1>3, <1>4, <1>5, <1>6

\* A decode action: the sequence is over at a stop token or its last token.
LEMMA DecodeFacts ==
    ASSUME EngineInv, Quiet, NEW eos \in BOOLEAN, Decode(eos),
           NEW x, x = Head(todo).seq
    PROVE  /\ EngineInv' /\ Quiet' /\ x \in ToSet(running) /\ x \in SeqIds
           /\ nextSeq' = nextSeq /\ pc' = pc
           /\ req[x].generated \in Nat /\ req[x].maxNew \in Nat
           /\ \A s \in SeqIds \ {x} : req'[s] = req[s]
           /\ req'[x].generated = req[x].generated + 1
           /\ req'[x].maxNew = req[x].maxNew
           /\ eos \/ req[x].generated + 1 >= req[x].maxNew =>
                 Known' = Known \ {x} /\ ToSet(done') = ToSet(done) \union {x}
           /\ ~(eos \/ req[x].generated + 1 >= req[x].maxNew) =>
                 Known' = Known /\ done' = done
<1>1. SchedTypeOK /\ Apart
  BY DEF EngineInv
<1>2. /\ todo # <<>> /\ Head(todo).phase = "decode" /\ todo' = Tail(todo)
      /\ req' = [req EXCEPT ![x].generated = req[x].generated + Head(todo).length,
                            ![x].position = req[x].promptLen]
      /\ FinishIf(eos \/ req[x].generated + Head(todo).length >= req[x].maxNew, x)
      /\ waiting' = waiting /\ skipped' = skipped /\ pc' = pc
      /\ nextSeq' = nextSeq
  BY DEF Decode
<1>3. /\ x \in ToSet(running) /\ x \in SeqIds /\ req \in [SeqIds -> Request]
      /\ req[x] \in Request
  BY <1>2, NextEntry, AdvanceTypes
<1>4. req[x].generated \in Nat /\ req[x].maxNew \in Nat
  BY <1>3, RequestTypes
<1>5. /\ 1 \in DOMAIN todo /\ Head(todo) = todo[1]
      /\ \A i \in DOMAIN todo' : i + 1 \in DOMAIN todo /\ todo'[i] = todo[i + 1]
  <2>1. todo \in Seq(Entry) /\ todo # <<>> /\ todo' = Tail(todo)
    BY <1>1, <1>2 DEF SchedTypeOK
  <2> QED BY <2>1, TailShifts
<1>6. Head(todo).length = 1
  BY <1>2, <1>5 DEF Quiet
<1>7. Quiet'
  BY <1>2, <1>5 DEF Quiet
<1>8. /\ \A s \in SeqIds \ {x} : req'[s] = req[s]
      /\ req'[x].generated = req[x].generated + 1
      /\ req'[x].maxNew = req[x].maxNew
  BY <1>2, <1>3, <1>6 DEF Request
<1>9. EngineInv'
  BY DecodeInv
<1>10. ASSUME eos \/ req[x].generated + 1 >= req[x].maxNew
       PROVE  Known' = Known \ {x} /\ ToSet(done') = ToSet(done) \union {x}
  <2>1. FinishIf(TRUE, x)
    BY <1>2, <1>6, <1>10 DEF FinishIf
  <2>2. PICK i \in DOMAIN running :
           running[i] = x /\ running' = RemoveAt(running, i)
    BY <2>1 DEF FinishIf
  <2>3. /\ FreeSequence(running[i]) /\ done' = Append(done, running[i])
        /\ UNCHANGED <<waiting, skipped, nextSeq>>
    BY <1>2, <2>1, <2>2 DEF FinishIf
  <2>4. /\ ToSet(running') = ToSet(running) \ {running[i]}
        /\ ToSet(done') = ToSet(done) \union {running[i]}
    BY <2>2, <2>3, LeaveFacts
  <2>5. x \notin ToSet(waiting) \union ToSet(skipped)
    BY <1>1, <1>3 DEF Apart
  <2> QED BY <1>2, <2>2, <2>4, <2>5 DEF Known
<1>11. ASSUME ~(eos \/ req[x].generated + 1 >= req[x].maxNew)
       PROVE  Known' = Known /\ done' = done
  <2>1. running' = running /\ done' = done
    BY <1>2, <1>6, <1>11 DEF FinishIf
  <2> QED BY <1>2, <2>1 DEF Known
<1> QED BY <1>2, <1>3, <1>4, <1>7, <1>8, <1>9, <1>10, <1>11

\* submit: the next id joins the deque.
LEMMA AddFacts ==
    ASSUME EngineInv, Quiet, NEW p \in PromptLens, NEW m \in MaxNews,
           NEW u \in UseStates, Add(p, m, u)
    PROVE  /\ EngineInv' /\ Quiet' /\ Known' = Known \union {nextSeq}
           /\ done' = done /\ pc' = pc /\ nextSeq' = nextSeq + 1
           /\ nextSeq \in SeqIds /\ nextSeq \in Nat
           /\ \A s \in SeqIds \ {nextSeq} : req'[s] = req[s]
           /\ req'[nextSeq].generated = 0 /\ req'[nextSeq].maxNew = m
<1>1. SchedTypeOK
  BY DEF EngineInv
<1>2. /\ nextSeq \in SeqIds /\ waiting' = Append(waiting, nextSeq)
      /\ req' = [req EXCEPT ![nextSeq] = NewRequest(p, m, u)]
      /\ nextSeq' = nextSeq + 1 /\ skipped' = skipped /\ running' = running
      /\ done' = done /\ todo' = todo /\ pc' = pc
  BY DEF Add
<1>3. ToSet(waiting') = ToSet(waiting) \union {nextSeq}
  BY <1>1, <1>2, QueueTypes, AppendFacts
<1>4. /\ \A s \in SeqIds \ {nextSeq} : req'[s] = req[s]
      /\ req'[nextSeq].generated = 0 /\ req'[nextSeq].maxNew = m
  BY <1>1, <1>2 DEF SchedTypeOK, NewRequest
<1>5. EngineInv'
  BY AddInv
<1>6. Quiet' /\ Known' = Known \union {nextSeq} /\ nextSeq \in Nat
  BY <1>1, <1>2, <1>3 DEF Quiet, Known, SchedTypeOK
<1> QED BY <1>2, <1>4, <1>5, <1>6

\* reap: the engine keeps the sequences the scheduler has.
LEMMA ReapFacts ==
    ASSUME EngineInv, Quiet, Accounted, Reap
    PROVE  /\ EngineInv' /\ Quiet' /\ Known' = Known /\ seqs' = Known
           /\ done' = <<>> /\ pc' = pc /\ req' = req /\ nextSeq' = nextSeq
<1>1. /\ seqs' = seqs \ ToSet(done) /\ done' = <<>>
      /\ waiting' = waiting /\ skipped' = skipped /\ running' = running
      /\ req' = req /\ todo' = todo /\ pc' = pc /\ nextSeq' = nextSeq
      /\ UNCHANGED kvVars
  BY DEF Reap
<1>2. KVInv /\ SchedTypeOK /\ Apart /\ Order /\ Snapshot /\ Held
  BY DEF EngineInv
<1>3. KVInv'
  BY <1>1, <1>2, KVStutterInv
<1>4. SchedTypeOK' /\ Apart' /\ Order' /\ Snapshot'
  BY <1>1, <1>2, EmptyFacts DEF SchedTypeOK, Apart, Order, Snapshot
<1>5. Held'
  BY <1>1, <1>2 DEF Held, Reserved, WorstBlocks, kvVars
<1>6. Known' = Known /\ Quiet'
  BY <1>1 DEF Known, Quiet
<1>7. seqs' = Known
  BY <1>1, <1>2 DEF Accounted, Apart, Known
<1> QED BY <1>1, <1>3, <1>4, <1>5, <1>6, <1>7 DEF EngineInv

\* A submit that raises uses up an id; a step that raises drops what is left
\* of the schedule.  The scheduler's queues stay as they are.
LEMMA RaiseFacts ==
    ASSUME EngineInv, Quiet, UNCHANGED <<kvVars, queueVars, req>>,
           \/ nextSeq' = nextSeq + 1 /\ todo' = todo /\ pc' = pc
           \/ nextSeq' = nextSeq /\ todo' = <<>> /\ pc = "exec" /\ pc' = "idle"
    PROVE  /\ EngineInv' /\ Quiet' /\ Known' = Known /\ done' = done
           /\ req' = req
<1>1. /\ waiting' = waiting /\ skipped' = skipped /\ running' = running
      /\ done' = done /\ req' = req /\ UNCHANGED kvVars
  BY DEF queueVars
<1>2. KVInv /\ SchedTypeOK /\ Apart /\ Order /\ Snapshot /\ Held
  BY DEF EngineInv
<1>3. KVInv'
  BY <1>1, <1>2, KVStutterInv
<1>4. nextSeq \in Nat /\ nextSeq' \in Nat /\ nextSeq <= nextSeq'
  BY <1>2 DEF SchedTypeOK
<1>5. SchedTypeOK' /\ Order' /\ Snapshot' /\ Quiet'
  <2>1. CASE todo' = todo /\ pc' = pc
    BY <1>1, <1>2, <1>4, <2>1 DEF SchedTypeOK, Order, Snapshot, Quiet
  <2>2. CASE todo' = <<>> /\ pc = "exec" /\ pc' = "idle"
    BY <1>1, <1>2, <1>4, <2>2 DEF SchedTypeOK, Order, Snapshot, Quiet
  <2> QED BY <2>1, <2>2
<1>6. Apart'
  <2>1. \A x \in ToSet(waiting) \union ToSet(skipped) \union ToSet(running)
                    \union ToSet(done) : x \in Nat /\ x < nextSeq
    BY <1>2, QueueTypes DEF Apart
  <2>2. \A x \in ToSet(waiting) \union ToSet(skipped) \union ToSet(running)
                    \union ToSet(done) : x < nextSeq'
    BY <1>4, <2>1
  <2> QED BY <1>1, <1>2, <2>2 DEF Apart
<1>7. Held'
  BY <1>1, <1>2 DEF Held, Reserved, WorstBlocks, kvVars
<1>8. Known' = Known
  BY <1>1 DEF Known
<1> QED BY <1>1, <1>3, <1>5, <1>6, <1>7, <1>8 DEF EngineInv

-----------------------------------------------------------------------------
(***************************************************************************)
(* The executor's actions.                                                 *)
(***************************************************************************)
\* Every sequence of the engine has one sink, that of a text request.
LEMMA SinkFacts ==
    ASSUME FacadeTypes, Owners, NEW s \in seqs
    PROVE  /\ SinkOf(s) \in Reqs /\ seqOf[SinkOf(s)] = s /\ IsText(SinkOf(s))
           /\ s # NoSeq /\ s \in SeqIds
<1>1. \E r \in Reqs : seqOf[r] = s
  BY DEF Owners
<1>2. SinkOf(s) \in Reqs /\ seqOf[SinkOf(s)] = s
  BY <1>1 DEF SinkOf
<1>3. s \in SeqIds /\ s # NoSeq
  BY KVAssumption DEF FacadeTypes
<1> QED BY <1>2, <1>3 DEF Owners

\* An action of the executor in which no sink is called.
LEMMA ExecFrame ==
    ASSUME ServingInv, EngineInv', Quiet', Accounted',
           seqs' \subseteq seqs, Known' \subseteq Known, nextSeq' = nextSeq,
           \A s \in Known : /\ req'[s].generated = req[s].generated
                            /\ req'[s].maxNew = req[s].maxNew,
           epc' \in ExecStates, toFail' \subseteq SeqIds,
           abortQ' \in Seq(SeqIds), stop' \in BOOLEAN,
           epc \in {"failing", "abortall"} /\ Known' # {}
              => epc' \in {"failing", "abortall"},
           epc' = "job" => exclQ # <<>>,
           UNCHANGED <<handlerVars, reqVars, submitQ, exclQ, inflight, ending>>
    PROVE  ServingInv' /\ NothingMore
<1>1. /\ kind' = kind /\ hpc' = hpc /\ reply' = reply /\ taken' = taken
      /\ doneSet' = doneSet /\ outcome' = outcome /\ released' = released
      /\ q' = q /\ ids' = ids /\ seqOf' = seqOf /\ submitQ' = submitQ
      /\ exclQ' = exclQ /\ inflight' = inflight /\ ending' = ending
  BY DEF handlerVars, reqVars
<1>2. FacadeTypes /\ Owners /\ Waits /\ Ends /\ Counts /\ Streams /\ Replies
  BY DEF ServingInv
<1>3. FacadeTypes'
  <2>1. seqs' \subseteq SeqIds
    BY <1>2 DEF FacadeTypes
  <2> QED BY <1>1, <1>2, <2>1 DEF FacadeTypes
<1>4. Owners'
  BY <1>1, <1>2, OwnersFrame
<1>5. Waits'
  BY <1>1, <1>2, WaitsFrame
<1>6. Ends'
  BY <1>1, <1>2, EndsFrame
<1>7. Counts'
  BY <1>1, <1>2, CountsFrame
<1>8. Streams' /\ Replies'
  BY <1>1, <1>2, StreamsFrame, RepliesFrame
<1>9. NothingMore
  BY <1>1, <1>2, QuietFrame
<1> QED BY <1>3, <1>4, <1>5, <1>6, <1>7, <1>8, <1>9 DEF ServingInv

\* An action of the executor that calls the sink of r.  A request that ends
\* is one the scheduler has let go of, or everything is being failed.
LEMMA EmitInv ==
    ASSUME ServingInv, ending.stage = "idle", NEW r \in Reqs,
           NEW n \in {0, 1}, NEW how \in {"none", "finish", "error"},
           n = 1 => outcome[r] = "none", Emit(r, n, how),
           hpc[r] # "start", EngineInv', Quiet', Accounted',
           seqs' \subseteq seqs, Known' \subseteq Known,
           nextSeq' \in {nextSeq, nextSeq + 1},
           submitQ' \in Seq(Reqs), IsInjective(submitQ'),
           ToSet(submitQ') \subseteq ToSet(submitQ) \ {r},
           exclQ' \in Seq(Reqs), IsInjective(exclQ'),
           ToSet(exclQ') \subseteq ToSet(exclQ),
           how # "none" => r \notin ToSet(exclQ'),
           epc' = "job" => exclQ' # <<>>,
           epc' \in ExecStates, toFail' \subseteq SeqIds,
           abortQ' \in Seq(SeqIds),
           epc \in {"failing", "abortall"} => epc' \in {"failing", "abortall"},
           how # "none" /\ seqOf[r] \in Known' =>
              how = "error" /\ epc' \in {"failing", "abortall"},
           \A s \in Known' \ {seqOf[r]} :
              /\ req'[s].generated = req[s].generated
              /\ req'[s].maxNew = req[s].maxNew,
           seqOf[r] \in Known' =>
              /\ req'[seqOf[r]].generated = ids[r] + n
              /\ req'[seqOf[r]].maxNew = req[seqOf[r]].maxNew,
           UNCHANGED <<handlerVars, doneSet, released, seqOf, inflight, stop>>
    PROVE  ServingInv' /\ NothingMore
<1>1. /\ kind' = kind /\ hpc' = hpc /\ reply' = reply /\ taken' = taken
      /\ doneSet' = doneSet /\ released' = released /\ seqOf' = seqOf
      /\ inflight' = inflight /\ stop' = stop
  BY DEF handlerVars
<1>2. FacadeTypes /\ Owners /\ Waits /\ Ends /\ Counts /\ Streams /\ Replies
      /\ EngineInv
  BY DEF ServingInv
<1>3. Emitted(r, n, how)
  BY <1>1, <1>2, EmitFacts
<1>4. Streams' /\ Replies' /\ NothingMore
  BY <1>1, <1>2, EmitKeeps
<1>5. /\ ids' \in [Reqs -> Nat] /\ q' \in [Reqs -> Seq(Events)]
      /\ outcome' \in [Reqs -> {"none", "finish", "error"}]
      /\ ending' \in [req : Reqs, stage : {"idle", "set", "check", "commit"}]
      /\ \A x \in Reqs \ {r} : ids'[x] = ids[x] /\ outcome'[x] = outcome[x]
      /\ ids'[r] = ids[r] + n
      /\ outcome'[r] = IF outcome[r] = "none" THEN how ELSE outcome[r]
      /\ \A x \in Reqs : doneSet'[x] => outcome'[x] # "none"
      /\ \A x \in Reqs : outcome'[x] # "none" /\ ~doneSet'[x] =>
            ending'.stage = "set" /\ ending'.req = x
      /\ ending'.stage = "set" => outcome'[ending'.req] # "none"
  BY <1>3 DEF Emitted
<1>6. \A x \in Reqs : IsText(x)' = IsText(x)
  BY <1>1 DEF IsText
<1>7. FacadeTypes'
  <2>1. seqs' \subseteq SeqIds
    BY <1>2 DEF FacadeTypes
  <2>2. /\ \A x \in Reqs : kind'[x] \in Kinds[x]
        /\ hpc' \in [Reqs -> HandlerStates]
        /\ reply' \in [Reqs -> {"none", "ok", "error"}]
        /\ taken' \in [Reqs -> Nat] /\ inflight' \in Int
        /\ doneSet' \in [Reqs -> BOOLEAN] /\ released' \in [Reqs -> BOOLEAN]
        /\ seqOf' \in [Reqs -> SeqIds \union {NoSeq}] /\ stop' \in BOOLEAN
    BY ONLY <1>1, <1>2 DEF FacadeTypes
  <2>3. /\ submitQ' \in Seq(Reqs) /\ exclQ' \in Seq(Reqs)
        /\ abortQ' \in Seq(SeqIds) /\ epc' \in ExecStates
        /\ toFail' \subseteq SeqIds
    OBVIOUS
  <2> QED BY ONLY <1>5, <2>1, <2>2, <2>3 DEF FacadeTypes, Events
<1>8. Owners'
  <2>1. nextSeq \in Nat
    BY <1>2 DEF EngineInv, SchedTypeOK
  <2>2. ASSUME NEW x \in Reqs, seqOf[x] # NoSeq
        PROVE  IsText(x) /\ seqOf[x] < nextSeq'
    <3>1. seqOf[x] \in SeqIds /\ IsText(x) /\ seqOf[x] < nextSeq
      BY <1>2, <2>2 DEF Owners, FacadeTypes
    <3>2. seqOf[x] \in Nat
      BY <3>1, SchedulerAssumption
    <3> QED BY <2>1, <3>1, <3>2
  <2> QED BY <1>1, <1>2, <1>6, <2>2 DEF Owners
<1>9. Waits'
  <2>1. ASSUME NEW x \in ToSet(submitQ') PROVE IsText(x)' /\ Untold(x)'
    <3>1. x \in ToSet(submitQ) /\ x # r
      BY <2>1
    <3>2. x \in Reqs
      BY <2>1, ToSetFacts
    <3>3. IsText(x) /\ Untold(x)
      BY <1>2, <3>1 DEF Waits
    <3>4. seqOf'[x] = seqOf[x] /\ outcome'[x] = outcome[x] /\ ids'[x] = ids[x]
      BY <1>1, <1>5, <3>1, <3>2
    <3> QED BY <1>6, <3>2, <3>3, <3>4 DEF Untold
  <2>2. ASSUME NEW x \in ToSet(exclQ')
        PROVE  ~IsText(x)' /\ outcome'[x] = "none"
    <3>1. x \in Reqs /\ x \in ToSet(exclQ)
      BY <2>2, ToSetFacts
    <3>2. ~IsText(x) /\ outcome[x] = "none"
      BY <1>2, <3>1 DEF Waits
    <3>3. CASE x = r
      BY <1>5, <1>6, <2>2, <3>1, <3>2, <3>3
    <3>4. CASE x # r
      BY <1>5, <1>6, <3>1, <3>2, <3>4
    <3> QED BY <3>3, <3>4
  <2>3. ASSUME NEW x \in Reqs, hpc'[x] = "start"
        PROVE  Untold(x)' /\ x \notin ToSet(submitQ') \union ToSet(exclQ')
    <3>1. x # r /\ hpc[x] = "start"
      BY <1>1, <2>3
    <3>2. Untold(x) /\ x \notin ToSet(submitQ) \union ToSet(exclQ)
      BY <1>2, <3>1 DEF Waits
    <3>3. seqOf'[x] = seqOf[x] /\ outcome'[x] = outcome[x] /\ ids'[x] = ids[x]
      BY <1>1, <1>5, <3>1
    <3>4. Untold(x)'
      BY <3>2, <3>3 DEF Untold
    <3> QED BY <3>2, <3>4
  <2> QED BY <2>1, <2>2, <2>3 DEF Waits
<1>10. Ends'
  <2>1. ASSUME NEW x \in Reqs, seqOf'[x] \in Known', outcome'[x] # "none"
        PROVE  outcome'[x] = "error" /\ epc' \in {"failing", "abortall"}
    <3>1. seqOf[x] \in Known' /\ seqOf[x] \in Known
      BY <1>1, <2>1
    <3>2. CASE outcome[x] # "none"
      <4>1. outcome[x] = "error" /\ epc \in {"failing", "abortall"}
        BY <1>2, <3>1, <3>2 DEF Ends
      <4>2. outcome'[x] = outcome[x]
        BY <1>5, <3>2
      <4> QED BY <4>1, <4>2
    <3>3. CASE outcome[x] = "none"
      <4>1. x = r /\ outcome'[x] = how
        BY <1>5, <2>1, <3>3
      <4> QED BY <2>1, <3>1, <4>1
    <3> QED BY <3>2, <3>3
  <2> QED BY <1>5, <2>1 DEF Ends
<1>11. Counts'
  <2> SUFFICES ASSUME NEW x \in Reqs, seqOf'[x] \in Known'
               PROVE  /\ req'[seqOf[x]].generated = ids'[x]
                      /\ req'[seqOf[x]].maxNew = MaxNew[x]
    BY <1>1 DEF Counts
  <2>1. seqOf[x] \in Known' /\ seqOf[x] \in Known /\ seqOf[x] \in SeqIds
    <3>1. seqOf[x] \in Known' /\ seqOf[x] \in Known /\ Known \subseteq seqs
      BY <1>1 DEF ServingInv, Accounted
    <3> QED BY <1>2, <3>1 DEF FacadeTypes
  <2>2. req[seqOf[x]].generated = ids[x] /\ req[seqOf[x]].maxNew = MaxNew[x]
        /\ ids[x] \in Nat
    BY <1>2, <2>1 DEF Counts, FacadeTypes
  <2>3. CASE x = r
    BY <1>5, <2>1, <2>2, <2>3
  <2>4. CASE x # r
    <3>1. seqOf[x] # seqOf[r]
      BY <1>2, <2>1, <2>4, KVAssumption DEF Owners
    <3> QED BY <1>5, <2>1, <2>2, <2>4, <3>1
  <2> QED BY <2>3, <2>4
<1> QED
  BY <1>4, <1>7, <1>8, <1>9, <1>10, <1>11 DEF ServingInv

\* The executor moves on: neither the scheduler nor a request changes.
LEMMA MovesOn ==
    ASSUME ServingInv,
           \/ Loop \/ SubmitsDrained \/ StartJob \/ JobsDrained \/ AllFailed
           \/ AllAborted
    PROVE  ServingInv' /\ NothingMore
<1>1. /\ UNCHANGED vars /\ abortQ' = abortQ /\ seqs' = seqs
      /\ toFail' = toFail /\ stop' = stop
      /\ UNCHANGED <<handlerVars, reqVars, submitQ, exclQ, inflight, ending>>
  BY DEF Loop, SubmitsDrained, StartJob, JobsDrained, AllFailed, AllAborted,
         chanVars
<1>2. EngineInv /\ Quiet /\ Accounted /\ FacadeTypes
  BY DEF ServingInv
<1>3. /\ EngineInv' /\ Quiet' /\ Known' = Known /\ nextSeq' = nextSeq
      /\ done' = done /\ pc' = pc /\ req' = req
  BY <1>1, <1>2, EngineFrame
<1>4. /\ epc' \in ExecStates /\ epc' # "failing" /\ epc # "stepping"
      /\ epc' \notin {"aborted", "stepping", "abortall", "reap"} => done = <<>>
      /\ toFail = {}
      /\ epc \in {"failing", "abortall"} /\ Known # {} => epc' = "abortall"
      /\ epc' = "job" => exclQ # <<>>
  <2>1. CASE Loop \/ SubmitsDrained \/ StartJob \/ JobsDrained
    BY <1>2, <2>1
       DEF Loop, SubmitsDrained, StartJob, JobsDrained, AtLoop, ExecStates,
           Accounted
  <2>2. CASE AllFailed
    BY <1>2, <2>2 DEF AllFailed, AtLoop, ExecStates, Accounted
  <2>3. CASE AllAborted
    <3>1. Known = {}
      BY <1>2, <2>3, EmptyFacts
         DEF AllAborted, AtLoop, Accounted, Quiet, Known, Live
    <3> QED BY <1>2, <2>3, <3>1 DEF AllAborted, AtLoop, ExecStates, Accounted
  <2> QED BY <2>1, <2>2, <2>3
<1>5. Accounted'
  BY <1>1, <1>2, <1>3, <1>4 DEF Accounted
<1>6. abortQ' \in Seq(SeqIds) /\ toFail' \subseteq SeqIds /\ stop' \in BOOLEAN
  BY <1>1, <1>2 DEF FacadeTypes
<1> QED BY <1>1, <1>3, <1>4, <1>5, <1>6, ExecFrame

\* The executor reaps.
LEMMA ReapInv ==
    ASSUME ServingInv, AbortsDrained \/ ReapStep
    PROVE  ServingInv' /\ NothingMore
<1>1. /\ abortQ' = abortQ /\ toFail' = toFail /\ stop' = stop
      /\ UNCHANGED <<handlerVars, reqVars, submitQ, exclQ, inflight, ending>>
      /\ epc' \in {"submits", "top"}
      /\ epc \in {"aborts", "aborted", "reap"}
  BY DEF AbortsDrained, ReapStep, chanVars, AtLoop
<1>2. EngineInv /\ Quiet /\ Accounted /\ FacadeTypes
  BY DEF ServingInv
<1>3. /\ EngineInv' /\ Quiet' /\ Known' = Known /\ seqs' = Known
      /\ done' = <<>> /\ pc' = pc /\ nextSeq' = nextSeq
      /\ req' = req
  <2>1. CASE Reap
    BY <1>2, <2>1, ReapFacts
  <2>2. CASE UNCHANGED <<vars, seqs>> /\ epc = "aborts"
    <3>1. UNCHANGED vars /\ seqs' = seqs /\ done = <<>>
      BY <1>2, <2>2 DEF Accounted
    <3>2. /\ EngineInv' /\ Quiet' /\ Known' = Known /\ nextSeq' = nextSeq
          /\ done' = done /\ pc' = pc /\ req' = req
      BY <1>2, <3>1, EngineFrame
    <3> QED BY <1>2, <3>1, <3>2, EmptyFacts DEF Accounted
  <2> QED BY <2>1, <2>2 DEF AbortsDrained, ReapStep, AtLoop
<1>4. toFail = {} /\ pc = "idle"
  BY <1>1, <1>2 DEF Accounted
<1>5. Accounted'
  BY <1>1, <1>3, <1>4, EmptyFacts DEF Accounted
<1>6. seqs' \subseteq seqs /\ epc' \in ExecStates
  BY <1>1, <1>2, <1>3 DEF Accounted, ExecStates
<1>7. abortQ' \in Seq(SeqIds) /\ toFail' \subseteq SeqIds /\ stop' \in BOOLEAN
  BY <1>1, <1>2 DEF FacadeTypes
<1> QED BY <1>1, <1>3, <1>5, <1>6, <1>7, ExecFrame

\* The parts of a step no sink hears of, and a step that raises.
LEMMA StepInv ==
    ASSUME ServingInv, StepQuietly \/ StepRaises
    PROVE  ServingInv' /\ NothingMore
<1>1. /\ abortQ' = abortQ /\ seqs' = seqs /\ stop' = stop
      /\ UNCHANGED <<handlerVars, reqVars, submitQ, exclQ, inflight, ending>>
      /\ epc \in {"step", "stepping"}
  BY DEF StepQuietly, StepRaises, chanVars, AtLoop
<1>2. EngineInv /\ Quiet /\ Accounted /\ FacadeTypes
  BY DEF ServingInv
<1>3. /\ EngineInv' /\ Quiet' /\ Known' = Known /\ done' = done
      /\ nextSeq' = nextSeq
      /\ \A s \in SeqIds : /\ req'[s].generated = req[s].generated
                           /\ req'[s].maxNew = req[s].maxNew
      /\ epc' \in {"stepping", "reap", "failing"}
      /\ epc' # "stepping" => pc' = "idle"
      /\ toFail' \subseteq seqs /\ (epc' # "failing" => toFail' = {})
  <2>1. CASE StepQuietly
    <3>1. /\ BeginStep \/ EndStep \/ Admit \/ Skip \/ Schedule \/ Prefill
          /\ epc' \in {"stepping", "reap"} /\ toFail' = toFail
          /\ toFail = {}
          /\ epc' = "reap" => pc' = "idle"
      BY <1>2, <2>1 DEF StepQuietly, AtLoop, EndStep, Accounted
    <3> QED BY <1>2, <3>1, StepFacts
  <2>2. CASE StepRaises
    <3>1. /\ UNCHANGED <<kvVars, queueVars, req>>
          /\ nextSeq' = nextSeq /\ todo' = <<>> /\ pc = "exec" /\ pc' = "idle"
          /\ epc' = "failing" /\ toFail' = seqs
      BY <2>2 DEF StepRaises
    <3>2. EngineInv' /\ Quiet' /\ Known' = Known /\ done' = done /\ req' = req
      BY <1>2, <3>1, RaiseFacts
    <3> QED BY <3>1, <3>2
  <2> QED BY <2>1, <2>2
<1>4. Accounted'
  BY <1>1, <1>2, <1>3 DEF Accounted
<1>5. Known \subseteq SeqIds /\ toFail' \subseteq SeqIds
  BY <1>2, <1>3 DEF Accounted, FacadeTypes
<1>6. epc' \in ExecStates /\ abortQ' \in Seq(SeqIds) /\ stop' \in BOOLEAN
  BY <1>1, <1>2, <1>3 DEF FacadeTypes, ExecStates
<1> QED BY <1>1, <1>3, <1>4, <1>5, <1>6, ExecFrame

\* The same, when the scheduler counts no token.
LEMMA SinkCalled ==
    ASSUME ServingInv, ending.stage = "idle", NEW r \in Reqs,
           NEW n \in {0, 1}, NEW how \in {"none", "finish", "error"},
           n = 1 => outcome[r] = "none", Emit(r, n, how),
           seqOf[r] \in Known' => n = 0, req' = req,
           hpc[r] # "start", EngineInv', Quiet', Accounted',
           seqs' \subseteq seqs, Known' \subseteq Known,
           nextSeq' \in {nextSeq, nextSeq + 1},
           submitQ' \in Seq(Reqs), IsInjective(submitQ'),
           ToSet(submitQ') \subseteq ToSet(submitQ) \ {r},
           exclQ' \in Seq(Reqs), IsInjective(exclQ'),
           ToSet(exclQ') \subseteq ToSet(exclQ),
           how # "none" => r \notin ToSet(exclQ'),
           epc' = "job" => exclQ' # <<>>,
           epc' \in ExecStates, toFail' \subseteq SeqIds,
           abortQ' \in Seq(SeqIds),
           epc \in {"failing", "abortall"} => epc' \in {"failing", "abortall"},
           how # "none" /\ seqOf[r] \in Known' =>
              how = "error" /\ epc' \in {"failing", "abortall"},
           UNCHANGED <<handlerVars, doneSet, released, seqOf, inflight, stop>>
    PROVE  ServingInv' /\ NothingMore
<1>1. \A s \in Known' \ {seqOf[r]} : /\ req'[s].generated = req[s].generated
                                     /\ req'[s].maxNew = req[s].maxNew
  OBVIOUS
<1>2. seqOf[r] \in Known' => /\ req'[seqOf[r]].generated = ids[r] + n
                             /\ req'[seqOf[r]].maxNew = req[seqOf[r]].maxNew
  <2>1. ids[r] \in Nat
    BY DEF ServingInv, FacadeTypes
  <2>2. seqOf[r] \in Known => req[seqOf[r]].generated = ids[r]
    BY DEF ServingInv, Counts
  <2> QED BY <2>1, <2>2
<1> QED BY <1>1, <1>2, EmitInv

\* Taking the head of a queue in which no one is twice.
LEMMA QueuePop ==
    ASSUME NEW S, NEW s \in Seq(S), IsInjective(s), s # <<>>
    PROVE  /\ Head(s) \in S /\ Head(s) \in ToSet(s) /\ Tail(s) \in Seq(S)
           /\ IsInjective(Tail(s)) /\ ToSet(Tail(s)) = ToSet(s) \ {Head(s)}
<1>1. /\ Tail(s) \in Seq(S) /\ Without(Tail(s), s, 1)
      /\ Head(s) = s[1] /\ 1 \in 1 .. Len(s) /\ Head(s) \in S
  BY TailWithout
<1>2. ToSet(Tail(s)) = ToSet(s) \ {s[1]} /\ IsInjective(Tail(s))
  BY ONLY <1>1, s \in Seq(S), IsInjective(s), WithoutFacts
<1>3. Head(s) \in ToSet(s)
  BY <1>1, ToSetFacts
<1> QED BY <1>1, <1>2, <1>3

\* A request the scheduler knows is one the server has let in and dequeued.
LEMMA SinkPlace ==
    ASSUME ServingInv, NEW s \in seqs, NEW r, r = SinkOf(s)
    PROVE  /\ r \in Reqs /\ seqOf[r] = s /\ s \in SeqIds /\ s # NoSeq
           /\ hpc[r] # "start" /\ r \notin ToSet(submitQ)
           /\ r \notin ToSet(exclQ)
<1>1. FacadeTypes /\ Owners /\ Waits
  BY DEF ServingInv
<1>2. /\ r \in Reqs /\ seqOf[r] = s /\ IsText(r) /\ s \in SeqIds /\ s # NoSeq
  BY <1>1, SinkFacts
<1> QED BY <1>1, <1>2 DEF Waits, Untold

\* The queues stay as they are.
LEMMA QueuesStay ==
    ASSUME ServingInv, submitQ' = submitQ, exclQ' = exclQ
    PROVE  /\ submitQ' \in Seq(Reqs) /\ IsInjective(submitQ')
           /\ ToSet(submitQ') = ToSet(submitQ)
           /\ exclQ' \in Seq(Reqs) /\ IsInjective(exclQ')
           /\ ToSet(exclQ') = ToSet(exclQ)
BY DEF ServingInv, FacadeTypes, Waits

\* engine.abort: a sequence the scheduler has is failed.
LEMMA AbortInv ==
    ASSUME ServingInv, DrainAbort \/ AbortOne
    PROVE  ServingInv' /\ NothingMore
<1>1. PICK s : /\ AbortSeq(s)
               /\ DrainAbort => s = Head(abortQ) /\ abortQ' = Tail(abortQ)
               /\ AbortOne => s = Min(Live) /\ Live # {} /\ abortQ' = abortQ
  BY DEF DrainAbort, AbortOne, chanVars
<1>2. /\ submitQ' = submitQ /\ exclQ' = exclQ /\ seqs' = seqs
      /\ toFail' = toFail /\ stop' = stop /\ ending.stage = "idle"
      /\ UNCHANGED <<handlerVars, doneSet, released, seqOf, inflight>>
      /\ epc' \in {"aborted", "abortall"}
      /\ epc \in {"aborts", "aborted", "abortall"}
      /\ epc = "abortall" => epc' = "abortall"
      /\ epc \in {"aborts", "aborted"} => DrainAbort
  BY DEF DrainAbort, AbortOne, chanVars, AtLoop
<1>3. EngineInv /\ Quiet /\ Accounted /\ FacadeTypes
  BY DEF ServingInv
<1>4. /\ submitQ' \in Seq(Reqs) /\ IsInjective(submitQ')
      /\ ToSet(submitQ') = ToSet(submitQ)
      /\ exclQ' \in Seq(Reqs) /\ IsInjective(exclQ')
      /\ ToSet(exclQ') = ToSet(exclQ)
  BY <1>2, QueuesStay
<1>5. epc' \in ExecStates /\ toFail' \subseteq SeqIds /\ abortQ' \in Seq(SeqIds)
      /\ toFail = {} /\ pc = "idle"
  <2>1. abortQ' \in Seq(SeqIds)
    <3>1. abortQ \in Seq(SeqIds)
      BY <1>3 DEF FacadeTypes
    <3>2. CASE DrainAbort
      <4>1. abortQ # <<>> /\ abortQ' = Tail(abortQ)
        BY <1>1, <3>2 DEF DrainAbort
      <4> QED BY <3>1, <4>1, TailWithout
    <3>3. CASE AbortOne
      BY <1>1, <3>1, <3>3
    <3> QED BY <3>2, <3>3
  <2> QED BY <1>2, <1>3, <2>1 DEF ExecStates, FacadeTypes, Accounted
<1>6. CASE /\ \/ \E i \in DOMAIN running : running[i] = s /\ AbortRunning(i)
              \/ \E i \in DOMAIN waiting : waiting[i] = s /\ AbortWaiting(i)
           /\ Emit(SinkOf(s), 0, "error")
  <2>1. /\ EngineInv' /\ Quiet' /\ s \in Known /\ Known' = Known \ {s}
        /\ ToSet(done') = ToSet(done) \union {s}
        /\ req' = req /\ pc' = pc /\ nextSeq' = nextSeq
    BY <1>3, <1>6, AbortFacts
  <2>2. Accounted'
    BY <1>2, <1>3, <1>5, <2>1 DEF Accounted
  <2>3. s \in seqs
    BY <1>3, <2>1 DEF Accounted
  <2> DEFINE r == SinkOf(s)
  <2>4. /\ r \in Reqs /\ seqOf[r] = s /\ s \in SeqIds /\ s # NoSeq
        /\ hpc[r] # "start" /\ r \notin ToSet(submitQ)
        /\ r \notin ToSet(exclQ)
    BY <2>3, SinkPlace
  <2>5. seqOf[r] \notin Known' /\ Known' \subseteq Known
    BY <2>1, <2>4
  <2>6. Emit(r, 0, "error")
    BY <1>6
  <2> HIDE DEF r
  <2> QED BY <1>2, <1>4, <1>5, <2>1, <2>2, <2>4, <2>5, <2>6, SinkCalled
<1>7. CASE /\ s \notin ToSet(running) \union ToSet(waiting)
           /\ UNCHANGED <<vars, ids, q, outcome, ending>>
  <2>1. DrainAbort
    <3>1. ASSUME AbortOne PROVE FALSE
      <4>1. Live \subseteq Nat
        BY <1>3, SchedulerAssumption DEF Accounted, FacadeTypes, Live, Known
      <4>2. s \in Live
        BY <1>1, <3>1, <4>1, MinExists
      <4> QED BY <1>7, <4>2 DEF Live
    <3> QED BY <3>1
  <2>2. epc' = "aborted" /\ epc \in {"aborts", "aborted"}
    BY <2>1 DEF DrainAbort, AtLoop
  <2>3. /\ EngineInv' /\ Quiet' /\ Known' = Known /\ nextSeq' = nextSeq
        /\ done' = done /\ pc' = pc /\ req' = req
    BY <1>3, <1>7, EngineFrame
  <2>4. Accounted'
    BY <1>2, <1>3, <1>5, <2>2, <2>3 DEF Accounted
  <2>5. UNCHANGED <<handlerVars, reqVars, submitQ, exclQ, inflight, ending>>
    BY <1>2, <1>7 DEF reqVars
  <2>6. stop' \in BOOLEAN
    BY <1>2, <1>3 DEF FacadeTypes
  <2>7. \A x \in Known : /\ req'[x].generated = req[x].generated
                         /\ req'[x].maxNew = req[x].maxNew
    BY <2>3
  <2> QED BY <1>2, <1>5, <2>2, <2>3, <2>4, <2>5, <2>6, <2>7, ExecFrame
<1> QED BY <1>1, <1>6, <1>7 DEF AbortSeq

\* submit raises: the request at the head is failed.
LEMMA SubmitRaisesInv ==
    ASSUME ServingInv, SubmitRaises
    PROVE  ServingInv' /\ NothingMore
<1>0. PICK r : r = Head(submitQ)
  OBVIOUS
<1>1. /\ submitQ # <<>> /\ submitQ' = Tail(submitQ) /\ Emit(r, 0, "error")
      /\ ending.stage = "idle" /\ epc = "submits" /\ epc' = epc
      /\ exclQ' = exclQ /\ abortQ' = abortQ /\ seqs' = seqs
      /\ toFail' = toFail /\ nextSeq' = nextSeq + 1
      /\ todo' = todo /\ pc' = pc /\ UNCHANGED <<kvVars, queueVars, req>>
      /\ UNCHANGED <<handlerVars, doneSet, released, seqOf, inflight, stop>>
  BY <1>0 DEF SubmitRaises, AtLoop
<1>2. EngineInv /\ Quiet /\ Accounted /\ FacadeTypes /\ Waits /\ Owners
  BY DEF ServingInv
<1>3. /\ EngineInv' /\ Quiet' /\ Known' = Known /\ done' = done /\ req' = req
  BY <1>1, <1>2, RaiseFacts
<1>4. Accounted'
  BY <1>1, <1>2, <1>3 DEF Accounted
<1>5. /\ r \in Reqs /\ r \in ToSet(submitQ) /\ submitQ' \in Seq(Reqs)
      /\ IsInjective(submitQ') /\ ToSet(submitQ') = ToSet(submitQ) \ {r}
  <2>1. submitQ \in Seq(Reqs) /\ IsInjective(submitQ) /\ submitQ # <<>>
    BY <1>1, <1>2 DEF FacadeTypes, Waits
  <2> QED BY <1>0, <1>1, <2>1, QueuePop
<1>6. exclQ' \in Seq(Reqs) /\ IsInjective(exclQ') /\ ToSet(exclQ') = ToSet(exclQ)
  BY <1>1, <1>2 DEF FacadeTypes, Waits
<1>7. /\ IsText(r) /\ seqOf[r] = NoSeq /\ hpc[r] # "start"
      /\ r \notin ToSet(exclQ)
  BY <1>2, <1>5 DEF Waits, Untold
<1>8. seqOf[r] \notin Known'
  BY <1>2, <1>3, <1>7, KVAssumption DEF Accounted, FacadeTypes
<1>9. epc' \in ExecStates /\ abortQ' \in Seq(SeqIds) /\ toFail' \subseteq SeqIds
  BY <1>1, <1>2 DEF FacadeTypes
<1> QED
  BY <1>1, <1>3, <1>4, <1>5, <1>6, <1>7, <1>8, <1>9, SinkCalled

\* An exclusive job: it yields, returns or raises.
LEMMA JobInv ==
    ASSUME ServingInv,
           JobDelta \/ \E how \in {"finish", "error"} : JobEnds(how)
    PROVE  ServingInv' /\ NothingMore
<1>0. PICK r : r = Head(exclQ)
  OBVIOUS
<1>1. PICK n \in {0, 1}, how \in {"none", "finish", "error"} :
         /\ Emit(r, n, how)
         /\ epc' \in {"job", "excl"}
         /\ how # "none" => exclQ' = Tail(exclQ)
         /\ how = "none" => exclQ' = exclQ
         /\ epc' = "job" <=> how = "none"
  BY <1>0 DEF JobDelta, JobEnds, chanVars, AtLoop
<1>2. /\ ending.stage = "idle" /\ epc = "job" /\ UNCHANGED vars
      /\ submitQ' = submitQ /\ abortQ' = abortQ /\ seqs' = seqs
      /\ toFail' = toFail
      /\ UNCHANGED <<handlerVars, doneSet, released, seqOf, inflight, stop>>
  BY DEF JobDelta, JobEnds, chanVars, AtLoop
<1>3. EngineInv /\ Quiet /\ Accounted /\ FacadeTypes /\ Waits /\ Owners
  BY DEF ServingInv
<1>4. /\ EngineInv' /\ Quiet' /\ Known' = Known /\ nextSeq' = nextSeq
      /\ done' = done /\ pc' = pc /\ req' = req
  BY <1>2, <1>3, EngineFrame
<1>5. Accounted'
  BY <1>1, <1>2, <1>3, <1>4 DEF Accounted
<1>6. exclQ # <<>>
  BY <1>2, <1>3 DEF Waits
<1>7. /\ exclQ \in Seq(Reqs) /\ IsInjective(exclQ) /\ r \in Reqs
      /\ r \in ToSet(exclQ) /\ Tail(exclQ) \in Seq(Reqs)
      /\ IsInjective(Tail(exclQ)) /\ ToSet(Tail(exclQ)) = ToSet(exclQ) \ {r}
  <2>1. exclQ \in Seq(Reqs) /\ IsInjective(exclQ)
    BY <1>3 DEF FacadeTypes, Waits
  <2> QED BY <1>0, <1>6, <2>1, QueuePop
<1>8. /\ ~IsText(r) /\ outcome[r] = "none" /\ seqOf[r] = NoSeq
      /\ hpc[r] # "start" /\ r \notin ToSet(submitQ)
  BY <1>3, <1>7 DEF Waits, Owners
<1>9. /\ exclQ' \in Seq(Reqs) /\ IsInjective(exclQ')
      /\ ToSet(exclQ') \subseteq ToSet(exclQ)
      /\ how # "none" => r \notin ToSet(exclQ')
      /\ epc' = "job" => exclQ' # <<>>
  BY <1>1, <1>6, <1>7 DEF JobDelta, JobEnds
<1>10. seqOf[r] \notin Known'
  BY <1>3, <1>4, <1>8, KVAssumption DEF Accounted, FacadeTypes
<1>11. submitQ' \in Seq(Reqs) /\ IsInjective(submitQ')
       /\ ToSet(submitQ') = ToSet(submitQ) \ {r}
  BY <1>2, <1>3, <1>8 DEF FacadeTypes, Waits
<1>12. epc' \in ExecStates /\ abortQ' \in Seq(SeqIds) /\ toFail' \subseteq SeqIds
  BY <1>1, <1>2, <1>3 DEF FacadeTypes, ExecStates
<1> QED
  BY <1>1, <1>2, <1>4, <1>5, <1>7, <1>8, <1>9, <1>10, <1>11, <1>12, SinkCalled

\* A decode action: the scheduler frees what is over before its sink hears.
LEMMA StepDecodeInv ==
    ASSUME ServingInv, NEW eos \in BOOLEAN, StepDecode(eos)
    PROVE  ServingInv' /\ NothingMore
<1>0. PICK x, r : x = Head(todo).seq /\ r = SinkOf(x)
  OBVIOUS
<1>1. PICK n, how :
         /\ n = IF eos THEN 0 ELSE 1
         /\ how = IF eos \/ ids[r] + 1 >= MaxNew[r] THEN "finish" ELSE "none"
  OBVIOUS
<1>2. /\ Decode(eos) /\ Emit(r, n, how)
      /\ ending.stage = "idle" /\ epc = "stepping" /\ epc' = epc
      /\ submitQ' = submitQ /\ exclQ' = exclQ /\ abortQ' = abortQ
      /\ seqs' = seqs /\ toFail' = toFail
      /\ UNCHANGED <<handlerVars, doneSet, released, seqOf, inflight, stop>>
  BY <1>0, <1>1 DEF StepDecode, AtLoop, chanVars
<1>3. EngineInv /\ Quiet /\ Accounted /\ FacadeTypes /\ Ends /\ Counts
  BY DEF ServingInv
<1>4. PICK over : over = (eos \/ req[x].generated + 1 >= req[x].maxNew)
  OBVIOUS
<1>5. /\ EngineInv' /\ Quiet' /\ x \in ToSet(running) /\ x \in SeqIds
      /\ nextSeq' = nextSeq /\ pc' = pc
      /\ req[x].generated \in Nat /\ req[x].maxNew \in Nat
      /\ \A s \in SeqIds \ {x} : req'[s] = req[s]
      /\ req'[x].generated = req[x].generated + 1
      /\ req'[x].maxNew = req[x].maxNew
      /\ over => Known' = Known \ {x} /\ ToSet(done') = ToSet(done) \union {x}
      /\ ~over => Known' = Known /\ done' = done
  BY <1>0, <1>2, <1>3, <1>4, DecodeFacts
<1>6. x \in Known /\ x \in seqs /\ x \in Known
  BY <1>3, <1>5 DEF Known, Accounted
<1>7. /\ r \in Reqs /\ seqOf[r] = x /\ hpc[r] # "start"
      /\ r \notin ToSet(submitQ) /\ r \notin ToSet(exclQ)
  BY <1>0, <1>6, SinkPlace
<1>8. /\ req[x].generated = ids[r] /\ req[x].maxNew = MaxNew[r]
      /\ outcome[r] = "none"
  BY <1>2, <1>3, <1>6, <1>7 DEF Counts, Ends
<1>9. /\ how \in {"none", "finish", "error"} /\ n \in {0, 1}
      /\ over <=> how # "none"
      /\ ~over => n = 1
  BY <1>1, <1>4, <1>8
<1>10. Accounted'
  <2>1. CASE over
    BY <1>2, <1>3, <1>5, <1>6, <2>1 DEF Accounted
  <2>2. CASE ~over
    BY <1>2, <1>3, <1>5, <2>2 DEF Accounted
  <2> QED BY <2>1, <2>2
<1>11. /\ submitQ' \in Seq(Reqs) /\ IsInjective(submitQ')
       /\ ToSet(submitQ') \subseteq ToSet(submitQ) \ {r}
       /\ exclQ' \in Seq(Reqs) /\ IsInjective(exclQ')
       /\ ToSet(exclQ') \subseteq ToSet(exclQ)
       /\ how # "none" => r \notin ToSet(exclQ')
       /\ epc' = "job" => exclQ' # <<>>
  <2>1. /\ submitQ' \in Seq(Reqs) /\ IsInjective(submitQ')
        /\ ToSet(submitQ') = ToSet(submitQ)
        /\ exclQ' \in Seq(Reqs) /\ IsInjective(exclQ')
        /\ ToSet(exclQ') = ToSet(exclQ)
    BY <1>2, QueuesStay
  <2> QED BY <1>2, <1>7, <2>1
<1>12. epc' \in ExecStates /\ abortQ' \in Seq(SeqIds) /\ toFail' \subseteq SeqIds
  BY <1>2, <1>3 DEF FacadeTypes
<1>13. /\ seqs' \subseteq seqs /\ Known' \subseteq Known
       /\ nextSeq' \in {nextSeq, nextSeq + 1}
       /\ epc \notin {"failing", "abortall"}
       /\ ~(how # "none" /\ seqOf[r] \in Known')
  BY <1>2, <1>5, <1>7, <1>9
<1>14. \A s \in Known' \ {seqOf[r]} : /\ req'[s].generated = req[s].generated
                                      /\ req'[s].maxNew = req[s].maxNew
  BY <1>3, <1>5, <1>7, <1>13 DEF Accounted, FacadeTypes
<1>15. seqOf[r] \in Known' => /\ req'[seqOf[r]].generated = ids[r] + n
                              /\ req'[seqOf[r]].maxNew = req[seqOf[r]].maxNew
  BY <1>5, <1>7, <1>8, <1>9, <1>13
<1> QED
  BY <1>2, <1>5, <1>7, <1>8, <1>9, <1>10, <1>11, <1>12, <1>13, <1>14, <1>15,
     EmitInv

\* _fail_all_batched fails the next sequence.
LEMMA FailOneInv ==
    ASSUME ServingInv, FailOne
    PROVE  ServingInv' /\ NothingMore
<1>0. PICK s, r : s = Min(toFail) /\ r = SinkOf(s)
  OBVIOUS
<1>1. /\ toFail # {} /\ toFail' = toFail \ {s} /\ Emit(r, 0, "error")
      /\ ending.stage = "idle" /\ epc = "failing" /\ epc' = epc
      /\ UNCHANGED vars
      /\ submitQ' = submitQ /\ exclQ' = exclQ /\ abortQ' = abortQ
      /\ seqs' = seqs
      /\ UNCHANGED <<handlerVars, doneSet, released, seqOf, inflight, stop>>
  BY <1>0 DEF FailOne, AtLoop, chanVars
<1>2. EngineInv /\ Quiet /\ Accounted /\ FacadeTypes
  BY DEF ServingInv
<1>3. /\ EngineInv' /\ Quiet' /\ Known' = Known /\ nextSeq' = nextSeq
      /\ done' = done /\ pc' = pc /\ req' = req
  BY <1>1, <1>2, EngineFrame
<1>4. Accounted'
  BY <1>1, <1>2, <1>3 DEF Accounted
<1>5. s \in seqs
  <2>1. toFail \subseteq Nat
    BY <1>2, SchedulerAssumption DEF FacadeTypes
  <2>2. s \in toFail
    BY <1>0, <1>1, <2>1, MinExists
  <2> QED BY <1>2, <2>2 DEF Accounted
<1>6. /\ r \in Reqs /\ seqOf[r] = s /\ hpc[r] # "start"
      /\ r \notin ToSet(submitQ) /\ r \notin ToSet(exclQ)
  BY <1>0, <1>5, SinkPlace
<1>7. /\ submitQ' \in Seq(Reqs) /\ IsInjective(submitQ')
      /\ ToSet(submitQ') = ToSet(submitQ)
      /\ exclQ' \in Seq(Reqs) /\ IsInjective(exclQ')
      /\ ToSet(exclQ') = ToSet(exclQ)
  BY <1>1, QueuesStay
<1>8. /\ epc' \in ExecStates /\ abortQ' \in Seq(SeqIds)
      /\ toFail' \subseteq SeqIds
  BY <1>1, <1>2 DEF FacadeTypes
<1> QED BY <1>1, <1>3, <1>4, <1>6, <1>7, <1>8, SinkCalled

\* engine.submit: the request at the head learns the id of its sequence.
LEMMA DrainSubmitInv ==
    ASSUME ServingInv, DrainSubmit
    PROVE  ServingInv' /\ NothingMore
<1>0. PICK r : r = Head(submitQ)
  OBVIOUS
<1>1. PICK u \in UseStates : Add(PromptLen[r], MaxNew[r], u)
  BY <1>0 DEF DrainSubmit
<1>2. /\ submitQ # <<>> /\ submitQ' = Tail(submitQ)
      /\ seqOf' = [seqOf EXCEPT ![r] = nextSeq]
      /\ seqs' = seqs \union {nextSeq} /\ epc = "submits"
      /\ kind' = kind /\ hpc' = hpc /\ reply' = reply /\ taken' = taken
      /\ doneSet' = doneSet /\ outcome' = outcome /\ released' = released
      /\ q' = q /\ ids' = ids /\ exclQ' = exclQ /\ abortQ' = abortQ
      /\ inflight' = inflight /\ epc' = epc /\ ending' = ending
      /\ toFail' = toFail /\ stop' = stop
  BY <1>0 DEF DrainSubmit, handlerVars, AtLoop
<1>3. EngineInv /\ Quiet /\ Accounted /\ FacadeTypes /\ Owners /\ Waits
      /\ Ends /\ Counts /\ Streams /\ Replies
  BY DEF ServingInv
<1>4. /\ r \in Reqs /\ r \in ToSet(submitQ) /\ submitQ' \in Seq(Reqs)
      /\ IsInjective(submitQ') /\ ToSet(submitQ') = ToSet(submitQ) \ {r}
  <2>1. submitQ \in Seq(Reqs) /\ IsInjective(submitQ) /\ submitQ # <<>>
    BY <1>2, <1>3 DEF FacadeTypes, Waits
  <2> QED BY <1>0, <1>2, <2>1, QueuePop
<1>5. /\ EngineInv' /\ Quiet' /\ Known' = Known \union {nextSeq}
      /\ done' = done /\ pc' = pc /\ nextSeq' = nextSeq + 1
      /\ nextSeq \in SeqIds /\ nextSeq \in Nat
      /\ \A s \in SeqIds \ {nextSeq} : req'[s] = req[s]
      /\ req'[nextSeq].generated = 0 /\ req'[nextSeq].maxNew = MaxNew[r]
  <2>1. PromptLen[r] \in PromptLens /\ MaxNew[r] \in MaxNews
    BY <1>4, ServingAssumption
  <2> QED BY <1>1, <1>3, <2>1, AddFacts
<1>6. /\ IsText(r) /\ seqOf[r] = NoSeq /\ outcome[r] = "none" /\ ids[r] = 0
      /\ hpc[r] # "start"
  BY <1>3, <1>4 DEF Waits, Untold
<1>7. /\ seqOf' \in [Reqs -> SeqIds \union {NoSeq}] /\ seqOf'[r] = nextSeq
      /\ \A x \in Reqs \ {r} : seqOf'[x] = seqOf[x]
      /\ nextSeq # NoSeq
  <2>1. seqOf \in [Reqs -> SeqIds \union {NoSeq}]
    BY <1>3 DEF FacadeTypes
  <2> QED BY <1>2, <1>4, <1>5, <2>1, KVAssumption
<1>8. ASSUME NEW x \in Reqs, seqOf[x] # NoSeq
      PROVE  IsText(x) /\ seqOf[x] < nextSeq /\ seqOf[x] # nextSeq
             /\ seqOf[x] < nextSeq'
  <2>1. seqOf[x] \in SeqIds /\ IsText(x) /\ seqOf[x] < nextSeq
    BY <1>3, <1>8 DEF Owners, FacadeTypes
  <2>2. seqOf[x] \in Nat
    BY <2>1, SchedulerAssumption
  <2> QED BY <1>5, <2>1, <2>2
<1>9. Accounted'
  BY <1>2, <1>3, <1>5 DEF Accounted
<1>10. FacadeTypes'
  <2>1. seqs' \subseteq SeqIds
    BY <1>2, <1>3, <1>5 DEF FacadeTypes
  <2> QED BY <1>2, <1>3, <1>4, <1>7, <2>1 DEF FacadeTypes
<1>11. \A x \in Reqs : IsText(x)' = IsText(x)
  BY <1>2 DEF IsText
<1>12. Owners'
  <2>1. ASSUME NEW s \in seqs' PROVE \E x \in Reqs : seqOf'[x] = s
    <3>1. CASE s = nextSeq
      BY <1>4, <1>7, <3>1
    <3>2. CASE s # nextSeq
      <4>1. s \in seqs
        BY <1>2, <2>1, <3>2
      <4>2. PICK x \in Reqs : seqOf[x] = s
        BY <1>3, <4>1 DEF Owners
      <4>3. s # NoSeq
        BY <1>3, <4>1, KVAssumption DEF FacadeTypes
      <4>4. x # r
        BY <1>6, <4>2, <4>3
      <4> QED BY <1>7, <4>2, <4>4
    <3> QED BY <3>1, <3>2
  <2>2. ASSUME NEW x \in Reqs, seqOf'[x] # NoSeq
        PROVE  IsText(x)' /\ seqOf'[x] < nextSeq'
    <3>1. CASE x = r
      BY <1>5, <1>6, <1>7, <1>11, <3>1
    <3>2. CASE x # r
      BY <1>7, <1>8, <1>11, <2>2, <3>2
    <3> QED BY <3>1, <3>2
  <2>3. ASSUME NEW x \in Reqs, NEW y \in Reqs, seqOf'[x] = seqOf'[y],
               seqOf'[x] # NoSeq
        PROVE  x = y
    <3>1. CASE x = r \/ y = r
      BY <1>7, <1>8, <2>3, <3>1
    <3>2. CASE x # r /\ y # r
      BY <1>3, <1>7, <2>3, <3>2 DEF Owners
    <3> QED BY <3>1, <3>2
  <2> QED BY <2>1, <2>2, <2>3 DEF Owners
<1>13. Waits'
  <2>1. ASSUME NEW x \in Reqs, x # r, Untold(x) PROVE Untold(x)'
    BY <1>2, <1>7, <2>1 DEF Untold
  <2>2. ASSUME NEW x \in ToSet(submitQ') PROVE IsText(x)' /\ Untold(x)'
    <3>1. x \in ToSet(submitQ) /\ x # r
      BY <1>4, <2>2
    <3>2. x \in Reqs
      BY <1>4, <2>2, ToSetFacts
    <3> QED BY <1>3, <1>11, <2>1, <3>1, <3>2 DEF Waits
  <2>3. ASSUME NEW x \in ToSet(exclQ)
        PROVE  ~IsText(x)' /\ outcome'[x] = "none"
    <3>0. exclQ \in Seq(Reqs)
      BY <1>3 DEF FacadeTypes
    <3>1. x \in Reqs
      BY <2>3, <3>0, ToSetFacts
    <3> QED BY <1>2, <1>3, <1>11, <2>3, <3>1 DEF Waits
  <2>4. ASSUME NEW x \in Reqs, hpc'[x] = "start"
        PROVE  Untold(x)' /\ x \notin ToSet(submitQ') \union ToSet(exclQ)
    <3>1. hpc[x] = "start" /\ x # r
      BY <1>2, <1>6, <2>4
    <3> QED BY <1>3, <1>4, <2>1, <3>1 DEF Waits
  <2> QED BY <1>2, <1>3, <1>4, <2>2, <2>3, <2>4 DEF Waits
<1>14. Ends'
  <2>1. ASSUME NEW x \in Reqs, seqOf'[x] \in Known', outcome'[x] # "none"
        PROVE  outcome'[x] = "error" /\ epc' \in {"failing", "abortall"}
    <3>1. x # r /\ seqOf[x] \in Known' /\ outcome[x] # "none"
      BY <1>2, <1>6, <1>7, <2>1
    <3>2. seqOf[x] # NoSeq
      BY <1>3, <1>5, <1>7, <3>1, KVAssumption DEF Accounted, FacadeTypes
    <3>3. seqOf[x] \in Known
      BY <1>5, <1>8, <3>1, <3>2
    <3> QED BY <1>2, <1>3, <3>1, <3>3 DEF Ends
  <2> QED BY <1>2, <1>3, <2>1 DEF Ends
<1>15. Counts'
  <2> SUFFICES ASSUME NEW x \in Reqs, seqOf'[x] \in Known'
               PROVE  /\ req'[seqOf'[x]].generated = ids[x]
                      /\ req'[seqOf'[x]].maxNew = MaxNew[x]
    BY <1>2 DEF Counts
  <2>1. CASE x = r
    BY <1>5, <1>6, <1>7, <2>1
  <2>2. CASE x # r
    <3>1. seqOf'[x] = seqOf[x] /\ seqOf[x] \in Known'
      BY <1>7, <2>2
    <3>2. seqOf[x] # NoSeq
      BY <1>3, <1>5, <1>7, <3>1, KVAssumption DEF Accounted, FacadeTypes
    <3>3. seqOf[x] \in Known /\ seqOf[x] # nextSeq
      BY <1>5, <1>8, <3>1, <3>2
    <3>4. seqOf[x] \in SeqIds
      BY <1>3, <3>3 DEF Accounted, FacadeTypes
    <3> QED BY <1>3, <1>5, <3>1, <3>3, <3>4 DEF Counts
  <2> QED BY <2>1, <2>2
<1>16. Streams' /\ Replies'
  BY <1>2, <1>3, StreamsFrame, RepliesFrame
<1>17. NothingMore
  BY <1>2, <1>3, QuietFrame
<1> QED
  BY <1>5, <1>9, <1>10, <1>12, <1>13, <1>14, <1>15, <1>16, <1>17 DEF ServingInv

\* The rest of on_finish and fail, and stop().
LEMMA EndingInv ==
    ASSUME ServingInv, SetDone \/ ExecCheck \/ ExecCommit \/ Stop
    PROVE  ServingInv' /\ NothingMore
<1>1. /\ UNCHANGED vars /\ UNCHANGED handlerVars
      /\ kind' = kind /\ hpc' = hpc /\ reply' = reply /\ taken' = taken
      /\ outcome' = outcome /\ q' = q /\ ids' = ids /\ seqOf' = seqOf
      /\ submitQ' = submitQ /\ exclQ' = exclQ /\ abortQ' = abortQ
      /\ seqs' = seqs /\ epc' = epc /\ toFail' = toFail
  BY DEF SetDone, ExecCheck, ExecCommit, Stop, reqVars, chanVars, execVars,
         handlerVars
<1>2. EngineInv /\ Quiet /\ Accounted /\ FacadeTypes /\ Owners /\ Waits
      /\ Ends /\ Counts /\ Streams /\ Replies
  BY DEF ServingInv
<1>3. /\ EngineInv' /\ Quiet' /\ Known' = Known /\ nextSeq' = nextSeq
      /\ done' = done /\ pc' = pc /\ req' = req
  BY <1>1, <1>2, EngineFrame
<1>4. Accounted' /\ Owners' /\ Counts' /\ Streams' /\ Replies'
  <2>1. Accounted'
    BY <1>1, <1>2, <1>3 DEF Accounted
  <2> QED
    BY <1>1, <1>2, <1>3, <2>1, OwnersFrame, CountsFrame, StreamsFrame,
       RepliesFrame
<1>5. Waits'
  <2>1. epc' = "job" => exclQ # <<>>
    BY <1>1, <1>2 DEF Waits
  <2> QED BY <1>1, <1>2, <2>1, WaitsFrame
<1>6. /\ ending \in [req : Reqs, stage : {"idle", "set", "check", "commit"}]
      /\ ending.req \in Reqs /\ Idle.req \in Reqs /\ inflight \in Int
      /\ doneSet \in [Reqs -> BOOLEAN] /\ released \in [Reqs -> BOOLEAN]
      /\ \A r \in Reqs : Len(q[r]) \in Nat
  BY <1>2, ServingAssumption DEF FacadeTypes, Idle
<1>7. /\ ending' \in [req : Reqs, stage : {"idle", "set", "check", "commit"}]
      /\ doneSet' \in [Reqs -> BOOLEAN] /\ released' \in [Reqs -> BOOLEAN]
      /\ inflight' \in Int /\ stop' \in BOOLEAN
      /\ \A r \in Reqs : doneSet[r] => doneSet'[r]
      /\ ending'.stage = "set" => ending' = ending /\ doneSet' = doneSet
      /\ \A r \in Reqs : doneSet'[r] => outcome[r] # "none"
      /\ \A r \in Reqs : outcome[r] # "none" /\ ~doneSet'[r] =>
            ending'.stage = "set" /\ ending'.req = r
  <2>1. CASE SetDone
    <3>1. /\ ending.stage = "set" /\ outcome[ending.req] # "none"
          /\ doneSet' = [doneSet EXCEPT ![ending.req] = TRUE]
          /\ ending' = [ending EXCEPT !.stage = "check"]
          /\ released' = released /\ inflight' = inflight /\ stop' = stop
      BY <1>2, <2>1 DEF SetDone, Ends, chanVars
    <3>2. /\ ending' \in [req : Reqs, stage : {"idle", "set", "check", "commit"}]
          /\ ending'.stage # "set"
      BY <1>6, <3>1
    <3>3. /\ doneSet' \in [Reqs -> BOOLEAN] /\ doneSet'[ending.req]
          /\ \A r \in Reqs : r # ending.req => doneSet'[r] = doneSet[r]
      BY <1>6, <3>1
    <3>4. ASSUME NEW r \in Reqs
          PROVE  doneSet'[r] <=> outcome[r] # "none"
      BY <1>2, <3>1, <3>3 DEF Ends
    <3>5. \A r \in Reqs : doneSet[r] => doneSet'[r]
      BY <3>3
    <3> QED BY <1>2, <1>6, <3>1, <3>2, <3>3, <3>4, <3>5 DEF FacadeTypes
  <2>2. CASE ExecCheck
    <3>1. /\ ending.stage = "check" /\ doneSet' = doneSet
          /\ released' = released /\ inflight' = inflight /\ stop' = stop
          /\ ending' = Idle \/ ending' = [ending EXCEPT !.stage = "commit"]
      BY <2>2 DEF ExecCheck, reqVars, chanVars
    <3>2. /\ ending' \in [req : Reqs, stage : {"idle", "set", "check", "commit"}]
          /\ ending'.stage # "set"
      BY <1>6, <3>1 DEF Idle
    <3> QED BY <1>2, <1>6, <3>1, <3>2 DEF FacadeTypes, Ends
  <2>3. CASE ExecCommit
    <3>1. /\ ending.stage = "commit" /\ doneSet' = doneSet
          /\ released' = [released EXCEPT ![ending.req] = TRUE]
          /\ inflight' = inflight - 1 /\ stop' = stop /\ ending' = Idle
      BY <2>3 DEF ExecCommit
    <3>2. /\ ending' \in [req : Reqs, stage : {"idle", "set", "check", "commit"}]
          /\ ending'.stage # "set"
      BY <1>6, <3>1 DEF Idle
    <3> QED BY <1>2, <1>6, <3>1, <3>2 DEF FacadeTypes, Ends
  <2>4. CASE Stop
    <3>1. /\ doneSet' = doneSet /\ released' = released
          /\ inflight' = inflight /\ stop' = TRUE /\ ending' = ending
      BY <2>4 DEF Stop, reqVars, chanVars, execVars
    <3> QED BY <1>2, <1>6, <3>1 DEF Ends
  <2> QED BY <2>1, <2>2, <2>3, <2>4
<1>8. FacadeTypes'
  BY <1>1, <1>2, <1>7 DEF FacadeTypes
<1>9. Ends'
  BY <1>1, <1>2, <1>3, <1>7 DEF Ends
<1>10. NothingMore
  BY <1>1, <1>6, <1>7 DEF NothingMore
<1> QED BY <1>2, <1>3, <1>4, <1>5, <1>8, <1>9, <1>10 DEF ServingInv

-----------------------------------------------------------------------------
(***************************************************************************)
(* The server.                                                             *)
(***************************************************************************)
\* A server that has just started.
LEMMA ServingInitInv ==
    ASSUME ServingInit
    PROVE  ServingInv
<1>1. /\ Init /\ \A r \in Reqs : kind[r] \in Kinds[r]
      /\ hpc = [r \in Reqs |-> "start"] /\ reply = [r \in Reqs |-> "none"]
      /\ taken = [r \in Reqs |-> 0] /\ inflight = 0
      /\ submitQ = <<>> /\ exclQ = <<>> /\ abortQ = <<>>
      /\ doneSet = [r \in Reqs |-> FALSE]
      /\ outcome = [r \in Reqs |-> "none"]
      /\ released = [r \in Reqs |-> FALSE]
      /\ q = [r \in Reqs |-> <<>>] /\ ids = [r \in Reqs |-> 0]
      /\ seqOf = [r \in Reqs |-> NoSeq] /\ seqs = {} /\ epc = "top"
      /\ ending = Idle /\ toFail = {} /\ stop = FALSE
  BY DEF ServingInit
<1>2. EngineInv
  BY <1>1, SchedInitInv DEF SchedInv
<1>3. /\ waiting = <<>> /\ skipped = <<>> /\ running = <<>> /\ done = <<>>
      /\ todo = <<>> /\ pc = "idle"
  BY <1>1 DEF Init
<1>4. Quiet
  BY <1>3 DEF Quiet
<1>5. Idle \in [req : Reqs, stage : {"idle", "set", "check", "commit"}]
      /\ Idle.stage = "idle"
  BY ServingAssumption DEF Idle
<1>6. FacadeTypes
  <2>1. \A S : <<>> \in Seq(S)
    BY EmptyFacts
  <2>2. q \in [Reqs -> Seq({"tok", "finish", "error"})]
        /\ submitQ \in Seq(Reqs) /\ exclQ \in Seq(Reqs)
        /\ abortQ \in Seq(SeqIds)
    BY <1>1, <2>1
  <2>3. /\ hpc \in [Reqs -> HandlerStates]
        /\ reply \in [Reqs -> {"none", "ok", "error"}]
        /\ taken \in [Reqs -> Nat] /\ ids \in [Reqs -> Nat]
        /\ doneSet \in [Reqs -> BOOLEAN] /\ released \in [Reqs -> BOOLEAN]
        /\ outcome \in [Reqs -> {"none", "finish", "error"}]
        /\ seqOf \in [Reqs -> SeqIds \union {NoSeq}]
    BY <1>1 DEF HandlerStates
  <2>4. /\ inflight \in Int /\ seqs \subseteq SeqIds /\ toFail \subseteq SeqIds
        /\ epc \in ExecStates /\ stop \in BOOLEAN
    <3>1. inflight = 0 /\ seqs = {} /\ toFail = {} /\ epc = "top" /\ stop = FALSE
      BY <1>1
    <3>2. epc \in ExecStates
      BY ONLY <3>1 DEF ExecStates
    <3>3. inflight \in Int
      BY ONLY <3>1
    <3>4. stop \in BOOLEAN
      BY ONLY <3>1
    <3>5. seqs \subseteq SeqIds /\ toFail \subseteq SeqIds
      BY ONLY <3>1
    <3> QED BY <3>2, <3>3, <3>4, <3>5
  <2>5. ending \in [req : Reqs, stage : {"idle", "set", "check", "commit"}]
    BY <1>1, <1>5
  <2> QED BY <1>1, <2>2, <2>3, <2>4, <2>5 DEF FacadeTypes
<1>7. Known = {} /\ Accounted
  BY <1>1, <1>3, EmptyFacts DEF Known, Accounted
<1>8. Owners /\ Counts
  BY <1>1, <1>7 DEF Owners, Counts
<1>9. Waits /\ Ends
  BY <1>1, <1>5, EmptyFacts DEF Waits, Untold, Ends
<1>10. Streams
  <2> SUFFICES ASSUME NEW r \in Reqs
               PROVE  q[r] = <<>> /\ Unread(r) /\ hpc[r] = "start"
    BY DEF Streams
  <2> QED BY <1>1, EmptyFacts DEF Unread
<1>11. Replies
  BY <1>1 DEF Replies
<1> QED BY <1>2, <1>4, <1>6, <1>7, <1>8, <1>9, <1>10, <1>11 DEF ServingInv

\* A step of the executor.
LEMMA ExecInv ==
    ASSUME ServingInv, ExecNext
    PROVE  ServingInv' /\ NothingMore
<1>1. CASE SetDone \/ ExecCheck \/ ExecCommit
  BY <1>1, EndingInv
<1>2. CASE \/ Loop \/ SubmitsDrained \/ StartJob \/ JobsDrained \/ AllFailed
           \/ AllAborted
  BY <1>2, MovesOn
<1>3. CASE DrainAbort \/ AbortOne
  BY <1>3, AbortInv
<1>4. CASE AbortsDrained \/ ReapStep
  BY <1>4, ReapInv
<1>5. CASE DrainSubmit
  BY <1>5, DrainSubmitInv
<1>6. CASE SubmitRaises
  BY <1>6, SubmitRaisesInv
<1>7. CASE JobDelta \/ \E how \in {"finish", "error"} : JobEnds(how)
  BY <1>7, JobInv
<1>8. CASE StepQuietly \/ StepRaises
  BY <1>8, StepInv
<1>9. CASE \E eos \in BOOLEAN : StepDecode(eos)
  BY <1>9, StepDecodeInv
<1>10. CASE FailOne
  BY <1>10, FailOneInv
<1> QED
  BY <1>1, <1>2, <1>3, <1>4, <1>5, <1>6, <1>7, <1>8, <1>9, <1>10 DEF ExecNext

\* Any step of the server.
LEMMA ServingNextInv ==
    ASSUME ServingInv, [ServingNext]_servingVars
    PROVE  ServingInv' /\ NothingMore
<1>1. CASE \E r \in Reqs : HandlerNext(r)
  BY <1>1, HandlerInv
<1>2. CASE ExecNext
  BY <1>2, ExecInv
<1>3. CASE Stop
  BY <1>3, EndingInv
<1>4. CASE UNCHANGED servingVars
  <2>1. /\ UNCHANGED vars /\ abortQ' = abortQ /\ seqs' = seqs
        /\ toFail' = toFail /\ stop' = stop /\ epc' = epc
        /\ UNCHANGED <<handlerVars, reqVars, submitQ, exclQ, inflight, ending>>
    BY <1>4 DEF servingVars, chanVars, execVars
  <2>2. EngineInv /\ Quiet /\ Accounted /\ FacadeTypes /\ Waits
    BY DEF ServingInv
  <2>3. /\ EngineInv' /\ Quiet' /\ Known' = Known /\ nextSeq' = nextSeq
        /\ done' = done /\ pc' = pc /\ req' = req
    BY <2>1, <2>2, EngineFrame
  <2>4. Accounted'
    BY <2>1, <2>2, <2>3 DEF Accounted
  <2>5. /\ epc' \in ExecStates /\ toFail' \subseteq SeqIds /\ stop' \in BOOLEAN
        /\ abortQ' \in Seq(SeqIds) /\ (epc' = "job" => exclQ # <<>>)
    BY <2>1, <2>2 DEF FacadeTypes, Waits
  <2> QED BY <2>1, <2>3, <2>4, <2>5, ExecFrame
<1> QED BY <1>1, <1>2, <1>3, <1>4 DEF ServingNext, RunningNext

\* The inductive invariant of the server, on which the others rest.
THEOREM ServingInvariant == ServingSpec => []ServingInv
<1>1. ServingInit => ServingInv
  BY ServingInitInv
<1>2. ServingInv /\ [ServingNext]_servingVars => ServingInv'
  BY ServingNextInv
<1> QED BY <1>1, <1>2, PTL DEF ServingSpec

\* Type correctness of the facade, its queues and the scheduler under it.
THEOREM ServingTypeCorrect == ServingSpec => []ServingTypeOK
<1>1. ServingInv => ServingTypeOK
  BY DEF ServingInv, EngineInv, KVInv, TypeOK, FacadeTypes, ServingTypeOK
<1> QED BY <1>1, ServingInvariant, PTL

\* The engine's records and the scheduler's agree: a step never looks up a
\* sequence that was reaped, and nothing is left of finished ones.
THEOREM EngineAlwaysMatches == ServingSpec => []EngineMatchesScheduler
<1>1. ServingInv => EngineMatchesScheduler
  <2> SUFFICES ASSUME ServingInv PROVE EngineMatchesScheduler
    OBVIOUS
  <2>1. Accounted /\ Quiet /\ EngineInv
    BY DEF ServingInv
  <2>2. Live \union ToSet(skipped) = Known
    BY DEF Live, Known
  <2>3. tables = ToSet(running)
    BY <2>1 DEF EngineInv, Held
  <2>4. ASSUME AtLoop("top") PROVE seqs = Live /\ done = <<>> /\ pc = "idle"
    BY <2>1, <2>2, <2>4, EmptyFacts DEF AtLoop, Accounted, Quiet
  <2> QED BY <2>1, <2>2, <2>3, <2>4 DEF EngineMatchesScheduler, Accounted
<1> QED BY <1>1, ServingInvariant, PTL

\* A handler told that its request is over leaves no work behind.
THEOREM DoneAlwaysOver == ServingSpec => []DoneIsOver
<1>1. ServingInv => DoneIsOver
  <2> SUFFICES ASSUME ServingInv, NEW r \in Reqs, doneSet[r],
                      seqOf[r] \in Live \union ToSet(skipped)
               PROVE  epc \in {"failing", "abortall"}
    BY DEF DoneIsOver
  <2>1. seqOf[r] \in Known
    BY DEF Live, Known
  <2> QED BY <2>1 DEF ServingInv, Ends
<1> QED BY <1>1, ServingInvariant, PTL

\* A client told that its generation finished got all of it.
THEOREM RepliesAlwaysComplete == ServingSpec => []ReplyComplete
<1>1. ServingInv => ReplyComplete
  <2> SUFFICES ASSUME ServingInv, NEW r \in Reqs, reply[r] = "ok"
               PROVE  /\ outcome[r] = "finish"
                      /\ IsStream(r) => taken[r] = ids[r]
                      /\ seqOf[r] \notin Live
    BY DEF ReplyComplete
  <2>1. outcome[r] = "finish" /\ (IsStream(r) => taken[r] = ids[r])
    BY DEF ServingInv, Replies
  <2>2. seqOf[r] \notin Known
    BY <2>1 DEF ServingInv, Ends
  <2> QED BY <2>1, <2>2 DEF Live, Known
<1> QED BY <1>1, ServingInvariant, PTL

\* Once its event is set, a request is delivered nothing more.
THEOREM NothingEverAfterDone == ServingSpec => NothingAfterDone
<1>1. ServingInv /\ [ServingNext]_servingVars => [NothingMore]_servingVars
  BY ServingNextInv
<1>2. [NothingMore]_servingVars =>
        [\A r \in Reqs : doneSet[r] =>
           /\ doneSet'[r]
           /\ ids'[r] = ids[r]
           /\ outcome'[r] = outcome[r]
           /\ Len(q'[r]) <= Len(q[r])]_servingVars
  BY DEF NothingMore
<1> QED BY <1>1, <1>2, ServingInvariant, PTL DEF ServingSpec, NothingAfterDone

-----------------------------------------------------------------------------
(***************************************************************************)
(* No request is forgotten, and no place is lost.  What has been let in is *)
(* always with someone who will end it, so that a handler that waits for   *)
(* its event does not wait for nothing, and what has ended gives its place *)
(* back: this is what Answered and PlacesReturn add fairness to.           *)
(***************************************************************************)
\* Where a request is until it has ended.
Placed(r) ==
    \/ r \in ToSet(submitQ) \union ToSet(exclQ)
    \/ seqOf[r] \in Known
    \/ outcome[r] # "none"

AllPlaced == \A r \in Reqs : hpc[r] \notin {"start", "over"} => Placed(r)

\* A step takes no place from a request.
StillPlaced == \A r \in Reqs : Placed(r) => Placed(r)'

\* The requests that hold a place: let in, and not released.
Holders == {r \in Reqs : Placed(r) /\ ~released[r]}

\* Every place in flight has a holder, and the executor is about to release
\* who is done and has not been released.
PlacesHeld ==
    /\ inflight <= Cardinality(Holders)
    /\ \A r \in Reqs : doneSet[r] /\ ~released[r] =>
          ending.stage \in {"check", "commit"} /\ ending.req = r
    /\ ending.stage \in {"check", "commit"} => doneSet[ending.req]
    /\ \A r \in Reqs : hpc[r] = "start" => ~released[r]

\* A request whose handler has not left and whose event is not set is in a
\* queue, or the scheduler has its sequence, or the executor is just ending
\* it (_submit_q, _excl_q, submit, advance, abort, _fail_all_batched, reap).
NotForgotten ==
    \A r \in Reqs : hpc[r] \notin {"start", "over"} /\ ~doneSet[r] =>
        \/ r \in ToSet(submitQ) \union ToSet(exclQ)
        \/ seqOf[r] \in Live \union ToSet(skipped)
        \/ ending.stage = "set" /\ ending.req = r

\* There are no more places in flight than requests the executor has or is
\* just ending, however timeouts, clients that leave, aborts and failures
\* meet in _release: an idle server has all its places.
NoPlaceLost ==
    inflight <= Cardinality({r \in Reqs :
        \/ r \in ToSet(submitQ) \union ToSet(exclQ)
        \/ seqOf[r] \in Live \union ToSet(skipped)
        \/ ending.stage # "idle" /\ ending.req = r})

\* No request loses its place when queues and scheduler keep what they have.
LEMMA PlacedFrame ==
    ASSUME UNCHANGED <<seqOf, outcome>>,
           submitQ' = submitQ, exclQ' = exclQ, Known' = Known
    PROVE  StillPlaced
BY DEF StillPlaced, Placed

\* A handler moves on.
LEMMA HandlerKeepsPlaces ==
    ASSUME ServingInv, AllPlaced, NEW r \in Reqs, HandlerNext(r)
    PROVE  AllPlaced' /\ StillPlaced /\ (Enter(r) => Placed(r)')
<1>1. /\ UNCHANGED <<vars, seqOf, outcome>>
      /\ \A x \in Reqs \ {r} : hpc'[x] = hpc[x]
  <2>1. hpc \in [Reqs -> HandlerStates]
    BY DEF ServingInv, FacadeTypes
  <2>2. CASE Refuse(r) \/ Enter(r) \/ Timeout(r) \/ StreamTimeout(r)
    BY <2>1, <2>2 DEF Refuse, Enter, Timeout, StreamTimeout, Goto, reqVars
  <2>3. CASE Return(r) \/ AbortTimedOut(r) \/ DropUnstarted(r)
             \/ StartReading(r) \/ Finally(r)
    BY <2>1, <2>3 DEF Return, AbortTimedOut, DropUnstarted, StartReading,
                      Finally, Goto, reqVars
  <2>4. CASE (\E gone \in BOOLEAN : ReadToken(r, gone)) \/ ReadTerminal(r)
    BY <2>1, <2>4 DEF ReadToken, ReadTerminal, Goto
  <2>5. CASE HandlerCheck(r) \/ HandlerCommit(r)
    BY <2>1, <2>5 DEF HandlerCheck, HandlerCommit, Goto, reqVars
  <2> QED BY <2>2, <2>3, <2>4, <2>5 DEF HandlerNext, HandlerStep
<1>2. Known' = Known
  BY <1>1 DEF vars, schedVars, queueVars, Known
<1>3. CASE Enter(r)
  <2>1. submitQ \in Seq(Reqs) /\ exclQ \in Seq(Reqs)
    BY DEF ServingInv, FacadeTypes
  <2>2. /\ \/ submitQ' = Append(submitQ, r) /\ exclQ' = exclQ
           \/ exclQ' = Append(exclQ, r) /\ submitQ' = submitQ
    BY <1>3 DEF Enter
  <2>3. ToSet(submitQ') \union ToSet(exclQ')
           = ToSet(submitQ) \union ToSet(exclQ) \union {r}
    <3>1. CASE submitQ' = Append(submitQ, r) /\ exclQ' = exclQ
      <4>1. ToSet(submitQ') = ToSet(submitQ) \union {r}
        BY <2>1, <3>1, AppendFacts
      <4> QED BY <3>1, <4>1
    <3>2. CASE exclQ' = Append(exclQ, r) /\ submitQ' = submitQ
      <4>1. ToSet(exclQ') = ToSet(exclQ) \union {r}
        BY <2>1, <3>2, AppendFacts
      <4> QED BY <3>2, <4>1
    <3> QED BY <2>2, <3>1, <3>2
  <2> QED BY <1>1, <1>2, <2>3 DEF AllPlaced, StillPlaced, Placed
<1>4. CASE ~Enter(r)
  <2>1. submitQ' = submitQ /\ exclQ' = exclQ
    BY <1>4 DEF HandlerNext, HandlerStep, Refuse, Timeout, StreamTimeout,
                Return, AbortTimedOut, DropUnstarted, StartReading, ReadToken,
                ReadTerminal, Finally, HandlerCheck, HandlerCommit, chanVars
  <2>2. hpc'[r] \notin {"start", "over"} => hpc[r] \notin {"start", "over"}
    <3>1. hpc[r] # "over"
      BY DEF HandlerNext, HandlerStep, Refuse, Enter, Timeout, StreamTimeout,
             Return, AbortTimedOut, DropUnstarted, StartReading, ReadToken,
             ReadTerminal, Finally, HandlerCheck, HandlerCommit
    <3>2. hpc[r] = "start" => Refuse(r)
      BY <1>4 DEF HandlerNext, HandlerStep, Timeout, StreamTimeout, Return,
             AbortTimedOut, DropUnstarted, StartReading, ReadToken,
             ReadTerminal, Finally, HandlerCheck, HandlerCommit
    <3>3. hpc \in [Reqs -> HandlerStates]
      BY DEF ServingInv, FacadeTypes
    <3> QED BY <3>1, <3>2, <3>3 DEF Refuse, Goto
  <2> QED BY <1>1, <1>2, <1>4, <2>1, <2>2 DEF AllPlaced, StillPlaced, Placed
<1> QED BY <1>3, <1>4

\* A sink is called: only its own request may leave its place, and then the
\* request has ended.
LEMMA EmitKeepsPlaces ==
    ASSUME ServingInv, ending.stage = "idle", NEW r \in Reqs,
           NEW n \in {0, 1}, NEW how \in {"none", "finish", "error"},
           n = 1 => outcome[r] = "none", Emit(r, n, how),
           UNCHANGED <<handlerVars, doneSet, seqOf>>,
           ToSet(submitQ) \ {r} \subseteq ToSet(submitQ'),
           ToSet(exclQ) \ {r} \subseteq ToSet(exclQ'),
           Known \ {seqOf[r]} \subseteq Known',
           how = "none" => /\ submitQ' = submitQ /\ exclQ' = exclQ
                           /\ Known' = Known
    PROVE  StillPlaced
<1>1. kind' = kind /\ hpc' = hpc /\ seqOf' = seqOf /\ doneSet' = doneSet
  BY DEF handlerVars
<1>2. FacadeTypes /\ Ends /\ Owners /\ Accounted
  BY DEF ServingInv
<1>3. Emitted(r, n, how)
  BY <1>1, <1>2, EmitFacts
<1>4. /\ \A x \in Reqs \ {r} : outcome'[x] = outcome[x]
      /\ outcome'[r] = IF outcome[r] = "none" THEN how ELSE outcome[r]
  BY <1>3 DEF Emitted
<1> SUFFICES ASSUME NEW x \in Reqs, Placed(x)
             PROVE  Placed(x)'
  BY DEF StillPlaced
<1>5. CASE how = "none"
  <2>1. outcome'[x] = outcome[x]
    BY <1>4, <1>5
  <2> QED BY <1>1, <1>5, <2>1 DEF Placed
<1>6. CASE how # "none" /\ x = r
  BY <1>4, <1>6 DEF Placed
<1>7. CASE x # r
  <2>1. outcome'[x] = outcome[x]
    BY <1>4, <1>7
  <2>2. ASSUME seqOf[x] \in Known PROVE seqOf[x] \in Known'
    <3>1. seqOf[x] # NoSeq
      BY <1>2, <2>2, KVAssumption DEF Accounted, FacadeTypes
    <3>2. seqOf[x] # seqOf[r]
      BY <1>2, <1>7, <3>1 DEF Owners
    <3> QED BY <2>2, <3>2
  <2> QED BY <1>1, <1>7, <2>1, <2>2 DEF Placed
<1> QED BY <1>5, <1>6, <1>7

\* An action of the executor.
LEMMA ExecKeepsPlaces ==
    ASSUME ServingInv, ExecNext
    PROVE  StillPlaced
<1>0. EngineInv /\ Quiet /\ Accounted /\ FacadeTypes /\ Waits /\ Owners
      /\ Ends /\ Counts
  BY DEF ServingInv
<1>1. CASE SetDone \/ ExecCheck \/ ExecCommit
  <2>1. /\ UNCHANGED <<vars, seqOf, outcome>> /\ hpc' = hpc
        /\ submitQ' = submitQ /\ exclQ' = exclQ
    BY <1>1 DEF SetDone, ExecCheck, ExecCommit, reqVars, chanVars, handlerVars
  <2>2. Known' = Known
    BY <1>0, <2>1, EngineFrame
  <2> QED BY <2>1, <2>2, PlacedFrame
<1>2. CASE \/ Loop \/ SubmitsDrained \/ StartJob \/ JobsDrained \/ AllFailed
           \/ AllAborted
  <2>1. /\ UNCHANGED <<vars, seqOf, outcome>> /\ hpc' = hpc
        /\ submitQ' = submitQ /\ exclQ' = exclQ
    BY <1>2 DEF Loop, SubmitsDrained, StartJob, JobsDrained, AllFailed,
                AllAborted, reqVars, chanVars, handlerVars
  <2>2. Known' = Known
    BY <1>0, <2>1, EngineFrame
  <2> QED BY <2>1, <2>2, PlacedFrame
<1>3. CASE DrainAbort \/ AbortOne
  <2>1. PICK s : AbortSeq(s)
    BY <1>3 DEF DrainAbort, AbortOne
  <2>2. /\ submitQ' = submitQ /\ exclQ' = exclQ /\ ending.stage = "idle"
        /\ UNCHANGED <<handlerVars, doneSet, seqOf>> /\ hpc' = hpc
    BY <1>3 DEF DrainAbort, AbortOne, chanVars, AtLoop, handlerVars
  <2>3. CASE /\ \/ \E i \in DOMAIN running : running[i] = s /\ AbortRunning(i)
                \/ \E i \in DOMAIN waiting : waiting[i] = s /\ AbortWaiting(i)
             /\ Emit(SinkOf(s), 0, "error")
    <3>1. PICK r : r = SinkOf(s)
      OBVIOUS
    <3>2. s \in Known /\ Known' = Known \ {s}
      BY <1>0, <2>3, AbortFacts
    <3>3. s \in seqs
      BY <1>0, <3>2 DEF Accounted
    <3>4. r \in Reqs /\ seqOf[r] = s /\ Emit(r, 0, "error")
      BY <2>3, <3>1, <3>3, SinkPlace
    <3>5. /\ ToSet(submitQ) \ {r} \subseteq ToSet(submitQ')
          /\ ToSet(exclQ) \ {r} \subseteq ToSet(exclQ')
          /\ Known \ {seqOf[r]} \subseteq Known'
      BY <2>2, <3>2, <3>4
    <3> QED BY <2>2, <3>4, <3>5, EmitKeepsPlaces
  <2>4. CASE UNCHANGED <<vars, ids, q, outcome, ending>>
    <3>1. Known' = Known
      BY <1>0, <2>4, EngineFrame
    <3> QED BY <2>2, <2>4, <3>1, PlacedFrame
  <2> QED BY <2>1, <2>3, <2>4 DEF AbortSeq
<1>4. CASE AbortsDrained \/ ReapStep
  <2>1. /\ UNCHANGED <<seqOf, outcome>> /\ hpc' = hpc
        /\ submitQ' = submitQ /\ exclQ' = exclQ
    BY <1>4 DEF AbortsDrained, ReapStep, reqVars, chanVars, handlerVars
  <2>2. Known' = Known
    <3>1. CASE Reap
      BY <1>0, <3>1, ReapFacts
    <3>2. CASE UNCHANGED vars
      BY <1>0, <3>2, EngineFrame
    <3> QED BY <1>4, <3>1, <3>2 DEF AbortsDrained, ReapStep
  <2> QED BY <2>1, <2>2, PlacedFrame
<1>5. CASE DrainSubmit
  <2>0. PICK r : r = Head(submitQ)
    OBVIOUS
  <2>1. PICK u \in UseStates : Add(PromptLen[r], MaxNew[r], u)
    BY <1>5, <2>0 DEF DrainSubmit
  <2>2. /\ submitQ # <<>> /\ submitQ' = Tail(submitQ) /\ exclQ' = exclQ
        /\ seqOf' = [seqOf EXCEPT ![r] = nextSeq]
        /\ hpc' = hpc /\ outcome' = outcome
    BY <1>5, <2>0 DEF DrainSubmit, handlerVars
  <2>3. r \in Reqs /\ r \in ToSet(submitQ)
        /\ ToSet(submitQ') = ToSet(submitQ) \ {r}
    <3>1. submitQ \in Seq(Reqs) /\ IsInjective(submitQ) /\ submitQ # <<>>
      BY <1>0, <2>2 DEF FacadeTypes, Waits
    <3> QED BY <2>0, <2>2, <3>1, QueuePop
  <2>4. Known' = Known \union {nextSeq}
    <3>1. PromptLen[r] \in PromptLens /\ MaxNew[r] \in MaxNews
      BY <2>3, ServingAssumption
    <3> QED BY <1>0, <2>1, <3>1, AddFacts
  <2>5. /\ seqOf'[r] = nextSeq
        /\ \A x \in Reqs \ {r} : seqOf'[x] = seqOf[x]
    BY <1>0, <2>2, <2>3 DEF FacadeTypes
  <2> SUFFICES ASSUME NEW x \in Reqs, Placed(x)
               PROVE  Placed(x)'
    BY DEF StillPlaced
  <2>6. CASE x = r
    BY <2>4, <2>5, <2>6 DEF Placed
  <2>7. CASE x # r
    BY <2>2, <2>3, <2>4, <2>5, <2>7 DEF Placed
  <2> QED BY <2>6, <2>7
<1>6. CASE SubmitRaises
  <2>0. PICK r : r = Head(submitQ)
    OBVIOUS
  <2>1. /\ submitQ # <<>> /\ submitQ' = Tail(submitQ) /\ exclQ' = exclQ
        /\ Emit(r, 0, "error") /\ ending.stage = "idle"
        /\ nextSeq' = nextSeq + 1 /\ todo' = todo /\ pc' = pc
        /\ UNCHANGED <<kvVars, queueVars, req>>
        /\ UNCHANGED <<handlerVars, doneSet, seqOf>>
    BY <1>6, <2>0 DEF SubmitRaises, AtLoop
  <2>2. r \in Reqs /\ ToSet(submitQ') = ToSet(submitQ) \ {r}
    <3>1. submitQ \in Seq(Reqs) /\ IsInjective(submitQ) /\ submitQ # <<>>
      BY <1>0, <2>1 DEF FacadeTypes, Waits
    <3> QED BY <2>0, <2>1, <3>1, QueuePop
  <2>3. Known' = Known
    BY <1>0, <2>1, RaiseFacts
  <2> QED BY <2>1, <2>2, <2>3, EmitKeepsPlaces
<1>7. CASE JobDelta \/ \E how \in {"finish", "error"} : JobEnds(how)
  <2>0. PICK r : r = Head(exclQ)
    OBVIOUS
  <2>1. PICK n \in {0, 1}, how \in {"none", "finish", "error"} :
           /\ Emit(r, n, how)
           /\ how # "none" => n = 0 /\ exclQ' = Tail(exclQ)
           /\ how = "none" => exclQ' = exclQ
    BY <1>7, <2>0 DEF JobDelta, JobEnds, chanVars
  <2>2. /\ ending.stage = "idle" /\ epc = "job" /\ UNCHANGED vars
        /\ submitQ' = submitQ /\ UNCHANGED <<handlerVars, doneSet, seqOf>>
    BY <1>7 DEF JobDelta, JobEnds, chanVars, AtLoop
  <2>3. /\ r \in Reqs /\ r \in ToSet(exclQ)
        /\ ToSet(Tail(exclQ)) = ToSet(exclQ) \ {r}
    <3>1. exclQ \in Seq(Reqs) /\ IsInjective(exclQ) /\ exclQ # <<>>
      BY <1>0, <2>2 DEF FacadeTypes, Waits
    <3> QED BY <2>0, <3>1, QueuePop
  <2>4. outcome[r] = "none" /\ Known' = Known
    BY <1>0, <2>2, <2>3, EngineFrame DEF Waits
  <2>5. ToSet(exclQ) \ {r} \subseteq ToSet(exclQ')
    BY <2>1, <2>3
  <2> QED BY <2>1, <2>2, <2>3, <2>4, <2>5, EmitKeepsPlaces
<1>8. CASE StepQuietly \/ StepRaises
  <2>1. /\ UNCHANGED <<seqOf, outcome>> /\ hpc' = hpc
        /\ submitQ' = submitQ /\ exclQ' = exclQ
    BY <1>8 DEF StepQuietly, StepRaises, reqVars, chanVars, handlerVars
  <2>2. Known' = Known
    <3>1. CASE StepQuietly
      <4>1. BeginStep \/ EndStep \/ Admit \/ Skip \/ Schedule \/ Prefill
        BY <3>1 DEF StepQuietly
      <4> QED BY <1>0, <4>1, StepFacts
    <3>2. CASE StepRaises
      <4>1. /\ UNCHANGED <<kvVars, queueVars, req>> /\ nextSeq' = nextSeq
            /\ todo' = <<>> /\ pc = "exec" /\ pc' = "idle"
        BY <3>2 DEF StepRaises
      <4> QED BY <1>0, <4>1, RaiseFacts
    <3> QED BY <1>8, <3>1, <3>2
  <2> QED BY <2>1, <2>2, PlacedFrame
<1>9. CASE \E eos \in BOOLEAN : StepDecode(eos)
  <2>1. PICK eos \in BOOLEAN : StepDecode(eos)
    BY <1>9
  <2>2. PICK x, r : x = Head(todo).seq /\ r = SinkOf(x)
    OBVIOUS
  <2>3. PICK n, how :
           /\ n = IF eos THEN 0 ELSE 1
           /\ how = IF eos \/ ids[r] + 1 >= MaxNew[r] THEN "finish" ELSE "none"
    OBVIOUS
  <2>4. /\ Decode(eos) /\ Emit(r, n, how) /\ ending.stage = "idle"
        /\ submitQ' = submitQ /\ exclQ' = exclQ
        /\ UNCHANGED <<handlerVars, doneSet, seqOf>>
    BY <2>1, <2>2, <2>3 DEF StepDecode, AtLoop, chanVars
  <2>5. PICK over \in BOOLEAN :
           over = (eos \/ req[x].generated + 1 >= req[x].maxNew)
    OBVIOUS
  <2>6. /\ x \in ToSet(running)
        /\ over => Known' = Known \ {x}
        /\ ~over => Known' = Known
    BY <1>0, <2>2, <2>4, <2>5, DecodeFacts
  <2>7. x \in Known /\ x \in seqs
    BY <1>0, <2>6 DEF Known, Accounted
  <2>8. r \in Reqs /\ seqOf[r] = x
    BY <2>2, <2>7, SinkPlace
  <2>9. /\ req[x].generated = ids[r] /\ req[x].maxNew = MaxNew[r]
        /\ outcome[r] = "none" \/ epc \in {"failing", "abortall"}
    BY <1>0, <2>7, <2>8 DEF Counts, Ends
  <2>10. outcome[r] = "none"
    BY <2>1, <2>9 DEF StepDecode, AtLoop
  <2>11. /\ how \in {"none", "finish", "error"} /\ n \in {0, 1}
         /\ over <=> how # "none"
    BY <2>3, <2>5, <2>9
  <2>12. /\ Known \ {seqOf[r]} \subseteq Known'
         /\ how = "none" => Known' = Known
    BY <2>6, <2>8, <2>11
  <2> QED BY <2>4, <2>8, <2>10, <2>11, <2>12, EmitKeepsPlaces
<1>10. CASE FailOne
  <2>0. PICK s, r : s = Min(toFail) /\ r = SinkOf(s)
    OBVIOUS
  <2>1. /\ toFail # {} /\ Emit(r, 0, "error") /\ ending.stage = "idle"
        /\ UNCHANGED vars /\ submitQ' = submitQ /\ exclQ' = exclQ
        /\ UNCHANGED <<handlerVars, doneSet, seqOf>>
    BY <1>10, <2>0 DEF FailOne, AtLoop, chanVars
  <2>2. r \in Reqs
    <3>1. toFail \subseteq Nat
      BY <1>0, SchedulerAssumption DEF FacadeTypes
    <3>2. s \in seqs
      BY <1>0, <2>0, <2>1, <3>1, MinExists DEF Accounted
    <3> QED BY <2>0, <3>2, SinkPlace
  <2>3. Known' = Known
    BY <1>0, <2>1, EngineFrame
  <2> QED BY <2>1, <2>2, <2>3, EmitKeepsPlaces
<1> QED
  BY <1>1, <1>2, <1>3, <1>4, <1>5, <1>6, <1>7, <1>8, <1>9, <1>10 DEF ExecNext

\* A sink ends its request or goes on.
LEMMA EmitEnding ==
    ASSUME NEW r, NEW n, NEW how, Emit(r, n, how)
    PROVE  ending' = ending \/ ending'.stage = "set"
<1>1. ending' = IF how # "none" /\ ~doneSet[r]
                THEN [req |-> r, stage |-> "set"] ELSE ending
  BY DEF Emit
<1> QED BY <1>1

\* An action of the executor takes no place and lets no one in; outside the
\* end of on_finish and fail it releases no one.
LEMMA ExecReleases ==
    ASSUME ExecNext
    PROVE  /\ hpc' = hpc
           /\ \/ SetDone \/ ExecCheck \/ ExecCommit
              \/ /\ UNCHANGED <<inflight, released, doneSet>>
                 /\ \/ ending' = ending
                    \/ ending.stage = "idle" /\ ending'.stage = "set"
<1>1. CASE SetDone \/ ExecCheck \/ ExecCommit
  BY <1>1 DEF SetDone, ExecCheck, ExecCommit, handlerVars
<1>2. CASE \/ Loop \/ AbortsDrained \/ DrainSubmit \/ SubmitsDrained
           \/ StartJob \/ JobsDrained \/ StepQuietly \/ StepRaises
           \/ AllFailed \/ AllAborted \/ ReapStep
  BY <1>2 DEF Loop, AbortsDrained, DrainSubmit, SubmitsDrained, StartJob,
              JobsDrained, StepQuietly, StepRaises, AllFailed, AllAborted,
              ReapStep, handlerVars, reqVars, chanVars
<1>3. CASE DrainAbort \/ AbortOne
  <2>1. PICK s : AbortSeq(s)
    BY <1>3 DEF DrainAbort, AbortOne
  <2>2. /\ ending.stage = "idle" /\ hpc' = hpc
        /\ UNCHANGED <<inflight, released, doneSet>>
    BY <1>3 DEF DrainAbort, AbortOne, AtLoop, handlerVars, chanVars
  <2>3. Emit(SinkOf(s), 0, "error") \/ ending' = ending
    BY <2>1 DEF AbortSeq
  <2> QED BY <2>2, <2>3, EmitEnding
<1>4. CASE \/ SubmitRaises \/ JobDelta \/ FailOne
           \/ \E how \in {"finish", "error"} : JobEnds(how)
           \/ \E eos \in BOOLEAN : StepDecode(eos)
  <2>1. /\ ending.stage = "idle" /\ hpc' = hpc
        /\ UNCHANGED <<inflight, released, doneSet>>
    BY <1>4 DEF SubmitRaises, JobDelta, FailOne, JobEnds, StepDecode, AtLoop,
                handlerVars, chanVars
  <2>2. \E r, n, how : Emit(r, n, how)
    BY <1>4 DEF SubmitRaises, JobDelta, FailOne, JobEnds, StepDecode
  <2> QED BY <2>1, <2>2, EmitEnding
<1> QED BY <1>1, <1>2, <1>3, <1>4 DEF ExecNext

\* A count of holders covers the places when no holder goes without one.
LEMMA HoldersCount ==
    ASSUME inflight \in Int, inflight <= Cardinality(Holders)
    PROVE  /\ Holders \subseteq Holders' /\ inflight' = inflight =>
                 inflight' <= Cardinality(Holders)'
           /\ \A r : Holders \ {r} \subseteq Holders' /\ inflight' = inflight - 1
                 => inflight' <= Cardinality(Holders)'
           /\ \A r : /\ r \notin Holders /\ Holders \union {r} \subseteq Holders'
                     /\ inflight' = inflight + 1
                 => inflight' <= Cardinality(Holders)'
<1> DEFINE H == Holders
           K == Holders'
<1>1. IsFiniteSet(H) /\ IsFiniteSet(K)
  <2>1. H \subseteq Reqs /\ K \subseteq Reqs /\ IsFiniteSet(Reqs)
    BY ServingAssumption DEF Holders
  <2> QED BY <2>1, FS_Subset
<1>2. inflight <= Cardinality(H)
  OBVIOUS
<1> HIDE DEF H, K
<1>3. Cardinality(H) \in Nat /\ Cardinality(K) \in Nat
  BY <1>1, FS_CardinalityType
<1>4. ASSUME H \subseteq K, inflight' = inflight
      PROVE  inflight' <= Cardinality(K)
  <2>1. Cardinality(H) <= Cardinality(K)
    BY <1>1, <1>4, FS_Subset
  <2> QED BY <1>2, <1>3, <1>4, <2>1
<1>5. ASSUME NEW r, H \ {r} \subseteq K, inflight' = inflight - 1
      PROVE  inflight' <= Cardinality(K)
  <2>1. /\ Cardinality(H \ {r}) \in {Cardinality(H) - 1, Cardinality(H)}
        /\ Cardinality(H \ {r}) <= Cardinality(K)
    BY <1>1, <1>5, FS_RemoveElement, FS_Subset
  <2> QED BY <1>2, <1>3, <1>5, <2>1
<1>6. ASSUME NEW r, r \notin H, H \union {r} \subseteq K,
             inflight' = inflight + 1
      PROVE  inflight' <= Cardinality(K)
  <2>1. /\ Cardinality(H \union {r}) = Cardinality(H) + 1
        /\ Cardinality(H \union {r}) <= Cardinality(K)
    BY <1>1, <1>6, FS_AddElement, FS_Subset
  <2> QED BY <1>2, <1>3, <1>6, <2>1
<1> QED BY <1>4, <1>5, <1>6 DEF H, K

\* A step that releases no one.
LEMMA HeldFrame ==
    ASSUME FacadeTypes, PlacesHeld, StillPlaced,
           UNCHANGED <<inflight, released, doneSet>>,
           \A r \in Reqs : hpc'[r] = "start" => hpc[r] = "start",
           \/ ending' = ending
           \/ ending.stage = "idle" /\ ending'.stage = "set"
    PROVE  PlacesHeld'
<1>1. Holders \subseteq Holders'
  BY DEF Holders, StillPlaced
<1>2. inflight' <= Cardinality(Holders)'
  BY <1>1, HoldersCount DEF PlacesHeld, FacadeTypes
<1> QED BY <1>2 DEF PlacesHeld

\* A handler takes a place when it is let in, and gives it back once.
LEMMA HandlerHolds ==
    ASSUME ServingInv, AllPlaced, PlacesHeld, NEW r \in Reqs, HandlerNext(r)
    PROVE  PlacesHeld'
<1>0. /\ FacadeTypes /\ Waits /\ StillPlaced /\ (Enter(r) => Placed(r)')
      /\ hpc \in [Reqs -> HandlerStates] /\ released \in [Reqs -> BOOLEAN]
      /\ inflight \in Int
  BY HandlerKeepsPlaces DEF ServingInv, FacadeTypes
<1>1. /\ UNCHANGED <<doneSet, ending>>
      /\ \A x \in Reqs : hpc'[x] = "start" => hpc[x] = "start"
  <2>1. CASE Refuse(r) \/ Enter(r) \/ Timeout(r) \/ StreamTimeout(r)
    BY <1>0, <2>1 DEF Refuse, Enter, Timeout, StreamTimeout, Goto, reqVars,
                      execVars
  <2>2. CASE Return(r) \/ AbortTimedOut(r) \/ DropUnstarted(r)
             \/ StartReading(r) \/ Finally(r)
    BY <1>0, <2>2 DEF Return, AbortTimedOut, DropUnstarted, StartReading,
                      Finally, Goto, reqVars, execVars
  <2>3. CASE (\E gone \in BOOLEAN : ReadToken(r, gone)) \/ ReadTerminal(r)
    BY <1>0, <2>3 DEF ReadToken, ReadTerminal, Goto, execVars
  <2>4. CASE HandlerCheck(r) \/ HandlerCommit(r)
    BY <1>0, <2>4 DEF HandlerCheck, HandlerCommit, Goto, reqVars, execVars
  <2> QED BY <2>1, <2>2, <2>3, <2>4 DEF HandlerNext, HandlerStep
<1>2. CASE Enter(r)
  <2>1. hpc[r] = "start" /\ inflight' = inflight + 1 /\ released' = released
    BY <1>2 DEF Enter, reqVars
  <2>2. ~released[r]
    BY <2>1 DEF PlacesHeld
  <2>3. ~Placed(r)
    <3>1. Untold(r) /\ r \notin ToSet(submitQ) \union ToSet(exclQ)
      BY <1>0, <2>1 DEF Waits
    <3>2. NoSeq \notin Known
      BY KVAssumption DEF ServingInv, Accounted, FacadeTypes
    <3> QED BY <3>1, <3>2 DEF Placed, Untold
  <2>4. r \notin Holders /\ Holders \union {r} \subseteq Holders'
    BY <1>0, <1>2, <2>1, <2>2, <2>3 DEF Holders, StillPlaced
  <2>5. inflight' <= Cardinality(Holders)'
    BY <1>0, <2>1, <2>4, HoldersCount DEF PlacesHeld
  <2> QED BY <1>1, <2>1, <2>5 DEF PlacesHeld
<1>3. CASE HandlerCommit(r)
  <2>1. /\ released' = [released EXCEPT ![r] = TRUE]
        /\ inflight' = inflight - 1 /\ hpc'[r] # "start"
    BY <1>0, <1>3 DEF HandlerCommit, Goto
  <2>2. Holders \ {r} \subseteq Holders'
    BY <1>0, <2>1 DEF Holders, StillPlaced
  <2>3. inflight' <= Cardinality(Holders)'
    BY <1>0, <2>1, <2>2, HoldersCount DEF PlacesHeld
  <2> QED BY <1>0, <1>1, <2>1, <2>3 DEF PlacesHeld
<1>4. CASE ~Enter(r) /\ ~HandlerCommit(r)
  <2>1. inflight' = inflight /\ released' = released
    BY <1>4 DEF HandlerNext, HandlerStep, Refuse, Timeout, StreamTimeout,
                Return, AbortTimedOut, DropUnstarted, StartReading, ReadToken,
                ReadTerminal, Finally, HandlerCheck, chanVars, reqVars
  <2> QED BY <1>0, <1>1, <2>1, HeldFrame
<1> QED BY <1>2, <1>3, <1>4

\* The executor releases who has ended, before it ends another.
LEMMA ExecHolds ==
    ASSUME ServingInv, PlacesHeld, ExecNext
    PROVE  PlacesHeld'
<1>0. /\ FacadeTypes /\ Ends /\ Waits /\ StillPlaced
      /\ doneSet \in [Reqs -> BOOLEAN] /\ released \in [Reqs -> BOOLEAN]
      /\ ending \in [req : Reqs, stage : {"idle", "set", "check", "commit"}]
      /\ ending.req \in Reqs /\ inflight \in Int
  BY ExecKeepsPlaces DEF ServingInv, FacadeTypes
<1>1. hpc' = hpc
  BY ExecReleases
<1>2. CASE SetDone
  <2>1. /\ ending.stage = "set" /\ inflight' = inflight /\ released' = released
        /\ doneSet' = [doneSet EXCEPT ![ending.req] = TRUE]
        /\ ending' = [ending EXCEPT !.stage = "check"]
    BY <1>2 DEF SetDone, chanVars
  <2>2. /\ ending'.stage = "check" /\ ending'.req = ending.req
        /\ doneSet'[ending.req]
        /\ \A r \in Reqs : r # ending.req => doneSet'[r] = doneSet[r]
    BY <1>0, <2>1
  <2>3. \A r \in Reqs : doneSet[r] => released[r]
    BY <2>1 DEF PlacesHeld
  <2>4. inflight' <= Cardinality(Holders)'
    <3>1. Holders \subseteq Holders'
      BY <1>0, <2>1 DEF Holders, StillPlaced
    <3> QED BY <1>0, <2>1, <3>1, HoldersCount DEF PlacesHeld
  <2> QED BY <1>1, <2>1, <2>2, <2>3, <2>4 DEF PlacesHeld
<1>3. CASE ExecCheck
  <2>1. /\ ending.stage = "check" /\ inflight' = inflight
        /\ released' = released /\ doneSet' = doneSet
        /\ ending' = IF released[ending.req] THEN Idle
                     ELSE [ending EXCEPT !.stage = "commit"]
    BY <1>3 DEF ExecCheck, chanVars, reqVars
  <2>2. inflight' <= Cardinality(Holders)'
    <3>1. Holders \subseteq Holders'
      BY <1>0, <2>1 DEF Holders, StillPlaced
    <3> QED BY <1>0, <2>1, <3>1, HoldersCount DEF PlacesHeld
  <2>3. CASE released[ending.req]
    <3>1. ending'.stage = "idle"
      BY <2>1, <2>3 DEF Idle
    <3>2. \A r \in Reqs : doneSet[r] => released[r]
      BY <2>3 DEF PlacesHeld
    <3> QED BY <1>1, <2>1, <2>2, <3>1, <3>2 DEF PlacesHeld
  <2>4. CASE ~released[ending.req]
    <3>1. ending'.stage = "commit" /\ ending'.req = ending.req
      BY <1>0, <2>1, <2>4
    <3> QED BY <1>1, <2>1, <2>2, <3>1 DEF PlacesHeld
  <2> QED BY <2>3, <2>4
<1>4. CASE ExecCommit
  <2>1. /\ ending.stage = "commit" /\ inflight' = inflight - 1
        /\ released' = [released EXCEPT ![ending.req] = TRUE]
        /\ doneSet' = doneSet /\ ending'.stage = "idle"
    BY <1>4 DEF ExecCommit, Idle
  <2>2. Holders \ {ending.req} \subseteq Holders'
    BY <1>0, <2>1 DEF Holders, StillPlaced
  <2>3. inflight' <= Cardinality(Holders)'
    BY <1>0, <2>1, <2>2, HoldersCount DEF PlacesHeld
  <2>4. hpc[ending.req] # "start"
    BY <1>0, <2>1 DEF PlacesHeld, Ends, Waits, Untold
  <2> QED BY <1>0, <1>1, <2>1, <2>3, <2>4 DEF PlacesHeld
<1>5. CASE /\ UNCHANGED <<inflight, released, doneSet>>
           /\ \/ ending' = ending
              \/ ending.stage = "idle" /\ ending'.stage = "set"
  BY <1>0, <1>1, <1>5, HeldFrame
<1> QED BY <1>2, <1>3, <1>4, <1>5, ExecReleases

\* A server that has just started holds no place.
LEMMA PlacesInit ==
    ASSUME ServingInit
    PROVE  AllPlaced /\ PlacesHeld
<1>1. /\ hpc = [r \in Reqs |-> "start"] /\ released = [r \in Reqs |-> FALSE]
      /\ doneSet = [r \in Reqs |-> FALSE] /\ inflight = 0
      /\ ending = Idle /\ ending.stage = "idle"
  BY DEF ServingInit, Idle
<1>2. inflight <= Cardinality(Holders)
  <2>1. Holders \subseteq Reqs /\ IsFiniteSet(Reqs)
    BY ServingAssumption DEF Holders
  <2>2. Cardinality(Holders) \in Nat
    BY <2>1, FS_Subset, FS_CardinalityType
  <2> QED BY <1>1, <2>2
<1> QED BY <1>1, <1>2 DEF AllPlaced, PlacesHeld

\* Any step of the server.
LEMMA PlacesNext ==
    ASSUME ServingInv, AllPlaced, PlacesHeld, [ServingNext]_servingVars
    PROVE  AllPlaced' /\ PlacesHeld'
<1>1. CASE \E r \in Reqs : HandlerNext(r)
  BY <1>1, HandlerKeepsPlaces, HandlerHolds
<1>2. CASE ExecNext
  <2>1. StillPlaced /\ PlacesHeld' /\ hpc' = hpc
    BY <1>2, ExecKeepsPlaces, ExecHolds, ExecReleases
  <2> QED BY <2>1 DEF AllPlaced, StillPlaced
<1>3. CASE Stop \/ UNCHANGED servingVars
  <2>1. /\ UNCHANGED <<vars, seqOf, outcome>> /\ hpc' = hpc
        /\ submitQ' = submitQ /\ exclQ' = exclQ
        /\ UNCHANGED <<inflight, released, doneSet>> /\ ending' = ending
    BY <1>3 DEF Stop, servingVars, handlerVars, reqVars, chanVars, execVars
  <2>2. EngineInv /\ Quiet /\ FacadeTypes
    BY DEF ServingInv
  <2>3. Known' = Known
    BY <2>1, <2>2, EngineFrame
  <2>4. StillPlaced
    BY <2>1, <2>3, PlacedFrame
  <2>5. AllPlaced'
    BY <2>1, <2>4 DEF AllPlaced, StillPlaced
  <2>6. PlacesHeld'
    BY <2>1, <2>2, <2>4, HeldFrame
  <2> QED BY <2>5, <2>6
<1> QED BY <1>1, <1>2, <1>3 DEF ServingNext, RunningNext

\* Every request that was let in has a place, and every place a holder.
LEMMA PlacesInvariant == ServingSpec => [](ServingInv /\ AllPlaced /\ PlacesHeld)
<1>1. ServingInit => AllPlaced /\ PlacesHeld
  BY PlacesInit
<1>2. /\ ServingInv /\ AllPlaced /\ PlacesHeld /\ [ServingNext]_servingVars
      => AllPlaced' /\ PlacesHeld'
  BY PlacesNext
<1> QED BY <1>1, <1>2, ServingInvariant, PTL DEF ServingSpec

\* A request that was let in and has not ended is always with the executor:
\* in one of its queues, in the scheduler, or being ended.
THEOREM NobodyForgotten == ServingSpec => []NotForgotten
<1>1. ServingInv /\ AllPlaced => NotForgotten
  <2> SUFFICES ASSUME ServingInv, NEW r \in Reqs, Placed(r), ~doneSet[r]
               PROVE  \/ r \in ToSet(submitQ) \union ToSet(exclQ)
                      \/ seqOf[r] \in Live \union ToSet(skipped)
                      \/ ending.stage = "set" /\ ending.req = r
    BY DEF AllPlaced, NotForgotten
  <2>1. outcome[r] # "none" => ending.stage = "set" /\ ending.req = r
    BY DEF ServingInv, Ends
  <2> QED BY <2>1 DEF Placed, Live, Known
<1> QED BY <1>1, PlacesInvariant, PTL

\* Whatever timeouts, clients, aborts and failures do, a place in flight is
\* that of a request the executor has or is just ending.
THEOREM NoPlaceEverLost == ServingSpec => []NoPlaceLost
<1>1. ServingInv /\ PlacesHeld => NoPlaceLost
  <2> SUFFICES ASSUME ServingInv, PlacesHeld PROVE NoPlaceLost
    OBVIOUS
  <2> DEFINE W == {r \in Reqs :
                     \/ r \in ToSet(submitQ) \union ToSet(exclQ)
                     \/ seqOf[r] \in Live \union ToSet(skipped)
                     \/ ending.stage # "idle" /\ ending.req = r}
  <2>1. ASSUME NEW r \in Holders PROVE r \in W
    <3>1. r \in Reqs /\ Placed(r) /\ ~released[r]
      BY DEF Holders
    <3>2. outcome[r] # "none" => ending.stage # "idle" /\ ending.req = r
      <4>1. outcome[r] # "none" /\ ~doneSet[r] =>
               ending.stage = "set" /\ ending.req = r
        BY <3>1 DEF ServingInv, Ends
      <4>2. doneSet[r] =>
               ending.stage \in {"check", "commit"} /\ ending.req = r
        BY <3>1 DEF PlacesHeld
      <4> QED BY <4>1, <4>2
    <3> QED BY <3>1, <3>2 DEF Placed, Live, Known
  <2>2. IsFiniteSet(W) /\ IsFiniteSet(Holders)
    <3>1. W \subseteq Reqs /\ Holders \subseteq Reqs /\ IsFiniteSet(Reqs)
      BY ServingAssumption DEF Holders
    <3> HIDE DEF W
    <3> QED BY <3>1, FS_Subset
  <2>3. inflight \in Int /\ inflight <= Cardinality(Holders)
    BY DEF ServingInv, FacadeTypes, PlacesHeld
  <2>4. inflight <= Cardinality(W)
    <3> HIDE DEF W
    <3>1. Cardinality(Holders) <= Cardinality(W)
      BY <2>1, <2>2, FS_Subset
    <3>2. Cardinality(Holders) \in Nat /\ Cardinality(W) \in Nat
      BY <2>2, FS_CardinalityType
    <3> QED BY <2>3, <3>1, <3>2
  <2> QED BY <2>4 DEF NoPlaceLost
<1> QED BY <1>1, PlacesInvariant, PTL

=============================================================================

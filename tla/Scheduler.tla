------------------------------ MODULE Scheduler ------------------------------
(***************************************************************************)
(* The continuous-batching scheduler: runtime/scheduler.py, driven the way *)
(* BatchedInferenceEngine.step (serving/executor.py) drives it.            *)
(*                                                                         *)
(* The scheduler belongs to one thread.  A step is a loop over the waiting *)
(* deque (pump), a snapshot of one action per running sequence (schedule), *)
(* and an advance per action; each iteration of those loops is an action   *)
(* here, and between them pc keeps every other call out, as the single     *)
(* thread does.  Calls from outside (add, abort) come between steps.       *)
(*                                                                         *)
(* Request.finished is not kept: the code sets it where it removes the     *)
(* request from the running dict or the waiting deque, so a request that   *)
(* is in either is not finished.                                           *)
(***************************************************************************)
EXTENDS KVBlocks, SequencesExt

CONSTANTS
    ChunkSize,        \* prompt tokens per prefill action
    MaxConcurrency,   \* running sequences at once
    PromptLens,       \* prompt lengths the callers use
    MaxNews,          \* max_new values; the facade refuses less than 1
    UseStates         \* values of use_state (one per model)

ASSUME SchedulerAssumption ==
    /\ ChunkSize \in Nat \ {0}
    /\ MaxConcurrency \in Nat \ {0}
    /\ PromptLens \subseteq Nat
    /\ MaxNews \subseteq Nat \ {0}
    /\ UseStates \subseteq BOOLEAN
    /\ SeqIds \subseteq Nat

VARIABLES
    waiting,   \* _waiting, a deque of ids
    skipped,   \* pump's local list of requests that did not fit
    running,   \* keys of _running in insertion order
    done,      \* the list `done`
    req,       \* the Request records
    todo,      \* actions of the current Schedule still to execute
    pc,        \* "idle", "pump" (inside pump), "exec" (after schedule)
    nextSeq    \* BatchedInferenceEngine._next_seq

queueVars == <<waiting, skipped, running, done>>
schedVars == <<queueVars, req, todo, pc, nextSeq>>
vars == <<kvVars, schedVars>>

Request ==
    [promptLen : PromptLens \union {0}, maxNew : MaxNews \union {0},
     useState : BOOLEAN, position : Nat, generated : Nat]

NewRequest(p, m, u) ==
    [promptLen |-> p, maxNew |-> m, useState |-> u,
     position |-> 0, generated |-> 0]

\* The schedule entry of a sequence: Action(phase, length).
Entry == [seq : SeqIds, phase : {"prefill", "decode"}, length : Nat]

SchedTypeOK ==
    /\ waiting \in Seq(SeqIds)
    /\ skipped \in Seq(SeqIds)
    /\ running \in Seq(SeqIds)
    /\ done \in Seq(SeqIds)
    /\ req \in [SeqIds -> Request]
    /\ todo \in Seq(Entry)
    /\ pc \in {"idle", "pump", "exec"}
    /\ nextSeq \in Nat

TypeOK == KVTypeOK /\ SchedTypeOK

Init ==
    /\ KVInit
    /\ waiting = <<>>
    /\ skipped = <<>>
    /\ running = <<>>
    /\ done = <<>>
    /\ req = [s \in SeqIds |-> NewRequest(0, 0, FALSE)]
    /\ todo = <<>>
    /\ pc = "idle"
    /\ nextSeq = 0

\* Smaller of a chunk and what is left of the prompt.
ChunkOf(r) ==
    LET left == r.promptLen - r.position IN
    IF left < ChunkSize THEN left ELSE ChunkSize

\* Mutant of WorstBlocks: only the prompt is reserved.
WorstBlocksOfPrompt(s) == BlocksForTokens(req[s].promptLen)

\* Blocks that cover the whole prompt and every token it may generate.
WorstBlocks(s) == BlocksForTokens(req[s].promptLen + req[s].maxNew)

\* Mutants of Accepts: the state slots forgotten, one place too many.
AcceptsWithoutSlot(s) ==
    /\ Len(running) < MaxConcurrency
    /\ WorstBlocks(s) <= Cardinality(kv.free)

AcceptsOneMore(s) ==
    /\ Len(running) <= MaxConcurrency
    /\ req[s].useState => state.free # {}
    /\ WorstBlocks(s) <= Cardinality(kv.free)

Accepts(s) ==
    /\ Len(running) < MaxConcurrency
    /\ req[s].useState => state.free # {}
    /\ WorstBlocks(s) <= Cardinality(kv.free)

(***************************************************************************)
(* Calls between steps.                                                    *)
(***************************************************************************)
\* Mutant of Add: the counter is incremented before it is read.
AddPreIncremented(p, m, u) ==
    /\ pc = "idle"
    /\ nextSeq \in SeqIds
    /\ waiting' = Append(waiting, nextSeq + 1)
    /\ req' = [req EXCEPT ![nextSeq + 1] = NewRequest(p, m, u)]
    /\ nextSeq' = nextSeq + 1
    /\ UNCHANGED <<kvVars, skipped, running, done, todo, pc>>

\* Engine submit: a fresh id, then Scheduler.add (whose duplicate check can
\* not fail for it).
Add(p, m, u) ==
    /\ pc = "idle"
    /\ nextSeq \in SeqIds
    /\ nextSeq \notin ToSet(waiting) \union ToSet(running)
    /\ waiting' = Append(waiting, nextSeq)
    /\ req' = [req EXCEPT ![nextSeq] = NewRequest(p, m, u)]
    /\ nextSeq' = nextSeq + 1
    /\ UNCHANGED <<kvVars, skipped, running, done, todo, pc>>

\* Mutant of AbortRunning: called by another thread in the middle of a step.
AbortRunningAnytime(i) ==
    /\ FreeSequence(running[i])
    /\ running' = RemoveAt(running, i)
    /\ done' = Append(done, running[i])
    /\ UNCHANGED <<waiting, skipped, req, todo, pc, nextSeq>>

AbortRunning(i) ==
    /\ pc = "idle"
    /\ FreeSequence(running[i])
    /\ running' = RemoveAt(running, i)
    /\ done' = Append(done, running[i])
    /\ UNCHANGED <<waiting, skipped, req, todo, pc, nextSeq>>

AbortWaiting(i) ==
    /\ pc = "idle"
    /\ waiting[i] \notin ToSet(running)
    /\ waiting' = RemoveAt(waiting, i)
    /\ done' = Append(done, waiting[i])
    /\ UNCHANGED <<kvVars, skipped, running, req, todo, pc, nextSeq>>

(***************************************************************************)
(* One step: pump, schedule, advance.                                      *)
(***************************************************************************)
BeginStep ==
    /\ pc = "idle"
    /\ pc' = "pump"
    /\ UNCHANGED <<kvVars, queueVars, req, todo, nextSeq>>

\* The head of the deque fits: new_sequence with room for the worst case.
Admit ==
    /\ pc = "pump"
    /\ waiting # <<>>
    /\ Accepts(Head(waiting))
    /\ NewSequence(Head(waiting), WorstBlocks(Head(waiting)) * BlockSize,
                   req[Head(waiting)].useState)
    /\ waiting' = Tail(waiting)
    /\ running' = Append(running, Head(waiting))
    /\ UNCHANGED <<skipped, done, req, todo, pc, nextSeq>>

\* Mutant of Skip: a request that does not fit ends the pass.
SkipAll ==
    /\ pc = "pump"
    /\ waiting # <<>>
    /\ ~Accepts(Head(waiting))
    /\ waiting' = <<>>
    /\ skipped' = skipped \o waiting
    /\ UNCHANGED <<kvVars, running, done, req, todo, pc, nextSeq>>

\* It does not fit: pump goes on with the requests behind it.
Skip ==
    /\ pc = "pump"
    /\ waiting # <<>>
    /\ ~Accepts(Head(waiting))
    /\ waiting' = Tail(waiting)
    /\ skipped' = Append(skipped, Head(waiting))
    /\ UNCHANGED <<kvVars, running, done, req, todo, pc, nextSeq>>

EntryFor(s) ==
    IF req[s].position < req[s].promptLen
    THEN [seq |-> s, phase |-> "prefill", length |-> ChunkOf(req[s])]
    ELSE [seq |-> s, phase |-> "decode", length |-> 1]

\* Mutant of Schedule: extendleft without reversed().
ScheduleReversing ==
    /\ pc = "pump"
    /\ waiting = <<>>
    /\ waiting' = Reverse(skipped)
    /\ skipped' = <<>>
    /\ todo' = [i \in DOMAIN running |-> EntryFor(running[i])]
    /\ pc' = "exec"
    /\ UNCHANGED <<kvVars, running, done, req, nextSeq>>

\* The deque is empty: the skipped requests go back to its front in their
\* order, and schedule takes one action for each running sequence.
Schedule ==
    /\ pc = "pump"
    /\ waiting = <<>>
    /\ waiting' = skipped
    /\ skipped' = <<>>
    /\ todo' = [i \in DOMAIN running |-> EntryFor(running[i])]
    /\ pc' = "exec"
    /\ UNCHANGED <<kvVars, running, done, req, nextSeq>>

\* Mutants of FinishIf: the sequence stays in the running dict, its blocks
\* and slot are not freed.
FinishKeepsRunning(over, s) ==
    IF over
    THEN /\ done' = Append(done, s)
         /\ UNCHANGED <<kvVars, running>>
    ELSE UNCHANGED <<kvVars, running, done>>

FinishLeaks(over, s) ==
    IF over
    THEN /\ \E i \in DOMAIN running :
               /\ running[i] = s
               /\ running' = RemoveAt(running, i)
         /\ done' = Append(done, s)
         /\ UNCHANGED kvVars
    ELSE UNCHANGED <<kvVars, running, done>>

\* advance's ending for sequence s whose record is now r.
FinishIf(over, s) ==
    IF over
    THEN /\ FreeSequence(s)
         /\ \E i \in DOMAIN running :
               /\ running[i] = s
               /\ running' = RemoveAt(running, i)
         /\ done' = Append(done, s)
    ELSE UNCHANGED <<kvVars, running, done>>

\* advance of a prefill action.  No token is generated, and max_new is at
\* least 1, so the finish test fails, as the code evaluates it.
Prefill ==
    LET a == Head(todo)
        r == req[a.seq]
        end == r.position + a.length
        position == IF end < r.promptLen THEN end ELSE r.promptLen IN
    /\ pc = "exec"
    /\ todo # <<>>
    /\ a.phase = "prefill"
    /\ req' = [req EXCEPT ![a.seq].position = position]
    /\ FinishIf(position >= r.promptLen /\ r.generated >= r.maxNew, a.seq)
    /\ todo' = Tail(todo)
    /\ UNCHANGED <<waiting, skipped, pc, nextSeq>>

\* advance of a decode action; eos says the sampled token was a stop token.
Decode(eos) ==
    LET a == Head(todo)
        r == req[a.seq]
        generated == r.generated + a.length IN
    /\ pc = "exec"
    /\ todo # <<>>
    /\ a.phase = "decode"
    /\ req' = [req EXCEPT ![a.seq].generated = generated,
                          ![a.seq].position = r.promptLen]
    /\ FinishIf(eos \/ generated >= r.maxNew, a.seq)
    /\ todo' = Tail(todo)
    /\ UNCHANGED <<waiting, skipped, pc, nextSeq>>

EndStep ==
    /\ pc = "exec"
    /\ todo = <<>>
    /\ pc' = "idle"
    /\ UNCHANGED <<kvVars, queueVars, req, todo, nextSeq>>

StepNext ==
    \/ BeginStep
    \/ Admit
    \/ Skip
    \/ Schedule
    \/ Prefill
    \/ \E eos \in BOOLEAN : Decode(eos)
    \/ EndStep

CallNext ==
    \/ \E p \in PromptLens, m \in MaxNews, u \in UseStates : Add(p, m, u)
    \/ \E i \in DOMAIN running : AbortRunning(i)
    \/ \E i \in DOMAIN waiting : AbortWaiting(i)

Next == StepNext \/ CallNext

Spec == Init /\ [][Next]_vars

\* The executor thread keeps stepping; nobody is obliged to add or abort.
FairSpec == Spec /\ WF_vars(StepNext)

-----------------------------------------------------------------------------
(***************************************************************************)
(* Properties.                                                             *)
(***************************************************************************)
Queue == skipped \o waiting

\* Every submitted request is in exactly one of the waiting queue, the
\* running dict and the done list, once: pump, advance and abort never lose
\* a request and never finish one twice.  What is left of the snapshot a step
\* executes names requests whose place is the running dict, whatever its
\* earlier entries have ended.
OnePlace ==
    LET places == Queue \o running \o done IN
    /\ Len(places) = nextSeq
    /\ ToSet(places) = 0 .. nextSeq - 1
    /\ \A k \in DOMAIN todo : todo[k].seq \in ToSet(running)

\* Backfill reorders nothing among those it leaves: the requests still
\* waiting are in arrival order after any number of pumps and aborts
\* (pump's extendleft of the reversed skipped list).
ArrivalOrder ==
    \A i, j \in DOMAIN Queue : i < j => Queue[i] < Queue[j]

\* A running sequence holds its worst case from admission to its end, and
\* only running sequences hold anything: decoding never has to ask for a
\* block, and what a request has written always fits in what it holds.
ReservationHeld ==
    /\ tables = ToSet(running)
    /\ \A s \in tables :
          /\ Cardinality(blocks[s]) = WorstBlocks(s)
          /\ req[s].position + req[s].generated
                <= Cardinality(blocks[s]) * BlockSize
          /\ slot[s] # NoSlot <=> req[s].useState

\* _accepts is exact: once it has said yes, new_sequence neither raises
\* OutOfCapacity (the except branch of pump is never taken) nor finds the
\* sequence registered.
AdmitNeverRaises ==
    pc = "pump" /\ waiting # <<>> /\ Accepts(Head(waiting)) =>
        /\ Head(waiting) \notin tables
        /\ LowestFree(kv, WorstBlocks(Head(waiting))) # {}
        /\ req[Head(waiting)].useState => LowestFree(state, 1) # {}

\* One pass of pump is enough: when it ends, no request it leaves waiting
\* could be admitted.
PumpIsMaximal ==
    [][Schedule => \A i \in DOMAIN waiting' : ~Accepts(waiting'[i])]_vars

\* A request that fits the configured capacities at all is finished in the
\* end, whatever it waits behind, when only finitely many requests arrive.
Fits(s) ==
    /\ WorstBlocks(s) <= KVCapacity
    /\ req[s].useState => StateCapacity > 0

FitFinishes ==
    \A s \in SeqIds : (s < nextSeq /\ Fits(s)) ~> (s \in ToSet(done))

(***************************************************************************)
(* The scheduler as a RequestService: a request is queued while it is in   *)
(* the deque or in pump's skipped list, and active while it is running.    *)
(***************************************************************************)
PhaseOf(s) ==
    CASE s \in ToSet(Queue)   -> "queued"
      [] s \in ToSet(running) -> "active"
      [] s \in ToSet(done)    -> "over"
      [] OTHER                -> "new"

NeedOf(s) ==
    [blocks |-> WorstBlocks(s), slots |-> IF req[s].useState THEN 1 ELSE 0]

Service == INSTANCE RequestService WITH
    phase      <- [s \in SeqIds |-> PhaseOf(s)],
    need       <- [s \in SeqIds |-> NeedOf(s)],
    freeBlocks <- Cardinality(kv.free),
    freeSlots  <- Cardinality(state.free)

\* The scheduler keeps the promise of RequestService: every step of add,
\* pump, advance and abort is one of its steps or changes nothing it sees.
ImplementsService == Service!ServiceSpec

==============================================================================

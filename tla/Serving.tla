------------------------------- MODULE Serving -------------------------------
(***************************************************************************)
(* The serving facade: serving/batched_server.py with the sinks, abort,    *)
(* reap and step of BatchedInferenceEngine (serving/executor.py), over the *)
(* scheduler of module Scheduler.                                          *)
(*                                                                         *)
(* Every HTTP request has a handler thread; one executor thread owns the   *)
(* engine.  They meet in three queues (submits, exclusive jobs, aborts),   *)
(* in the request object (its event, its stream queue, its `_released`     *)
(* flag) and in the in-flight counter, which alone is under the lock.      *)
(* Handlers and executor interleave between any two actions.               *)
(*                                                                         *)
(* A request is a complete_detail, a stream_complete, or one of the        *)
(* exclusive (vision) variants of the two; chat_detail and stream_chat     *)
(* differ from these only in building the prompt.                          *)
(***************************************************************************)
EXTENDS Scheduler

CONSTANTS
    Reqs,         \* requests the server receives, one handler thread each
    Kinds,        \* Kinds[r]: the calls request r may be
    PromptLen,    \* PromptLen[r]: encoded prompt length
    MaxNew,       \* MaxNew[r]: max_tokens
    MaxContext,   \* the model's max_position_embeddings
    MaxQueued,    \* in-flight limit, beyond which a request gets a 429
    MaxDeltas     \* bound: text deltas an exclusive stream yields

ASSUME ServingAssumption ==
    /\ Kinds \in [Reqs -> SUBSET {"complete", "stream", "excl", "exclstream"}]
    /\ PromptLen \in [Reqs -> PromptLens]
    /\ MaxNew \in [Reqs -> MaxNews]
    /\ MaxContext \in Nat \ {0}
    /\ MaxQueued \in Nat \ {0}
    /\ MaxDeltas \in Nat
    /\ IsFiniteSet(Reqs) /\ Reqs # {}
    /\ 0 .. Cardinality(Reqs) - 1 \subseteq SeqIds

VARIABLES
    kind,       \* the call each handler makes, fixed from the start
    hpc,        \* where each handler is
    reply,      \* what it has for its client: "none", "ok", "error"
    taken,      \* stream events it has read
    inflight,   \* _inflight
    submitQ,    \* _submit_q: requests
    exclQ,      \* _excl_q: requests; its head stays while the job runs
    abortQ,     \* _abort_q: sequence ids
    doneSet,    \* _Req.done is set
    outcome,    \* _Req.reason / _Req.error: "none", "finish", "error"
    released,   \* _Req._released
    q,          \* _Req.q: "tok", "finish", "error"
    ids,        \* length of _Req.ids (text deltas, for an exclusive stream)
    seqOf,      \* _Req.seq_id, NoSeq for None
    seqs,       \* keys of BatchedInferenceEngine._seqs
    epc,        \* where the executor thread is
    ending,     \* the on_finish / fail it is inside: request and stage
    toFail,     \* _fail_all_batched: sequences still to fail
    stop        \* _stop is set

handlerVars == <<kind, hpc, reply, taken>>
reqVars == <<doneSet, outcome, released, q, ids, seqOf>>
chanVars == <<submitQ, exclQ, abortQ, inflight>>
execVars == <<seqs, epc, ending, toFail>>
servingVars ==
    <<vars, handlerVars, reqVars, chanVars, execVars, stop>>

IsStream(r) == kind[r] \in {"stream", "exclstream"}
IsText(r) == kind[r] \in {"complete", "stream"}

Idle == [req |-> CHOOSE r \in Reqs : TRUE, stage |-> "idle"]

HandlerStates ==
    {"start", "wait", "ready", "read", "timedout", "finally", "check",
     "commit", "over"}
ExecStates ==
    {"top", "aborts", "aborted", "submits", "excl", "job", "step",
     "stepping", "failing", "abortall", "reap", "exit"}

ServingTypeOK ==
    /\ TypeOK
    /\ \A r \in Reqs : kind[r] \in Kinds[r]
    /\ hpc \in [Reqs -> HandlerStates]
    /\ reply \in [Reqs -> {"none", "ok", "error"}]
    /\ taken \in [Reqs -> Nat]
    /\ inflight \in Int
    /\ submitQ \in Seq(Reqs)
    /\ exclQ \in Seq(Reqs)
    /\ abortQ \in Seq(SeqIds)
    /\ doneSet \in [Reqs -> BOOLEAN]
    /\ outcome \in [Reqs -> {"none", "finish", "error"}]
    /\ released \in [Reqs -> BOOLEAN]
    /\ q \in [Reqs -> Seq({"tok", "finish", "error"})]
    /\ ids \in [Reqs -> Nat]
    /\ seqOf \in [Reqs -> SeqIds \union {NoSeq}]
    /\ seqs \subseteq SeqIds
    /\ epc \in ExecStates
    /\ ending \in [req : Reqs, stage : {"idle", "set", "check", "commit"}]
    /\ toFail \subseteq SeqIds
    /\ stop \in BOOLEAN

ServingInit ==
    /\ Init
    /\ kind \in [Reqs -> UNION {Kinds[r] : r \in Reqs}]
    /\ \A r \in Reqs : kind[r] \in Kinds[r]
    /\ hpc = [r \in Reqs |-> "start"]
    /\ reply = [r \in Reqs |-> "none"]
    /\ taken = [r \in Reqs |-> 0]
    /\ inflight = 0
    /\ submitQ = <<>>
    /\ exclQ = <<>>
    /\ abortQ = <<>>
    /\ doneSet = [r \in Reqs |-> FALSE]
    /\ outcome = [r \in Reqs |-> "none"]
    /\ released = [r \in Reqs |-> FALSE]
    /\ q = [r \in Reqs |-> <<>>]
    /\ ids = [r \in Reqs |-> 0]
    /\ seqOf = [r \in Reqs |-> NoSeq]
    /\ seqs = {}
    /\ epc = "top"
    /\ ending = Idle
    /\ toFail = {}
    /\ stop = FALSE

(***************************************************************************)
(* Handler threads.                                                        *)
(***************************************************************************)
\* _precheck: only text requests are sized before they are queued.
Acceptable(r) ==
    IsText(r) =>
        /\ PromptLen[r] + MaxNew[r] <= MaxContext
        /\ BlocksForTokens(PromptLen[r] + MaxNew[r]) <= KVCapacity

Goto(r, at) == hpc' = [hpc EXCEPT ![r] = at]

\* A 400 from _precheck or a 429 from _admit.
Refuse(r) ==
    /\ hpc[r] = "start"
    /\ ~Acceptable(r) \/ inflight >= MaxQueued
    /\ Goto(r, "over")
    /\ reply' = [reply EXCEPT ![r] = "error"]
    /\ UNCHANGED <<vars, kind, taken, reqVars, chanVars, execVars, stop>>

\* _admit, then the request is queued for the executor: nothing another
\* thread does between the two tells them apart.
Enter(r) ==
    /\ hpc[r] = "start"
    /\ Acceptable(r)
    /\ inflight < MaxQueued
    /\ inflight' = inflight + 1
    /\ IF IsText(r)
       THEN submitQ' = Append(submitQ, r) /\ UNCHANGED exclQ
       ELSE exclQ' = Append(exclQ, r) /\ UNCHANGED submitQ
    /\ Goto(r, IF IsStream(r) THEN "ready" ELSE "wait")
    /\ UNCHANGED <<vars, kind, reply, taken, reqVars, abortQ, execVars, stop>>

\* done.wait returned: the result, or the error, raised through the except
\* clause that releases.
Return(r) ==
    /\ hpc[r] = "wait"
    /\ doneSet[r]
    /\ IF outcome[r] = "error"
       THEN Goto(r, "check") /\ UNCHANGED reply
       ELSE Goto(r, "over") /\ reply' = [reply EXCEPT ![r] = "ok"]
    /\ UNCHANGED <<vars, kind, taken, reqVars, chanVars, execVars, stop>>

\* done.wait timed out.
Timeout(r) ==
    /\ hpc[r] = "wait"
    /\ ~doneSet[r]
    /\ Goto(r, IF IsText(r) THEN "timedout" ELSE "check")
    /\ UNCHANGED <<vars, kind, reply, taken, reqVars, chanVars, execVars, stop>>

\* Mutant of RequestAbort: the seq_id is not tested for None.
RequestAbortUnchecked(r) ==
    abortQ' = IF IsText(r) /\ ~doneSet[r]
              THEN Append(abortQ, seqOf[r]) ELSE abortQ

\* _request_abort: nothing is sent for a request that has no seq_id yet.
RequestAbort(r) ==
    abortQ' = IF IsText(r) /\ seqOf[r] # NoSeq /\ ~doneSet[r]
              THEN Append(abortQ, seqOf[r]) ELSE abortQ

AbortTimedOut(r) ==
    /\ hpc[r] = "timedout"
    /\ RequestAbort(r)
    /\ Goto(r, "check")
    /\ UNCHANGED <<vars, kind, reply, taken, reqVars, submitQ, exclQ, inflight,
                   execVars, stop>>

\* The connection breaks while the headers are sent: the stream generator
\* was never started, so its finally clause does not run.
DropUnstarted(r) ==
    /\ hpc[r] = "ready"
    /\ Goto(r, "over")
    /\ UNCHANGED <<vars, kind, reply, taken, reqVars, chanVars, execVars, stop>>

StartReading(r) ==
    /\ hpc[r] = "ready"
    /\ Goto(r, "read")
    /\ UNCHANGED <<vars, kind, reply, taken, reqVars, chanVars, execVars, stop>>

\* A delta is yielded to the client, who may have gone: GeneratorExit.
ReadToken(r, gone) ==
    /\ hpc[r] = "read"
    /\ q[r] # <<>>
    /\ Head(q[r]) = "tok"
    /\ q' = [q EXCEPT ![r] = Tail(@)]
    /\ taken' = [taken EXCEPT ![r] = @ + 1]
    /\ IF gone THEN Goto(r, "finally") ELSE UNCHANGED hpc
    /\ UNCHANGED <<vars, kind, reply, doneSet, outcome, released, ids, seqOf,
                   chanVars, execVars, stop>>

ReadTerminal(r) ==
    /\ hpc[r] = "read"
    /\ q[r] # <<>>
    /\ Head(q[r]) # "tok"
    /\ q' = [q EXCEPT ![r] = Tail(@)]
    /\ reply' = [reply EXCEPT ![r] = IF Head(q[r]) = "finish"
                                     THEN "ok" ELSE "error"]
    /\ Goto(r, "finally")
    /\ UNCHANGED <<vars, kind, taken, doneSet, outcome, released, ids, seqOf,
                   chanVars, execVars, stop>>

\* q.get timed out: a text stream asks for an abort on the way out.
StreamTimeout(r) ==
    /\ hpc[r] = "read"
    /\ q[r] = <<>>
    /\ RequestAbort(r)
    /\ Goto(r, "finally")
    /\ UNCHANGED <<vars, kind, reply, taken, reqVars, submitQ, exclQ, inflight,
                   execVars, stop>>

\* The finally clause of the stream generators.
Finally(r) ==
    /\ hpc[r] = "finally"
    /\ IF doneSet[r]
       THEN Goto(r, "over") /\ UNCHANGED abortQ
       ELSE Goto(r, "check") /\ RequestAbort(r)
    /\ UNCHANGED <<vars, kind, reply, taken, reqVars, submitQ, exclQ, inflight,
                   execVars, stop>>

\* _release in the handler: the flag is read outside the lock.
HandlerCheck(r) ==
    /\ hpc[r] = "check"
    /\ IF released[r]
       THEN /\ Goto(r, "over")
            /\ reply' = [reply EXCEPT ![r] = IF @ = "none" THEN "error" ELSE @]
       ELSE /\ Goto(r, "commit")
            /\ UNCHANGED reply
    /\ UNCHANGED <<vars, kind, taken, reqVars, chanVars, execVars, stop>>

HandlerCommit(r) ==
    /\ hpc[r] = "commit"
    /\ released' = [released EXCEPT ![r] = TRUE]
    /\ inflight' = inflight - 1
    /\ Goto(r, "over")
    /\ reply' = [reply EXCEPT ![r] = IF @ = "none" THEN "error" ELSE @]
    /\ UNCHANGED <<vars, kind, taken, doneSet, outcome, q, ids, seqOf, submitQ,
                   exclQ, abortQ, execVars, stop>>

\* The steps a handler takes by itself once it has entered.
HandlerStep(r) ==
    \/ Return(r)
    \/ AbortTimedOut(r)
    \/ DropUnstarted(r)
    \/ StartReading(r)
    \/ \E gone \in BOOLEAN : ReadToken(r, gone)
    \/ ReadTerminal(r)
    \/ Finally(r)
    \/ HandlerCheck(r)
    \/ HandlerCommit(r)

HandlerNext(r) ==
    \/ Refuse(r)
    \/ Enter(r)
    \/ Timeout(r)
    \/ StreamTimeout(r)
    \/ HandlerStep(r)

(***************************************************************************)
(* The executor thread.                                                    *)
(***************************************************************************)
SinkOf(s) == CHOOSE r \in Reqs : seqOf[r] = s

\* The executor is in its own code, not inside an on_finish or a fail.
AtLoop(at) == epc = at /\ ending.stage = "idle"

\* Mutants of Emit: the done event is not tested, the terminal event is put
\* before the token.
EmitUnguarded(r, n, how) ==
    LET ends == how # "none" IN
    /\ ids' = [ids EXCEPT ![r] = @ + n]
    /\ outcome' = IF ends THEN [outcome EXCEPT ![r] = how] ELSE outcome
    /\ ending' = IF ends THEN [req |-> r, stage |-> "set"] ELSE ending
    /\ q' = IF ~IsStream(r) THEN q
            ELSE [q EXCEPT ![r] = @ \o [i \in 1 .. n |-> "tok"]
                                    \o IF ends THEN <<how>> ELSE <<>>]

EmitEndFirst(r, n, how) ==
    LET ends == how # "none" /\ ~doneSet[r] IN
    /\ ids' = [ids EXCEPT ![r] = @ + n]
    /\ outcome' = IF ends THEN [outcome EXCEPT ![r] = how] ELSE outcome
    /\ ending' = IF ends THEN [req |-> r, stage |-> "set"] ELSE ending
    /\ q' = IF ~IsStream(r) THEN q
            ELSE [q EXCEPT ![r] = @ \o (IF ends THEN <<how>> ELSE <<>>)
                                    \o [i \in 1 .. n |-> "tok"]]

\* on_token n times, then on_finish or fail up to the terminal event; both
\* do nothing for a request that is done.
Emit(r, n, how) ==
    LET ends == how # "none" /\ ~doneSet[r] IN
    /\ ids' = [ids EXCEPT ![r] = @ + n]
    /\ outcome' = IF ends THEN [outcome EXCEPT ![r] = how] ELSE outcome
    /\ ending' = IF ends THEN [req |-> r, stage |-> "set"] ELSE ending
    /\ q' = IF ~IsStream(r) THEN q
            ELSE [q EXCEPT ![r] = @ \o [i \in 1 .. n |-> "tok"]
                                    \o IF ends THEN <<how>> ELSE <<>>]

\* The rest of on_finish and fail: the event is set, then _release, whose
\* test of the flag is outside the lock.
SetDone ==
    /\ ending.stage = "set"
    /\ doneSet' = [doneSet EXCEPT ![ending.req] = TRUE]
    /\ ending' = [ending EXCEPT !.stage = "check"]
    /\ UNCHANGED <<vars, handlerVars, outcome, released, q, ids, seqOf,
                   chanVars, seqs, epc, toFail, stop>>

\* Mutant of ExecCheck: the place is left for the handler to release.
ExecCheckLeaves ==
    /\ ending.stage = "check"
    /\ ending' = Idle
    /\ UNCHANGED <<vars, handlerVars, reqVars, chanVars, seqs, epc, toFail,
                   stop>>

ExecCheck ==
    /\ ending.stage = "check"
    /\ ending' = IF released[ending.req] THEN Idle
                 ELSE [ending EXCEPT !.stage = "commit"]
    /\ UNCHANGED <<vars, handlerVars, reqVars, chanVars, seqs, epc, toFail,
                   stop>>

ExecCommit ==
    /\ ending.stage = "commit"
    /\ released' = [released EXCEPT ![ending.req] = TRUE]
    /\ inflight' = inflight - 1
    /\ ending' = Idle
    /\ UNCHANGED <<vars, handlerVars, doneSet, outcome, q, ids, seqOf,
                   submitQ, exclQ, abortQ, seqs, epc, toFail, stop>>

\* Mutant of Reap: finished sequences stay in _seqs.
ReapKeepsSeqs ==
    /\ done' = <<>>
    /\ UNCHANGED <<kvVars, waiting, skipped, running, req, todo, pc, nextSeq,
                   seqs>>

\* reap: every sequence of the serving path has a sink, so all finished
\* ones are dropped.
Reap ==
    /\ seqs' = seqs \ ToSet(done)
    /\ done' = <<>>
    /\ UNCHANGED <<kvVars, waiting, skipped, running, req, todo, pc, nextSeq>>

Loop ==
    /\ AtLoop("top")
    /\ epc' = IF stop THEN "exit" ELSE "aborts"
    /\ UNCHANGED <<vars, handlerVars, reqVars, chanVars, seqs, ending, toFail,
                   stop>>

\* engine.abort of a sequence that is running, waiting, or neither.
AbortSeq(s) ==
    \/ /\ \/ \E i \in DOMAIN running : running[i] = s /\ AbortRunning(i)
          \/ \E i \in DOMAIN waiting : waiting[i] = s /\ AbortWaiting(i)
       /\ Emit(SinkOf(s), 0, "error")
    \/ /\ s \notin ToSet(running) \union ToSet(waiting)
       /\ UNCHANGED <<vars, ids, q, outcome, ending>>

DrainAbort ==
    /\ AtLoop("aborts") \/ AtLoop("aborted")
    /\ abortQ # <<>>
    /\ AbortSeq(Head(abortQ))
    /\ abortQ' = Tail(abortQ)
    /\ epc' = "aborted"
    /\ UNCHANGED <<handlerVars, doneSet, released, seqOf, submitQ, exclQ,
                   inflight, seqs, toFail, stop>>

AbortsDrained ==
    /\ abortQ = <<>>
    /\ \/ AtLoop("aborts") /\ UNCHANGED <<vars, seqs>>
       \/ AtLoop("aborted") /\ Reap
    /\ epc' = "submits"
    /\ UNCHANGED <<handlerVars, reqVars, chanVars, ending, toFail, stop>>

\* engine.submit.  The request learns its seq_id before the executor does
\* anything else.
DrainSubmit ==
    LET r == Head(submitQ) IN
    /\ AtLoop("submits")
    /\ submitQ # <<>>
    /\ \E u \in UseStates : Add(PromptLen[r], MaxNew[r], u)
    /\ seqOf' = [seqOf EXCEPT ![r] = nextSeq]
    /\ seqs' = seqs \union {nextSeq}
    /\ submitQ' = Tail(submitQ)
    /\ UNCHANGED <<handlerVars, doneSet, outcome, released, q, ids, exclQ,
                   abortQ, inflight, epc, ending, toFail, stop>>

\* submit raises (a seed numpy refuses): the id is used up, and only this
\* request fails.
SubmitRaises ==
    LET r == Head(submitQ) IN
    /\ AtLoop("submits")
    /\ submitQ # <<>>
    /\ Emit(r, 0, "error")
    /\ nextSeq' = nextSeq + 1
    /\ submitQ' = Tail(submitQ)
    /\ UNCHANGED <<kvVars, queueVars, req, todo, pc, handlerVars, doneSet,
                   released, seqOf, exclQ, abortQ, inflight, seqs, epc,
                   toFail, stop>>

SubmitsDrained ==
    /\ AtLoop("submits")
    /\ submitQ = <<>>
    /\ epc' = "excl"
    /\ UNCHANGED <<vars, handlerVars, reqVars, chanVars, seqs, ending, toFail,
                   stop>>

StartJob ==
    /\ AtLoop("excl")
    /\ exclQ # <<>>
    /\ epc' = "job"
    /\ UNCHANGED <<vars, handlerVars, reqVars, chanVars, seqs, ending, toFail,
                   stop>>

JobDelta ==
    LET r == Head(exclQ) IN
    /\ AtLoop("job")
    /\ IsStream(r)
    /\ ids[r] < MaxDeltas
    /\ Emit(r, 1, "none")
    /\ UNCHANGED <<vars, handlerVars, doneSet, released, seqOf, chanVars,
                   seqs, epc, toFail, stop>>

\* The job returns or raises: its request is finished or failed, and the
\* next job runs before the batch is stepped.
JobEnds(how) ==
    /\ AtLoop("job")
    /\ Emit(Head(exclQ), 0, how)
    /\ exclQ' = Tail(exclQ)
    /\ epc' = "excl"
    /\ UNCHANGED <<vars, handlerVars, doneSet, released, seqOf, submitQ,
                   abortQ, inflight, seqs, toFail, stop>>

JobsDrained ==
    /\ AtLoop("excl")
    /\ exclQ = <<>>
    /\ epc' = IF waiting = <<>> /\ running = <<>> THEN "top" ELSE "step"
    /\ UNCHANGED <<vars, handlerVars, reqVars, chanVars, seqs, ending, toFail,
                   stop>>

\* The scheduler's part of a step that no sink sees.
StepQuietly ==
    /\ \/ AtLoop("step") /\ BeginStep /\ epc' = "stepping"
       \/ AtLoop("stepping") /\ EndStep /\ epc' = "reap"
       \/ /\ AtLoop("stepping")
          /\ Admit \/ Skip \/ Schedule \/ Prefill
          /\ UNCHANGED epc
    /\ UNCHANGED <<handlerVars, reqVars, chanVars, seqs, ending, toFail, stop>>

\* Mutant of StepDecode: only a stop token is reported as an end.
StepDecodeStopOnly(eos) ==
    /\ AtLoop("stepping")
    /\ Decode(eos)
    /\ Emit(SinkOf(Head(todo).seq), IF eos THEN 0 ELSE 1,
            IF eos THEN "finish" ELSE "none")
    /\ UNCHANGED <<handlerVars, doneSet, released, seqOf, chanVars, seqs, epc,
                   toFail, stop>>

\* A decode action: the scheduler advances, and frees what it frees, before
\* the sink hears of the token and of the end.
StepDecode(eos) ==
    LET r == SinkOf(Head(todo).seq)
        tokens == IF eos THEN 0 ELSE 1 IN
    /\ AtLoop("stepping")
    /\ Decode(eos)
    /\ Emit(r, tokens, IF eos \/ ids[r] + 1 >= MaxNew[r]
                       THEN "finish" ELSE "none")
    /\ UNCHANGED <<handlerVars, doneSet, released, seqOf, chanVars, seqs, epc,
                   toFail, stop>>

\* The model or the sampler raises while an action is executed: the rest of
\* the schedule is dropped and every sequence the engine knows is failed.
StepRaises ==
    /\ AtLoop("stepping")
    /\ pc = "exec"
    /\ todo # <<>>
    /\ todo' = <<>>
    /\ pc' = "idle"
    /\ epc' = "failing"
    /\ toFail' = seqs
    /\ UNCHANGED <<kvVars, queueVars, req, nextSeq, handlerVars, reqVars,
                   chanVars, seqs, ending, stop>>

FailOne ==
    LET s == Min(toFail) IN
    /\ AtLoop("failing")
    /\ toFail # {}
    /\ toFail' = toFail \ {s}
    /\ Emit(SinkOf(s), 0, "error")
    /\ UNCHANGED <<vars, handlerVars, doneSet, released, seqOf, chanVars, seqs,
                   epc, stop>>

\* Mutant of AllFailed: what was failed is not aborted.
AllFailedNoAbort ==
    /\ AtLoop("failing")
    /\ toFail = {}
    /\ epc' = "reap"
    /\ UNCHANGED <<vars, handlerVars, reqVars, chanVars, seqs, ending, toFail,
                   stop>>

AllFailed ==
    /\ AtLoop("failing")
    /\ toFail = {}
    /\ epc' = "abortall"
    /\ UNCHANGED <<vars, handlerVars, reqVars, chanVars, seqs, ending, toFail,
                   stop>>

\* Then each is aborted, in the order of the ids.
Live == ToSet(running) \union ToSet(waiting)

AbortOne ==
    /\ AtLoop("abortall")
    /\ Live # {}
    /\ AbortSeq(Min(Live))
    /\ UNCHANGED <<handlerVars, doneSet, released, seqOf, chanVars, seqs, epc,
                   toFail, stop>>

AllAborted ==
    /\ AtLoop("abortall")
    /\ Live = {}
    /\ epc' = "reap"
    /\ UNCHANGED <<vars, handlerVars, reqVars, chanVars, seqs, ending, toFail,
                   stop>>

ReapStep ==
    /\ AtLoop("reap")
    /\ Reap
    /\ epc' = "top"
    /\ UNCHANGED <<handlerVars, reqVars, chanVars, ending, toFail, stop>>

ExecNext ==
    \/ SetDone \/ ExecCheck \/ ExecCommit
    \/ Loop \/ DrainAbort \/ AbortsDrained
    \/ DrainSubmit \/ SubmitRaises \/ SubmitsDrained
    \/ StartJob \/ JobDelta \/ JobsDrained
    \/ \E how \in {"finish", "error"} : JobEnds(how)
    \/ StepQuietly \/ StepRaises
    \/ \E eos \in BOOLEAN : StepDecode(eos)
    \/ FailOne \/ AllFailed \/ AbortOne \/ AllAborted \/ ReapStep

\* stop(), from the thread that runs the server.
Stop ==
    /\ ~stop
    /\ stop' = TRUE
    /\ UNCHANGED <<vars, handlerVars, reqVars, chanVars, execVars>>

RunningNext == (\E r \in Reqs : HandlerNext(r)) \/ ExecNext

ServingNext == RunningNext \/ Stop

ServingSpec == ServingInit /\ [][ServingNext]_servingVars

\* A server nobody stops.  The executor thread is scheduled, and so is every
\* handler that can move; clients need not come, and no timeout need expire.
ServingFairSpec ==
    /\ ServingInit /\ [][RunningNext]_servingVars
    /\ WF_servingVars(ExecNext)
    /\ \A r \in Reqs : WF_servingVars(HandlerStep(r))

-----------------------------------------------------------------------------
(***************************************************************************)
(* Properties.                                                             *)
(***************************************************************************)

\* The engine knows every sequence the scheduler may act on, so a step never
\* looks up a sequence it has reaped, and at the top of the executor's loop
\* it knows no other: nothing is left of finished requests (submit, abort,
\* reap, _fail_all_batched).
EngineMatchesScheduler ==
    /\ ToSet(skipped) \union Live \subseteq seqs
    /\ AtLoop("top") => seqs = Live /\ done = <<>> /\ pc = "idle"
    /\ tables = ToSet(running)

\* The event of a request is set only when the scheduler no longer has its
\* sequence, except while _fail_all_batched is aborting what it has failed:
\* a handler told that its request is over never leaves work behind.
DoneIsOver ==
    \A r \in Reqs :
        doneSet[r] /\ seqOf[r] \in Live \union ToSet(skipped)
            => epc \in {"failing", "abortall"}

\* After the event of a request is set nothing more is delivered: no token,
\* no second terminal event, no change of outcome (a step, an abort and
\* _fail_all_batched may all reach the same request).
NothingAfterDone ==
    [][\A r \in Reqs : doneSet[r] =>
           /\ doneSet'[r]
           /\ ids'[r] = ids[r]
           /\ outcome'[r] = outcome[r]
           /\ Len(q'[r]) <= Len(q[r])]_servingVars

\* A client told that its generation finished got all of it: every token
\* its sink was given; and the scheduler has let go of its sequence.
ReplyComplete ==
    \A r \in Reqs : reply[r] = "ok" =>
        /\ outcome[r] = "finish"
        /\ IsStream(r) => taken[r] = ids[r]
        /\ IsText(r) => seqOf[r] \notin Live

\* Whatever its client does, and with no help from a timeout, every request
\* that was let in is answered while the server runs.
Answered ==
    \A r \in Reqs : hpc[r] \notin {"start", "over"} ~> hpc[r] = "over"

\* Blocks, state slots and in-flight places all come back, also those of
\* requests whose clients have gone: the server does not run dry.
MemoryReturns == (tables # {}) ~> (tables = {})
PlacesReturn == (inflight > 0) ~> (inflight <= 0)

\* batched_server.py:18-20: "Admission control is bounded [...] the server
\* being at capacity is an immediate 429": the requests that hold an in-flight
\* place are never more than the limit.
NotOverAdmitted ==
    Cardinality({r \in Reqs : hpc[r] \notin {"start", "over"} /\ ~released[r]})
        <= MaxQueued

\* batched_server.py:409-410, the finally clause of a stream: "client
\* disconnected (GeneratorExit) or error before finish: free the scheduler
\* blocks for a seq that is no longer being read": a request whose handler has
\* gone through that clause is not given blocks, unless its abort is queued.
AbandonedGetsNoBlocks ==
    [][\A s \in tables' \ tables :
           LET r == SinkOf(s) IN
           hpc[r] = "over" /\ reply[r] = "error" => s \in ToSet(abortQ)]_servingVars

=============================================================================

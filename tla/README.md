# sLLM in TLA+

A TLA+ model of sLLM, a self-made LLM serving engine: an OpenAI-style HTTP
server in front of a continuous-batching scheduler, one thread that owns the
model, and decode drivers that fall back from device-resident kernels to numpy.
The modules model the concurrent and stateful core of the repository; TLC checks
them on small instances and TLAPS proves their safety properties for all
parameters. Paths below are relative to the repository's root.

## 1. The system

### Components

| component | where | state it keeps | operations |
|---|---|---|---|
| block and slot allocators | `runtime/blocks.py` | min-heaps of free block and slot ids, owner maps, a block table per sequence | `new_sequence`, `grow`, `free_sequence` |
| scheduler | `runtime/scheduler.py` | waiting deque, running dict, done list, a `Request` record each | `add`, `abort`, `pump`, `schedule`, `advance` |
| batched engine | `serving/executor.py` (`BatchedInferenceEngine`) | `_seqs` (ids, cache, sink per sequence), next id | `submit`, `abort`, `step`, `reap`, `queue_length` |
| serving facade | `serving/batched_server.py` | submit, abort and exclusive queues, `_inflight`, one `_Req` per request | `complete_detail`, `stream_complete`, the exclusive variants, the executor's `_loop`, `stop` |
| HTTP server | `serving/server.py` | connection semaphore, one handler thread per connection | GET and POST routes, SSE |
| direct generation | `serving/executor.py` (`generate`, `generate_stream`) | ids, decode cache, text sent so far | greedy or sampled loop |
| speculative decoding | `runtime/spec.py`, `ref/mtp.py`, `ref/qwen4_exp_mtp.py` | ids, draft, accepted prefix, pending logits | draft, verify, correct |
| model backend | `serving/executor.py` (`ReferenceModel`), `kernels/*_decode.py`, `ref/incremental.py` | a host cache per sequence, device K/V buffers, `_resident_off` | `prefill`, `decode_step` through up to three drivers, `_grow` |
| decode states | `ref/deepseek_v4.py`, `ref/qwen4_exp_pipeline.py`, `ref/qwen4_exp_ple.py` | rings, compressors, growing arrays, convolution rows, n-gram contexts | `prefill`, `decode` |
| CUDA kernels | `kernels/cuda/` | shared memory of a thread block | norms, routers, attention |
| KV placement | `runtime/placement.py` | reserved blocks per sequence, host or device arrays | `reserve`, `release`, `store`, `gather`, `free` |
| tensor parallelism | `tp/`, `loaders/tp_shard.py` | contributions per tag; a rank's view of a checkpoint | `contribute`, `all_reduce`, `all_gather`, `reset`; slicing |
| memory planner | `runtime/memory_planner.py` | none | block and slot counts from a budget |
| checkpoint loaders | `loaders/` | open shards | lazy tensor reads, fp8 decoding |
| the rest | `recipes/`, `serving/tokenizer.py`, `serving/main.py`, ... | none that outlives a call | parsing, text, start-up |

### How they interact

Every HTTP connection has a thread, which takes one of the server's slots, reads
one request, answers it, gives the slot back and, if the connection is kept,
starts over. To answer, the thread calls the facade: it takes an in-flight place
under a lock, puts a `_Req` into the submit queue and waits on the request's event
(a completion) or on its token queue (a stream). The single executor thread
loops: drain aborts, drain submits, run all exclusive jobs, take one engine step,
reap. A submit gives the request a sequence id and a sink; the step pumps the
scheduler, takes a snapshot of actions, runs the model for each and tells the
scheduler (`advance`), which may finish the sequence and free its blocks, and
then the sink, which puts the token and possibly the terminal event into the
request's queue and sets its event. A handler whose timeout expires or whose
client goes away puts the sequence id into the abort queue and gives its place
back. Only the in-flight counter is under a lock; the rest rests on the order in
which the two threads read and write the request object.

Below the engine a model step chooses a decode driver; a driver works layer by
layer on the sequence's cache and, if it is a resident one, on device buffers that
kernels fill and read. Exclusive jobs, the command line and the speculative loops
call the model without a scheduler. The ranks of a tensor-parallel world
compute their weight slices alone and meet only in the collectives. The placement
backends stand beside all this: at present only tests call them.

### What is hard about it, and what makes each part correct

* **Allocators.** Multi-step operations that can raise in the middle, and a
  rollback. Correct: an id is free or owned, never both; a table lists what is
  owned; no two sequences share a block; nothing is lost by a failed call.
* **Scheduler.** Loops over collections that its own body changes; a snapshot
  that is executed after the state it was taken from has moved on; backfill past
  requests that do not fit. Correct: no request is lost or finished twice, the
  worst case stays reserved, admission never raises, order is kept, whoever
  fits is finished.
* **Facade and engine.** Two threads, three queues, timeouts, disconnects, steps
  and jobs that raise, `stop` at any time. Correct: a reply says what happened,
  nothing is delivered after the end, no registry keeps a finished request,
  every admitted request is answered, blocks and places come back.
* **HTTP server.** Clients that leave, stop sending or stop reading at any point
  of a request, on connections that are used again. Correct: a body is not taken
  for the next request, a request gets one status line, every slot comes back.
* **Speculative decoding and direct generation.** Several tokens per round,
  verified against prefixes that move, an off-by-one in each of several bounds,
  logits carried from round to round, text whose length is used as a position.
  Correct: the output is that of plain greedy decoding.
* **Decode drivers.** Partial failure: a driver that fails at some layer hands a
  cache on to the next. Correct: the cache then stands where it stood, and the
  device never attends over rows it was not given.
* **Decode states.** A prompt is computed at once and continued one position at a
  time, by other code. Correct: a position is computed from the same rows either
  way, whatever wraps, is pooled or is half full at the seam.
* **Device buffers and kernels.** A buffer's layout depends on its capacity, which
  grows, in steps that can fail; threads of a block share partial results. Correct:
  rows are read at the stride they lie at; between two barriers no thread touches
  what another writes.
* **Placement, collectives, sharding.** Accounting under repeated and failing
  calls; a tag that is used again; index arithmetic that every rank does alone.
  Correct: budget and buffers add up, rounds do not mix, the slices tile the
  tensor and each number meets its own scale.

`PROJECT.json` lists the hazards one by one, with their lines and the properties
that cover them.

## 2. The modules

| module | models | extends |
|---|---|---|
| `KVBlocks` | the allocators and `HybridKVCoordinator` | |
| `Scheduler` | `Scheduler`, driven as `BatchedInferenceEngine.step` drives it | `KVBlocks` |
| `RequestService` | abstract: what continuous batching promises | |
| `Serving` | `BatchedServingEngine` and the engine's sinks, abort, reap and step | `Scheduler` |
| `HttpServer` | connections, slots, requests and streams of `server.py` | |
| `GreedyDecode` | abstract: plain greedy generation, from `generate` | |
| `SpecDecode` | `spec_decode_greedy` and `spec_decode_greedy_deepseek` | |
| `MtpDecode` | `generate_greedy_mtp` and `spec_decode_greedy_qwen4exp` | `SpecDecode` |
| `Generate` | `generate` and `generate_stream` | `SpecDecode` |
| `DecodePath` | `ReferenceModel.decode_step` and its drivers | |
| `DeviceKV` | the buffers of `DeviceDecodeState`, `_grow` and the relayout kernel | |
| `ThreadBlock` | the kernels whose threads share partial results | |
| `DsV4Decode` | the decode state of `deepseek_v4` | |
| `Q4Caches` | the incremental state of `qwen4_exp` | |
| `Placement` | `KVMemoryPlan` and the two backends | |
| `Sharding` | the shard plans and `RankWeightTable` | |
| `Collectives` | `SimCollectives` | |
| `Basics` | lemmas about quotients, finite sets and sequences | |
| `Scheduler_proofs` | theorems about allocators and scheduler | `Scheduler`, `Basics` |
| `Serving_proofs` | theorems about the facade | `Serving`, `Scheduler_proofs`, `Basics` |
| `HttpServer_proofs` | theorems | `HttpServer` |
| `SpecDecode_proofs` | theorems about the three generating loops | `MtpDecode`, `Generate`, `Basics` |
| `Backend_proofs` | theorems about drivers, buffers and blocks | `DecodePath`, `DeviceKV`, `Placement`, `Basics` |
| `Reference_proofs` | theorems about the decode states | `DsV4Decode`, `Q4Caches`, `Basics` |
| `Parallel_proofs` | theorems about ranks, shards and threads | `Collectives`, `Sharding`, `ThreadBlock`, `Basics` |
| `MC*` | instances for TLC; `MCParts` composes twelve parts | |

**`KVBlocks`.** A pool is a record of the free ids and the owner map; heaps become
sets and `LowestFree` keeps the heap's order where it shows. Each of
`new_sequence` (with a slot, and without), `grow` and `free_sequence` is one
action: a single thread calls them and nothing can be seen in between. A failed
`new_sequence` changes nothing, rollback included. Operations take the token
count as the code does and round it up themselves.

**`Scheduler`.** A step is not one action: each iteration of pump's loop, the
schedule snapshot and each `advance` is an action of its own, and `pc` keeps
`add` and `abort` out in between, as the single executor thread does. The
waiting deque is a sequence of ids; `skipped` is pump's local list.
`Request.finished` is implied by where a request is. `Add` gives the id that
`submit` would.

**`RequestService`.** A request is new, queued, active or over; active requests hold
what their worst case needs, and give it back whole. `Scheduler` implements it
under the mapping at the end of `Scheduler.tla`.

**`Serving`.** `hpc` is where a handler is, `epc` where the executor thread is;
every point at which the other thread can see a difference is a step of its own.
In particular `_release` is split at its unlocked test (`HandlerCheck`,
`HandlerCommit`, `ExecCheck`, `ExecCommit`) and a sink's put is split from the
`done.set()` after it (`Emit`, `SetDone`). Model output is a free choice of a stop
token or another. Exceptions are actions: `SubmitRaises` (a prompt that no longer
fits), `StepRaises` (anywhere in a step), `JobEnds("error")`. A timeout
may expire whenever a handler waits. A client may leave before the first
event is read (`DropUnstarted`, where a generator that has not started runs no
finally clause) or later (`Finally`).

**`HttpServer`.** Client and handler of each connection are two actors, joined by
`wire` (heads and bodies sent and not read) and `lines` (status lines written).
A request is its kind: what decides how its body is read and how it is answered.
Bytes behind a head that `server.py` takes to have none, the body of a GET or of a
POST whose length is negative (`Ignored`), are `"stray"` on the wire. They do not keep
the client from sending its next request behind them, and the handler that meets them
where it expects a request line closes the connection (`BadRequestLine`).
A write succeeds, breaks or runs into the socket's timeout, by what the client
does (`Writes`); `task.caught` and `task.keep` say which except clause a failing
reply meets and whether the connection stays. Reads that time out make the
connection deaf, as they do to the file object the handler reads from. The facade is a
choice between an answer and a failure.

**`SpecDecode`.** One action per draft, per accepted draft token, per rejection and
per corrective token. The main model is a function from prefixes to tokens
(`Greedy(model, prefix)`); the drafter is any token sequence. Both variants are the
same machine and differ in `call.room`, by which the first leaves room for the
corrective token and the second does not. **`MtpDecode`** is the third loop:
`cached` is the prefix whose logits are `pending`, so a draft that is emitted
without advancing it would pick from a stale prefix; `Trimmed` is what its caller
returns. **`Generate`** has a model that carries a state (`carried`) or computes
everything anew, a context limit, and the text of `generate_stream`: bytes that
are no character become U+FFFD, and a delta is what lies beyond `last_full`.

**`DecodePath`.** What a layer's cache holds is the number of tokens it has
absorbed. A driver works layer by layer and may fail before or after any layer;
`path` is the driver that runs and `at` the layer. `conf` covers the
architecture, the placement, whether there is a GPU and whether resident decode
is allowed.

**`DeviceKV`.** A buffer is its words, and a word says which row it belongs to.
`Append1` is a step that succeeds, `AppendFails` one that fails after writing some
buffers, `Growth`, `GrowthFails` and `ScoresFail` the three outcomes of `_grow`,
by where an allocation or a launch fails.

**`ThreadBlock`.** `Code` gives each kernel as the sequence of its accesses to shared
cells and its barriers; `Write`, `Read`, `PassBy` and `Sync` execute it, in any
order of the threads between barriers. `Strides` are the half-widths of the
reduction's rounds, from half the block down to 1. A value is the bag of the shares
it was made of, so a sum that misses a thread, or mixes two results, shows.

**`DsV4Decode`.** `DsPrefill` is a prompt, `DecodeStep` one position through all
layers, `DecodeFails` one whose selection is out of bounds; `SetupDrafter` and
`DraftStep` are the drafter's ring. Positions are rotated by tables of `TableLen` rows,
the lesser of the context and 4096 (`MaxTable`): past their end a prompt
(`PrefillFails`), a position (`DecodePastTable`) and a drafted block (`BlockInTable`)
raise. A row is the set of positions it was computed from; `reads` keeps, for each
layer, what each position attended.
**`Q4Caches`** does the same for the other family and any cut of a sequence into
chunks: growing arrays, block keys, the convolution's last rows, n-gram contexts.

**`Placement`**, **`Collectives`**, **`Sharding`.** One action per method. A device
buffer is a number, a partial is the rank and number of its contribution, a weight
row is its index in the checkpoint: results say where they came from. Ranks of
`Sharding` read in any order, each from the plan alone; a range of a segment begins
at the running sum of those before it (`Bases`) and a slice is the concatenation of
the rank's ranges (`Joined`).

**`MCParts`** instantiates `KVBlocks`, `DecodePath`, `SpecDecode`, `MtpDecode`,
`Generate`, `DsV4Decode`, `Q4Caches`, `Placement`, `Sharding`, `Collectives`,
`ThreadBlock` and `DeviceKV` together. They share no state, so a behaviour is one
of one of them, which the variable `part` names.

## 3. The runs

| run | what it asks | bounds |
|---|---|---|
| `scheduler` | eight properties, `ImplementsService` and `FitFinishes` among them | 3 requests of 1 to 3 blocks, with and without a slot; 3 blocks, 1 slot, concurrency 2; a prompt takes 1 or 2 chunks |
| `serving` | `EngineMatchesScheduler`, `DoneIsOver`, `ReplyComplete`, `NothingAfterDone` | a completion or exclusive completion of one token against a stream of two or an exclusive stream, room for both, and a third request that is refused |
| `serving_live` | `Answered`, `MemoryReturns`, `PlacesReturn` | a stream and a completion or exclusive stream, room for one |
| `http` | `Framed`, `OneStatusLine`, `SlotsReturn` | 2 connections, 1 slot, 3 requests of any kind, streams of up to 1 event |
| `parts` | 21 properties of twelve parts, below | below |
| `places_race` | violated: `NotOverAdmitted` | 3 completions, limit 1 |
| `abandoned` | violated: `AbandonedGetsNoBlocks` | 2 streams |
| `spec_decode_stop` | violated: `StopNeverEmitted` | as part `spec` |
| `decode_fallback` | violated: `FallbackClean` | the default configuration of the recurrent architectures |
| `stream_text` | violated: `DeltasJoin` | as part `generate` |
| `dsv4` | violated: `DecodeMatchesPrefill` | the ratios of the repository's test, 9 positions |
| `block_race` | violated: `ReductionsExact` | the three attention kernels, 4 threads |

The parts of `parts`:

| part | module | properties | bounds |
|---|---|---|---|
| `kv` | `KVBlocks` | `KVTypeOK`, `FreeOrOwned`, `TablesMatchOwners`, `NoSharing`, `HeldUntilFreed` | 3 sequences, 4 blocks, 2 slots, requests of up to 3 blocks: both pools run out, in either order |
| `path` | `DecodePath` | `StagedExact`, `NothingMissed`, `DeviceRowsCurrent` | 2 sequences, layers attention-recurrent-attention, 2 steps each, every configuration |
| `spec` | `SpecDecode` | `SpecTypeOK`, `PlainSpec`, `EndsForAReason`, `LoopsReturn` | every table of answers over 3 tokens by last token and parity; up to 4 new tokens, up to 3 drafted |
| `mtp` | `MtpDecode` | `MtpExact`, `LoopsReturn` | the calls of `spec` |
| `generate` | `Generate` | `GenerateExact`, `LoopsReturn` | the calls of `spec`, contexts none, 1 and 3, tokens of whole and of half characters |
| `dsv4` | `DsV4Decode` | `ContinuesPrefill` | window 3, ratios 0, 4 and 5, two groups selected, 15 positions, of which tables of 13 can rotate all but the last two, drafts of 2: rings wrap, groups of each ratio fill, some are left out, and prompts, decoding and drafts meet the end of the tables |
| `q4` | `Q4Caches` | `CachesExact` | blocks of 2 positions, convolution 3, n-grams of 3, 2 taps, 6 positions in any cut, texts that end anywhere |
| `place` | `Placement` | `PlacementExact` | 2 sequences of 2 layers, a plan of 2 blocks, 6 device buffers |
| `shards` | `Sharding` | `ShardsExact` | 2 ranks, blocks of 4 rows, geometries of both families with heads that fill a block, share one and straddle two |
| `world` | `Collectives` | `RoundsApart` | 2 ranks that contribute twice each, 2 tags, 2 shapes |
| `block` | `ThreadBlock` | `BlocksExact` | 4 threads: a tree of two steps; the nine kernels without the race |
| `rows` | `DeviceKV` | `RowsWhereRead` | 2 heads of 2 words, caches that begin with 1 or 2 positions, at most 7: two growths, the second cut off |

Every property of a passing run has a mutant, an operator that changes one action
or helper the way a plausible bug would and under which TLC finds the property
violated; a property made of two parts has one for each. The mutants stand beside
what they change.

Some properties state several things at once: `OnePlace` also says that whatever is
in a snapshot is still running, `PlacementExact`, `ShardsExact` and `BlocksExact`
are conjunctions of two named parts, and `LoopsReturn` is the termination of three
loops.

*Why the bounds are enough.* Two concurrent requests reach every pair of points
of handler and executor; a third is needed only where a limit is exceeded, and the
run that asks that has three. In the scheduler three requests give one that runs,
one that is skipped and one behind it that is let in. A pool in which the largest
request fits only alone makes both exhaustion and backfill happen. Two
connections over one slot make one wait, be turned away, and be reused. Four new
tokens give two rounds of speculation with drafts accepted whole, in part and not
at all. A recurrent layer between two others can be followed by a failure and
preceded by one. In the decode states the sizes that interact (window, ratio,
block, taps) differ from each other and do not divide the length. A tree over
four threads has a step that reads what another step wrote.

Explicit bounds, each named in its module: `SeqIds` (ids ever handed out),
`MaxTokens` (tokens an operation of `KVBlocks` asks for), `MaxDeltas` (text pieces
of an exclusive job), `MaxLen` (prefixes a model answers), `MaxCtx` and `MaxRows`
(where decoding ends, as `max_position_embeddings` makes it in the code),
`MaxSeqLen` (as in the code), `MaxTable` (4096 in the code) and `MaxPositions`
(positions of a sequence),
`MaxRequests` and `MaxEvents` (what clients send and streams yield), `MaxBuffers`
(device buffers ever made), `MaxPartials` (contributions of a rank) and
`Strides` (2 and 1 for 4 threads; a launch has 256, whose strides begin with 128).

*Fairness.* `FairSpec` asks weak fairness of the scheduler's steps only: the
executor loops as long as there is work, and nobody has to add or abort.
`ServingFairSpec` asks it of the executor thread and of each handler's enabled
step, which threads of an operating system get; it does not ask that clients come,
that timeouts expire or that clients leave, and leaves out `stop`, after which
nothing is answered by design (`serving_live` is about a server that runs).
`HttpFairSpec` asks it of each handler thread and of nothing a client does: reads
and writes have `socket_timeout`, and the facade answers within its own timeout.
`PartsSpec` asks that the three generating loops run on; the other parts have no
liveness to show.

*Deadlock.* It is checked for `scheduler`, in which some call is always possible. It
is off where the system really comes to an end: `serving` after all requests are
over and `stop`, `http` when every connection is closed, and the parts once a
function has returned, a sequence is at its longest, or a block has run.

### Disagreements between the code and its comments

1. `places_race`: `_release` tests `req._released` outside the lock. A handler that
   times out and the executor that fails the same request both pass the test, and
   `_inflight` is decremented twice; the limit is one too high from then on.
2. `abandoned`: a stream's finally clause is to free the blocks of a request nobody
   reads, but the abort is sent by `seq_id`, which is `None` while the request waits
   in the submit queue. It is then submitted and decoded to its end.
   `MemoryReturns` still holds: its end comes.
3. `spec_decode_stop`: speculative decoding claims to be output-equivalent to plain
   greedy generation, but a stop id inside an accepted draft is emitted. What does
   hold (and is proved) is `PlainSpec`: it is plain greedy generation up to where it
   ends. The `qwen4_exp` loop cuts the tail, and `MtpExact` holds of it.
4. `decode_fallback`: `_resident_step` claims that a failed step leaves the host cache
   as it was. The recurrent state of hybrid models is updated in place, so the
   driver that takes over absorbs the token a second time; the `qwen4_exp` driver
   changes its whole state layer by layer. `StagedExact` is the part of the claim that
   does hold.
5. `stream_text`: the deltas of a stream are to join to the text of the completion,
   but a character whose bytes come in two tokens is first sent as U+FFFD and never
   corrected. `GenerateExact` says that they do join when tokens are made of whole
   characters. `_text_delta` of the facade is the same function.
6. `dsv4`: decoding is to match a prefill of the same prefix, but a prompt shorter
   than a layer's compress ratio leaves the compressor empty, and its positions are
   missing from the first pooled row. `ContinuesPrefill` is the claim for prompts
   that fill a group of every layer.
7. `block_race`: in the three attention kernels of `kernels.cu` the partial sums are
   stored over the maximum of the scores with no barrier between the read and the
   store. `BlocksExact` says that the other nine kernels have no race, among them
   the one by which the resident `qwen4_exp` driver attends.

Three more lie in what properties exclude; they are in the models, but have no run of
their own.

* `OneStatusLine` is stated for clients that read. One that stops reading makes a
  write of its stream time out; `_send_sse` does not catch that, and `do_POST` then
  writes a 500 status line into the stream that has begun, which `server.py:158-163`
  says is avoided.
* `Framed` is stated for the bodies that `do_POST` reads or refuses. With one that it
  refuses the connection is closed "so the unread bytes cannot poison a reused
  keep-alive connection" (`server.py:276-277`). But `do_GET` (239-255) never looks for
  a body, and a negative `Content-Length` passes for an empty one (271-273): both
  keep the connection, and a body that was sent is read as the next request line
  (`BadRequestLine`). What the client sends behind it is not answered.
* `ContinuesPrefill` lets `deepseek_v4` raise past the end of its rotary tables. The
  recipe (`DeepSeek-V4-Flash-0731.yaml:84`), the audit and `max_context()` take
  `max_position_embeddings`, 1048576, for the context, and `executor.py:368` lets any
  shorter prompt pass, but the tables are built for `min(max_seq_len, 4096)` positions
  (`deepseek_v4.py:1136`): a longer prompt, or a decode at position 4096, is a
  `ValueError` (`PrefillFails`, `DecodePastTable`).

## 4. The proofs

`Basics` holds what several of them need: that quotient and remainder determine a
number, that a finite set has a smallest member, and what `Append`, `\o` and `SubSeq`
yield. The library's lemmas on these need an induction that no installed prover can
use; here they follow from the definitions, or from a smallest counterexample.

**`Scheduler_proofs`** begins with the allocators, for every set of sequences, pool
size and block size: `KVTypeCorrect`, `FreeOrOwnedAlways`, `TablesMatchOwnersAlways`,
`NoSharingEver`, `HeldUntilFreedHolds`. The inductive invariant is
`KVInv == KVTypeOK /\ FreeOrOwned /\ TablesMatchOwners`. No part is inductive alone:
that a freed id was not in the heap already needs `TablesMatchOwners`, and that an
allocated id had no owner needs `FreeOrOwned`. Two lemmas about taking ids out of a
pool and putting them back carry every operation, for blocks and slots alike;
`NoSharing` follows because an owner map is a function, and `HeldUntilFreed` is an
action property of the same invariant.

Of the scheduler, for every chunk and block size, pool, limit on concurrency and set
of requests, it proves `SchedulerTypeCorrect`, `OnePlaceAlways`, `ArrivalOrderAlways`,
`ReservationAlwaysHeld`, `AdmissionNeverRaises`, `OnePassIsEnough` (the action
property `PumpIsMaximal`) and `SchedulerImplementsService`, the refinement of
`RequestService`. The inductive invariant is `SchedInv`, and its parts need each
other:

* `KVInv` of the allocators, whose lemmas are used for every step that takes or
  returns blocks;
* `Apart`: waiting, skipped, running and done are free of repetition and disjoint,
  so that a request leaving one place for another is in one place afterwards;
* `Order`: each half of the queue is sorted and the skipped go before the rest;
* `Snapshot`: entries of the snapshot are of different sequences that still run,
  so `advance` finds its sequence, even if the one before it ended another;
* `Held`: tables are exactly those of the running sequences, each holds its worst
  case, and a sequence still queued has written nothing;
* `Counted`: the places together hold every id handed out. `EngineInv` is the rest
  without this part, and is what still holds inside the server, which forgets
  finished requests.

`PumpPass`, the invariant behind `OnePassIsEnough`, says that whoever was skipped did
not fit then, and what pump does since only takes. Under `SchedInv` an action is a
step of the service (`AddIsSubmit`, `AdmitIsStart`, `LeaveIsEnd`,
`AbortWaitingIsWithdraw`) or invisible to it. That the lowest free ids exist
(`LowestExists`) is a fact about finite sets usually shown by induction; here it
comes from the well-foundedness of set inclusion.

**`Serving_proofs`**, for any number of requests of any kinds and sizes and any
interleaving of handlers and executor: `ServingTypeCorrect`, `EngineAlwaysMatches`,
`DoneAlwaysOver`, `RepliesAlwaysComplete`, `NothingEverAfterDone`, `NobodyForgotten`,
`NoPlaceEverLost`. `ServingInv` is
`EngineInv` with what ties the facade to it: the engine's records are the known
sequences and the finished ones not yet reaped (`Accounted`), each of one text
request (`Owners`); a request still in a queue has been told nothing (`Waits`); the
event is set after the outcome, and only when the scheduler has let go of the
sequence or everything is being failed (`Ends`); a stream queue holds what was
emitted and not read, the terminal event last (`Streams`); who was told it went well
has all of it (`Replies`). The heart is `Counts`: the scheduler decides by its own
count of tokens that a sequence is over and the sink by another, and nothing in the
code compares the two. Drained queues, `_fail_all` and jobs have a lemma each.
The last two theorems are the safety behind `Answered` and `PlacesReturn`. A request
that was let in stays in its place, a queue or the scheduler, until it has an outcome
(`AllPlaced`), so a handler that waits has someone to wait for. Places in flight are
never more than the requests that hold one (`PlacesHeld`): handler and executor may
both pass the unlocked test of `_release` and give one place back twice, but none is
kept, because `released` is set with every decrement and the executor comes to its own
`_release` after every `done.set()`. Neither says what a stopped server owes its queues.

**`HttpServer_proofs`**, for any number of connections and slots and clients that leave,
stall or fall silent anywhere: `AlwaysFramed`, `OneStatusLineAlways`, and
`SlotsAlwaysCounted` (free slots and handlers at work are `max_connections` together,
so that none is lost or given back twice). The invariant `HttpInv` says at every place
of a handler what its connection can still have in flight (`InFlight`) and how many
status lines it has written (`Written`). A body that is refused and left unread is
harmless because the connection is then closed; where one is left unread and the
connection kept, what is in flight is stray bytes, and behind them at most the request
the client sent next (`Following`, `Strayed`). So `AlwaysFramed` does not say that
only heads are read as request lines, which is false (section 3), but that the bodies
`do_POST` knows of never are.

**`SpecDecode_proofs`**, for every main model, drafter, prompt, draft length and set of
stop ids, is about all three loops:

* `SpecTypeCorrect`, `EndsAlwaysForAReason`, and `ImplementsGreedy == SpecSpec =>
  PlainSpec`, the refinement of `GreedyDecode`. `SpecInv` adds to the types that
  emitted tokens are counted and the draft fits what is left, that there is no draft
  between rounds, and that a remembered mismatch is still the main model's choice
  for what has been accepted. Under it accepting a draft token and emitting the
  corrective one are greedy steps, and drafting, rejecting and extending are
  stutters.
* `MtpImplementsGreedy == MtpSpec => MtpExact`. This loop goes on after a stop id and
  its caller cuts the tail. `MtpInv` says that the pending logits are those of all
  that was emitted, and where the caller would cut now (`CutAt`): up to there it is
  plain generation, and plain generation ended there. So a token emitted behind the
  cut is a stutter of `GreedyDecode`, and one that moves the cut is its step.
* `GenerateAlwaysExact == GenSpec => GenerateExact`: `generate` and `generate_stream`
  are plain greedy generation, with a state that is carried along (`GenRunning`: it was
  computed from exactly the ids so far) or without one, and the reported reason is the
  one they ended for. Where tokens are whole characters, what was sent is the text
  (`GenText`): flattening a token more puts its bytes behind (`FlattenAppend`), and
  bytes that are characters are decoded to as many (`AsciiDecodes`). Both are recursive
  functions; that they have the value they ask for, and only one, is shown by the
  smallest number at which they would not.

**`Backend_proofs`** begins with the decode drivers, for any layers, any number of
sequences and any failures: `PathTypeCorrect`, `StagedAlwaysExact`, `NothingEverMissed`,
`DeviceRowsAlwaysCurrent`. `PathInv` knows layer by layer what the running driver has
absorbed (`Absorbed`) and which driver can run when (`Drivers`): once a sequence has a
device state its steps stay resident until resident decode is switched off for the
whole model, which is why rows written by another driver leave no gap.

Then it is about memory that is given out and taken back. `RowsAlwaysWhereRead`: for any
heads, row width and number of growths, and failures at any point, attention finds its
rows. It rests on the arithmetic of a flat buffer
(`DivMod`, `AtFacts`, `AtInjective`): a word's place determines its head, position and
offset at any stride, so relaying is a bijection on what is kept.
`PlacementAlwaysExact`: free and reserved blocks add up to the plan, the plan is
within the budget, and buffers and entries match. The model sums with a fold, whose
value for a set with one element more or less is a fact about data
(`SumFacts`); it is proved by a smallest counterexample.

**`Reference_proofs`** is about the decode states. Both theorems say what the state is
after `n` positions as a function of `n` alone, and that each operation leads from the
state after `n` to the one after more; what is left over from before and never read
again is left open.

* `AlwaysContinuesPrefill`, for any window, ratios, number of selected groups, context
  and length of the rotary tables: up to their end decoding attends what a prefill
  would, and nothing raises but past it. A
  ring is described by rounds (`RingSlot`: the full rounds of `n` and the slots of the
  next), so that a write at the remainder gives the ring a longer prefill leaves, also
  where it wraps (`RingNext`), and the slots attended are the window (`RingWindow`).
  `Holding` is what a compressor has to know: the pooled rows of the full groups, the
  positions of the open one and, where rows overlap, the group before it. What lies in
  the buffer behind the open group's positions differs between the two ways there and
  is of no account.
* `AlwaysCachesExact`, for any layers, sizes and cut into chunks. A convolution holds
  the aligned window of its last rows (`Aligned`), block keys are those of the full
  blocks (`BlockKeysNext`), a growing array fronts a buffer whose rest is arbitrary
  (`Fronts`), and an n-gram needs no more than the `NGram - 1` tokens that the context
  keeps (`NGramsAre`). A chunk is steps folded over its positions; that they lead to
  the state at its end is shown by a smallest position that does not (`SteppedKeeps`).

**`Parallel_proofs`** is about what is computed side by side.

* `RoundsAlwaysApart`, for any number of ranks, tags and rounds. A result read in the
  current round is what the tag still holds, since a full tag takes no contribution
  (`Current`); one of an earlier round shares nothing with what any tag holds, since no
  contribution is made twice (`Past`, `Fresh`).
* `BlocksAlwaysExact`, for a block of any power of two of threads in any order. The
  invariant holds for every code that is `Sound`, which looks only at where a code's
  barriers lie: no barrier lies between two threads (`Together`), a cell holds what
  its thread wrote last (`Stored`) and a partial sum the shares of those who have added
  theirs (`Added`). So it has no race and its reductions are exact. What is left is one
  lemma for each of the nine kernels, that its code is `Sound`. The three attention
  kernels of finding 7 are not, and the property leaves them out.
* `ShardsAlwaysExact`, for any geometry of both families, size of tensor, number of
  ranks and block size. What a rank is given depends on the tensor alone (`ShardInv`),
  so the rest is arithmetic. A slice holds the rank's part of every segment, one
  behind the other (`CutIs`, `RowsAre`); put back part by part they are the tensor
  (`TileIs`), and no cut is inside a unit (`UnitsAre`). A range that may be cut begins
  at a block or stays inside one (`SafeRange`), so that a slice's scales are as many as
  its rows alone would have, each at its place (`ScalesAre`, `PairIs`). `Bases` and
  `Joined` are recursive, but every plan has one segment or three (`PlansAre`), so that
  they need no induction.

### Assumptions

The theorems rest on the named assumptions of the modules, which TLC evaluates in
every run of a module that extends them, and on nothing else:

| assumption | what it asks |
|---|---|
| `KVAssumption` | pool sizes are naturals, block size is positive, `NoSeq` and `NoSlot` are not ids |
| `SchedulerAssumption` | chunk size and concurrency are positive, a request asks for at least one new token, ids are naturals |
| `ServingAssumption` | finitely many requests, at least one, with enough ids for them; limits are positive |
| `HttpAssumption` | at least one slot; the bounds on requests and events are naturals |
| `SpecAssumption` | a model answers every prefix with a token; a draft is positive; calls fit `MaxLen` |
| `GenerateAssumption` | contexts are naturals, 0 for none; a token has a sequence of bytes |
| `DecodeAssumption` | layers are attention or recurrent; a prompt is not empty and fits the context |
| `DeviceAssumption` | heads and row width are positive, a cache begins within `MaxRows` |
| `DsV4Assumption` | a window of at least 2 rows, ratios are naturals, at least one group is selected, there is a longest sequence, tables have at least 2 positions and drafts at least one |
| `Q4Assumption` | layers are of the three kinds; kernel, blocks, n-grams and taps span at least 2 positions (`[-0:]` would be a whole array); the budget is whole blocks |
| `BlockAssumption` | strides halve down to 1, so that a block is a power of two of threads |
| `KernelsAssumption` | the kernels are among those of `Code` |
| `ShardAssumption` | at least two ranks, at least one row in a block |
| `GeometryAssumption` | a geometry has the fields of its family, at least one of each |
| `PlanAssumption` | sizes are naturals, block size is positive, utilisation is a percentage |
| `WorldAssumption` | at least one rank |

### What is only model-checked

* Liveness: `FitFinishes`, `Answered`, `MemoryReturns`, `PlacesReturn`, `SlotsReturn`,
  `LoopsReturn`. It needs fairness and `ENABLED`, which are out of the prover's reach.
  The safety behind some of it is proved: `NobodyForgotten` for `Answered`,
  `NoPlaceEverLost` for `PlacesReturn`, `EngineAlwaysMatches` and `ReservationAlwaysHeld`
  for `MemoryReturns`, `SlotsAlwaysCounted` for `SlotsReturn`.

## 5. What the models assume and leave out

* Python-level atomicity: a dict, list or queue operation is one step. Commits of a
  decode step (plain assignments to the cache) are atomic; running out of host
  memory in one is not modelled.
* The main model's choice is a function of the prefix, and so are the scores by
  which an indexer selects: `ranking` and `rank` are any order of the groups.
  `GreedyDecode` has no context limit; `Generate` has one.
* The numpy driver does not raise. `prefill` and `logits` have no fallback and are not
  modelled; neither are the locks around lazily built tables, which guard a
  deterministic result.
* Shared memory in `ThreadBlock` is sequentially consistent: a race is a violation
  as such (`RaceFree`), so what a weaker memory would return does not matter.
  `gated_delta_step_kernel` shares nothing through its barrier; that its launch has
  256 threads, where its comment says one for each of `Vd` values, matters only for a
  head wider than 256, which no configuration has.
* `attach`, `run_all` and `generate_batch` (the command line's sequential way into the
  engine) are not modelled, nor are prompts as text: a prompt is its length.
* Sampling, repetition penalty and the prompt of `chat_tools`; image prompts of
  `deepseek_v4`, and a drafter that is set up in the middle of a context.
* `NcclCollectives`, every method of which raises; the table of hosts in
  `tp/topology.py`.
* Bytes of an unread body that happen to look like a request line: they would be
  answered as a request. The handler of the model closes the connection on them.
* A `DeviceBuffer.free()` that raises: `Placement` has failing uploads only, so it does
  not say what `store` and `free` of a device backend leave behind then.
* Ranks that disagree about when a tag is reset. A round of `Collectives` ends with
  `reset`, and `SimCollectives` knows no other rounds: partials that come together
  after a late reset are of one round to both.

*Not modelled at all*, and why: the memory planner (products and quotients of
configuration numbers with no second definition to compare them with; `NumBlocks` of
`Placement` has the same form), the sampler, forward passes and element-wise kernels
(floating-point arithmetic), checkpoint streaming and weight formats (lazy reads and
byte conversions of one thread), tokenizers, chat encodings and images (text and
pixels without state), recipes, entry points and diagnostics (parsing and start-up).
About half of the repository's implementation lines are sources of other projects
that are kept for comparison (`oracle/upstream`, `ref/hf_sources`), and most of the rest
is such arithmetic, so the modelled share of its lines is small; what has control,
order or accounting in it is modelled.

## 6. Where this stands

The parts of section 2 are modelled, each safety property of a passing run is proved
for all parameters, and liveness is checked by TLC.
What could be taken further is prompts as text and images, if `attach` and the image
prompts of `deepseek_v4` gain state that outlives a call.

# TLA+ models of the Ollama server (ollama37)

This directory holds TLA+ modules that model the core of the server in this
repository, TLC configurations that check them on small instances, and proofs
that TLAPS checks for instances of every size. Every definition that stands for
code is listed in `PROJECT.json` under `map` with the lines it models.

## 1. The system

`ollama serve` is one Go process. HTTP handlers (`server/routes.go`) resolve a
model, ask the **scheduler** (`server/sched.go`) for a runner, and stream the
runner's answer to the client. A runner is a subprocess (`ollama runner`,
`runner/ollamarunner` or `runner/llamarunner`) that `llm/server.go` starts and
talks to over local HTTP. Inside the runner, requests become sequences that share
one batch; an **input cache** maps sequences to slots of a **KV cache**
(`kvcache/`). Models come from a registry through **download** and **upload**
(`server/download.go`, `server/upload.go`, and the newer client under
`server/internal/`).

### Inventory

| Component | State | Operations | Interacts with | What is hard |
|---|---|---|---|---|
| Scheduler, `server/sched.go` | map `loaded`, `activeLoading`, four bounded channels; per runner a mutex, a reference count, a keep-alive timer | `GetRunner`, `processPending` (look up, evict, load), the loader goroutine, `processCompleted` (release, expire, unload), `expireRunner`, `unloadAllRunners` | handlers, runner subprocesses, timers | a goroutine per request, per load, per timer; two mutexes and four channels; eviction and expiry race with new requests; failure at every step of a load |
| Hand-out and life cycle, `server/routes.go` | the request's context; the signal handler | `scheduleRunner`, `Serve`, unload and delete handlers, ps | scheduler | cancellation before, during and after the hand-out; shutdown while a model loads |
| Batch loop, `runner/ollamarunner/runner.go` | sequences, the semaphore, the batch in flight | `completion`, `forwardBatch`, `computeBatch`, `removeSequence`, `processBatch` | input cache, KV cache | two goroutines, one batch computed while the next one is prepared |
| Input cache, `runner/ollamarunner/cache.go` | slots with their inputs, in-use flags and last use | `LoadCacheSlot`, `findLongestCacheSlot`, `findBestCacheSlot`, `ShiftCacheSlot` | KV cache | prefix reuse, forks, shifting with an index shift that may be refused |
| KV caches, `kvcache/` | cells with positions and sequence sets; recurrent states with checkpoints | `StartForward`, `Put`, `CopyPrefix`, `Remove`, `CanResume` | models | sliding windows, partial removal, copy on write, stale checkpoints |
| Runner client, `llm/server.go` | the subprocess, a semaphore, load progress | `Load`, `WaitUntilRunning`, `Completion`, `Close` | subprocess | stalls and timeouts, subprocess death |
| Download, `server/download.go` | part files, shared transfers with a reference count | `Prepare`, `Run`, `downloadChunk`, `Wait`, `acquire`/`release` | registry, disk | stall watchdog against a late answer, retries, resume after a crash |
| Upload, `server/upload.go` | parts and a chain of upload locations | `Prepare`, `Run`, `uploadPart`, `Wait` | registry | redirects, retries, one step of several failing |
| Manifests, layers, blobs, `server/images.go`, `manifest.go`, `layer.go`, `server/internal/cache/blob` | files | pull, push, prune, delete, link | disk | order of writes; prune against a concurrent pull |
| llama.cpp runner, `runner/llamarunner` | slots with their inputs; sequences | `LoadCacheSlot`, `processBatch`, `ShiftCacheSlot` | llama.cpp KV cache | a slot's record of its inputs against what the cache has kept |
| llama.cpp KV cache, `llama/llama.cpp/src/llama-kv-cache.cpp`, `llama-kv-cells.h`, `llama-context.cpp` | cells with position, pending shift and sequences, two indexes over them, a head per stream, stream copies to be done | `prepare`, `find_slot`, `apply_ubatch`, `seq_rm`, `seq_cp`, `seq_keep`, `seq_add`, `update`, `decode` | the runner, the graph | slots found on a trial placement; cells overwritten once out of the window; copies and rotations put off to the next decode; a ubatch that fails after others were computed |
| CPU thread pool, `ggml-cpu/ggml-cpu.c` | atomics for the graph number, the barrier and the chunks; a mutex with a condition variable; flags for stop, pause and abort | `ggml_graph_compute`, pause, resume, free; the loop of the workers | the caller's thread | lost wake-ups, a barrier that is reused at once, a chunk counter reset while others work, abort seen at different nodes |
| Text parsers (`thinking`, `tools`, `harmony`, `model/parsers`, `runner/common/stop.go`) | a buffer and a state | add a chunk | handlers | a tag or stop word split over chunks |
| Discovery, memory estimates, sampling, metrics, API conversion, command line, desktop app, model code, file formats | - | - | - | sequential, numerical or user interface |

What makes each of them correct: the scheduler never loses, duplicates or closes a
runner under its users, answers each request exactly once and unloads what is idle;
the batch loop and its caches give each sequence the model state of exactly its
own inputs; a transfer ends with the right bytes or an error, and never with both;
a parser's output does not depend on how its input was cut.

`PROJECT.json` lists every component, modelled or not, and under `hazards` the
places in the code that are hard to test.

## 2. Modules

| Module | Models |
|---|---|
| `Sched` | `server/sched.go` and the parts of `server/routes.go` that drive it |
| `SchedProofs`, `SchedCounts` | theorems about `Sched`: types, answers and the map; the limit on runners, the panic, reference counts and timers |
| `Runner` | `runner/ollamarunner/runner.go` and `cache.go` over a KV cache of full attention |
| `RunnerProofs`, `RunnerStored` | theorems about `Runner`: types, places and texts; what the cache holds for a slot |
| `GraphExec` | what `ggml_graph_compute` promises its caller (abstract) |
| `Threadpool` | the CPU thread pool, shown to implement `GraphExec` |
| `ThreadpoolProofs` | theorems about `Threadpool`, the refinement included |
| `KvCells` | `llama_kv_cells` and the operations on that bookkeeping, as operators |
| `KvCache` | llama.cpp's KV cache in use: decodes, sequence operations, updates; extends `KvCells` |
| `FoldInduction` | induction over the folds that model loops |
| `KvCellsProofs`, `KvCacheProofs` | theorems about `KvCells` and `KvCache` |
| `LlamaCache` | the slots and batch loop of `runner/llamarunner` over the windowed cache; extends `KvCache` |
| `Pull` | `PullModel` and the shared downloads, with the files that survive a crash |
| `MCSched`, `MCRunner`, `MCThreadpool`, `MCKvCache`, `MCLlamaCache`, `MCPull` | instances for TLC |

### Sched

*State.* `req[q]` is an `LlmRequest` together with the `GetRunner` call that made it
(`pc`), the goroutine that watches its context (`watched`) and what its two reply
channels hold (`reply`, `answers`). `ref[r]` is a `runnerRef` with its mutex (`mu`
says which goroutine holds it), its keep-alive timer (`timer`; `fired` callbacks
wait for the mutex), its loader goroutine (`load`) and the goroutines that will
re-queue an expired event (`again`). `srv[r]` is the subprocess. `loaded`,
`activeLoading` and the four channels are the fields of `Scheduler`; `pend`, `comp`
and `unl` are the program counters and locals of `processPending`,
`processCompleted` and a caller of `expireRunner`; `life` is the server process.
`stale` is a history variable: requests that were handed a runner after it was
unloaded.

*Grain.* One step is one critical section: what a goroutine does between two points
where it can block or where another goroutine can get in. A blocking send made with
`refMu` held keeps `mu` until it succeeds. `loadedMu` is not held across a blocking
operation, except for the overwritten runner in `load` (where it waits for the old
runner's `refMu`; the theorem `NeverOverwrites` shows this code is never reached).

*Data.* Durations are zero, finite or forever. Options are `num_gpu` and "the rest".
Whether a model fits is the choice of `llama.Load`'s result from `LoadOutcomes`;
GPU memory and its recovery are abstracted to that choice and to a wait.
`defaultModelsPerGPU` and the environment variable both end up in `MaxRunners`.
The reference count is a machine word (`UintMod`). A runner is identified with its
pid. Logging, metrics and `expiresAt` are left out.

*Bounds.* `MaxRefs` subprocesses are ever spawned; when they are used up the next
spawn fails, as `newServerFn` may. `MaxUnloads` bounds calls of `expireRunner`. Each
request of `Req` calls `GetRunner` once.

### Runner

*State.* `srv` holds what `mu` protects: the places (`seqs`), the sequences, the slots
of the input cache, the cells of the KV cache and where the search of `forwardBatch`
goes on. `hpc[q]` is where the handler of a request is, `queue` the requests waiting
for `seqsSem`, `got[q]` what the handler has sent on. `last` is `previousBatch` of the
loop in `run`, `flight` the batches that were built and are not done.

*Grain.* A section under `mu` is one action. `flushPending` may wait for room in a
request's channel with `mu` held; the reader of the channel needs nothing `mu`
protects, so the action waits for the room instead.

*Data.* An input is a token, or a placeholder for the token that a batch in flight has
yet to sample; `computeBatch` fills it in. The text of a token is abstracted to what
it does to the pending text (`Kinds`): it can be sent, is held back, or completes a
stop sequence that began in an earlier piece.

*Points the model makes visible.*
- A batch that is left empty after `ErrReprocessInputs` (`runner.go:631`) breaks the
  chain from `outputsReadyCh` to `inputsReadyCh`: the next batch starts while the
  outputs that its placeholders stand for are still being computed. The variable `early`
  records that this has happened; from then on keys may be computed from placeholders,
  and `StoredInputs` and `OwnTokensInOrder` say nothing. `InputsWereReady` is violated.
- The second loop of `computeBatch` (`runner.go:780`) does not check that a place still
  holds the sequence of its batch. A new sequence can be given a token of its
  predecessor (`ReplacedDiscarded` is violated). `OwnTokensInOrder` therefore speaks of a
  request's own tokens.
- A stop sequence of several tokens that completes after the inputs were returned for
  computing again cuts the slot below zero, which panics (`runner.go:849`, `down`;
  `HeldIsCached` is violated). `EveryRequestEnds` excepts it.
- With a limit on its tokens a sequence is removed when the next batch is built, before
  the last of the tokens it was counted for is sampled.

Embeddings, images, caches with a window and the clock are left out. With a clock too
coarse to tell two uses apart, `findBestCacheSlot` can return no slot (`cache.go:207`);
time is a strict order in the model.

### GraphExec and Threadpool

*State.* The fields of `struct ggml_threadpool` under their own names, and per thread
its program counter and locals. `result` and `wdata` record what has been computed:
the chunks of the current graph, and for which node each thread has converted its part
of the operand.

*Grain.* A step is one access of an atomic variable. The mutex is held across steps
only by `ggml_graph_compute_kickoff`. The build is the one without OpenMP; with it the
pool's own synchronisation is not compiled.

*Data.* A node is a matrix multiplication with `RawChunks` chunks, adapted to the
number of threads as the code does. `PassMod` is where `n_barrier_passed` wraps, so
that the wrap-around (of a 32-bit counter in the code) happens.

*Refinement.* `ImplementsGraphExec` maps the pool to `GraphExec`: a chunk is computed
only when all nodes before its node are complete, and success is returned only for a
complete graph.

*Scope of the instance.* No thread sits out one graph and works on a later one. A
worker reads the graph number and the number of threads in two steps
(`ggml-cpu.c:2957` and `2959`); one that is slow to see that it sits out a graph can
take the thread count of the next. Pools whose thread count goes up again between
graphs are outside what `pool` shows.

### KvCells, KvCache and LlamaCache

*State.* `kv` is the bookkeeping: per stream the cells and the head. `data` is the key
tensor: of every cell, the token it was computed from and the position it is rotated
for. `sc_info` are copies between streams that the next update makes. `dec` is the
decode in progress. `hist`, the text of each sequence as its caller sees it, is what
the properties compare with.

*Actions.* A decode is the update (queued stream copies, then the K-shift), `Prepare`
(split into ubatches, place all of them on trial, undo that), the reservation of the outputs,
then per ubatch `apply_ubatch` and the computation, which may fail; a failure
removes the positions of the ubatches that were not computed. Between decodes a caller
removes, copies, keeps, shifts or clears. The model keeps to the interface: it rolls
back only where the window is still stored; it shifts no chunked window (the
chunk borders would not move with the keys); after a refused decode it clears the cache,
as `llamarunner` panics there. `seq_div` is not called by the repository and is left out.

*Failures of a decode.* The K-shift has two outcomes (`KShift`). When its graph cannot be
allocated or computed (`llama-kv-cache.cpp:644-654`) the shifts stay pending and decode
goes on all the same (`llama-context.cpp:1012`): the trial placement, further shifts and stream
copies then work on cells with a pending shift. A failed computation may have rotated some layers and
not others, so a key it was to rotate is `Spoilt` and stays so until its cell is
written or emptied. A batch that does not fit is tried a second time if a shift is still
pending, after another K-shift. A batch that fits can still be refused because its outputs
find no memory (`llama-context.cpp:1060`). The asserts against pending shifts in
`llama-kv-cells.h` (131, 193) are not compiled into a release build; the model goes on as that
build does.

*Modes.* One unified stream or one per sequence; no window, a sliding one or a chunked
one; how long the texts get, how many stream copies wait for one update, and whether the caller shifts. In run `kv` the windowed modes
have one ubatch per batch; `kv_trial` shows what several do.

*LlamaCache* adds the caller that this repository has: slots that remember their
inputs, the search for the longest common prefix, and the batch loop, over a windowed
cache with a stream per slot. It has no fork: with `OLLAMA_MULTIUSER_CACHE` set, a fork
between slots makes llama.cpp abort when the streams are separate and the copy is not
of a whole sequence (`cache.go:177`), which ends the process.

### Pull

*State.* `disk` is what survives a crash: the blobs under their final names, the units
in the `-partial` file, the part files and the manifests. `mgr` is
`blobDownloadManager`; `obj[<<p, n>>]` is the download that the n-th try of pull `p`
has stored there. `pull[p]` is the call of `PullModel`: which layer it is at, which
were cache hits, what it may delete, which download it waits for.

*Actions.* Looking a blob up and storing or joining its download, creating part files
one by one, reading them back, the chunks with their retries and stalls, closing and
renaming, the end of a wait (done, failed, cancelled), the release that cancels a
download nobody waits for, verification, the manifest (created, then written), the
deletion of unused layers. `Crash` keeps the disk and drops the rest; the start then
prunes unless `NoPrune` or an unreadable manifest prevents it.

*Joiners without a runner.* `CancelFunc` is set by `Run` only. A pull that leaves a
download as the last one while its creator is still in `Prepare` calls a nil function,
which takes the server down; the model treats it as a restart.

## 3. Runs

| Run | Configuration | Checks |
|---|---|---|
| `sched_faults` | 2 requests with any of three argument records, 2 models, 1 runner allowed, channels of capacity 1, every fault, one unload call, shutdown | `TypeOK`, `AnsweredOnce`, `LoadedIsUp`, `NoLeak`, `WithinMaxRunners`, `InUseIsUp`, `NoOverwrite` |
| `sched_live` | 3 requests (two for one model, one for the other), 2 runners allowed, a load may not fit, fairness | `RefCountExact`, `TimerMeansIdle`, `IdleWillExpire`, `NoPanic`, `EventuallyAnswered`, `EventuallyUnloaded` |
| `sched_stale` | 2 requests | `RefCountPreventsUnload` is violated |
| `sched_starved` | 3 requests, one with `keep_alive` -1, fairness | `RoomIsMade` is violated |
| `sched_vanish` | 3 requests, 2 runners, a model file may vanish | `SameModelAfterEviction` is violated |
| `sched_queue` | 2 requests, capacity 1 | `CompletedNotStuck` is violated |
| `runner` | 2 requests, one may hang up; one place and a cache that cannot shift, or two places with forks and shifts; context 3, batch 2, channel of 1; fairness | `TypeOK`, `StoredInputs`, `WholeText`, `OwnTokensInOrder`, `PlacesCounted`, `EveryRequestEnds` |
| `pool` | up to 3 threads, two graphs of two nodes, pauses, aborts, fairness | `TypeOK`, `ChunkSeesItsOperand`, `ChunkOnce`, `ImplementsGraphExec`, `GraphCompletes`, `FreeCompletes` |
| `kv` | 2 sequences, 3 cells, window 2, texts of up to 4, failing K-shifts and ubatches, six modes | `TypeOK`, `IndexExact`, `AttentionExact`, `PositionsPresent` |
| `kv_trial` | 1 sequence, 4 cells, window 2, batches of two ubatches | `PrepareRestores` is violated |
| `slot_window` | 2 slots, window 2 in 4 cells, a prompt of six and one that differs early | `InputsAreStored` is violated |
| `pull` | 2 pulls of two models that share a blob of two parts, 2 tries each, one crash, failing requests and writes | `ManifestIntact` is violated |

*Why the bounds are enough.* Two requests already give every pair of goroutines a
race on one runner, and with one runner allowed they give an eviction. Three
subprocesses let a runner be replaced twice, so that events for a runner that is
gone meet its successor. Capacity 1 makes every channel full; the liveness run uses
capacity 3, because with less the code really does get stuck (`sched_queue`). The
third request of `sched_live` takes the runner that is being evicted into use.
In `runner` a prompt fills the context, so that generation shifts at once or stops at the
limit, the other prompt is longer than the context and is cut, and both share a prefix,
so that one forks the other's slot while a batch over it is in flight. Three threads
let one be late at a barrier that two others have already passed and reached again; two
nodes reset the chunk counter in both directions, and two graphs let a worker sleep,
poll or be paused in between. In `kv` three cells for two sequences make the cache
full, shared, overwritten and wrapped around; a window of 2 in texts of 4 leaves two
positions outside it. The windowed mode that shifts has texts of 3, since each pending shift that
a failed K-shift leaves behind multiplies the states (the run has 171,000). The violated
properties are found on instances that are as small as the flaw allows; each finding says
which that is.

*Exploring beyond the runs.* Four properties state what a comment in the code says where the
properties of a run have an exception. They are violated, each in seconds, with configurations of their own;
`tlc -config <file> <module>` prints the behaviour.

| Configuration | Module | Violated | What happens |
|---|---|---|---|
| `MCKvShift.cfg` | `MCKvCache` | `ShiftsHandled` ("handle any pending shifts/copies", `llama-context.cpp:1011`) | the head of a text is dropped and the rest moved down, the K-shift fails, decode goes on, and a token attends to a key rotated for its old position (6 states) |
| `MCRunnerReplaced.cfg` | `MCRunner` | `ReplacedDiscarded` ("sequence replaced, discarding its results", `runner.go:697`) | a sequence is removed because its context is full while its batch is computed; a new request takes its place and is sent the token sampled for the old one (14 states) |
| `MCRunnerEarly.cfg` | `MCRunner` | `InputsWereReady` ("the inputs will be ready in the seqs immediately", `runner.go:490`) | the only sequence must compute its inputs again, the empty batch hides the batch in flight, and a later batch stores the key of a placeholder (15 states) |
| `MCRunnerStop.cfg` | `MCRunner` | `HeldIsCached` ("We have 1 token more than is currently in the cache", `runner.go:837`) | a stop sequence is completed when its slot has been emptied for computing again; the slot is cut to a negative length and the runner panics (18 states) |

`ManifestIntact` holds on the instance of `pull` when no write
fails (`Writes = {TRUE}`, 358,106 states). It is violated again without failing writes
with `NoPrune` and a crash, and with two crashes and a second layer.

*Deadlock* is checked except in `pull` and `slot_window`, whose clients may stop asking.
In `Sched` a state in which every goroutine waits in a
`select` for an event is not a deadlock (action `Resting`); a goroutine stuck on a
mutex or on a full channel is. `Runner` and `Threadpool` have a step of the same kind for
a runner without requests and for a pool that was freed.

*Fairness.* In `Sched`: each goroutine that can move does (the Go
scheduler), a client that got its runner finishes, a subprocess reports, finite
timers run out: weak fairness. `processCompleted` chooses at random among the ready
channels of its `select`, so the expired events that a busy runner sends every
10 ms cannot hide a finished request for ever: strong fairness for `CompFinished`.
A timer set to "forever" has no fairness, and clients need not go away.
In `Runner`: the goroutines of the handlers, of the loop and of each batch run, a
computation ends, and a client reads what it is sent or hangs up; it need not hang up.
In `Threadpool`: the operating system runs every thread that can move, the caller's
within a call too; nothing is assumed of when it calls, pauses, resumes or frees.

*Qualified properties of* `Sched`. `RefCountExact`, `InUseIsUp`, `IdleWillExpire`,
`TimerMeansIdle` and the liveness properties hold as long as no request was handed
an unloaded runner (`stale = {}`). `sched_stale` shows why the qualification is
needed: `GetRunner` releases `refMu` between the check and the use of a runner.

*Qualified property of* `KvCache`. `AttentionExact` says of every token and every position of
its window that there is exactly one visible cell and that its key is the right one, or one
whose own K-shift has failed. All other keys must be right also after such a failure.
`MCKvShift.cfg` shows why the exception is needed.

### What the violated properties show

* `RefCountPreventsUnload`: between `needsReload` and `useLoadedRunner` an expired
  event unloads the runner; the request gets a closed runner.
* `RoomIsMade`: a request that takes the runner chosen for eviction into use
  replaces the session duration that was set to zero; with `keep_alive` -1 the
  runner stays and the pending request waits for ever.
* `SameModelAfterEviction`: an unreadable model file after an eviction leaves
  `activeLoading` set; the next load of another model panics.
* `CompletedNotStuck`: `processCompleted` sends to the bounded channel it alone
  receives from.

* `PrepareRestores`: the trial placement of a batch purges cells that it has not saved;
  they stay empty, and a later ubatch of the batch can take away positions that an
  earlier one needs.
* `InputsAreStored`: the llama.cpp runner continues from a common prefix that the windowed
  cache has overwritten; the removal reports success.
* `ManifestIntact`: a blob has its final name before it is verified. A second pull takes it as
  a cache hit, does not verify it, and writes its manifest; if a part file could not be
  written in an earlier try, the blob is truncated. A pull that has a cache hit and no
  manifest yet can also lose the blob to the deletion of another pull's unused layers.

## 4. Proofs

The theorems hold for all values of the constants that satisfy the assumptions
in the modules: finite or infinite sets of requests and models, any capacities, any
number of threads, cells, sequences and positions. Two groups of theorems have a
hypothesis of their own, named below. The inductive invariants were checked with TLC
on the instances of section 3 before they were proved.

### The scheduler

`SchedProofs`:

* `TypeCorrect`: `Spec => []TypeOK`. `TypeOK` is inductive: besides the types it
  says which goroutine states imply that a runner or request is present.
* `AnsweredAtMostOnce`: `Spec => []AnsweredOnce`. The invariant needed is
  `OwnerInv`: an unanswered request that left `GetRunner` is in at most one of three
  places (`pendingReqCh`, `processPending`, one loader), each place at most once, and
  whoever answers gives it up in the same step.
* `LoadedRunnersAreUp`, `NoSubprocessLeaks`, `NeverOverwrites`: `Spec => []LoadedIsUp`,
  `Spec => []NoLeak`, `Spec => NoOverwrite`. They follow from `LoadInv`, inductive
  together with the two above: from the look at the map until the installation the
  pending model has no runner; a runner in the map is that of its path; the server
  being loaded is not in the map, has been spawned and, until the shutdown, is
  `activeLoading`.

`SchedCounts`:

* `MaxRunnersRespected`: `Spec => []WithinMaxRunners`. `processPending` counts the map,
  releases `loadedMu` and loads; the invariant says that from the count until the
  installation there is room for one more, because only `processPending` installs
  and everybody else only removes.
* `NeverPanics`: `Spec => []NoPanic`. A server left in `activeLoading` by a load
  that needed an eviction is always that of the request which is tried again next.

Also in `SchedCounts`, under the hypothesis `FewRequests`: there are finitely many requests, and
fewer than the machine word of the counter can hold. Without it the counter would wrap, in
the code as in the model.

* `RefCountsExact`: `Spec => []RefCountExact`. A reference is held by a request whose
  watcher lives or that waits in `finishedCh`, never both (`HoldInv`); each step
  that takes or gives back a reference changes the set of holders by one request.
* `UsedRunnersAreUp`, `TimersMeanIdle`, `IdleRunnersWillExpire`: `InUseIsUp`,
  `TimerMeansIdle` and `IdleWillExpire` follow with the counts exact: the checks for a
  count of zero in `processCompleted` and in the callbacks of the timers then mean what
  they are meant to mean. As in the runs, all four speak of the time until a request is
  handed an unloaded runner.

### The thread pool

`ThreadpoolProofs`, under the hypothesis `NeverMoreThreads`: no graph of a pool's life uses
more threads than an earlier one. It is the case of this repository:
nothing in it creates a pool that outlives a graph (`ggml_threadpool_new` and
`attach_threadpool` have no callers outside the library), so that `ggml_graph_compute`
uses a disposable pool for one graph. Without it the race of two reads described in section
2 is possible.

* `TypeCorrect`: `Spec => []TypeOK`.
* `OperandsReady`, `ChunksComputedOnce`: `Spec => []ChunkSeesItsOperand` and
  `Spec => []ChunkOnce`.
* `RefinesGraphExec`: `Spec => ImplementsGraphExec`; every step of the pool is a step of
  `GraphExec` or leaves its state alone.

The argument is about stages. Node n is prepared in stage 2n and computed in stage 2n + 1.
`PoolInv` says that all threads of the crew are always in the same stage: a thread that
has not yet noticed that its barrier is open counts as being behind it, so the stage
changes in one step, that of the last thread at the barrier. For that `n_barrier` must be the number
of threads that have arrived, and `n_barrier_passed` must not come back to a
value a waiting thread has read; it advances once per barrier, and nobody can be
two barriers behind, so that a wrap-around at any `PassMod` above 1 is harmless.
`DataInv` then says what has been converted and computed in each stage and who owns which
chunk: the chunk counter starts at the number of threads, each thread's first chunk has its own
number, and the counter hands out every other number once.

### Loops

The loops over cells, tokens and sequences are folds (`FoldSet`, `FoldLeft`). The provers
cannot instantiate an induction theorem that has an operator as its parameter. In
`FoldInduction` the fold's operator is a constant of the module, and `FoldSetInduction` and
`FoldLeftInduction` are theorems about that constant; a proof about one loop takes an
INSTANCE of the module with the body of that loop.

### llama.cpp's KV cache

`KvCacheProofs`, resting on `KvCellsProofs`:

* `IndexAlwaysExact`: `Spec => []IndexExact`. After any order of decodes, trial placements and their
  undoing, failed ubatches and K-shifts, removals, copies inside and between streams, keeps, shifts and clears,
  `used`, the positions, the owners and the counts of `seq_pos` agree in every stream.
* `TypeCorrect`: `Spec => []TypeOK`.

`IndexExact` alone is not inductive. `Good` adds `Settled`: an empty cell has no shift
waiting, a position less its shift is a position, and there is a shift only if
`has_shift` says so. It is needed because `seq_cp` between streams recomputes positions
as they were before their shift, and because the trial placement neither saves nor restores
shifts. With K-shifts that fail, the trial does meet cells with a shift waiting. What makes it
harmless is that a cell of its slots either was empty, and has no shift, or is emptied before it is
taken, which drops its shift, and that nothing on the way to the undoing gives a cell a
shift (`Calms`, `From`). So the positions that the undoing puts back have no shift waiting
(`Undoable`), and `Settled` holds again. For `TypeOK` the texts must stay within the positions: `BoundInv` says
that no token is in two pending ubatches and that the text of a sequence and what is pending of it
fit together, for which `split_simple` and `split_equal` must cut a batch into disjoint parts.

### The runner

`RunnerProofs`:

* `TypeCorrect`: `Spec => []TypeOK`. Among the types are limits that the code relies on: a slot has at
  most `NumCtx` cells, a channel of responses at most `RespCap` messages, and only the newest batch in
  flight can be waiting for its inputs.
* `PlacesAreCounted`: `Spec => []PlacesCounted`. The semaphore, the places and the in-use flags of the
  slots agree, whatever ends a sequence: its limit, a stop, a client that hung up, a context that cannot
  be shifted.
* `TextIsWhole`: `Spec => []WholeText`. What a slot has stored, what waits in a batch and what is
  still to be computed of a live sequence is always its prompt followed by what it has generated,
  up to one piece that shifts have cut out behind the kept prefix.

The invariant is `Inv`. `Sound` is about the state under `mu`: places and slots correspond
one to one (`Seated`, `Slotted`), the queue and the semaphore account for the handlers that
wait (`Queued`, `Counted`), every slot's record fits its context (`Cached`), and the text is whole
(`Whole`). The text is compared position by position, with a gap that begins behind the kept
prefix, since a shift only ever lengthens that gap. `Flying` and `Awaits` are about the batches in flight: only
the newest may be waiting for its inputs, inputs are pending for that one only,
and each of its sequences has an output of its own to sample from. Without them `computeBatch` could
be applied to a batch whose pending inputs belong to another. `forwardBatch` and `computeBatch` loop over
the places, and inside a loop the invariant is broken for the places not yet visited; `Going` and
its kind say how, and `FoldInduction` carries them through. The theorems assume two things of the constants:
`SizesAssumption` (context, batch, places and channels have a size of at least one, a batch is not larger than
the context, and a generation without a limit does not shift) and `ArgsAssumption` (a prompt has at least
one input, which `NewSequence` checks; the rest is types).

`RunnerStored`, resting on all of the above:

* `SlotsAreStored`: `Spec => []StoredInputs`. At every position a slot claims, the cache holds the key of that
  very token, although a batch is built with placeholders for tokens its predecessor has not sampled yet, and
  although slots are forked, shifted, emptied and taken over while batches are in flight. As in the run, it
  speaks of the time until a batch starts before its inputs are there (`early`, section 2).

`StoredInputs` compares cells with tokens that may still change: sampling fills in a placeholder wherever it
stands. An input is *open* in a batch in flight while that batch has yet to sample it. `StoredInv` says: an
input that a slot claims is open nowhere and its cell has its key (`Holds`); an input that is pending or to
come is open at most in the batch that the one computing it waits for (`Follows`); the pending
inputs are in the latest batch, in the slot's own cells, which are still marked as not computed (`Carries`); a
batch writes each cell once (`Single`); and a request has no tokens before its admission (`Blank`). So when
`computeBatch` moves pending inputs to the slot, their keys are those just computed, and what it samples
is in no slot. The cells that `forwardBatch` takes belong to no slot
(`Unowned`), so a batch in flight never overwrites what another slot claims. The marks must not be
tokens (`MarkAssumption`): they are values of the model only.

### Only model-checked

* Liveness (`EventuallyAnswered`, `EventuallyUnloaded`, `EveryRequestEnds`, `GraphCompletes`,
  `FreeCompletes`): it needs fairness, which is out of the prover's reach.
* `AttentionExact` and `PositionsPresent` of `KvCache`: they compare the key tensor with the texts,
  and need invariants on the window and on copies that are still to be made.
* `OwnTokensInOrder` of `Runner`: it is about `SelectSeq`, a recursive definition.
* `Pull`, `LlamaCache` and the other modules with a violated property.

## 5. Plan

Done: the scheduler, the runner's batch loop and input cache, the thread pool with its
abstract specification, llama.cpp's KV cache and the runner over it, pulls and downloads;
proofs of all safety properties of the scheduler and of the thread pool, of the bookkeeping of
the KV cache, and of the types, places, texts and stored inputs of the runner.

To prove, where more is wanted: `PositionsPresent` and `AttentionExact` of `KvCache`.

To model, where more is wanted: the windows of `kvcache/causal.go`, the recurrent caches
with their checkpoints, upload, the runner client's wait for its subprocess.

## 6. Not modelled

* `kvcache/causal.go` beyond what `Runner` uses of it (windows, contiguous placement,
  defragmentation, masks), the recurrent and encoder caches, llama.cpp's recurrent and
  hybrid memory. The pair of caches of a windowed llama.cpp model is two instances of
  `KvCache`.
* Upload, push, create, copy and delete of models, and the registry client under
  `server/internal`.
* The subprocess client: its wait states are small, its memory fitting is arithmetic over
  GPU tables.
* The text parsers and the string matching of stop sequences.
* GGML's allocator and backend scheduler (sequential planning over large graphs), the
  kernels, the model graphs, quantisation and the tokenizer tables. They are vendored numeric
  code and tables, by far most of the lines of C and C++ in the repository; there is no
  state machine in them to check.
* The OpenMP build, thread affinity and priorities of the CPU pool.
* GPU discovery, sampling, API conversions, metrics, the command line and the desktop
  application.
* Data races without an outcome inside a model: the ps handler ranges over the map of
  runners without its mutex (`routes.go:1865`), which Go may answer with a fatal error.

`PROJECT.json` gives the reason per component.

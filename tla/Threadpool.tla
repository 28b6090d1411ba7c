---------------------------- MODULE Threadpool -----------------------------
(***************************************************************************)
(* The thread pool of the CPU backend, ggml/src/ggml-cpu/ggml-cpu.c, in    *)
(* the build without OpenMP: workers that poll and then sleep until there  *)
(* is a graph, the barrier between the nodes, the shared chunk counter of  *)
(* a matrix multiplication, abort, pause, resume and free.                 *)
(*                                                                         *)
(* A step is one atomic access of a shared variable.  The mutex is held    *)
(* across steps only by ggml_graph_compute_kickoff; what it protects       *)
(* (n_graph, n_threads_cur, stop, pause) is written under it, so the other *)
(* critical sections are one step each.                                    *)
(***************************************************************************)
EXTENDS Integers, Sequences

CONSTANTS
  MaxThreads,  \* n_threads_max of the pool
  Plans,       \* sequences of thread counts: the successive calls of ggml_graph_compute
  NNodes,      \* nodes of every graph, each a matrix multiplication
  RawChunks,   \* chunks of a node before they are adapted to the thread count
  PassMod,     \* the counter n_barrier_passed wraps at this value
  CanPause,    \* whether the caller pauses and resumes the pool
  CanAbort     \* whether the abort callback may answer true

ASSUME ThreadpoolAssumption ==
  /\ MaxThreads \in Nat \ {0}
  /\ Plans \subseteq Seq(Nat \ {0})
  /\ NNodes \in Nat \ {0}
  /\ RawChunks \in [0..NNodes - 1 -> Nat \ {0}]
  /\ PassMod \in Nat \ {0, 1}
  /\ CanPause \in BOOLEAN
  /\ CanAbort \in BOOLEAN

Thread == 0..MaxThreads - 1
Worker == Thread \ {0}

VARIABLES
  \* struct ggml_threadpool
  n_graph, n_barrier, n_barrier_passed, current_chunk,
  stop, pause, abort, n_threads_cur, ec,
  cgraph,      \* the graph of the pool, by its number
  \* struct ggml_compute_state and the locals of its thread
  pc, last_graph,
  new_graph,   \* the local of ggml_graph_compute_thread_ready
  graph, node, nth, chunk, n_passed,
  after,       \* where a thread goes on after the barrier
  \* the caller
  todo,        \* thread counts of the calls to come
  request,     \* thread count of the current call
  ret,         \* status returned by the last call
  \* what has been computed
  wdata,       \* wdata[t]: for which node the part of thread t was prepared
  result       \* the chunks of the current graph that are computed

poolVars == <<n_graph, n_barrier, n_barrier_passed, current_chunk, stop, pause,
              abort, n_threads_cur, ec, cgraph>>
stateVars == <<last_graph, new_graph>>
localVars == <<graph, node, nth, chunk, n_passed, after>>
callVars == <<todo, request, ret>>
dataVars == <<wdata, result>>
vars == <<poolVars, pc, stateVars, localVars, callVars, dataVars>>

NoAbort == -1
NoWork == <<0, 0>>

\* A poor chunking is scrapped and each thread gets one chunk.
NChunk(n, k) == IF RawChunks[n] < k * 4 THEN k ELSE RawChunks[n]

Init ==
  /\ n_graph = 0 /\ n_barrier = 0 /\ n_barrier_passed = 0 /\ current_chunk = 0
  /\ stop = FALSE /\ pause \in (IF CanPause THEN BOOLEAN ELSE {FALSE})
  /\ abort = NoAbort /\ n_threads_cur = MaxThreads /\ ec = "success"
  /\ cgraph = 0
  /\ pc = [t \in Thread |-> IF t = 0 THEN "idle" ELSE "loop"]
  /\ last_graph = [t \in Worker |-> 0]
  /\ new_graph = [t \in Worker |-> 0]
  /\ graph = [t \in Thread |-> 0]
  /\ node = [t \in Thread |-> 0]
  /\ nth = [t \in Thread |-> MaxThreads]
  /\ chunk = [t \in Thread |-> 0]
  /\ n_passed = [t \in Thread |-> 0]
  /\ after = [t \in Thread |-> "done"]
  /\ todo \in Plans /\ request = 0 /\ ret = "none"
  /\ wdata = [t \in Thread |-> NoWork]
  /\ result = {}

MutexFree == pc[0] \notin {"kickGraph", "kickWake"}
Goto(t, l) == pc' = [pc EXCEPT ![t] = l]

\* ggml_cond_broadcast: sleepers go on to the check they make when they wake up.
Broadcast(p) ==
  [t \in Thread |-> CASE p[t] = "pauseWait" -> "loop"
                      [] p[t] = "workWait"  -> "locked"
                      [] OTHER              -> p[t]]

-----------------------------------------------------------------------------
(* The secondary threads: ggml_graph_compute_secondary_thread.  Its flag     *)
(* pending is true exactly on the way to "start".                           *)

PauseCheck(t) ==
  /\ pc[t] = "loop"
  /\ Goto(t, IF pause THEN "pauseLock" ELSE "stop")
  /\ UNCHANGED <<poolVars, stateVars, localVars, callVars, dataVars>>

PauseLock(t) ==
  /\ pc[t] = "pauseLock" /\ MutexFree
  /\ Goto(t, IF pause THEN "pauseWait" ELSE "loop")
  /\ UNCHANGED <<poolVars, stateVars, localVars, callVars, dataVars>>

StopCheck(t) ==
  /\ pc[t] = "stop"
  /\ Goto(t, IF stop THEN "exit" ELSE "pollActive")
  /\ UNCHANGED <<poolVars, stateVars, localVars, callVars, dataVars>>

\* ggml_graph_compute_poll_for_work: unused threads do not poll.
PollActive(t) ==
  /\ pc[t] = "pollActive"
  /\ Goto(t, IF t < n_threads_cur THEN "poll" ELSE "locked")
  /\ UNCHANGED <<poolVars, stateVars, localVars, callVars, dataVars>>

\* ggml_graph_compute_thread_ready without the mutex, in three reads: the flags,
\* the graph counter, and only if that has changed the number of threads.
ReadyFlags(t) ==
  /\ pc[t] = "poll"
  /\ Goto(t, IF stop \/ pause THEN "locked" ELSE "pollGraph")
  /\ UNCHANGED <<poolVars, stateVars, localVars, callVars, dataVars>>

\* No new work: poll again, or give up polling after n_rounds.
ReadyGraph(t) ==
  /\ pc[t] = "pollGraph"
  /\ IF n_graph # last_graph[t]
     THEN new_graph' = [new_graph EXCEPT ![t] = n_graph] /\ Goto(t, "pollUpdate")
     ELSE (Goto(t, "poll") \/ Goto(t, "locked")) /\ UNCHANGED new_graph
  /\ UNCHANGED <<poolVars, last_graph, localVars, callVars, dataVars>>

ReadyActive(t) ==
  /\ pc[t] = "pollUpdate"
  /\ last_graph' = [last_graph EXCEPT ![t] = new_graph[t]]
  /\ IF t < n_threads_cur THEN Goto(t, "start")
     ELSE Goto(t, "poll") \/ Goto(t, "locked")
  /\ UNCHANGED <<poolVars, new_graph, localVars, callVars, dataVars>>

\* The rest of ggml_graph_compute_check_for_work, with the mutex: test once more,
\* sleep if there is nothing to do.
CheckForWork(t) ==
  /\ pc[t] = "locked" /\ MutexFree
  /\ IF stop \/ pause
     THEN Goto(t, "loop") /\ UNCHANGED last_graph
     ELSE /\ Goto(t, IF n_graph # last_graph[t] /\ t < n_threads_cur
                     THEN "start" ELSE "workWait")
          /\ last_graph' = [last_graph EXCEPT ![t] = n_graph]
  /\ UNCHANGED <<poolVars, new_graph, localVars, callVars, dataVars>>

\* pthread_cond_wait may return without a broadcast.
SpuriousWake(t) ==
  /\ pc[t] \in {"pauseWait", "workWait"} /\ MutexFree
  /\ Goto(t, IF pc[t] = "pauseWait" THEN "loop" ELSE "locked")
  /\ UNCHANGED <<poolVars, stateVars, localVars, callVars, dataVars>>

-----------------------------------------------------------------------------
(* A thread at work: ggml_graph_compute_thread                              *)

ComputeStart(t) ==
  /\ pc[t] = "start"
  /\ graph' = [graph EXCEPT ![t] = cgraph]
  /\ nth' = [nth EXCEPT ![t] = n_threads_cur]
  /\ node' = [node EXCEPT ![t] = 0]
  /\ Goto(t, "node")
  /\ UNCHANGED <<poolVars, stateVars, chunk, n_passed, after, callVars, dataVars>>

NodeLoop(t) ==
  /\ pc[t] = "node"
  /\ IF node[t] < NNodes /\ abort # node[t]
     THEN Goto(t, "prepare") /\ UNCHANGED after
     ELSE Goto(t, "barrier") /\ after' = [after EXCEPT ![t] = "done"]
  /\ UNCHANGED <<poolVars, stateVars, graph, node, nth, chunk, n_passed, callVars, dataVars>>

\* slip: the counter starts at the chunks the threads take by their number
PrepareFromZero(t) ==
  /\ pc[t] = "prepare"
  /\ wdata' = [wdata EXCEPT ![t] = <<graph[t], node[t] + 1>>]
  /\ current_chunk' = IF t = 0 THEN 0 ELSE current_chunk
  /\ after' = [after EXCEPT ![t] = "chunks"]
  /\ Goto(t, "barrier")
  /\ UNCHANGED <<n_graph, n_barrier, n_barrier_passed, stop, pause, abort, n_threads_cur,
                 ec, cgraph, stateVars, graph, node, nth, chunk, n_passed, callVars, result>>

\* ggml_compute_forward_mul_mat up to its barrier: each thread converts its part of
\* the second operand into wdata, the first one resets the chunk counter.
Prepare(t) ==
  /\ pc[t] = "prepare"
  /\ wdata' = [wdata EXCEPT ![t] = <<graph[t], node[t] + 1>>]
  /\ current_chunk' = IF t = 0 THEN nth[t] ELSE current_chunk
  /\ after' = [after EXCEPT ![t] = "chunks"]
  /\ Goto(t, "barrier")
  /\ UNCHANGED <<n_graph, n_barrier, n_barrier_passed, stop, pause, abort, n_threads_cur,
                 ec, cgraph, stateVars, graph, node, nth, chunk, n_passed, callVars, result>>

\* The first chunk is that of the thread's number, if there are as many chunks.
FirstChunk(t) ==
  /\ pc[t] = "chunks"
  /\ chunk' = [chunk EXCEPT ![t] = t]
  /\ Goto(t, IF t < NChunk(node[t], nth[t]) THEN "chunk" ELSE "nodeEnd")
  /\ UNCHANGED <<poolVars, stateVars, graph, node, nth, n_passed, after, callVars, dataVars>>

OneChunk(t) ==
  /\ pc[t] = "chunk"
  /\ result' = result \union {<<node[t], chunk[t]>>}
  /\ Goto(t, IF nth[t] >= NChunk(node[t], nth[t]) THEN "nodeEnd" ELSE "nextChunk")
  /\ UNCHANGED <<poolVars, stateVars, localVars, callVars, wdata>>

\* ggml_threadpool_chunk_add
NextChunk(t) ==
  /\ pc[t] = "nextChunk"
  /\ chunk' = [chunk EXCEPT ![t] = current_chunk]
  /\ current_chunk' = current_chunk + 1
  /\ Goto(t, IF current_chunk < NChunk(node[t], nth[t]) THEN "chunk" ELSE "nodeEnd")
  /\ UNCHANGED <<n_graph, n_barrier, n_barrier_passed, stop, pause, abort, n_threads_cur, ec,
                 cgraph, stateVars, graph, node, nth, n_passed, after, callVars, dataVars>>

\* slip: no barrier between two nodes
NodeEndNoBarrier(t) ==
  /\ pc[t] = "nodeEnd"
  /\ \/ UNCHANGED <<abort, ec>>
     \/ /\ CanAbort /\ t = 0
        /\ abort' = node[t] + 1
        /\ ec' = "aborted"
  /\ node' = [node EXCEPT ![t] = @ + 1]
  /\ Goto(t, "node") /\ UNCHANGED after
  /\ UNCHANGED <<n_graph, n_barrier, n_barrier_passed, current_chunk, stop, pause,
                 n_threads_cur, cgraph, stateVars, graph, nth, chunk, n_passed, callVars, dataVars>>

\* The first thread asks the abort callback.  There is a barrier between two nodes;
\* the one after the last node is that after the loop.
NodeEnd(t) ==
  /\ pc[t] = "nodeEnd"
  /\ \/ UNCHANGED <<abort, ec>>
     \/ /\ CanAbort /\ t = 0
        /\ abort' = node[t] + 1
        /\ ec' = "aborted"
  /\ node' = [node EXCEPT ![t] = @ + 1]
  /\ IF node[t] + 1 < NNodes
     THEN Goto(t, "barrier") /\ after' = [after EXCEPT ![t] = "node"]
     ELSE Goto(t, "node") /\ UNCHANGED after
  /\ UNCHANGED <<n_graph, n_barrier, n_barrier_passed, current_chunk, stop, pause,
                 n_threads_cur, cgraph, stateVars, graph, nth, chunk, n_passed, callVars, dataVars>>

-----------------------------------------------------------------------------
(* ggml_barrier                                                             *)

\* The thread's last step in ggml_graph_compute_thread is its last barrier.
Leave(t) == IF after[t] # "done" THEN after[t] ELSE IF t = 0 THEN "return" ELSE "loop"

BarrierEnter(t) ==
  /\ pc[t] = "barrier"
  /\ IF n_threads_cur = 1
     THEN Goto(t, Leave(t)) /\ UNCHANGED n_passed
     ELSE Goto(t, "barrierAdd") /\ n_passed' = [n_passed EXCEPT ![t] = n_barrier_passed]
  /\ UNCHANGED <<poolVars, stateVars, graph, node, nth, chunk, after, callVars, dataVars>>

BarrierAdd(t) ==
  /\ pc[t] = "barrierAdd"
  /\ n_barrier' = n_barrier + 1
  /\ Goto(t, IF n_barrier = n_threads_cur - 1 THEN "barrierReset" ELSE "barrierWait")
  /\ UNCHANGED <<n_graph, n_barrier_passed, current_chunk, stop, pause, abort, n_threads_cur,
                 ec, cgraph, stateVars, localVars, callVars, dataVars>>

\* slip: the last thread forgets to reset n_barrier
BarrierNoReset(t) ==
  /\ pc[t] = "barrierReset"
  /\ n_barrier' = n_barrier
  /\ Goto(t, "barrierPass")
  /\ UNCHANGED <<n_graph, n_barrier_passed, current_chunk, stop, pause, abort, n_threads_cur,
                 ec, cgraph, stateVars, localVars, callVars, dataVars>>

BarrierReset(t) ==
  /\ pc[t] = "barrierReset"
  /\ n_barrier' = 0
  /\ Goto(t, "barrierPass")
  /\ UNCHANGED <<n_graph, n_barrier_passed, current_chunk, stop, pause, abort, n_threads_cur,
                 ec, cgraph, stateVars, localVars, callVars, dataVars>>

BarrierPass(t) ==
  /\ pc[t] = "barrierPass"
  /\ n_barrier_passed' = (n_barrier_passed + 1) % PassMod
  /\ Goto(t, Leave(t))
  /\ UNCHANGED <<n_graph, n_barrier, current_chunk, stop, pause, abort, n_threads_cur,
                 ec, cgraph, stateVars, localVars, callVars, dataVars>>

BarrierWait(t) ==
  /\ pc[t] = "barrierWait"
  /\ n_barrier_passed # n_passed[t]
  /\ Goto(t, Leave(t))
  /\ UNCHANGED <<poolVars, stateVars, localVars, callVars, dataVars>>

-----------------------------------------------------------------------------
(* The caller, which is also thread 0                                       *)

\* ggml_graph_compute up to the kick-off: the parameters of the pool are reset.
GraphCompute ==
  /\ pc[0] = "idle" /\ todo # <<>>
  /\ request' = IF Head(todo) > MaxThreads THEN MaxThreads ELSE Head(todo)
  /\ todo' = Tail(todo)
  /\ cgraph' = cgraph + 1
  /\ current_chunk' = 0 /\ abort' = NoAbort /\ ec' = "success"
  /\ Goto(0, "kick")
  /\ UNCHANGED <<n_graph, n_barrier, n_barrier_passed, stop, pause, n_threads_cur,
                 stateVars, localVars, ret, dataVars>>

\* ggml_graph_compute_kickoff takes the mutex and stores the number of threads,
KickThreads ==
  /\ pc[0] = "kick"
  /\ n_threads_cur' = request
  /\ result' = {}
  /\ Goto(0, "kickGraph")
  /\ UNCHANGED <<n_graph, n_barrier, n_barrier_passed, current_chunk, stop, pause, abort, ec,
                 cgraph, stateVars, localVars, callVars, wdata>>

\* then announces the graph,
KickGraph ==
  /\ pc[0] = "kickGraph"
  /\ n_graph' = n_graph + 1
  /\ Goto(0, "kickWake")
  /\ UNCHANGED <<n_barrier, n_barrier_passed, current_chunk, stop, pause, abort, n_threads_cur,
                 ec, cgraph, stateVars, localVars, callVars, dataVars>>

\* slip: only a paused pool is woken up
KickNoWake ==
  /\ pc[0] = "kickWake"
  /\ pause' = FALSE
  /\ pc' = [(IF pause THEN Broadcast(pc) ELSE pc) EXCEPT ![0] = "start"]
  /\ UNCHANGED <<n_graph, n_barrier, n_barrier_passed, current_chunk, stop, abort, n_threads_cur,
                 ec, cgraph, stateVars, localVars, callVars, dataVars>>

\* resumes a paused pool, wakes the sleepers and releases the mutex.
KickWake ==
  /\ pc[0] = "kickWake"
  /\ pause' = FALSE
  /\ pc' = [Broadcast(pc) EXCEPT ![0] = "start"]
  /\ UNCHANGED <<n_graph, n_barrier, n_barrier_passed, current_chunk, stop, abort, n_threads_cur,
                 ec, cgraph, stateVars, localVars, callVars, dataVars>>

\* slip: the status of an aborted graph is not reported
ReturnSuccess ==
  /\ pc[0] = "return"
  /\ ret' = "success"
  /\ Goto(0, "idle")
  /\ UNCHANGED <<poolVars, stateVars, localVars, todo, request, dataVars>>

Return ==
  /\ pc[0] = "return"
  /\ ret' = ec
  /\ Goto(0, "idle")
  /\ UNCHANGED <<poolVars, stateVars, localVars, todo, request, dataVars>>

\* ggml_threadpool_pause and ggml_threadpool_resume
SetPause(b) ==
  /\ CanPause /\ pc[0] = "idle" /\ pause # b
  /\ pause' = b
  /\ pc' = Broadcast(pc)
  /\ UNCHANGED <<n_graph, n_barrier, n_barrier_passed, current_chunk, stop, abort, n_threads_cur,
                 ec, cgraph, stateVars, localVars, callVars, dataVars>>

\* slip: a paused pool stays paused when it is freed
FreePaused ==
  /\ pc[0] = "idle"
  /\ stop' = TRUE /\ pause' = pause
  /\ pc' = [Broadcast(pc) EXCEPT ![0] = "join"]
  /\ UNCHANGED <<n_graph, n_barrier, n_barrier_passed, current_chunk, abort, n_threads_cur,
                 ec, cgraph, stateVars, localVars, callVars, dataVars>>

\* ggml_threadpool_free stops the workers and joins them.
Free ==
  /\ pc[0] = "idle"
  /\ stop' = TRUE /\ pause' = FALSE
  /\ pc' = [Broadcast(pc) EXCEPT ![0] = "join"]
  /\ UNCHANGED <<n_graph, n_barrier, n_barrier_passed, current_chunk, abort, n_threads_cur,
                 ec, cgraph, stateVars, localVars, callVars, dataVars>>

Join ==
  /\ pc[0] = "join" /\ \A t \in Worker : pc[t] = "exit"
  /\ Goto(0, "freed")
  /\ UNCHANGED <<poolVars, stateVars, localVars, callVars, dataVars>>

Freed == pc[0] = "freed" /\ UNCHANGED vars

-----------------------------------------------------------------------------
Barrier(t) == BarrierEnter(t) \/ BarrierAdd(t) \/ BarrierReset(t) \/ BarrierPass(t) \/ BarrierWait(t)

Compute(t) ==
  \/ ComputeStart(t) \/ NodeLoop(t) \/ Prepare(t) \/ FirstChunk(t) \/ OneChunk(t)
  \/ NextChunk(t) \/ NodeEnd(t) \/ Barrier(t)

Secondary(t) ==
  \/ PauseCheck(t) \/ PauseLock(t) \/ StopCheck(t) \/ PollActive(t) \/ ReadyFlags(t)
  \/ ReadyGraph(t) \/ ReadyActive(t) \/ CheckForWork(t)

Caller == KickThreads \/ KickGraph \/ KickWake \/ Return \/ Join

Next ==
  \/ \E t \in Thread : Compute(t)
  \/ \E t \in Worker : Secondary(t) \/ SpuriousWake(t)
  \/ Caller \/ GraphCompute \/ Free
  \/ \E b \in BOOLEAN : SetPause(b)
  \/ Freed

\* The operating system runs every thread; what the caller does between two calls is
\* its own choice.
Fairness ==
  /\ \A t \in Thread : WF_vars(Compute(t))
  /\ \A t \in Worker : WF_vars(Secondary(t))
  /\ WF_vars(Caller)

Spec == Init /\ [][Next]_vars /\ Fairness

-----------------------------------------------------------------------------
(* Properties                                                               *)

Pc == {"idle", "kick", "kickGraph", "kickWake", "return", "join", "freed",
       "loop", "pauseLock", "pauseWait", "stop", "exit", "pollActive", "poll", "pollGraph",
       "pollUpdate", "locked", "workWait",
       "start", "node", "prepare", "chunks", "chunk", "nextChunk", "nodeEnd",
       "barrier", "barrierAdd", "barrierReset", "barrierPass", "barrierWait"}

TypeOK ==
  /\ n_graph \in Nat /\ n_barrier \in 0..MaxThreads
  /\ n_barrier_passed \in 0..PassMod - 1
  /\ current_chunk \in Nat
  /\ stop \in BOOLEAN /\ pause \in BOOLEAN
  /\ abort \in {NoAbort} \union 1..NNodes
  /\ n_threads_cur \in 1..MaxThreads
  /\ ec \in {"success", "aborted"} /\ ret \in {"none", "success", "aborted"}
  /\ cgraph \in Nat
  /\ pc \in [Thread -> Pc]
  /\ last_graph \in [Worker -> Nat] /\ new_graph \in [Worker -> Nat]
  /\ graph \in [Thread -> Nat]
  /\ node \in [Thread -> 0..NNodes]
  /\ nth \in [Thread -> 1..MaxThreads]
  /\ chunk \in [Thread -> Nat]
  /\ n_passed \in [Thread -> 0..PassMod - 1]
  /\ after \in [Thread -> {"node", "chunks", "done"}]
  /\ todo \in Seq(Nat \ {0}) /\ request \in 0..MaxThreads
  /\ wdata \in [Thread -> Nat \X Nat]
  /\ result \subseteq (Nat \X Nat)

\* A thread works on the graph.
AtWork(t) == pc[t] \in {"start", "node", "prepare", "chunks", "chunk", "nextChunk", "nodeEnd",
                        "barrier", "barrierAdd", "barrierReset", "barrierPass", "barrierWait"}

\* ggml_barrier inside ggml_compute_forward_mul_mat, and the one between the nodes: while
\* a thread computes a chunk, every thread's part of the converted operand is in wdata and
\* nobody has begun to overwrite it for a later node or a later graph.
ChunkSeesItsOperand ==
  \A t \in Thread : pc[t] = "chunk" =>
    \A u \in 0..nth[t] - 1 : wdata[u] = <<graph[t], node[t] + 1>>

\* current_chunk hands every chunk to one thread: no chunk is computed twice, although
\* the counter is reset by one thread and each thread takes its first chunk without it.
ChunkOnce ==
  \A t \in Thread : pc[t] = "chunk" =>
    /\ <<node[t], chunk[t]>> \notin result
    /\ \A u \in Thread \ {t} : pc[u] = "chunk" => chunk[u] # chunk[t]

\* Every call of ggml_graph_compute returns: no wake-up is lost between the polling and
\* the sleeping of a worker, and no thread is left behind in a barrier.
GraphCompletes == pc[0] = "kick" ~> pc[0] = "idle"

\* ggml_threadpool_free ends: every worker, asleep, paused or polling, sees the stop flag.
FreeCompletes == pc[0] = "join" ~> pc[0] = "freed"

\* The pool implements GraphExec: nodes are computed one after the other by all threads,
\* and a call that reports success has computed every chunk of every node.
Exec == INSTANCE GraphExec WITH
          running <- pc[0] \notin {"idle", "kick", "join", "freed"},
          threads <- n_threads_cur,
          done <- result
ImplementsGraphExec == Exec!Spec
=============================================================================

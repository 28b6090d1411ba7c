-------------------------- MODULE ThreadpoolProofs -------------------------
(***************************************************************************)
(* Theorems about the thread pool, for any number of threads, nodes and    *)
(* chunks: its variables keep their types, a chunk is computed from the    *)
(* operand of its own node, no chunk is computed twice, and the pool       *)
(* implements GraphExec.                                                   *)
(*                                                                         *)
(* The proofs rest on one idea: at every moment all threads of the crew    *)
(* are in the same stage of the graph, and the stage changes only in the   *)
(* single step that opens the barrier.                                     *)
(***************************************************************************)
EXTENDS Threadpool, TLAPS, FiniteSetTheorems

-----------------------------------------------------------------------------
(* Stages of a graph.  Node n is prepared in stage 2n and computed in      *)
(* stage 2n + 1; a barrier leads from each stage to the next one, and the  *)
(* last one to Fin.  A thread that has not left a barrier that is open     *)
(* already is in the stage behind it, so that all threads of the crew      *)
(* change the stage in one step.                                           *)

Crew == 0..n_threads_cur - 1

IdlePc == {"loop", "pauseLock", "pauseWait", "stop", "exit", "pollActive", "poll", "pollGraph",
           "pollUpdate", "locked", "workWait"}
CallPc == {"idle", "kick", "kickGraph", "kickWake", "return", "join", "freed"}
ChunkPc == {"chunks", "chunk", "nextChunk", "nodeEnd"}
BarrierPc == {"barrier", "barrierAdd", "barrierReset", "barrierPass", "barrierWait"}

Fin == 2 * NNodes
StageOf(n) == IF n < NNodes THEN 2 * n ELSE 2 * NNodes - 1

(* The thread has done its part of the graph that was announced last. *)
Done(t) == IF t = 0 THEN pc[0] # "kickWake" ELSE last_graph[t] = n_graph
Away(t) == IF Done(t) THEN Fin ELSE 0

Out(t) == pc[t] = "barrierWait" /\ n_passed[t] # n_barrier_passed
Inside(t) == pc[t] \in BarrierPc /\ ~Out(t)
Waits(t) == pc[t] = "barrierWait" /\ n_passed[t] = n_barrier_passed

Before(t) == IF after[t] = "chunks" THEN 2 * node[t]
             ELSE IF after[t] = "node" THEN 2 * node[t] - 1 ELSE StageOf(node[t])
Behind(t) == IF after[t] = "chunks" THEN 2 * node[t] + 1
             ELSE IF after[t] = "node" THEN 2 * node[t] ELSE Away(t)
Stage(t) ==
  IF pc[t] \in IdlePc \union CallPc THEN Away(t)
  ELSE IF pc[t] = "start" THEN 0
  ELSE IF pc[t] \in {"node", "prepare"} THEN StageOf(node[t])
  ELSE IF pc[t] \in ChunkPc THEN 2 * node[t] + 1
  ELSE IF Out(t) THEN Behind(t) ELSE Before(t)

SameStage == \A t \in Crew : Stage(t) = Stage(0)

(* A thread that takes part: it has begun with the graph and is not on its *)
(* way out of the last barrier.                                            *)
Engaged(t) == \/ pc[t] \in {"node", "prepare"} \union ChunkPc
              \/ Inside(t)
              \/ Out(t) /\ after[t] # "done"

(* Who can be where: a thread outside the crew is idle, or about to leave  *)
(* the last barrier of an earlier graph.                                   *)
PlaceInv ==
  /\ pc[0] \notin IdlePc
  /\ \A t \in Worker : pc[t] \notin CallPc
  /\ \A t \in Thread \ Crew : pc[t] \in IdlePc \/ (pc[t] = "barrierWait" /\ after[t] = "done")
(* A thread that takes part works on the current graph with the current    *)
(* number of threads, and has noted the graph as seen.                     *)
CrewInv ==
  \A t \in Crew :
    /\ Engaged(t) => graph[t] = cgraph /\ nth[t] = n_threads_cur /\ Done(t)
    /\ pc[t] = "start" => Done(t)
    /\ t # 0 /\ pc[t] = "pollUpdate" => new_graph[t] = n_graph /\ last_graph[t] # n_graph
(* Where the node number and the abort flag allow a thread to be *)
NodeInv ==
  \A t \in Crew :
    /\ pc[t] \in {"prepare"} \union ChunkPc => node[t] < NNodes
    /\ pc[t] = "prepare" => abort # node[t]
    /\ pc[t] \in BarrierPc /\ after[t] = "chunks" => node[t] < NNodes
    /\ pc[t] \in BarrierPc /\ after[t] = "node" => node[t] \in 1..NNodes - 1
    /\ Inside(t) /\ after[t] = "chunks" => abort # node[t]
    /\ Inside(t) /\ after[t] = "done" => node[t] = NNodes \/ abort = node[t]

(* The threads that n_barrier has counted; the last one to arrive is alone *)
(* until it has opened the barrier.                                        *)
Arrived == {t \in Crew : Waits(t) \/ pc[t] = "barrierReset"}
BarrierInv ==
  /\ \A t \in Crew :
       /\ pc[t] = "barrierAdd" => n_passed[t] = n_barrier_passed
       /\ pc[t] \in {"barrierReset", "barrierPass"} => \A u \in Crew \ {t} : Waits(u)
       /\ pc[t] = "barrierPass" => n_barrier = 0
  /\ (\A t \in Crew : pc[t] # "barrierPass") => n_barrier = Cardinality(Arrived)

(* The calls to come ask for no more threads than there are now. *)
Cap(k) == IF k > MaxThreads THEN MaxThreads ELSE k
PlanInv ==
  /\ pc[0] = "kick" => request \in 1..n_threads_cur
  /\ \A i \in DOMAIN todo : Cap(todo[i]) <= (IF pc[0] = "kick" THEN request ELSE n_threads_cur)
  /\ \A i, j \in DOMAIN todo : i < j => Cap(todo[j]) <= Cap(todo[i])

(* While node n is computed, the operand of each thread is that of node n;  *)
(* a thread in the barrier before it has converted its part.               *)
OperandInv ==
  /\ \A n \in 0..NNodes - 1 : Stage(0) = 2 * n + 1 => \A t \in Crew : wdata[t] = <<cgraph, n + 1>>
  /\ \A t \in Crew : Inside(t) /\ after[t] = "chunks" => wdata[t] = <<cgraph, node[t] + 1>>

(* Success is reported only for a graph that was not aborted. *)
AbortInv == ec = "success" => abort = NoAbort
(* The thread has its first chunk still to compute. *)
First(t) == Out(t) \/ pc[t] = "chunks" \/ (pc[t] = "chunk" /\ chunk[t] = t)
(* No chunk of a node exists before the node's stage, and the counter is   *)
(* reset before the barrier opens.                                         *)
ResultInv ==
  /\ \A p \in result : 2 * p[1] < Stage(0)
  /\ pc[0] = "kickGraph" => result = {}
  /\ Inside(0) /\ after[0] = "chunks" => current_chunk = n_threads_cur
(* Thread t while node n is computed: its first chunk is the one of its    *)
(* number, later ones come from the counter, and it goes to the barrier    *)
(* only when no chunk is left.                                             *)
ThreadChunks(t, n) ==
  /\ First(t) <=> <<n, t>> \notin result
  /\ pc[t] = "chunk" /\ chunk[t] # t =>
       /\ chunk[t] \in n_threads_cur..current_chunk - 1
       /\ chunk[t] < NChunk(n, n_threads_cur)
       /\ <<n, chunk[t]>> \notin result
  /\ pc[t] = "nextChunk" => n_threads_cur < NChunk(n, n_threads_cur)
  /\ Inside(t) \/ pc[t] \in {"nodeEnd", "node"} =>
       NChunk(n, n_threads_cur) <= n_threads_cur \/ NChunk(n, n_threads_cur) <= current_chunk
ChunksOf(n) ==
  /\ n_threads_cur <= current_chunk
  /\ \A t \in Crew : ThreadChunks(t, n)
  /\ \A t, u \in Crew : t # u /\ pc[t] = "chunk" /\ pc[u] = "chunk" => chunk[t] # chunk[u]
  /\ \A c \in Nat : <<n, c>> \in result => c < current_chunk
  /\ \A c \in n_threads_cur..current_chunk - 1 : c < NChunk(n, n_threads_cur) =>
       <<n, c>> \in result \/ \E t \in Crew : pc[t] = "chunk" /\ chunk[t] = c
ChunkInv == \A n \in 0..NNodes - 1 : Stage(0) = 2 * n + 1 => ChunksOf(n)
(* The nodes before the stage are complete; at the end all nodes are,      *)
(* unless the graph was aborted.                                           *)
Filled(m) == \A c \in 0..NChunk(m, n_threads_cur) - 1 : <<m, c>> \in result
CompleteInv ==
  pc[0] \notin {"idle", "kick", "kickGraph", "join", "freed"} =>
    \A m \in 0..NNodes - 1 :
      2 * m + 1 < Stage(0) /\ (Stage(0) = Fin => ec = "success") => Filled(m)

-----------------------------------------------------------------------------
(* Facts about the crew and the steps of one thread *)

(* Thread 0 always belongs to the crew. *)
LEMMA CrewFacts ==
  ASSUME TypeOK
  PROVE  /\ Crew \subseteq Thread /\ 0 \in Crew /\ 0 \in Thread /\ Thread \subseteq Nat
         /\ Worker = Thread \ {0} /\ n_threads_cur \in Nat /\ NNodes \in Nat \ {0}
         /\ Fin \in Nat /\ Fin > 0
BY ThreadpoolAssumption DEF TypeOK, Crew, Thread, Worker, Fin

(* What a step of thread t leaves alone: the locals of the other threads,  *)
(* and the graph that was announced.                                       *)
OthersKeep(t) ==
  /\ \A u \in Thread \ {t} :
       /\ pc'[u] = pc[u] /\ graph'[u] = graph[u] /\ node'[u] = node[u] /\ nth'[u] = nth[u]
       /\ chunk'[u] = chunk[u] /\ n_passed'[u] = n_passed[u] /\ after'[u] = after[u]
       /\ u # 0 => last_graph'[u] = last_graph[u] /\ new_graph'[u] = new_graph[u]
  /\ UNCHANGED <<n_graph, n_threads_cur, cgraph, stop, pause, todo, request, ret>>

(* A step of one thread at work leaves the others alone. *)
LEMMA ComputeKeeps == ASSUME TypeOK, NEW t \in Thread, Compute(t) PROVE OthersKeep(t)
<1> USE DEF TypeOK, OthersKeep, Goto, poolVars, stateVars, localVars, callVars, dataVars, Worker
<1>1. CASE ComputeStart(t)
  BY <1>1 DEF ComputeStart
<1>2. CASE NodeLoop(t)
  BY <1>2 DEF NodeLoop
<1>3. CASE Prepare(t)
  BY <1>3 DEF Prepare
<1>4. CASE FirstChunk(t)
  BY <1>4 DEF FirstChunk
<1>5. CASE OneChunk(t)
  BY <1>5 DEF OneChunk
<1>6. CASE NextChunk(t)
  BY <1>6 DEF NextChunk
<1>7. CASE NodeEnd(t)
  BY <1>7 DEF NodeEnd
<1>8. CASE BarrierEnter(t)
  BY <1>8 DEF BarrierEnter
<1>9. CASE BarrierAdd(t) \/ BarrierReset(t) \/ BarrierPass(t) \/ BarrierWait(t)
  BY <1>9 DEF BarrierAdd, BarrierReset, BarrierPass, BarrierWait
<1> QED BY <1>1, <1>2, <1>3, <1>4, <1>5, <1>6, <1>7, <1>8, <1>9 DEF Compute, Barrier

(* The threads outside the crew only leave their last barrier. *)
LEMMA CrewComputes ==
  ASSUME TypeOK, PlaceInv, NEW t \in Thread, Compute(t)
  PROVE  t \in Crew \/ (BarrierWait(t) /\ after[t] = "done" /\ t # 0)
<1>1. CASE t \notin Crew
  <2>1. pc[t] \in IdlePc \/ (pc[t] = "barrierWait" /\ after[t] = "done")
    BY <1>1 DEF PlaceInv
  <2>2. t # 0
    BY <1>1, CrewFacts
  <2>3. ~ComputeStart(t) /\ ~NodeLoop(t) /\ ~Prepare(t) /\ ~FirstChunk(t) /\ ~OneChunk(t)
    BY <2>1 DEF IdlePc, ComputeStart, NodeLoop, Prepare, FirstChunk, OneChunk
  <2>4. ~NextChunk(t) /\ ~NodeEnd(t) /\ ~BarrierEnter(t) /\ ~BarrierAdd(t) /\ ~BarrierReset(t) /\ ~BarrierPass(t)
    BY <2>1 DEF IdlePc, NextChunk, NodeEnd, BarrierEnter, BarrierAdd, BarrierReset, BarrierPass
  <2>5. BarrierWait(t) => after[t] = "done"
    BY <2>1 DEF IdlePc, BarrierWait
  <2> QED BY <2>2, <2>3, <2>4, <2>5 DEF Compute, Barrier
<1> QED BY <1>1

(* A broadcast moves sleeping workers to the check they make when they     *)
(* wake up, and nobody else.                                               *)
LEMMA BroadcastKeeps ==
  ASSUME TypeOK, NEW t \in Thread
  PROVE  Broadcast(pc)[t] = pc[t] \/ (pc[t] \in IdlePc /\ Broadcast(pc)[t] \in IdlePc \ {"pollUpdate"})
BY DEF Broadcast, IdlePc

(* What the invariants see of a thread is the same before and after. *)
ViewKept(t) ==
  /\ Stage(t)' = Stage(t) /\ Done(t)' = Done(t)
  /\ Out(t)' = Out(t) /\ Inside(t)' = Inside(t) /\ Waits(t)' = Waits(t) /\ Engaged(t)' = Engaged(t)

(* A thread whose own variables stay, or that moves between idle places, keeps its view. *)
LEMMA ViewFrame ==
  ASSUME NEW t \in Thread,
         n_barrier_passed' = n_barrier_passed, n_graph' = n_graph,
         node'[t] = node[t], after'[t] = after[t], n_passed'[t] = n_passed[t],
         t # 0 => last_graph'[t] = last_graph[t],
         \/ pc'[t] = pc[t]
         \/ t # 0 /\ pc[t] \in IdlePc /\ pc'[t] \in IdlePc
         \/ t = 0 /\ pc[t] \in CallPc \ {"kickWake"} /\ pc'[t] \in CallPc \ {"kickWake"}
  PROVE  ViewKept(t)
<1>1. Done(t)' = Done(t) /\ Away(t)' = Away(t)
  BY DEF Done, Away
<1>2. Out(t)' = Out(t) /\ Inside(t)' = Inside(t) /\ Waits(t)' = Waits(t) /\ Engaged(t)' = Engaged(t)
  BY DEF Out, Inside, Waits, Engaged, BarrierPc, IdlePc, CallPc, ChunkPc
<1>3. Before(t)' = Before(t) /\ Behind(t)' = Behind(t)
  BY <1>1 DEF Before, Behind
<1>4. Stage(t)' = Stage(t)
  <2>1. CASE pc'[t] = pc[t]
    BY <1>1, <1>2, <1>3, <2>1 DEF Stage
  <2>2. CASE pc[t] \in IdlePc \union CallPc /\ pc'[t] \in IdlePc \union CallPc
    BY <1>1, <2>2 DEF Stage
  <2> QED BY <2>1, <2>2
<1> QED BY <1>1, <1>2, <1>4 DEF ViewKept

(* A step within a stage does not change what is seen of the others. *)
LEMMA OthersView ==
  ASSUME TypeOK, NEW t \in Thread, OthersKeep(t), n_barrier_passed' = n_barrier_passed, NEW u \in Thread \ {t}
  PROVE  ViewKept(u)
<1>1. /\ n_graph' = n_graph /\ node'[u] = node[u] /\ after'[u] = after[u] /\ n_passed'[u] = n_passed[u]
      /\ u # 0 => last_graph'[u] = last_graph[u]
      /\ pc'[u] = pc[u]
  BY DEF OthersKeep
<1> QED BY <1>1, ViewFrame

CrewOK(t) ==
  /\ Engaged(t) => graph[t] = cgraph /\ nth[t] = n_threads_cur /\ Done(t)
  /\ pc[t] = "start" => Done(t)
  /\ t # 0 /\ pc[t] = "pollUpdate" => new_graph[t] = n_graph /\ last_graph[t] # n_graph
NodeOK(t) ==
  /\ pc[t] \in {"prepare"} \union ChunkPc => node[t] < NNodes
  /\ pc[t] = "prepare" => abort # node[t]
  /\ pc[t] \in BarrierPc /\ after[t] = "chunks" => node[t] < NNodes
  /\ pc[t] \in BarrierPc /\ after[t] = "node" => node[t] \in 1..NNodes - 1
  /\ Inside(t) /\ after[t] = "chunks" => abort # node[t]
  /\ Inside(t) /\ after[t] = "done" => node[t] = NNodes \/ abort = node[t]

(* The steps of a thread that stays in its stage *)
Within(t) ==
  \/ ComputeStart(t) \/ NodeLoop(t) \/ Prepare(t) \/ FirstChunk(t) \/ OneChunk(t) \/ NextChunk(t) \/ NodeEnd(t)
  \/ BarrierEnter(t) /\ n_threads_cur # 1
  \/ BarrierAdd(t) \/ BarrierReset(t) \/ BarrierWait(t)
Passes(t) == BarrierPass(t) \/ (BarrierEnter(t) /\ n_threads_cur = 1)

(* A step at work either stays in the stage or opens the barrier. *)
LEMMA ComputeSplit == ASSUME NEW t, Compute(t) PROVE Within(t) \/ Passes(t)
BY DEF Compute, Barrier, Within, Passes

(* The stage of a thread changes only when the barrier opens. *)
LEMMA WithinStage ==
  ASSUME TypeOK, NEW t \in Crew, NodeOK(t), pc[t] = "barrierAdd" => n_passed[t] = n_barrier_passed, Within(t)
  PROVE  Stage(t)' = Stage(t) /\ n_barrier_passed' = n_barrier_passed /\ Done(t)' = Done(t)
<1>ty. t \in Thread /\ node[t] \in 0..NNodes /\ NNodes \in Nat \ {0}
  BY CrewFacts DEF TypeOK
<1>pass. n_barrier_passed' = n_barrier_passed
  BY DEF Within, ComputeStart, NodeLoop, Prepare, FirstChunk, OneChunk, NextChunk, NodeEnd, BarrierEnter,
         BarrierAdd, BarrierReset, BarrierWait, poolVars
<1> USE DEF TypeOK, Goto, poolVars, stateVars, localVars
<1>done. Done(t)' = Done(t)
  <2>1. UNCHANGED <<n_graph, last_graph>> /\ pc[t] # "kickWake" /\ pc'[t] # "kickWake"
    BY <1>ty DEF Within, ComputeStart, NodeLoop, Prepare, FirstChunk, OneChunk, NextChunk, NodeEnd, BarrierEnter,
         BarrierAdd, BarrierReset, BarrierWait, Leave
  <2> QED BY <2>1 DEF Done
<1> SUFFICES Stage(t)' = Stage(t)
  BY <1>pass, <1>done
<1> USE DEF Stage, StageOf, Before, Out, IdlePc, CallPc, ChunkPc
<1>1. CASE ComputeStart(t)
  BY <1>1, <1>ty DEF ComputeStart
<1>2. CASE NodeLoop(t)
  BY SMTT(30), <1>2, <1>ty DEF NodeLoop
<1>3. CASE Prepare(t)
  BY <1>3, <1>ty DEF Prepare, NodeOK
<1>4. CASE FirstChunk(t) \/ OneChunk(t) \/ NextChunk(t)
  BY ZenonT(40), <1>4, <1>ty DEF FirstChunk, OneChunk, NextChunk
<1>5. CASE NodeEnd(t)
  <2>1. pc[t] = "nodeEnd" /\ node[t] < NNodes /\ node'[t] = node[t] + 1
    BY <1>5, <1>ty DEF NodeEnd, NodeOK
  <2>2. CASE node[t] + 1 < NNodes
    <3>1. pc'[t] = "barrier" /\ after'[t] = "node"
      BY <1>5, <1>ty, <2>2 DEF NodeEnd
    <3> QED BY SMTT(30), <1>ty, <2>1, <3>1
  <2>3. CASE node[t] + 1 = NNodes
    <3>1. pc'[t] = "node"
      BY <1>5, <1>ty, <2>3 DEF NodeEnd
    <3>2. Stage(t) = 2 * node[t] + 1 /\ Stage(t)' = 2 * NNodes - 1
      BY <1>ty, <2>1, <2>3, <3>1
    <3>3. 2 * node[t] + 1 = 2 * NNodes - 1
      BY SMTT(30), <1>ty, <2>3
    <3> HIDE DEF Stage
    <3> QED BY ONLY <3>2, <3>3
  <2> QED BY SMTT(30), <1>ty, <2>1, <2>2, <2>3
<1>6. CASE BarrierEnter(t) /\ n_threads_cur # 1
  BY <1>6, <1>ty DEF BarrierEnter
<1>7. CASE BarrierAdd(t) \/ BarrierReset(t)
  BY SMTT(30), <1>7, <1>ty DEF BarrierAdd, BarrierReset
<1>8. CASE BarrierWait(t)
  <2>1. /\ pc[t] = "barrierWait" /\ n_passed[t] # n_barrier_passed /\ pc'[t] = Leave(t)
        /\ node'[t] = node[t] /\ after[t] \in {"node", "chunks", "done"}
    BY <1>8, <1>ty DEF BarrierWait
  <2>2. Stage(t) = Behind(t)
    BY <2>1
  <2>3. CASE after[t] = "chunks"
    BY <2>1, <2>2, <2>3 DEF Behind, Leave
  <2>4. CASE after[t] = "node"
    BY <1>ty, <2>1, <2>2, <2>4 DEF Behind, Leave, NodeOK, BarrierPc
  <2>5. CASE after[t] = "done"
    <3>1. pc'[t] \in {"return", "loop"} /\ Stage(t) = Away(t)
      BY <2>1, <2>2, <2>5 DEF Behind, Leave
    <3> QED BY <1>done, <3>1 DEF Away
  <2> QED BY <2>1, <2>3, <2>4, <2>5
<1> QED BY <1>1, <1>2, <1>3, <1>4, <1>5, <1>6, <1>7, <1>8 DEF Within

(* The stage of a thread by the place where it is *)
StageIs(t) ==
  /\ pc[t] \in IdlePc \union CallPc => Stage(t) = Away(t)
  /\ pc[t] = "start" => Stage(t) = 0
  /\ pc[t] \in {"node", "prepare"} => Stage(t) = StageOf(node[t])
  /\ pc[t] \in ChunkPc => Stage(t) = 2 * node[t] + 1
  /\ Out(t) => Stage(t) = Behind(t)
  /\ Inside(t) => Stage(t) = Before(t)
  /\ \/ pc[t] \in IdlePc \union CallPc \/ pc[t] = "start" \/ pc[t] \in {"node", "prepare"}
     \/ pc[t] \in ChunkPc \/ Out(t) \/ Inside(t)

(* The cases of Stage, by where the thread is *)
LEMMA StagePlace == ASSUME NEW t, pc[t] \in Pc PROVE StageIs(t)
<1> USE DEF Out, Inside, IdlePc, CallPc, ChunkPc, BarrierPc
<1>1. pc[t] \in IdlePc \union CallPc => Stage(t) = Away(t)
  BY DEF Stage
<1>2. pc[t] = "start" => Stage(t) = 0
  BY DEF Stage
<1>3. pc[t] \in {"node", "prepare"} => Stage(t) = StageOf(node[t])
  BY DEF Stage
<1>4. pc[t] \in ChunkPc => Stage(t) = 2 * node[t] + 1
  BY DEF Stage
<1>5. Out(t) => Stage(t) = Behind(t)
  BY DEF Stage
<1>6. Inside(t) => Stage(t) = Before(t)
  BY DEF Stage
<1>7. \/ pc[t] \in IdlePc \union CallPc \/ pc[t] = "start" \/ pc[t] \in {"node", "prepare"}
      \/ pc[t] \in ChunkPc \/ Out(t) \/ Inside(t)
  BY DEF Pc
<1> QED BY <1>1, <1>2, <1>3, <1>4, <1>5, <1>6, <1>7 DEF StageIs

(* The same for a typed state *)
LEMMA Places ==
  ASSUME TypeOK, NEW t \in Thread
  PROVE  /\ StageIs(t) /\ node[t] \in Nat /\ node[t] <= NNodes /\ NNodes \in Nat \ {0}
         /\ after[t] \in {"node", "chunks", "done"} /\ Away(t) \in {0, Fin} /\ Fin = 2 * NNodes
<1>1. pc[t] \in Pc /\ node[t] \in 0..NNodes /\ after[t] \in {"node", "chunks", "done"}
  BY DEF TypeOK
<1> QED BY <1>1, StagePlace, ThreadpoolAssumption DEF Away, Fin

(* While node n is computed *)
Computing(t, n) ==
  \/ pc[t] \in ChunkPc /\ node[t] = n
  \/ Out(t) /\ after[t] = "chunks" /\ node[t] = n
  \/ Inside(t) /\ after[t] = "node" /\ node[t] = n + 1 /\ n + 1 < NNodes
  \/ (pc[t] = "node" \/ (Inside(t) /\ after[t] = "done")) /\ node[t] = NNodes /\ n + 1 = NNodes

(* In an odd stage a thread is at the chunks of the node, or on its way from or to them. *)
LEMMA OddPlaces ==
  ASSUME TypeOK, NEW t \in Thread, NodeOK(t), NEW n \in 0..NNodes - 1, Stage(t) = 2 * n + 1
  PROVE  Computing(t, n)
<1>p. /\ StageIs(t) /\ node[t] \in Nat /\ node[t] <= NNodes /\ NNodes \in Nat \ {0} /\ n \in Nat /\ n < NNodes
      /\ after[t] \in {"node", "chunks", "done"} /\ Away(t) \in {0, Fin} /\ Fin = 2 * NNodes
  BY Places
<1>1. CASE pc[t] \in IdlePc \union CallPc \/ pc[t] = "start"
  BY <1>p, <1>1 DEF StageIs
<1>2. CASE pc[t] \in {"node", "prepare"}
  BY <1>p, <1>2 DEF StageIs, StageOf, NodeOK, Computing
<1>3. CASE pc[t] \in ChunkPc
  BY <1>p, <1>3 DEF StageIs, Computing
<1>4. CASE Out(t)
  <2>1. pc[t] \in BarrierPc
    BY <1>4 DEF Out, BarrierPc
  <2>2. Stage(t) = Behind(t)
    BY <1>p, <1>4 DEF StageIs
  <2> QED BY <1>p, <1>4, <2>1, <2>2 DEF Behind, NodeOK, Computing
<1>5. CASE Inside(t)
  <2>1. pc[t] \in BarrierPc
    BY <1>5 DEF Inside
  <2>2. Stage(t) = Before(t)
    BY <1>p, <1>5 DEF StageIs
  <2> QED BY <1>p, <1>5, <2>1, <2>2 DEF Before, StageOf, NodeOK, Computing
<1> QED BY <1>p, <1>1, <1>2, <1>3, <1>4, <1>5 DEF StageIs

(* Everyone is in the last stage, or between two graphs. *)
LEMMA FinPlaces ==
  ASSUME TypeOK, NEW t \in Thread, NodeOK(t), Stage(t) = Fin
  PROVE  Done(t) /\ (pc[t] \in IdlePc \union CallPc \/ (Out(t) /\ after[t] = "done"))
<1>p. /\ StageIs(t) /\ node[t] \in Nat /\ node[t] <= NNodes /\ NNodes \in Nat \ {0}
      /\ after[t] \in {"node", "chunks", "done"} /\ Away(t) \in {0, Fin} /\ Fin = 2 * NNodes
  BY Places
<1>0. Away(t) = Fin => Done(t)
  BY <1>p DEF Away
<1>1. CASE pc[t] \in IdlePc \union CallPc
  BY <1>p, <1>0, <1>1 DEF StageIs
<1>2. CASE pc[t] = "start" \/ pc[t] \in {"node", "prepare"} \/ pc[t] \in ChunkPc
  BY <1>p, <1>2 DEF StageIs, StageOf, NodeOK
<1>3. CASE Out(t)
  <2>1. pc[t] \in BarrierPc
    BY <1>3 DEF Out, BarrierPc
  <2>2. Stage(t) = Behind(t)
    BY <1>p, <1>3 DEF StageIs
  <2> QED BY <1>p, <1>0, <1>3, <2>1, <2>2 DEF Behind, NodeOK
<1>4. CASE Inside(t)
  <2>1. pc[t] \in BarrierPc
    BY <1>4 DEF Inside
  <2>2. Stage(t) = Before(t)
    BY <1>p, <1>4 DEF StageIs
  <2> QED BY <1>p, <1>4, <2>1, <2>2 DEF Before, StageOf, NodeOK
<1> QED BY <1>p, <1>1, <1>2, <1>3, <1>4 DEF StageIs

(* Threads that are in the same barrier agree where they go on. *)
LEMMA SameBarrier ==
  ASSUME TypeOK, NEW t \in Thread, NEW u \in Thread, NodeOK(t), NodeOK(u), Inside(t), Inside(u), Stage(t) = Stage(u)
  PROVE  after[u] = after[t] /\ node[u] = node[t]
<1>p. /\ node[t] \in Nat /\ node[t] <= NNodes /\ NNodes \in Nat \ {0}
      /\ after[t] \in {"node", "chunks", "done"} /\ StageIs(t)
      /\ node[u] \in Nat /\ node[u] <= NNodes /\ after[u] \in {"node", "chunks", "done"} /\ StageIs(u)
  BY Places
<1>b. pc[t] \in BarrierPc /\ pc[u] \in BarrierPc
  BY DEF Inside
<1>1. Before(t) = Before(u)
  BY <1>p DEF StageIs
<1>2. CASE after[t] = "chunks"
  BY <1>p, <1>b, <1>1, <1>2 DEF Before, StageOf, NodeOK
<1>3. CASE after[t] = "node"
  BY <1>p, <1>b, <1>1, <1>3 DEF Before, StageOf, NodeOK
<1>4. CASE after[t] = "done"
  BY <1>p, <1>b, <1>1, <1>4 DEF Before, StageOf, NodeOK
<1> QED BY <1>p, <1>2, <1>3, <1>4

(* n_barrier_passed changes even when it wraps around. *)
LEMMA PassedChanges ==
  ASSUME NEW p \in 0..PassMod - 1
  PROVE  (p + 1) % PassMod # p /\ (p + 1) % PassMod \in 0..PassMod - 1
<1>0. PassMod \in Nat /\ PassMod > 1
  BY ThreadpoolAssumption
<1>1. CASE p + 1 < PassMod
  <2>1. (p + 1) % PassMod = p + 1
    BY <1>0, <1>1
  <2> QED BY <1>0, <1>1, <2>1
<1>2. CASE p + 1 = PassMod
  <2>1. (p + 1) % PassMod = 0
    BY <1>0, <1>2
  <2> QED BY <1>0, <1>2, <2>1
<1> QED BY <1>0, <1>1, <1>2

PoolInv == TypeOK /\ PlaceInv /\ CrewInv /\ NodeInv /\ BarrierInv /\ PlanInv /\ SameStage

(* The parts of PoolInv about one thread *)
LEMMA PoolFacts ==
  ASSUME PoolInv
  PROVE  \A t \in Crew :
           /\ CrewOK(t) /\ NodeOK(t) /\ t \in Thread /\ Stage(t) = Stage(0)
           /\ pc[t] = "barrierAdd" => n_passed[t] = n_barrier_passed
BY CrewFacts DEF PoolInv, CrewInv, NodeInv, CrewOK, NodeOK, SameStage, BarrierInv

NextStage(t) == IF after[t] = "chunks" THEN 2 * node[t] + 1
                ELSE IF after[t] = "node" THEN 2 * node[t] ELSE Fin

(* When a barrier opens, the whole crew is in it, and goes on to the next  *)
(* stage in this step.                                                     *)
LEMMA PassFacts ==
  ASSUME PoolInv, NEW t \in Crew, Passes(t)
  PROVE  /\ \A u \in Crew : /\ Inside(u) /\ after[u] = after[t] /\ node[u] = node[t] /\ Done(u)
                            /\ Stage(u) = Before(t) /\ Stage(u)' = NextStage(t) /\ Done(u)'
         /\ \A u \in Crew \ {t} : Out(u)' /\ pc'[u] = pc[u]
         /\ pc'[t] = Leave(t)
         /\ UNCHANGED <<n_barrier, n_graph, current_chunk, abort, n_threads_cur, ec, cgraph, stateVars, localVars,
                        callVars, dataVars, stop, pause>>
<1>ty. TypeOK /\ t \in Thread /\ Crew \subseteq Thread /\ 0 \in Crew
  BY CrewFacts DEF PoolInv
<1>facts. /\ pc'[t] = Leave(t) /\ pc[t] \in {"barrierPass", "barrier"}
          /\ \A u \in Thread \ {t} : pc'[u] = pc[u]
          /\ UNCHANGED <<n_barrier, n_graph, current_chunk, abort, n_threads_cur, ec, cgraph, stateVars, localVars,
                         callVars, dataVars, stop, pause>>
  BY <1>ty DEF Passes, BarrierPass, BarrierEnter, Goto, poolVars, localVars, TypeOK
<1>1. Inside(t)
  BY <1>facts DEF Inside, Out, BarrierPc
<1>2. \A u \in Crew \ {t} : Waits(u) /\ n_barrier_passed' # n_barrier_passed
  <2>1. CASE BarrierPass(t)
    <3>1. pc[t] = "barrierPass" /\ n_barrier_passed' = (n_barrier_passed + 1) % PassMod
      BY <2>1 DEF BarrierPass
    <3> QED BY <3>1, <1>ty, PassedChanges DEF PoolInv, BarrierInv, TypeOK
  <2>2. CASE BarrierEnter(t) /\ n_threads_cur = 1
    BY <2>2, <1>ty DEF Crew
  <2> QED BY <2>1, <2>2 DEF Passes
<1>3. \A u \in Crew : Inside(u)
  BY <1>1, <1>2 DEF Waits, Inside, Out, BarrierPc
<1>4. \A u \in Crew : after[u] = after[t] /\ node[u] = node[t] /\ Stage(u) = Before(t)
  <2> SUFFICES ASSUME NEW u \in Crew PROVE after[u] = after[t] /\ node[u] = node[t] /\ Stage(u) = Before(t)
    OBVIOUS
  <2>1. Stage(u) = Stage(t) /\ NodeOK(u) /\ NodeOK(t)
    BY PoolFacts
  <2>2. Stage(t) = Before(t)
    BY <1>1, <1>ty, Places DEF StageIs
  <2> QED BY <1>ty, <1>1, <1>3, <2>1, <2>2, SameBarrier
<1>5. \A u \in Crew : Done(u)
  BY <1>3, PoolFacts DEF CrewOK, Engaged
<1>6. \A u \in Crew \ {t} : Out(u)'
  BY <1>2, <1>facts, <1>ty DEF Waits, Out, localVars
<1>7. \A u \in Crew : Done(u)'
  <2>1. ASSUME NEW u \in Crew \ {0} PROVE Done(u)'
    BY <1>5, <1>facts, <2>1 DEF Done, stateVars
  <2>2. Done(0)'
    <3>1. CASE t = 0
      BY <1>facts, <1>ty, <3>1, Places DEF Done, Leave
    <3>2. CASE t # 0
      BY <1>facts, <1>ty, <1>5, <3>2 DEF Done
    <3> QED BY <3>1, <3>2
  <2> QED BY <2>1, <2>2
<1>8. ASSUME NEW u \in Crew PROVE Stage(u)' = NextStage(t)
  <2>1. node'[u] = node[t] /\ after'[u] = after[t] /\ Away(u)' = Fin
    BY <1>4, <1>7, <1>facts DEF localVars, Away, Fin
  <2>2. CASE u # t
    <3>1. Behind(u)' = NextStage(t)
      BY <2>1 DEF Behind, NextStage
    <3>2. Stage(u)' = Behind(u)'
      BY <1>6, <2>2 DEF Stage, Out, IdlePc, CallPc, ChunkPc
    <3> QED BY <3>1, <3>2
  <2>3. CASE u = t
    <3>1. CASE after[t] = "chunks"
      BY <1>facts, <2>1, <2>3, <3>1 DEF Leave, NextStage, Stage, IdlePc, CallPc, ChunkPc
    <3>2. CASE after[t] = "node"
      <4>1. node[t] < NNodes
        BY <3>2, <1>3, PoolFacts, ThreadpoolAssumption DEF NodeOK, Inside
      <4> QED BY <1>facts, <2>1, <2>3, <3>2, <4>1 DEF Leave, NextStage, Stage, StageOf, IdlePc, CallPc, ChunkPc
    <3>3. CASE after[t] = "done"
      BY <1>facts, <2>1, <2>3, <3>3 DEF Leave, NextStage, Stage, IdlePc, CallPc
    <3> QED BY <3>1, <3>2, <3>3, <1>ty, Places
  <2> QED BY <2>2, <2>3
<1> QED BY <1>facts, <1>3, <1>4, <1>5, <1>6, <1>7, <1>8, <1>ty

-----------------------------------------------------------------------------
(* Steps within a stage keep the invariants of the pool. *)

(* Facts of such a step, and what it does to the barrier's counter *)
LEMMA WithinKeeps ==
  ASSUME PoolInv, NEW t \in Crew, Within(t)
  PROVE  /\ OthersKeep(t) /\ n_barrier_passed' = n_barrier_passed /\ Crew' = Crew
         /\ \A u \in Crew \ {t} : ViewKept(u)
         /\ \A u \in Crew : Stage(u)' = Stage(u) /\ Done(u)' = Done(u)
<1>ty. TypeOK /\ t \in Thread /\ Crew \subseteq Thread
  BY CrewFacts DEF PoolInv
<1>1. Compute(t)
  BY DEF Within, Compute, Barrier
<1>2. OthersKeep(t)
  BY <1>1, <1>ty, ComputeKeeps
<1>3. Stage(t)' = Stage(t) /\ n_barrier_passed' = n_barrier_passed /\ Done(t)' = Done(t)
  BY <1>ty, PoolFacts, WithinStage
<1>4. \A u \in Crew \ {t} : ViewKept(u)
  BY <1>ty, <1>2, <1>3, OthersView
<1>5. Crew' = Crew
  BY <1>2 DEF OthersKeep, Crew
<1> QED BY <1>2, <1>3, <1>4, <1>5 DEF ViewKept

(* Types are kept; n_barrier needs WithinBarrier. *)
LEMMA WithinType ==
  ASSUME PoolInv, NEW t \in Crew, Within(t), n_barrier' \in 0..MaxThreads
  PROVE  TypeOK'
<1>ty. TypeOK /\ t \in Thread /\ NodeOK(t) /\ NNodes \in Nat \ {0} /\ n_threads_cur \in 1..MaxThreads /\ t \in Nat
  BY PoolFacts, CrewFacts, ThreadpoolAssumption DEF PoolInv, TypeOK
<1>loc. ASSUME NEW l PROVE l \in Pc => [pc EXCEPT ![t] = l] \in [Thread -> Pc]
  BY <1>ty DEF TypeOK
<1>kept. UNCHANGED <<n_graph, n_barrier_passed, n_threads_cur, cgraph, stop, pause, todo, request, ret, stateVars>>
  BY DEF Within, ComputeStart, NodeLoop, Prepare, FirstChunk, OneChunk, NextChunk, NodeEnd,
         BarrierEnter, BarrierAdd, BarrierReset, BarrierWait, poolVars, callVars
<1>pc. pc' \in [Thread -> Pc]
  <2>1. Leave(t) \in Pc
    BY <1>ty DEF Leave, Pc, TypeOK
  <2>2. PICK l \in Pc : pc' = [pc EXCEPT ![t] = l]
    <3>1. {"node", "prepare", "barrier", "chunk", "nodeEnd", "nextChunk", "barrierAdd", "barrierReset", "barrierWait",
           "barrierPass"} \subseteq Pc
      BY DEF Pc
    <3>2. CASE ComputeStart(t) \/ NodeLoop(t) \/ Prepare(t) \/ FirstChunk(t) \/ OneChunk(t)
      BY <3>1, <3>2 DEF ComputeStart, NodeLoop, Prepare, FirstChunk, OneChunk, Goto
    <3>3. CASE NextChunk(t) \/ NodeEnd(t) \/ (BarrierEnter(t) /\ n_threads_cur # 1) \/ BarrierAdd(t) \/ BarrierReset(t)
      BY <3>1, <3>3 DEF NextChunk, NodeEnd, BarrierEnter, BarrierAdd, BarrierReset, Goto
    <3>4. CASE BarrierWait(t)
      BY <2>1, <3>4 DEF BarrierWait, Goto
    <3> QED BY <3>2, <3>3, <3>4 DEF Within
  <2> QED BY <2>2, <1>loc
<1>rest. /\ current_chunk' \in Nat /\ abort' \in {NoAbort} \union 1..NNodes /\ ec' \in {"success", "aborted"}
         /\ graph' \in [Thread -> Nat] /\ node' \in [Thread -> 0..NNodes] /\ nth' \in [Thread -> 1..MaxThreads]
         /\ chunk' \in [Thread -> Nat] /\ n_passed' \in [Thread -> 0..PassMod - 1]
         /\ after' \in [Thread -> {"node", "chunks", "done"}]
         /\ wdata' \in [Thread -> Nat \X Nat] /\ result' \subseteq (Nat \X Nat)
  <2> USE DEF TypeOK, poolVars, localVars, dataVars
  <2>1. CASE ComputeStart(t)
    <3>1. graph' \in [Thread -> Nat] /\ nth' \in [Thread -> 1..MaxThreads]
      BY <2>1, <1>ty DEF ComputeStart
    <3>2. node' \in [Thread -> 0..NNodes]
      BY <2>1, <1>ty DEF ComputeStart
    <3> QED BY <2>1, <1>ty, <3>1, <3>2 DEF ComputeStart
  <2>2. CASE NodeLoop(t)
    BY <2>2, <1>ty DEF NodeLoop
  <2>3. CASE Prepare(t)
    <3>1. nth[t] \in Nat /\ graph[t] \in Nat /\ node[t] + 1 \in Nat
      BY SMTT(30), <1>ty
    <3> QED BY <2>3, <3>1, <1>ty DEF Prepare
  <2>4. CASE FirstChunk(t)
    <3>1. chunk' \in [Thread -> Nat]
      BY <2>4, <1>ty DEF FirstChunk
    <3> QED BY <2>4, <3>1, <1>ty DEF FirstChunk
  <2>5. CASE OneChunk(t)
    <3>1. node[t] \in Nat /\ chunk[t] \in Nat
      BY <1>ty
    <3>2. result' \subseteq (Nat \X Nat)
      BY <2>5, <3>1, <1>ty DEF OneChunk
    <3> QED BY <2>5, <3>2, <1>ty DEF OneChunk
  <2>6. CASE NextChunk(t)
    <3>1. current_chunk' \in Nat /\ chunk' \in [Thread -> Nat]
      BY <2>6, <1>ty DEF NextChunk
    <3> QED BY <2>6, <3>1, <1>ty DEF NextChunk
  <2>7. CASE NodeEnd(t)
    <3>1. node[t] < NNodes /\ node[t] \in Nat
      BY <2>7, <1>ty DEF NodeEnd, NodeOK, ChunkPc
    <3>2. node' \in [Thread -> 0..NNodes]
      <4>1. node[t] + 1 \in 0..NNodes
        BY SMTT(30), <3>1, <1>ty
      <4> QED BY <2>7, <1>ty, <4>1 DEF NodeEnd
    <3>3. after' \in [Thread -> {"node", "chunks", "done"}]
      BY <2>7, <1>ty DEF NodeEnd
    <3>4. abort' \in {NoAbort} \union 1..NNodes /\ ec' \in {"success", "aborted"}
      <4>1. (abort' = abort /\ ec' = ec) \/ (abort' = node[t] + 1 /\ ec' = "aborted")
        BY <2>7 DEF NodeEnd
      <4>2. node[t] + 1 \in 1..NNodes
        BY SMTT(30), <3>1, <1>ty
      <4> QED BY <4>1, <4>2, <1>ty
    <3> QED BY <2>7, <1>ty, <3>2, <3>3, <3>4 DEF NodeEnd
  <2>8. CASE BarrierEnter(t) /\ n_threads_cur # 1
    BY <2>8, <1>ty DEF BarrierEnter
  <2>9. CASE BarrierAdd(t) \/ BarrierReset(t) \/ BarrierWait(t)
    BY <2>9, <1>ty DEF BarrierAdd, BarrierReset, BarrierWait
  <2> QED BY <2>1, <2>2, <2>3, <2>4, <2>5, <2>6, <2>7, <2>8, <2>9 DEF Within
<1> QED BY <1>ty, <1>kept, <1>pc, <1>rest DEF TypeOK, stateVars

(* Where such a step takes the thread *)
LEMMA WithinPc ==
  ASSUME PoolInv, NEW t \in Crew, Within(t)
  PROVE  /\ pc'[t] \notin CallPc \ {"return"} /\ pc'[t] \notin IdlePc \ {"loop"}
         /\ pc'[t] = "return" => t = 0
         /\ pc'[t] = "loop" => t # 0
         /\ pc'[t] # "start"
<1>ty. TypeOK /\ t \in Thread /\ after[t] \in {"node", "chunks", "done"}
  BY PoolFacts, Places DEF PoolInv
<1>1. pc'[t] \in {"node", "prepare", "chunk", "nextChunk", "nodeEnd", "barrier", "barrierAdd", "barrierReset",
                  "barrierPass", "barrierWait"}
      \/ pc'[t] = Leave(t)
  BY <1>ty DEF TypeOK, Goto, Within, ComputeStart, NodeLoop, Prepare, FirstChunk, OneChunk, NextChunk, NodeEnd,
               BarrierEnter, BarrierAdd, BarrierReset, BarrierWait
<1>2. Leave(t) \in {"node", "chunks"} \/ (Leave(t) = "return" /\ t = 0) \/ (Leave(t) = "loop" /\ t # 0)
  BY <1>ty DEF Leave
<1> QED BY <1>1, <1>2 DEF CallPc, IdlePc

(* Nobody outside the crew starts to work. *)
LEMMA WithinPlace == ASSUME PoolInv, NEW t \in Crew, Within(t) PROVE PlaceInv'
<1>ty. TypeOK /\ PlaceInv /\ t \in Thread /\ Thread \subseteq Nat /\ 0 \in Thread /\ Worker = Thread \ {0}
  BY PoolFacts, CrewFacts DEF PoolInv
<1>1. OthersKeep(t) /\ Crew' = Crew
  BY WithinKeeps
<1>2. pc'[0] \notin IdlePc
  BY <1>ty, <1>1, WithinPc DEF PlaceInv, OthersKeep, IdlePc
<1>3. \A u \in Worker : pc'[u] \notin CallPc
  BY <1>ty, <1>1, WithinPc DEF PlaceInv, OthersKeep, CallPc
<1>4. \A u \in Thread \ Crew : pc'[u] \in IdlePc \/ (pc'[u] = "barrierWait" /\ after'[u] = "done")
  BY <1>ty, <1>1 DEF PlaceInv, OthersKeep
<1> QED BY <1>1, <1>2, <1>3, <1>4 DEF PlaceInv

(* A thread that starts takes the current graph and thread count. *)
LEMMA WithinCrew == ASSUME PoolInv, NEW t \in Crew, Within(t) PROVE CrewInv'
<1>ty. TypeOK /\ t \in Thread /\ CrewOK(t) /\ Crew \subseteq Thread
  BY PoolFacts, CrewFacts DEF PoolInv
<1>1. OthersKeep(t) /\ Crew' = Crew /\ \A u \in Crew \ {t} : ViewKept(u)
  BY WithinKeeps
<1>2. ASSUME NEW u \in Crew \ {t} PROVE CrewOK(u)'
  <2>1. CrewOK(u) /\ ViewKept(u)
    BY <1>1, PoolFacts
  <2>2. /\ pc'[u] = pc[u] /\ graph'[u] = graph[u] /\ nth'[u] = nth[u] /\ cgraph' = cgraph
        /\ n_threads_cur' = n_threads_cur /\ n_graph' = n_graph
        /\ u # 0 => last_graph'[u] = last_graph[u] /\ new_graph'[u] = new_graph[u]
    BY <1>1, <1>ty DEF OthersKeep
  <2> QED BY <2>1, <2>2 DEF CrewOK, ViewKept
<1>3. CrewOK(t)'
  <2>0. pc'[t] # "start" /\ pc'[t] # "pollUpdate"
    BY WithinPc DEF IdlePc
  <2>1. Done(t)' = Done(t) /\ cgraph' = cgraph /\ n_threads_cur' = n_threads_cur
    BY WithinKeeps DEF OthersKeep
  <2>2. CASE ComputeStart(t)
    <3>1. graph'[t] = cgraph /\ nth'[t] = n_threads_cur /\ pc[t] = "start"
      BY <2>2, <1>ty DEF ComputeStart, TypeOK
    <3> QED BY <1>ty, <2>0, <2>1, <3>1 DEF CrewOK
  <2>3. CASE ~ComputeStart(t)
    <3>1. graph'[t] = graph[t] /\ nth'[t] = nth[t]
      BY <2>3 DEF Within, NodeLoop, Prepare, FirstChunk, OneChunk, NextChunk, NodeEnd,
                  BarrierEnter, BarrierAdd, BarrierReset, BarrierWait, localVars
    <3>2. CASE BarrierWait(t) /\ after[t] = "done"
      <4>1. pc'[t] \in {"return", "loop"}
        BY <3>2, <1>ty DEF BarrierWait, Goto, Leave, TypeOK
      <4>2. ~Engaged(t)'
        BY <4>1 DEF Engaged, Inside, Out, ChunkPc, BarrierPc
      <4> QED BY <2>0, <4>2 DEF CrewOK
    <3>3. CASE ~(BarrierWait(t) /\ after[t] = "done")
      <4>1. Engaged(t)
        <5>1. CASE BarrierWait(t)
          BY <3>3, <5>1 DEF BarrierWait, Engaged, Out
        <5>2. CASE pc[t] \in {"node", "prepare"} \union ChunkPc
          BY <5>2 DEF Engaged
        <5>3. CASE pc[t] \in {"barrier", "barrierAdd", "barrierReset"}
          BY <5>3 DEF Engaged, Inside, Out, BarrierPc
        <5> QED BY <2>3, <5>1, <5>2, <5>3
                DEF Within, NodeLoop, Prepare, FirstChunk, OneChunk, NextChunk, NodeEnd,
                    BarrierEnter, BarrierAdd, BarrierReset, ChunkPc
      <4> QED BY <1>ty, <2>0, <2>1, <3>1, <4>1 DEF CrewOK
    <3> QED BY <3>2, <3>3
  <2> QED BY <2>2, <2>3
<1> QED BY <1>1, <1>2, <1>3 DEF CrewInv, CrewOK

(* Thread 0 may abort after a node: nobody is then before the chunks of a node. *)
LEMMA WithinNode == ASSUME PoolInv, NEW t \in Crew, Within(t) PROVE NodeInv'
<1>ty. TypeOK /\ t \in Thread /\ NodeOK(t) /\ Crew \subseteq Thread /\ node[t] \in 0..NNodes /\ NNodes \in Nat \ {0}
  BY PoolFacts, CrewFacts DEF PoolInv, TypeOK
<1>1. OthersKeep(t) /\ Crew' = Crew /\ \A u \in Crew \ {t} : ViewKept(u)
  BY WithinKeeps
<1>2. ASSUME NEW u \in Crew \ {t} PROVE NodeOK(u)'
  <2>1. NodeOK(u) /\ Inside(u)' = Inside(u) /\ pc'[u] = pc[u] /\ node'[u] = node[u] /\ after'[u] = after[u] /\ u \in Thread
    BY <1>1, <1>ty, PoolFacts DEF ViewKept, OthersKeep
  <2>2. CASE abort' = abort
    BY <2>1, <2>2 DEF NodeOK
  <2>3. CASE abort' # abort
    <3>1. NodeEnd(t)
      BY <2>3 DEF Within, ComputeStart, NodeLoop, Prepare, FirstChunk, OneChunk, NextChunk, BarrierEnter,
                  BarrierAdd, BarrierReset, BarrierWait, poolVars
    <3>2. pc[t] = "nodeEnd" /\ node[t] \in 0..NNodes - 1
      BY <3>1, <1>ty DEF NodeEnd, NodeOK, ChunkPc
    <3>3. Stage(u) = 2 * node[t] + 1
      <4>1. Stage(t) = 2 * node[t] + 1
        BY <3>2, <1>ty, Places DEF StageIs, ChunkPc
      <4> QED BY <4>1, PoolFacts
    <3>4. Computing(u, node[t])
      BY <1>ty, <2>1, <3>2, <3>3, OddPlaces
    <3> QED BY <2>1, <3>4 DEF NodeOK, Computing, ChunkPc, BarrierPc, Inside, Out
  <2> QED BY <2>2, <2>3
<1>3. NodeOK(t)'
  <2> USE DEF TypeOK, Goto, poolVars, localVars
  <2>1. CASE ComputeStart(t)
    <3>1. pc'[t] = "node"
      BY <2>1, <1>ty DEF ComputeStart
    <3> QED BY <3>1 DEF NodeOK, ChunkPc, BarrierPc, Inside
  <2>2. CASE NodeLoop(t)
    <3>1. node'[t] = node[t] /\ abort' = abort
      BY <2>2 DEF NodeLoop
    <3>2. CASE node[t] < NNodes /\ abort # node[t]
      <4>1. pc'[t] = "prepare"
        BY <2>2, <3>2, <1>ty DEF NodeLoop
      <4> QED BY <3>1, <3>2, <4>1 DEF NodeOK, ChunkPc, BarrierPc, Inside
    <3>3. CASE ~(node[t] < NNodes /\ abort # node[t])
      <4>1. pc'[t] = "barrier" /\ after'[t] = "done"
        BY <2>2, <3>3, <1>ty DEF NodeLoop
      <4> QED BY <3>1, <3>3, <4>1, <1>ty DEF NodeOK, ChunkPc, BarrierPc, Inside
    <3> QED BY <3>2, <3>3
  <2>3. CASE Prepare(t)
    <3>1. node'[t] = node[t] /\ abort' = abort /\ pc'[t] = "barrier" /\ after'[t] = "chunks" /\ pc[t] = "prepare"
      BY <2>3, <1>ty DEF Prepare
    <3> QED BY <3>1, <1>ty DEF NodeOK, ChunkPc, BarrierPc, Inside
  <2>4. CASE FirstChunk(t) \/ OneChunk(t) \/ NextChunk(t)
    <3>1. node'[t] = node[t] /\ pc'[t] \in ChunkPc /\ pc[t] \in ChunkPc
      BY <2>4, <1>ty DEF FirstChunk, OneChunk, NextChunk, ChunkPc
    <3> QED BY <3>1, <1>ty DEF NodeOK, ChunkPc, BarrierPc, Inside
  <2>5. CASE NodeEnd(t)
    <3>1. node'[t] = node[t] + 1
      BY <2>5, <1>ty DEF NodeEnd
    <3>2. CASE node[t] + 1 < NNodes
      <4>1. pc'[t] = "barrier" /\ after'[t] = "node"
        BY <2>5, <3>2, <1>ty DEF NodeEnd
      <4>2. node'[t] \in 1..NNodes - 1
        <5> HIDE DEF TypeOK
        <5>1. node[t] \in Nat /\ NNodes \in Nat
          BY <1>ty
        <5> QED BY <5>1, <3>1, <3>2
      <4> QED BY <4>1, <4>2 DEF NodeOK, ChunkPc, BarrierPc, Inside
    <3>3. CASE ~(node[t] + 1 < NNodes)
      <4>1. pc'[t] = "node"
        BY <2>5, <3>3, <1>ty DEF NodeEnd
      <4> QED BY <4>1 DEF NodeOK, ChunkPc, BarrierPc, Inside
    <3> QED BY <3>2, <3>3
  <2>6. CASE (BarrierEnter(t) /\ n_threads_cur # 1) \/ BarrierAdd(t) \/ BarrierReset(t)
    <3>1. /\ node'[t] = node[t] /\ abort' = abort /\ after'[t] = after[t] /\ pc'[t] \in BarrierPc
          /\ pc[t] \in {"barrier", "barrierAdd", "barrierReset"}
      BY <2>6, <1>ty DEF BarrierEnter, BarrierAdd, BarrierReset, BarrierPc
    <3>2. Inside(t) /\ pc[t] \in BarrierPc /\ pc'[t] \notin {"prepare"} \union ChunkPc
      BY <3>1 DEF Inside, Out, BarrierPc, ChunkPc
    <3> QED BY <3>1, <3>2, <1>ty DEF NodeOK
  <2>7. CASE BarrierWait(t)
    <3>1. node'[t] = node[t] /\ pc'[t] = Leave(t) /\ pc[t] = "barrierWait"
      BY <2>7, <1>ty DEF BarrierWait
    <3>2. Leave(t) \in {"node", "return", "loop"} \/ (Leave(t) = "chunks" /\ after[t] = "chunks")
      BY <1>ty, Places DEF Leave
    <3> QED BY <3>1, <3>2, <1>ty DEF NodeOK, ChunkPc, BarrierPc, Inside
  <2> QED BY <2>1, <2>2, <2>3, <2>4, <2>5, <2>6, <2>7 DEF Within
<1> QED BY <1>1, <1>2, <1>3 DEF NodeInv, NodeOK

(* The threads of the barrier *)
LEMMA ArrivedFacts ==
  ASSUME PoolInv
  PROVE  /\ IsFiniteSet(Arrived) /\ Cardinality(Arrived) \in Nat /\ n_threads_cur \in Nat
         /\ IsFiniteSet(Crew) /\ Cardinality(Crew) = n_threads_cur
         /\ \A t \in Crew : /\ IsFiniteSet(Crew \ {t}) /\ Cardinality(Crew \ {t}) = n_threads_cur - 1
                            /\ ~Waits(t) => \A u \in Crew \ {t} : pc[u] \notin {"barrierReset", "barrierPass"}
<1>ty. n_threads_cur \in 1..MaxThreads /\ MaxThreads \in Nat
  BY ThreadpoolAssumption DEF PoolInv, TypeOK
<1>1. IsFiniteSet(Crew) /\ Cardinality(Crew) = n_threads_cur
  BY <1>ty, FS_Interval DEF Crew
<1>2. IsFiniteSet(Arrived) /\ Cardinality(Arrived) \in Nat
  BY <1>1, FS_Subset, FS_CardinalityType DEF Arrived
<1>3. ASSUME NEW t \in Crew PROVE IsFiniteSet(Crew \ {t}) /\ Cardinality(Crew \ {t}) = n_threads_cur - 1
  BY <1>1, FS_RemoveElement
<1>4. ASSUME NEW t \in Crew, ~Waits(t), NEW u \in Crew \ {t} PROVE pc[u] \notin {"barrierReset", "barrierPass"}
  BY <1>4 DEF PoolInv, BarrierInv
<1> QED BY <1>ty, <1>1, <1>2, <1>3, <1>4

(* n_barrier counts the arrivals; the last one finds all others waiting. *)
LEMMA WithinBarrier == ASSUME PoolInv, NEW t \in Crew, Within(t) PROVE BarrierInv' /\ n_barrier' \in 0..MaxThreads
<1>ty. /\ TypeOK /\ BarrierInv /\ t \in Thread /\ Crew \subseteq Thread /\ n_threads_cur \in 1..MaxThreads
       /\ MaxThreads \in Nat /\ n_barrier \in 0..MaxThreads
  BY CrewFacts, ThreadpoolAssumption DEF PoolInv, TypeOK
<1>1. /\ OthersKeep(t) /\ Crew' = Crew /\ \A u \in Crew \ {t} : Waits(u)' = Waits(u) /\ pc'[u] = pc[u]
      /\ n_barrier_passed' = n_barrier_passed /\ \A u \in Crew \ {t} : n_passed'[u] = n_passed[u]
  BY WithinKeeps, <1>ty DEF ViewKept, OthersKeep
<1>2. ~Waits(t) /\ pc[t] # "barrierPass"
  BY DEF Waits, Within, ComputeStart, NodeLoop, Prepare, FirstChunk, OneChunk, NextChunk, NodeEnd, BarrierEnter,
         BarrierAdd, BarrierReset, BarrierWait
<1>3. \A u \in Crew \ {t} : pc[u] \notin {"barrierReset", "barrierPass"}
  BY <1>2, ArrivedFacts
<1>4. n_barrier = Cardinality(Arrived)
  BY <1>2, <1>3, <1>ty DEF BarrierInv
<1>5. \A u \in Crew \ {t} : u \in Arrived' <=> u \in Arrived
  BY <1>1 DEF Arrived
<1>add. ASSUME NEW u \in Crew \ {t} PROVE pc'[u] = "barrierAdd" => n_passed'[u] = n_barrier_passed'
  BY <1>1, <1>ty DEF BarrierInv
<1>6. CASE BarrierAdd(t)
  <2>1. /\ pc[t] = "barrierAdd" /\ n_barrier' = n_barrier + 1 /\ n_passed'[t] = n_passed[t]
        /\ pc'[t] = IF n_barrier = n_threads_cur - 1 THEN "barrierReset" ELSE "barrierWait"
    BY <1>6, <1>ty DEF BarrierAdd, Goto, localVars, TypeOK
  <2>2. t \notin Arrived
    BY <1>2, <2>1 DEF Arrived
  <2>3. t \in Arrived'
    <3>1. Waits(t)' \/ pc'[t] = "barrierReset"
      BY <2>1, <1>1, <1>ty DEF Waits, BarrierInv
    <3> QED BY <3>1, <1>1 DEF Arrived
  <2>4. Arrived' = Arrived \union {t}
    BY <2>3, <1>5, <1>1 DEF Arrived
  <2>5. Cardinality(Arrived') = Cardinality(Arrived) + 1
    BY <2>2, <2>4, FS_AddElement, ArrivedFacts
  <2>6. Arrived \in SUBSET (Crew \ {t})
    BY <2>2 DEF Arrived
  <2>7. Cardinality(Arrived) <= n_threads_cur - 1 /\ (Cardinality(Arrived) = n_threads_cur - 1 => Arrived = Crew \ {t})
    <3>1. IsFiniteSet(Crew \ {t}) /\ Cardinality(Crew \ {t}) = n_threads_cur - 1
      BY ArrivedFacts
    <3>2. Cardinality(Arrived) <= Cardinality(Crew \ {t})
          /\ (Cardinality(Crew \ {t}) = Cardinality(Arrived) => Crew \ {t} = Arrived)
      BY <3>1, <2>6, FS_Subset
    <3> QED BY <3>1, <3>2
  <2>8. n_barrier' \in 0..MaxThreads
    BY <2>1, <2>7, <1>4, <1>ty
  <2>9. pc'[t] = "barrierReset" => \A u \in Crew \ {t} : Waits(u)'
    BY <2>1, <2>7, <1>4, <1>1, <1>3 DEF Arrived
  <2>10. n_barrier' = Cardinality(Arrived)'
    BY <2>1, <2>5, <1>4
  <2>11. pc'[t] \notin {"barrierAdd", "barrierPass"}
    BY <2>1
  <2> QED BY <2>8, <2>9, <2>10, <2>11, <1>1, <1>3, <1>add DEF BarrierInv
<1>7. CASE BarrierReset(t)
  <2>1. pc[t] = "barrierReset" /\ n_barrier' = 0 /\ pc'[t] = "barrierPass"
    BY <1>7, <1>ty DEF BarrierReset, Goto, TypeOK
  <2>2. \A u \in Crew \ {t} : Waits(u)'
    BY <2>1, <1>1, <1>ty DEF BarrierInv
  <2>3. n_barrier' \in 0..MaxThreads
    BY <2>1, <1>ty
  <2> QED BY <2>1, <2>2, <2>3, <1>1, <1>3, <1>add DEF BarrierInv
<1>8. CASE ~BarrierAdd(t) /\ ~BarrierReset(t)
  <2>1. n_barrier' = n_barrier /\ pc[t] # "barrierReset"
    BY <1>8 DEF Within, ComputeStart, NodeLoop, Prepare, FirstChunk, OneChunk, NextChunk, NodeEnd, BarrierEnter,
                BarrierWait, poolVars
  <2>2. /\ pc'[t] \notin {"barrierReset", "barrierPass", "barrierWait"}
        /\ pc'[t] = "barrierAdd" => n_passed'[t] = n_barrier_passed
    BY <1>8, <1>ty DEF Within, ComputeStart, NodeLoop, Prepare, FirstChunk, OneChunk, NextChunk, NodeEnd, BarrierEnter,
                BarrierWait, Leave, Goto, TypeOK
  <2>3. Arrived' = Arrived
    <3>1. t \notin Arrived /\ t \notin Arrived'
      BY <2>1, <2>2, <1>2 DEF Arrived, Waits
    <3> QED BY <3>1, <1>5, <1>1 DEF Arrived
  <2> QED BY <2>1, <2>2, <2>3, <1>1, <1>3, <1>4, <1>ty, <1>add DEF BarrierInv
<1> QED BY <1>6, <1>7, <1>8

(* Steps within a stage keep all of it. *)
LEMMA WithinPool == ASSUME PoolInv, NEW t \in Crew, Within(t) PROVE PoolInv'
<1>1. 0 \in Crew /\ Crew \subseteq Thread /\ TypeOK
  BY CrewFacts DEF PoolInv
<1>2. SameStage'
  BY WithinKeeps, <1>1 DEF SameStage, PoolInv
<1>3. PlanInv'
  <2>1. UNCHANGED <<todo, request, n_threads_cur>> /\ (t = 0 => pc[0] # "kick")
    <3>1. t = 0 => pc[0] # "kick"
      BY DEF Within, ComputeStart, NodeLoop, Prepare, FirstChunk, OneChunk, NextChunk, NodeEnd, BarrierEnter,
         BarrierAdd, BarrierReset, BarrierWait
    <3> QED BY <3>1, WithinKeeps DEF OthersKeep
  <2>2. pc'[0] = "kick" <=> pc[0] = "kick"
    BY <2>1, <1>1, WithinKeeps, WithinPc DEF OthersKeep, CallPc
  <2> QED BY <2>1, <2>2 DEF PoolInv, PlanInv
<1> QED BY <1>2, <1>3, WithinType, WithinPlace, WithinCrew, WithinNode, WithinBarrier DEF PoolInv

-----------------------------------------------------------------------------
(* The barrier opens. *)

(* All others leave the barrier when n_barrier_passed changes, whatever its value. *)
LEMMA PassPool == ASSUME PoolInv, NEW t \in Crew, Passes(t) PROVE PoolInv'
<1>ty. /\ TypeOK /\ PlaceInv /\ t \in Thread /\ Crew \subseteq Thread /\ Thread \subseteq Nat /\ 0 \in Crew
       /\ Worker = Thread \ {0} /\ after[t] \in {"node", "chunks", "done"}
  BY CrewFacts, Places DEF PoolInv
<1>1. /\ \A u \in Crew : /\ Inside(u) /\ after[u] = after[t] /\ node[u] = node[t] /\ Done(u)
                         /\ Stage(u)' = NextStage(t) /\ Done(u)'
      /\ \A u \in Crew \ {t} : Out(u)' /\ pc'[u] = pc[u]
      /\ pc'[t] = Leave(t)
      /\ UNCHANGED <<n_barrier, n_graph, current_chunk, abort, n_threads_cur, ec, cgraph, last_graph, new_graph,
                     graph, node, nth, chunk, n_passed, after, todo, request, ret, wdata, result, stop, pause>>
  BY PassFacts DEF stateVars, localVars, callVars, dataVars
<1>2. Crew' = Crew
  BY <1>1 DEF Crew
<1>3. /\ Leave(t) \in {"node", "chunks", "return", "loop"} /\ (Leave(t) = "return" => t = 0) /\ (Leave(t) = "loop" => t # 0)
      /\ Leave(t) = "chunks" => after[t] = "chunks"
      /\ Leave(t) \in {"node", "chunks"} => Leave(t) = after[t]
  BY <1>ty DEF Leave
<1>4. pc' = [pc EXCEPT ![t] = Leave(t)] /\ n_barrier_passed' \in 0..PassMod - 1 /\ pc[t] \in {"barrier", "barrierPass"}
  BY <1>ty, PassedChanges DEF Passes, BarrierPass, BarrierEnter, Goto, poolVars, TypeOK
<1>5. \A u \in Thread \ {t} : pc'[u] = pc[u]
  BY <1>4, <1>ty DEF TypeOK
<1>6. TypeOK'
  <2>1. Leave(t) \in Pc
    BY <1>3 DEF Pc
  <2>2. pc' \in [Thread -> Pc]
    BY <2>1, <1>4, <1>ty DEF TypeOK
  <2> QED BY <2>2, <1>1, <1>4, <1>ty DEF TypeOK
<1>7. PlaceInv'
  <2>1. pc'[0] \notin IdlePc
    BY <1>1, <1>3, <1>5, <1>ty DEF PlaceInv, IdlePc
  <2>2. \A u \in Worker : pc'[u] \notin CallPc
    BY <1>1, <1>3, <1>5, <1>ty DEF PlaceInv, CallPc
  <2>3. \A u \in Thread \ Crew : pc'[u] \in IdlePc \/ (pc'[u] = "barrierWait" /\ after'[u] = "done")
    BY <1>1, <1>5, <1>ty DEF PlaceInv
  <2> QED BY <2>1, <2>2, <2>3, <1>2 DEF PlaceInv
<1>8. CrewInv'
  <2> SUFFICES ASSUME NEW u \in Crew PROVE CrewOK(u)'
    BY <1>2 DEF CrewInv, CrewOK
  <2>1. graph[u] = cgraph /\ nth[u] = n_threads_cur /\ Done(u)'
    BY <1>1, PoolFacts DEF CrewOK, Engaged
  <2>2. pc'[u] \notin {"start", "pollUpdate"}
    BY <1>1, <1>3 DEF Out
  <2> QED BY <2>1, <2>2, <1>1 DEF CrewOK
<1>9. NodeInv'
  <2> SUFFICES ASSUME NEW u \in Crew PROVE NodeOK(u)'
    BY <1>2 DEF NodeInv, NodeOK
  <2>0. NodeOK(u) /\ pc[u] \in BarrierPc /\ after'[u] = after[u] /\ node'[u] = node[u]
    BY <1>1, PoolFacts DEF Inside
  <2>1. CASE u # t
    <3>1. pc'[u] = "barrierWait" /\ ~Inside(u)'
      BY <2>1, <1>1 DEF Out, Inside
    <3> QED BY <2>0, <3>1 DEF NodeOK, ChunkPc, BarrierPc
  <2>2. CASE u = t
    BY <2>0, <2>2, <1>1, <1>3 DEF NodeOK, ChunkPc, BarrierPc, Inside
  <2> QED BY <2>1, <2>2
<1>10. BarrierInv'
  <2>1. \A u \in Crew : pc'[u] \notin {"barrierAdd", "barrierReset", "barrierPass"} /\ ~Waits(u)'
    <3>1. ASSUME NEW u \in Crew \ {t} PROVE pc'[u] = "barrierWait" /\ ~Waits(u)'
      BY <1>1 DEF Out, Waits
    <3>2. pc'[t] \notin {"barrierAdd", "barrierReset", "barrierPass"} /\ ~Waits(t)'
      BY <1>1, <1>3 DEF Waits
    <3> QED BY <3>1, <3>2
  <2>2. Arrived' = {}
    BY <2>1, <1>2 DEF Arrived
  <2>3. n_barrier = 0
    <3>1. CASE pc[t] = "barrierPass"
      BY <3>1 DEF PoolInv, BarrierInv
    <3>2. CASE pc[t] = "barrier"
      <4>1. Crew = {t}
        <5>1. n_threads_cur = 1
          BY <3>2 DEF Passes, BarrierPass
        <5> QED BY <5>1 DEF Crew
      <4>2. Arrived = {}
        BY <4>1, <3>2 DEF Arrived, Waits
      <4>3. n_barrier = Cardinality(Arrived)
        BY <4>1, <3>2 DEF PoolInv, BarrierInv
      <4> QED BY <4>2, <4>3, FS_EmptySet
    <3> QED BY <3>1, <3>2, <1>4
  <2> QED BY <2>1, <2>2, <2>3, <1>1, <1>2, FS_EmptySet DEF BarrierInv
<1>11. PlanInv'
  <2>1. pc[0] # "kick" /\ pc'[0] # "kick"
    BY <1>1, <1>3, <1>ty DEF Inside, BarrierPc
  <2> QED BY <2>1, <1>1 DEF PoolInv, PlanInv
<1>12. SameStage'
  BY <1>1, <1>2, <1>ty DEF SameStage
<1> QED BY <1>6, <1>7, <1>8, <1>9, <1>10, <1>11, <1>12 DEF PoolInv

-----------------------------------------------------------------------------
(* Steps that nobody in a graph notices: workers between two graphs, the   *)
(* caller between two calls, and threads that begin with the graph.        *)

Silent(u) ==
  \/ pc'[u] = pc[u] /\ (u # 0 => last_graph'[u] = last_graph[u])
  \/ u # 0 /\ pc[u] \in IdlePc /\ pc'[u] \in IdlePc /\ last_graph'[u] = last_graph[u]
  \/ u = 0 /\ pc[u] \in {"return", "idle", "join"} /\ pc'[u] \in {"idle", "join", "freed"}
  \/ pc[u] \in IdlePc \union {"kickWake"} /\ ~Done(u) /\ pc'[u] = "start" /\ Done(u)'

Quiet ==
  /\ UNCHANGED <<n_barrier, n_barrier_passed, n_graph, n_threads_cur, cgraph, abort, ec, current_chunk,
                 after, node, graph, nth, chunk, n_passed, todo, request, wdata, result>>
  /\ \A u \in Crew : Silent(u)
  /\ \A u \in Crew \ {0} : pc'[u] = "pollUpdate" => new_graph'[u] = n_graph /\ last_graph'[u] # n_graph

(* What is seen of a thread stays, except that a thread may have begun. *)
LEMMA QuietView ==
  ASSUME TypeOK, Quiet, NEW u \in Crew
  PROVE  /\ Stage(u)' = Stage(u) /\ (Done(u) => Done(u)') /\ (Done(u)' # Done(u) => pc'[u] = "start")
         /\ Out(u)' = Out(u) /\ Inside(u)' = Inside(u) /\ Waits(u)' = Waits(u) /\ Engaged(u)' = Engaged(u)
         /\ \A l \in {"node", "prepare"} \union ChunkPc \union BarrierPc : pc'[u] = l <=> pc[u] = l
<1>ty. u \in Thread /\ Silent(u)
  BY CrewFacts DEF Quiet
<1>q. /\ n_barrier_passed' = n_barrier_passed /\ n_graph' = n_graph
      /\ node'[u] = node[u] /\ after'[u] = after[u] /\ n_passed'[u] = n_passed[u]
  BY DEF Quiet
<1>1. CASE pc[u] \in IdlePc \union {"kickWake"} /\ ~Done(u) /\ pc'[u] = "start" /\ Done(u)'
  <2>1. Stage(u) = 0 /\ Stage(u)' = 0
    BY <1>1 DEF Stage, Away, IdlePc, CallPc
  <2> QED BY <1>1, <2>1 DEF Out, Inside, Waits, Engaged, IdlePc, CallPc, ChunkPc, BarrierPc
<1>2. CASE ~(pc[u] \in IdlePc \union {"kickWake"} /\ ~Done(u) /\ pc'[u] = "start" /\ Done(u)')
  <2>1. /\ u # 0 => last_graph'[u] = last_graph[u]
        /\ \/ pc'[u] = pc[u]
           \/ u # 0 /\ pc[u] \in IdlePc /\ pc'[u] \in IdlePc
           \/ u = 0 /\ pc[u] \in {"return", "idle", "join"} /\ pc'[u] \in {"idle", "join", "freed"}
    BY <1>ty, <1>2 DEF Silent
  <2>2. ViewKept(u)
    BY <1>ty, <1>q, <2>1, ViewFrame DEF CallPc
  <2>3. \A l \in {"node", "prepare"} \union ChunkPc \union BarrierPc : pc'[u] = l <=> pc[u] = l
    BY <2>1 DEF IdlePc, ChunkPc, BarrierPc
  <2> QED BY <2>2, <2>3 DEF ViewKept
<1> QED BY <1>1, <1>2

(* The invariants of the pool do not notice a quiet step. *)
LEMMA QuietPool == ASSUME PoolInv, Quiet, TypeOK', PlaceInv' PROVE PoolInv'
<1>ty. TypeOK /\ 0 \in Crew /\ Crew \subseteq Thread
  BY CrewFacts DEF PoolInv
<1>q. /\ UNCHANGED <<n_barrier, n_barrier_passed, n_graph, n_threads_cur, cgraph, abort,
                     after, node, graph, nth, n_passed, todo, request>>
      /\ \A u \in Crew : Silent(u)
  BY DEF Quiet
<1>1. Crew' = Crew
  BY <1>q DEF Crew
<1>v. ASSUME NEW u \in Crew
      PROVE  /\ Stage(u)' = Stage(u) /\ (Done(u) => Done(u)') /\ (Done(u)' # Done(u) => pc'[u] = "start")
             /\ Out(u)' = Out(u) /\ Inside(u)' = Inside(u) /\ Waits(u)' = Waits(u) /\ Engaged(u)' = Engaged(u)
             /\ \A l \in {"node", "prepare"} \union ChunkPc \union BarrierPc : pc'[u] = l <=> pc[u] = l
  BY <1>ty, QuietView
<1>2. CrewInv'
  <2> SUFFICES ASSUME NEW u \in Crew PROVE CrewOK(u)'
    BY <1>1 DEF CrewInv, CrewOK
  <2>1. pc'[u] = "start" => Done(u)'
    <3>1. pc[u] = "start" => Done(u)
      BY PoolFacts DEF CrewOK
    <3>2. Silent(u)
      BY <1>q
    <3> QED BY <3>1, <3>2, <1>v DEF Silent, IdlePc
  <2>2. Engaged(u)' => graph'[u] = cgraph' /\ nth'[u] = n_threads_cur' /\ Done(u)'
    BY <1>q, <1>v, PoolFacts DEF CrewOK
  <2>3. u # 0 /\ pc'[u] = "pollUpdate" => new_graph'[u] = n_graph' /\ last_graph'[u] # n_graph'
    BY <1>q DEF Quiet
  <2> QED BY <2>1, <2>2, <2>3 DEF CrewOK
<1>3. NodeInv'
  <2> SUFFICES ASSUME NEW u \in Crew PROVE NodeOK(u)'
    BY <1>1 DEF NodeInv, NodeOK
  <2>1. NodeOK(u) /\ Inside(u)' = Inside(u) /\ node'[u] = node[u] /\ after'[u] = after[u] /\ abort' = abort
    BY <1>q, <1>v, PoolFacts
  <2>2. /\ pc'[u] \in {"prepare"} \union ChunkPc <=> pc[u] \in {"prepare"} \union ChunkPc
        /\ pc'[u] = "prepare" <=> pc[u] = "prepare"
        /\ pc'[u] \in BarrierPc <=> pc[u] \in BarrierPc
    BY <1>v
  <2> QED BY <2>1, <2>2 DEF NodeOK
<1>4. BarrierInv'
  <2>1. ASSUME NEW u \in Crew
        PROVE  /\ Waits(u)' = Waits(u)
               /\ pc'[u] = "barrierReset" <=> pc[u] = "barrierReset"
               /\ pc'[u] = "barrierPass" <=> pc[u] = "barrierPass"
               /\ pc'[u] = "barrierAdd" <=> pc[u] = "barrierAdd"
    BY <1>v DEF BarrierPc
  <2>2. Arrived' = Arrived
    BY <2>1, <1>1 DEF Arrived
  <2> QED BY <2>1, <2>2, <1>1, <1>q DEF PoolInv, BarrierInv
<1>5. PlanInv'
  <2>1. pc'[0] = "kick" <=> pc[0] = "kick"
    BY <1>q, <1>ty DEF Silent, PoolInv, PlaceInv, IdlePc
  <2> QED BY <2>1, <1>q DEF PoolInv, PlanInv
<1>6. SameStage'
  BY <1>v, <1>1, <1>ty DEF SameStage, PoolInv
<1> QED BY <1>2, <1>3, <1>4, <1>5, <1>6 DEF PoolInv

(* Steps of the workers outside a graph *)
LEMMA SecondaryQuiet ==
  ASSUME PoolInv, NEW t \in Worker, Secondary(t) \/ SpuriousWake(t)
  PROVE  Quiet /\ TypeOK' /\ PlaceInv' /\ ret' = ret /\ pc'[0] = pc[0]
<1>ty. /\ TypeOK /\ PlaceInv /\ t \in Thread /\ t # 0 /\ Crew \subseteq Thread /\ Worker = Thread \ {0} /\ 0 \in Thread
       /\ n_threads_cur \in Nat /\ t \in Nat
  BY CrewFacts DEF PoolInv
<1>1. PICK l \in IdlePc \union {"start"} : pc' = [pc EXCEPT ![t] = l]
  <2>1. CASE PauseCheck(t) \/ PauseLock(t) \/ StopCheck(t) \/ PollActive(t) \/ ReadyFlags(t)
    BY <2>1 DEF PauseCheck, PauseLock, StopCheck, PollActive, ReadyFlags, Goto, IdlePc
  <2>2. CASE ReadyGraph(t) \/ ReadyActive(t) \/ CheckForWork(t) \/ SpuriousWake(t)
    BY <2>2 DEF ReadyGraph, ReadyActive, CheckForWork, SpuriousWake, Goto, IdlePc
  <2> QED BY <2>1, <2>2 DEF Secondary
<1>2. pc'[t] = l /\ \A u \in Thread \ {t} : pc'[u] = pc[u]
  BY <1>1, <1>ty DEF TypeOK
<1>3. pc[t] \in IdlePc
  BY DEF Secondary, PauseCheck, PauseLock, StopCheck, PollActive, ReadyFlags, ReadyGraph, ReadyActive, CheckForWork,
         SpuriousWake, IdlePc
<1>4. UNCHANGED <<poolVars, localVars, callVars, dataVars>>
  BY DEF Secondary, PauseCheck, PauseLock, StopCheck, PollActive, ReadyFlags, ReadyGraph, ReadyActive, CheckForWork,
         SpuriousWake
<1>5. /\ last_graph' \in [Worker -> Nat] /\ new_graph' \in [Worker -> Nat]
      /\ \A u \in Worker \ {t} : last_graph'[u] = last_graph[u] /\ new_graph'[u] = new_graph[u]
  <2>1. CASE ReadyGraph(t)
    BY <2>1, <1>ty DEF ReadyGraph, TypeOK, poolVars
  <2>2. CASE ReadyActive(t)
    BY <2>2, <1>ty DEF ReadyActive, TypeOK
  <2>3. CASE CheckForWork(t)
    BY <2>3, <1>ty DEF CheckForWork, TypeOK
  <2>4. CASE UNCHANGED stateVars
    BY <2>4, <1>ty DEF stateVars, TypeOK
  <2> QED BY <2>1, <2>2, <2>3, <2>4
          DEF Secondary, PauseCheck, PauseLock, StopCheck, PollActive, ReadyFlags, SpuriousWake
<1>6. l = "start" => t \in Crew
  <2>1. l = "start" => t < n_threads_cur
    BY <1>2, <1>ty DEF Secondary, PauseCheck, PauseLock, StopCheck, PollActive, ReadyFlags, ReadyGraph, ReadyActive,
         CheckForWork, SpuriousWake, Goto, TypeOK
  <2> QED BY <2>1, <1>ty DEF Crew
<1>7. TypeOK'
  <2>1. pc' \in [Thread -> Pc]
    <3>1. l \in Pc
      BY DEF IdlePc, Pc
    <3> QED BY <1>1, <1>ty, <3>1 DEF TypeOK
  <2> QED BY <2>1, <1>4, <1>5, <1>ty DEF TypeOK, poolVars, localVars, callVars, dataVars
<1>8. PlaceInv'
  <2>1. Crew' = Crew /\ after' = after
    BY <1>4 DEF Crew, poolVars, localVars
  <2>2. l \notin CallPc
    BY DEF IdlePc, CallPc
  <2>3. \A u \in Thread \ Crew : pc'[u] \in IdlePc \/ (pc'[u] = "barrierWait" /\ after'[u] = "done")
    <3>1. ASSUME NEW u \in Thread \ Crew, u # t PROVE pc'[u] \in IdlePc \/ (pc'[u] = "barrierWait" /\ after'[u] = "done")
      BY <1>2, <1>ty, <2>1, <3>1 DEF PlaceInv
    <3>2. t \notin Crew => pc'[t] \in IdlePc
      BY <1>2, <1>6
    <3> QED BY <3>1, <3>2
  <2>4. \A u \in Worker : pc'[u] \notin CallPc
    BY <1>2, <1>ty, <2>2 DEF PlaceInv
  <2>5. pc'[0] \notin IdlePc
    BY <1>2, <1>ty DEF PlaceInv
  <2> QED BY <2>1, <2>3, <2>4, <2>5 DEF PlaceInv
<1>9. ASSUME t \in Crew
      PROVE  /\ Silent(t)
             /\ pc'[t] = "pollUpdate" => new_graph'[t] = n_graph /\ last_graph'[t] # n_graph
  <2>1. CASE ReadyGraph(t)
    <3>1. pc'[t] \in IdlePc /\ last_graph' = last_graph
      BY <2>1, <1>ty DEF ReadyGraph, Goto, TypeOK, IdlePc
    <3>2. pc'[t] = "pollUpdate" => new_graph'[t] = n_graph /\ last_graph[t] # n_graph
      BY <2>1, <1>ty DEF ReadyGraph, Goto, TypeOK
    <3> QED BY <3>1, <3>2, <1>3, <1>ty DEF Silent
  <2>2. CASE ReadyActive(t)
    <3>1. pc'[t] = "start" /\ last_graph'[t] = new_graph[t] /\ pc[t] = "pollUpdate"
      BY <2>2, <1>9, <1>ty DEF ReadyActive, Goto, TypeOK, Crew
    <3>2. new_graph[t] = n_graph /\ last_graph[t] # n_graph
      BY <3>1, <1>9, <1>ty DEF PoolInv, CrewInv
    <3>3. ~Done(t) /\ Done(t)'
      BY <3>1, <3>2, <1>4, <1>ty DEF Done, poolVars
    <3> QED BY <3>1, <3>3, <1>3 DEF Silent
  <2>3. CASE CheckForWork(t)
    <3>1. CASE stop \/ pause
      <4>1. pc'[t] = "loop" /\ last_graph' = last_graph
        BY <2>3, <3>1, <1>ty DEF CheckForWork, Goto, TypeOK
      <4> QED BY <4>1, <1>3, <1>ty DEF Silent, IdlePc
    <3>2. CASE ~(stop \/ pause) /\ n_graph # last_graph[t]
      <4>1. pc'[t] = "start" /\ last_graph'[t] = n_graph
        BY <2>3, <3>2, <1>9, <1>ty DEF CheckForWork, Goto, TypeOK, Crew
      <4>2. ~Done(t) /\ Done(t)'
        BY <4>1, <3>2, <1>4, <1>ty DEF Done, poolVars
      <4> QED BY <4>1, <4>2, <1>3 DEF Silent
    <3>3. CASE ~(stop \/ pause) /\ n_graph = last_graph[t]
      <4>1. pc'[t] = "workWait" /\ last_graph'[t] = last_graph[t]
        BY <2>3, <3>3, <1>ty DEF CheckForWork, Goto, TypeOK
      <4> QED BY <4>1, <1>3, <1>ty DEF Silent, IdlePc
    <3> QED BY <3>1, <3>2, <3>3
  <2>4. CASE PauseCheck(t) \/ PauseLock(t) \/ StopCheck(t) \/ PollActive(t) \/ ReadyFlags(t) \/ SpuriousWake(t)
    <3>1. pc'[t] \in IdlePc \ {"pollUpdate"} /\ last_graph' = last_graph
      BY <2>4, <1>ty DEF PauseCheck, PauseLock, StopCheck, PollActive, ReadyFlags, SpuriousWake, Goto, IdlePc, TypeOK,
                         stateVars
    <3> QED BY <3>1, <1>3, <1>ty DEF Silent
  <2> QED BY <2>1, <2>2, <2>3, <2>4 DEF Secondary
<1>10. ASSUME NEW u \in Crew, u # t
       PROVE  /\ Silent(u)
              /\ u # 0 /\ pc'[u] = "pollUpdate" => new_graph'[u] = n_graph /\ last_graph'[u] # n_graph
  <2>1. pc'[u] = pc[u] /\ (u # 0 => last_graph'[u] = last_graph[u] /\ new_graph'[u] = new_graph[u])
    BY <1>2, <1>5, <1>10, <1>ty
  <2> QED BY <2>1 DEF Silent, PoolInv, CrewInv
<1> QED BY <1>2, <1>4, <1>7, <1>8, <1>9, <1>10, <1>ty DEF Quiet, poolVars, localVars, callVars, dataVars

(* A thread that is not needed any more leaves its last barrier. *)
LEMMA OutsiderQuiet ==
  ASSUME PoolInv, NEW t \in Thread \ Crew, BarrierWait(t), after[t] = "done"
  PROVE  Quiet /\ TypeOK' /\ PlaceInv' /\ ret' = ret /\ pc'[0] = pc[0]
<1>ty. /\ TypeOK /\ PlaceInv /\ t \in Thread /\ t # 0 /\ Crew \subseteq Thread /\ 0 \in Thread /\ Worker = Thread \ {0}
  BY CrewFacts DEF PoolInv
<1>1. pc' = [pc EXCEPT ![t] = "loop"] /\ UNCHANGED <<poolVars, stateVars, localVars, callVars, dataVars>>
  BY <1>ty DEF BarrierWait, Goto, Leave
<1>2. pc'[t] = "loop" /\ \A u \in Thread \ {t} : pc'[u] = pc[u]
  BY <1>1, <1>ty DEF TypeOK
<1>3. TypeOK'
  <2>1. pc' \in [Thread -> Pc]
    BY <1>1, <1>ty DEF TypeOK, Pc
  <2> QED BY <2>1, <1>1, <1>ty DEF TypeOK, poolVars, stateVars, localVars, callVars, dataVars
<1>4. PlaceInv'
  <2>1. Crew' = Crew /\ after' = after
    BY <1>1 DEF Crew, poolVars, localVars
  <2> QED BY <2>1, <1>2, <1>ty DEF PlaceInv, IdlePc, CallPc
<1>5. ASSUME NEW u \in Crew
      PROVE  /\ Silent(u)
             /\ u # 0 /\ pc'[u] = "pollUpdate" => new_graph'[u] = n_graph /\ last_graph'[u] # n_graph
  <2>1. pc'[u] = pc[u] /\ last_graph' = last_graph /\ new_graph' = new_graph
    BY <1>1, <1>2, <1>ty DEF stateVars
  <2> QED BY <2>1 DEF Silent, PoolInv, CrewInv
<1> QED BY <1>1, <1>2, <1>3, <1>4, <1>5, <1>ty DEF Quiet, poolVars, localVars, callVars, dataVars

(* The caller wakes the workers, comes back, pauses the pool or frees it. *)
LEMMA CallerQuiet ==
  ASSUME PoolInv, KickWake \/ Return \/ Join \/ Free \/ Freed \/ \E b \in BOOLEAN : SetPause(b)
  PROVE  Quiet /\ TypeOK' /\ PlaceInv'
<1>ty. /\ TypeOK /\ PlaceInv /\ Crew \subseteq Thread /\ 0 \in Thread /\ 0 \in Crew /\ Worker = Thread \ {0}
       /\ Thread \subseteq Nat
  BY CrewFacts DEF PoolInv
<1>1. /\ UNCHANGED <<n_graph, n_barrier, n_barrier_passed, current_chunk, abort, n_threads_cur, ec, cgraph, stateVars,
                     localVars, todo, request, dataVars>>
      /\ stop' \in BOOLEAN /\ pause' \in BOOLEAN /\ ret' \in {"none", "success", "aborted"}
  BY <1>ty DEF KickWake, Return, Join, Free, Freed, SetPause, vars, poolVars, callVars, TypeOK
<1>b. Broadcast(pc) \in [Thread -> Pc] /\ Broadcast(pc)[0] = pc[0]
  BY <1>ty DEF Broadcast, Pc, PlaceInv, IdlePc, TypeOK
<1>2. \E q \in {pc, Broadcast(pc)}, l \in Pc \ IdlePc : pc' = [q EXCEPT ![0] = l]
  <2>0. pc[0] \in Pc \ IdlePc
    BY <1>ty DEF TypeOK, PlaceInv
  <2>1. CASE KickWake
    BY <2>1 DEF KickWake, Pc, IdlePc
  <2>2. CASE Return \/ Join
    BY <2>2 DEF Return, Join, Goto, Pc, IdlePc
  <2>3. CASE Free
    BY <2>3 DEF Free, Pc, IdlePc
  <2>4. CASE Freed
    <3>1. pc' = [pc EXCEPT ![0] = pc[0]]
      BY <2>4, <1>ty DEF Freed, vars, TypeOK
    <3> QED BY <2>0, <3>1
  <2>5. CASE \E b \in BOOLEAN : SetPause(b)
    <3>1. pc' = Broadcast(pc)
      BY <2>5 DEF SetPause
    <3>2. Broadcast(pc) = [Broadcast(pc) EXCEPT ![0] = Broadcast(pc)[0]]
      BY <1>b
    <3> QED BY <2>0, <3>1, <3>2, <1>b
  <2> QED BY <2>1, <2>2, <2>3, <2>4, <2>5
<1>3. /\ pc' \in [Thread -> Pc] /\ pc'[0] \notin IdlePc
      /\ \A u \in Thread \ {0} : pc'[u] = pc[u] \/ (pc[u] \in IdlePc /\ pc'[u] \in IdlePc \ {"pollUpdate"})
  <2>1. PICK q \in {pc, Broadcast(pc)}, l \in Pc \ IdlePc : pc' = [q EXCEPT ![0] = l]
    BY <1>2
  <2>2. q \in [Thread -> Pc] /\ \A u \in Thread : q[u] = pc[u] \/ (pc[u] \in IdlePc /\ q[u] \in IdlePc \ {"pollUpdate"})
    BY <1>b, <1>ty, BroadcastKeeps DEF TypeOK
  <2>3. pc' \in [Thread -> Pc] /\ pc'[0] = l /\ \A u \in Thread \ {0} : pc'[u] = q[u]
    BY <2>1, <2>2, <1>ty
  <2> QED BY <2>2, <2>3
<1>4. TypeOK'
  BY <1>1, <1>3, <1>ty DEF TypeOK, stateVars, localVars, dataVars
<1>5. PlaceInv'
  <2>1. Crew' = Crew /\ after' = after
    BY <1>1 DEF Crew, localVars
  <2>2. \A u \in Worker : pc'[u] \notin CallPc
    BY <1>3, <1>ty DEF PlaceInv, CallPc, IdlePc
  <2>3. \A u \in Thread \ Crew : pc'[u] \in IdlePc \/ (pc'[u] = "barrierWait" /\ after'[u] = "done")
    BY <1>3, <1>ty, <2>1 DEF PlaceInv, IdlePc
  <2> QED BY <2>1, <2>2, <2>3, <1>3 DEF PlaceInv
<1>6. ASSUME NEW u \in Crew \ {0}
      PROVE  /\ Silent(u)
             /\ pc'[u] = "pollUpdate" => new_graph'[u] = n_graph /\ last_graph'[u] # n_graph
  <2>1. last_graph' = last_graph /\ new_graph' = new_graph /\ u \in Thread \ {0}
    BY <1>1, <1>ty DEF stateVars
  <2>2. pc'[u] = pc[u] \/ (pc[u] \in IdlePc /\ pc'[u] \in IdlePc \ {"pollUpdate"})
    BY <2>1, <1>3
  <2>3. Silent(u)
    BY <2>1, <2>2 DEF Silent
  <2> QED BY <2>1, <2>2, <2>3 DEF PoolInv, CrewInv
<1>7. Silent(0)
  <2>1. CASE KickWake
    <3>1. pc[0] = "kickWake" /\ pc'[0] = "start"
      BY <2>1, <1>b, <1>ty DEF KickWake
    <3> QED BY <3>1 DEF Silent, Done
  <2>2. CASE Return \/ Join
    <3>1. pc[0] \in {"return", "join"} /\ pc'[0] \in {"idle", "freed"}
      BY <2>2, <1>ty DEF Return, Join, Goto, TypeOK
    <3> QED BY <3>1 DEF Silent
  <2>3. CASE Free
    <3>1. pc[0] = "idle" /\ pc'[0] = "join"
      BY <2>3, <1>b, <1>ty DEF Free
    <3> QED BY <3>1 DEF Silent
  <2>4. CASE Freed \/ \E b \in BOOLEAN : SetPause(b)
    <3>1. pc'[0] = pc[0]
      BY <2>4, <1>b DEF Freed, SetPause, vars
    <3> QED BY <3>1 DEF Silent
  <2> QED BY <2>1, <2>2, <2>3, <2>4
<1> QED BY <1>1, <1>4, <1>5, <1>6, <1>7 DEF Quiet, localVars, dataVars

-----------------------------------------------------------------------------
(* The caller announces a graph: everyone has finished the last one. *)

(* Between two graphs nobody in the crew is at work. *)
LEMMA AllFinished ==
  ASSUME PoolInv, pc[0] \in CallPc \ {"kickWake"}
  PROVE  /\ Stage(0) = Fin /\ n_barrier = 0
         /\ \A u \in Crew : /\ Done(u) /\ Stage(u) = Fin /\ (pc[u] \in IdlePc \union CallPc \/ (Out(u) /\ after[u] = "done"))
                            /\ ~Engaged(u) /\ ~Inside(u) /\ ~Waits(u)
                            /\ pc[u] \notin {"start", "pollUpdate", "prepare"} \union ChunkPc
                                           \union {"barrierAdd", "barrierReset", "barrierPass"}
<1>ty. TypeOK /\ 0 \in Crew /\ Crew \subseteq Thread /\ 0 \in Thread
  BY CrewFacts DEF PoolInv
<1>1. Stage(0) = Fin
  BY DEF Stage, Away, Done
<1>2. ASSUME NEW u \in Crew
      PROVE  Done(u) /\ Stage(u) = Fin /\ (pc[u] \in IdlePc \union CallPc \/ (Out(u) /\ after[u] = "done"))
  <2>1. Stage(u) = Fin /\ NodeOK(u) /\ u \in Thread
    BY <1>1, PoolFacts
  <2> QED BY <2>1, <1>ty, FinPlaces
<1>3. ASSUME NEW u \in Crew
      PROVE  /\ ~Engaged(u) /\ ~Inside(u) /\ ~Waits(u)
             /\ pc[u] \notin {"start", "pollUpdate", "prepare"} \union ChunkPc
                             \union {"barrierAdd", "barrierReset", "barrierPass"}
  <2>1. pc[u] # "pollUpdate"
    <3>1. u # 0 /\ pc[u] = "pollUpdate" => last_graph[u] # n_graph
      BY DEF PoolInv, CrewInv
    <3> QED BY <3>1, <1>2 DEF Done, CallPc
  <2>2. CASE pc[u] \in IdlePc \union CallPc
    BY <2>1, <2>2 DEF Engaged, Inside, Waits, Out, IdlePc, CallPc, ChunkPc, BarrierPc
  <2>3. CASE Out(u) /\ after[u] = "done"
    BY <2>3 DEF Engaged, Inside, Waits, Out, ChunkPc, BarrierPc
  <2> QED BY <1>2, <2>2, <2>3
<1>4. n_barrier = 0
  <2>1. Arrived = {}
    BY <1>3 DEF Arrived
  <2>2. n_barrier = Cardinality(Arrived)
    BY <1>3 DEF PoolInv, BarrierInv
  <2> QED BY <2>1, <2>2, FS_EmptySet
<1> QED BY <1>1, <1>2, <1>3, <1>4

Resting(u) ==
  /\ ~Engaged(u) /\ ~Inside(u) /\ ~Waits(u)
  /\ pc[u] \notin {"start", "pollUpdate", "prepare"} \union ChunkPc \union {"barrierAdd", "barrierReset", "barrierPass"}

(* When nobody is at work the invariants hold. *)
LEMMA RestingPool ==
  ASSUME TypeOK', PlaceInv', PlanInv', n_barrier' = 0,
         \A u \in Crew' : Resting(u)' /\ Stage(u)' = Stage(0)',
         \A u \in Crew' : pc'[u] \in BarrierPc => after'[u] = "done"
  PROVE  PoolInv'
<1>1. CrewInv'
  BY DEF CrewInv, Resting
<1>2. NodeInv'
  BY DEF NodeInv, Resting
<1>3. BarrierInv'
  <2>1. Arrived' = {}
    BY DEF Arrived, Resting
  <2> QED BY <2>1, FS_EmptySet DEF BarrierInv, Resting
<1>4. SameStage'
  BY DEF SameStage
<1> QED BY <1>1, <1>2, <1>3, <1>4 DEF PoolInv

(* A new graph is taken from the plan. *)
LEMMA GraphComputePool == ASSUME PoolInv, GraphCompute PROVE PoolInv'
<1>ty. /\ TypeOK /\ PlaceInv /\ PlanInv /\ Crew \subseteq Thread /\ 0 \in Thread /\ 0 \in Crew /\ Worker = Thread \ {0}
       /\ MaxThreads \in Nat \ {0} /\ n_threads_cur \in 1..MaxThreads
  BY CrewFacts, ThreadpoolAssumption DEF PoolInv, TypeOK
<1>1. /\ pc[0] = "idle" /\ todo # <<>> /\ pc' = [pc EXCEPT ![0] = "kick"]
      /\ request' = Cap(Head(todo)) /\ todo' = Tail(todo) /\ cgraph' = cgraph + 1
      /\ current_chunk' = 0 /\ abort' = NoAbort /\ ec' = "success"
      /\ UNCHANGED <<n_graph, n_barrier, n_barrier_passed, stop, pause, n_threads_cur, last_graph, new_graph,
                     graph, node, nth, chunk, n_passed, after, ret, wdata, result>>
  BY DEF GraphCompute, Goto, Cap, stateVars, localVars, dataVars
<1>2. pc'[0] = "kick" /\ \A u \in Thread \ {0} : pc'[u] = pc[u]
  BY <1>1, <1>ty DEF TypeOK
<1>3. /\ todo \in Seq(Nat \ {0}) /\ Len(todo) \in Nat \ {0} /\ 1 \in DOMAIN todo /\ Head(todo) = todo[1]
      /\ Head(todo) \in Nat \ {0} /\ Tail(todo) \in Seq(Nat \ {0})
      /\ \A i \in DOMAIN Tail(todo) : i + 1 \in DOMAIN todo /\ Tail(todo)[i] = todo[i + 1] /\ i \in Nat \ {0}
  <2>1. todo \in Seq(Nat \ {0}) /\ todo # <<>>
    BY <1>1, <1>ty DEF TypeOK
  <2>2. Len(todo) \in Nat \ {0} /\ DOMAIN todo = 1..Len(todo) /\ todo \in [1..Len(todo) -> Nat \ {0}]
    BY <2>1
  <2>3. Head(todo) = todo[1] /\ Tail(todo) \in Seq(Nat \ {0}) /\ Len(Tail(todo)) = Len(todo) - 1
    BY <2>1, <2>2
  <2>4. DOMAIN Tail(todo) = 1..Len(todo) - 1
    BY <2>3
  <2>5. ASSUME NEW i \in 1..Len(todo) - 1 PROVE Tail(todo)[i] = todo[i + 1]
    BY <2>1, <2>2, <2>3
  <2> QED BY <2>1, <2>2, <2>3, <2>4, <2>5
<1>4. request' \in 1..n_threads_cur
  <2>1. Cap(Head(todo)) <= n_threads_cur
    BY <1>1, <1>3, <1>ty DEF PlanInv
  <2>2. Cap(Head(todo)) \in Nat \ {0}
    BY <1>3, <1>ty DEF Cap
  <2> QED BY <1>1, <1>ty, <2>1, <2>2
<1>5. TypeOK'
  <2>1. pc' \in [Thread -> Pc]
    BY <1>1, <1>ty DEF TypeOK, Pc
  <2>2. request' \in 0..MaxThreads
    BY <1>4, <1>ty
  <2>3. cgraph' \in Nat /\ current_chunk' \in Nat /\ abort' \in {NoAbort} \union 1..NNodes
    BY <1>1, <1>ty DEF TypeOK
  <2> QED BY <2>1, <2>2, <2>3, <1>1, <1>3, <1>ty DEF TypeOK
<1>6. Crew' = Crew
  BY <1>1 DEF Crew
<1>7. PlaceInv'
  BY <1>1, <1>2, <1>6, <1>ty DEF PlaceInv, IdlePc
<1>8. PlanInv'
  <2>1. ASSUME NEW i \in DOMAIN Tail(todo) PROVE Cap(Tail(todo)[i]) <= Cap(Head(todo))
    <3>1. 1 < i + 1 /\ i + 1 \in DOMAIN todo
      BY <1>3
    <3>2. Cap(todo[i + 1]) <= Cap(todo[1])
      BY <3>1, <1>3, <1>ty DEF PlanInv
    <3> QED BY <3>2, <1>3
  <2>2. ASSUME NEW i \in DOMAIN Tail(todo), NEW j \in DOMAIN Tail(todo), i < j
        PROVE  Cap(Tail(todo)[j]) <= Cap(Tail(todo)[i])
    <3>1. i + 1 < j + 1 /\ i + 1 \in DOMAIN todo /\ j + 1 \in DOMAIN todo
      BY <1>3, <2>2
    <3>2. Cap(todo[j + 1]) <= Cap(todo[i + 1])
      BY <3>1, <1>ty DEF PlanInv
    <3> QED BY <3>2, <1>3
  <2> QED BY <2>1, <2>2, <1>1, <1>2, <1>4 DEF PlanInv, Cap
<1>9. ASSUME NEW u \in Crew
      PROVE  Resting(u)' /\ Stage(u)' = Stage(0)' /\ (pc'[u] \in BarrierPc => after'[u] = "done")
  <2>0. pc[0] \in CallPc \ {"kickWake"}
    BY <1>1 DEF CallPc
  <2>1. Resting(u) /\ Stage(u) = Stage(0) /\ (pc[u] \in BarrierPc => after[u] = "done")
    <3>1. Resting(u) /\ Stage(u) = Stage(0) /\ (pc[u] \in IdlePc \union CallPc \/ (Out(u) /\ after[u] = "done"))
      BY <2>0, AllFinished DEF Resting
    <3> QED BY <3>1 DEF IdlePc, CallPc, BarrierPc
  <2>2. ViewKept(u) /\ ViewKept(0)
    BY <1>1, <1>2, <1>ty, ViewFrame DEF CallPc
  <2>3. pc'[u] = pc[u] \/ pc'[u] = "kick"
    BY <1>2, <1>ty
  <2>4. Resting(u)'
    BY <2>1, <2>2, <2>3 DEF Resting, ViewKept, ChunkPc
  <2>5. pc'[u] \in BarrierPc => after'[u] = "done"
    BY <2>1, <2>3, <1>1 DEF BarrierPc
  <2> QED BY <2>1, <2>2, <2>4, <2>5 DEF ViewKept
<1>10. n_barrier' = 0
  BY <1>1, AllFinished DEF CallPc
<1> QED BY <1>5, <1>6, <1>7, <1>8, <1>9, <1>10, RestingPool

(* A smaller interval from 0 is part of a larger one. *)
LEMMA SmallerCrew ==
  ASSUME NEW a \in Nat, NEW b \in Nat, 1 <= a, a <= b
  PROVE  0..a - 1 \subseteq 0..b - 1 /\ 0 \in 0..a - 1
OBVIOUS

(* The crew gets smaller while nobody is at work. *)
LEMMA KickThreadsPool ==
  ASSUME PoolInv, KickThreads
  PROVE  PoolInv' /\ Crew' \subseteq Crew /\ 0 \in Crew' /\ \A u \in Crew' : Stage(u)' = Fin
<1>ty. /\ TypeOK /\ PlaceInv /\ PlanInv /\ Crew \subseteq Thread /\ 0 \in Thread /\ 0 \in Crew /\ Worker = Thread \ {0}
       /\ MaxThreads \in Nat \ {0} /\ n_threads_cur \in 1..MaxThreads /\ Thread \subseteq Nat
  BY CrewFacts, ThreadpoolAssumption DEF PoolInv, TypeOK
<1>1. /\ pc[0] = "kick" /\ pc' = [pc EXCEPT ![0] = "kickGraph"] /\ n_threads_cur' = request /\ result' = {}
      /\ UNCHANGED <<n_graph, n_barrier, n_barrier_passed, current_chunk, abort, ec, cgraph, stop, pause, last_graph,
                     new_graph, graph, node, nth, chunk, n_passed, after, todo, request, ret, wdata>>
  BY DEF KickThreads, Goto, stateVars, localVars, callVars
<1>2. pc'[0] = "kickGraph" /\ \A u \in Thread \ {0} : pc'[u] = pc[u]
  BY <1>1, <1>ty DEF TypeOK
<1>3. n_threads_cur' \in 1..n_threads_cur /\ n_threads_cur' \in 1..MaxThreads
  BY <1>1, <1>ty DEF PlanInv
<1>4. Crew' \subseteq Crew /\ 0 \in Crew'
  <2>1. Crew = 0..n_threads_cur - 1 /\ Crew' = 0..n_threads_cur' - 1
    BY DEF Crew
  <2>2. n_threads_cur \in Nat /\ n_threads_cur' \in Nat /\ n_threads_cur' <= n_threads_cur /\ 1 <= n_threads_cur'
    BY <1>3, <1>ty
  <2>3. 0..n_threads_cur' - 1 \subseteq 0..n_threads_cur - 1 /\ 0 \in 0..n_threads_cur' - 1
    BY <2>2, SmallerCrew
  <2> QED BY <2>1, <2>3, Zenon
<1>5. TypeOK'
  <2>1. pc' \in [Thread -> Pc]
    BY <1>1, <1>ty DEF TypeOK, Pc
  <2> QED BY <2>1, <1>1, <1>3, <1>ty DEF TypeOK
<1>call. pc[0] \in CallPc \ {"kickWake"}
  BY <1>1 DEF CallPc
<1>6. PlaceInv'
  <2>1. ASSUME NEW u \in Thread \ Crew' PROVE pc'[u] \in IdlePc \/ (pc'[u] = "barrierWait" /\ after'[u] = "done")
    <3>1. u # 0 /\ pc'[u] = pc[u] /\ after'[u] = after[u]
      BY <1>1, <1>2, <1>4
    <3>2. CASE u \notin Crew
      BY <3>1, <3>2, <1>ty DEF PlaceInv
    <3>3. CASE u \in Crew
      <4>1. pc[u] \in IdlePc \union CallPc \/ (Out(u) /\ after[u] = "done")
        BY <3>3, <1>call, AllFinished
      <4>2. pc[u] \notin CallPc
        BY <3>1, <1>ty DEF PlaceInv
      <4> QED BY <3>1, <4>1, <4>2 DEF Out
    <3> QED BY <3>2, <3>3
  <2> QED BY <2>1, <1>2, <1>ty DEF PlaceInv, IdlePc
<1>7. PlanInv'
  BY <1>1, <1>2, <1>ty DEF PlanInv, Cap
<1>8. ASSUME NEW u \in Crew'
      PROVE  Resting(u)' /\ Stage(u)' = Fin /\ (pc'[u] \in BarrierPc => after'[u] = "done")
  <2>0. u \in Crew
    BY <1>4
  <2>1. Resting(u) /\ Stage(u) = Fin /\ (pc[u] \in BarrierPc => after[u] = "done")
    <3>1. Resting(u) /\ Stage(u) = Fin /\ (pc[u] \in IdlePc \union CallPc \/ (Out(u) /\ after[u] = "done"))
      BY <2>0, <1>call, AllFinished DEF Resting
    <3> QED BY <3>1 DEF IdlePc, CallPc, BarrierPc
  <2>2. ViewKept(u)
    BY <2>0, <1>1, <1>2, <1>ty, ViewFrame DEF CallPc
  <2>3. pc'[u] = pc[u] \/ pc'[u] = "kickGraph"
    BY <2>0, <1>2, <1>ty
  <2>4. Resting(u)'
    BY <2>1, <2>2, <2>3 DEF Resting, ViewKept, ChunkPc
  <2>5. pc'[u] \in BarrierPc => after'[u] = "done"
    BY <2>1, <2>3, <1>1 DEF BarrierPc
  <2>6. Stage(u)' = Fin
    BY <2>1, <2>2 DEF ViewKept
  <2> QED BY <2>4, <2>5, <2>6
<1>9. n_barrier' = 0
  BY <1>1, <1>call, AllFinished
<1> QED BY <1>4, <1>5, <1>6, <1>7, <1>8, <1>9, RestingPool

(* The new graph takes the whole crew to stage 0. *)
LEMMA KickGraphPool == ASSUME PoolInv, KickGraph PROVE PoolInv' /\ Crew' = Crew /\ \A u \in Crew : Stage(u)' = 0
<1>ty. /\ TypeOK /\ PlaceInv /\ PlanInv /\ Crew \subseteq Thread /\ 0 \in Thread /\ 0 \in Crew /\ Worker = Thread \ {0}
  BY CrewFacts DEF PoolInv
<1>1. /\ pc[0] = "kickGraph" /\ pc' = [pc EXCEPT ![0] = "kickWake"] /\ n_graph' = n_graph + 1
      /\ UNCHANGED <<n_barrier, n_barrier_passed, current_chunk, abort, ec, cgraph, stop, pause, last_graph,
                     new_graph, graph, node, nth, chunk, n_passed, after, todo, request, ret, wdata, result, n_threads_cur>>
  BY DEF KickGraph, Goto, stateVars, localVars, callVars, dataVars
<1>2. pc'[0] = "kickWake" /\ \A u \in Thread \ {0} : pc'[u] = pc[u]
  BY <1>1, <1>ty DEF TypeOK
<1>3. TypeOK'
  <2>1. pc' \in [Thread -> Pc] /\ n_graph' \in Nat
    BY <1>1, <1>ty DEF TypeOK, Pc
  <2> QED BY <2>1, <1>1, <1>ty DEF TypeOK
<1>4. Crew' = Crew
  BY <1>1 DEF Crew
<1>call. pc[0] \in CallPc \ {"kickWake"}
  BY <1>1 DEF CallPc
<1>5. PlaceInv'
  BY <1>1, <1>2, <1>4, <1>ty DEF PlaceInv, IdlePc
<1>6. PlanInv'
  BY <1>1, <1>2, <1>ty DEF PlanInv
<1>7. ASSUME NEW u \in Crew
      PROVE  Resting(u)' /\ Stage(u)' = 0 /\ (pc'[u] \in BarrierPc => after'[u] = "done")
  <2>1. /\ Resting(u) /\ Stage(u) = Fin /\ Done(u) /\ u \in Thread
        /\ pc[u] \in IdlePc \union CallPc \/ (Out(u) /\ after[u] = "done")
    BY <1>call, <1>ty, AllFinished DEF Resting
  <2>2. ~Done(u)' /\ Away(u)' = 0
    <3>1. CASE u = 0
      BY <3>1, <1>2 DEF Done, Away
    <3>2. CASE u # 0
      <4>1. last_graph[u] = n_graph /\ n_graph \in Nat
        BY <3>2, <2>1, <1>ty DEF Done, TypeOK
      <4> QED BY <3>2, <4>1, <1>1 DEF Done, Away
    <3> QED BY <3>1, <3>2
  <2>3. CASE pc[u] \in IdlePc \union CallPc
    <3>1. pc'[u] = pc[u] \/ pc'[u] = "kickWake"
      BY <1>2, <2>1
    <3>2. Stage(u)' = 0
      BY <2>2, <2>3, <3>1 DEF Stage, CallPc
    <3>3. Resting(u)' /\ pc'[u] \notin BarrierPc
      BY <2>1, <2>3, <3>1 DEF Resting, Engaged, Inside, Waits, Out, IdlePc, CallPc, ChunkPc, BarrierPc
    <3> QED BY <3>2, <3>3
  <2>4. CASE Out(u) /\ after[u] = "done"
    <3>1. pc'[u] = "barrierWait" /\ Out(u)' /\ after'[u] = "done"
      BY <2>1, <2>4, <1>1, <1>2 DEF Out
    <3>2. Stage(u)' = 0
      BY <3>1, <2>2 DEF Stage, Behind, IdlePc, CallPc, ChunkPc
    <3>3. Resting(u)'
      BY <3>1 DEF Resting, Engaged, Inside, Waits, Out, ChunkPc, BarrierPc
    <3> QED BY <3>1, <3>2, <3>3
  <2> QED BY <2>1, <2>3, <2>4
<1>8. n_barrier' = 0
  BY <1>1, <1>call, AllFinished
<1> QED BY <1>3, <1>4, <1>5, <1>6, <1>7, <1>8, <1>ty, RestingPool

-----------------------------------------------------------------------------
(* The invariants of the pool hold when the calls never ask for more       *)
(* threads than the call before them (a pool that ggml_graph_compute makes *)
(* for itself computes one graph).                                         *)

NeverMoreThreads == \A p \in Plans : \A i, j \in DOMAIN p : i < j => Cap(p[j]) <= Cap(p[i])

(* A new pool is idle. *)
LEMMA PoolInit == ASSUME NeverMoreThreads, Init PROVE PoolInv /\ Stage(0) = Fin /\ pc[0] = "idle"
<1>ty. /\ MaxThreads \in Nat \ {0} /\ NNodes \in Nat \ {0} /\ PassMod \in Nat \ {0, 1} /\ 0 \in Thread
       /\ Thread \subseteq Nat /\ Worker = Thread \ {0} /\ Thread = 0..MaxThreads - 1
       /\ Plans \subseteq Seq(Nat \ {0})
  BY ThreadpoolAssumption DEF Thread, Worker
<1>1. /\ n_graph = 0 /\ n_barrier = 0 /\ n_threads_cur = MaxThreads /\ todo \in Plans
      /\ pc = [t \in Thread |-> IF t = 0 THEN "idle" ELSE "loop"]
      /\ last_graph = [t \in Worker |-> 0]
  BY DEF Init
<1>2. TypeOK
  <2>1. pc \in [Thread -> Pc]
    BY <1>1 DEF Pc
  <2>0. stop \in BOOLEAN /\ pause \in BOOLEAN
    BY Zenon DEF Init
  <2>2. /\ n_graph \in Nat /\ n_barrier \in 0..MaxThreads /\ n_barrier_passed \in 0..PassMod - 1 /\ current_chunk \in Nat
        /\ abort \in {NoAbort} \union 1..NNodes /\ n_threads_cur \in 1..MaxThreads
        /\ ec \in {"success", "aborted"} /\ ret \in {"none", "success", "aborted"} /\ cgraph \in Nat
    BY <1>ty DEF Init
  <2>3. /\ last_graph \in [Worker -> Nat] /\ new_graph \in [Worker -> Nat] /\ graph \in [Thread -> Nat]
        /\ chunk \in [Thread -> Nat] /\ after \in [Thread -> {"node", "chunks", "done"}]
    BY DEF Init
  <2>4. node \in [Thread -> 0..NNodes] /\ nth \in [Thread -> 1..MaxThreads] /\ n_passed \in [Thread -> 0..PassMod - 1]
    BY <1>ty DEF Init
  <2>5. todo \in Seq(Nat \ {0}) /\ request \in 0..MaxThreads /\ result \subseteq (Nat \X Nat)
    BY <1>ty DEF Init
  <2>6. wdata \in [Thread -> Nat \X Nat]
    BY DEF Init, NoWork
  <2> QED BY <2>0, <2>1, <2>2, <2>3, <2>4, <2>5, <2>6 DEF TypeOK
<1>3. Crew = Thread
  BY <1>1, <1>ty DEF Crew
<1>4. PlaceInv
  BY <1>1, <1>3, <1>ty DEF PlaceInv, IdlePc, CallPc
<1>5. ASSUME NEW u \in Crew
      PROVE  Done(u) /\ Stage(u) = Fin /\ ~Engaged(u) /\ ~Inside(u) /\ ~Waits(u) /\ pc[u] \in {"idle", "loop"}
  <2>1. pc[u] = (IF u = 0 THEN "idle" ELSE "loop") /\ (u # 0 => last_graph[u] = 0)
    BY <1>1, <1>3, <1>ty
  <2>2. Done(u)
    BY <2>1, <1>1 DEF Done
  <2> QED BY <2>1, <2>2 DEF Stage, Away, Engaged, Inside, Waits, Out, IdlePc, CallPc, ChunkPc, BarrierPc
<1>6. CrewInv
  BY <1>5 DEF CrewInv
<1>7. NodeInv
  BY <1>5 DEF NodeInv, ChunkPc, BarrierPc
<1>8. BarrierInv
  <2>1. Arrived = {}
    BY <1>5 DEF Arrived
  <2> QED BY <2>1, <1>1, <1>5, FS_EmptySet DEF BarrierInv
<1>9. PlanInv
  <2>1. pc[0] = "idle"
    BY <1>1, <1>ty
  <2>2. \A i, j \in DOMAIN todo : i < j => Cap(todo[j]) <= Cap(todo[i])
    BY <1>1 DEF NeverMoreThreads
  <2>3. \A i \in DOMAIN todo : Cap(todo[i]) <= n_threads_cur
    <3>1. \A i \in DOMAIN todo : todo[i] \in Nat
      BY <1>2 DEF TypeOK
    <3> QED BY <3>1, <1>1, <1>ty DEF Cap
  <2> QED BY <2>1, <2>2, <2>3 DEF PlanInv
<1>10. SameStage
  BY <1>3, <1>5, <1>ty DEF SameStage
<1> QED BY <1>1, <1>2, <1>3, <1>4, <1>5, <1>6, <1>7, <1>8, <1>9, <1>10, <1>ty DEF PoolInv

(* What a step can be *)
LEMMA PoolSteps ==
  ASSUME PoolInv, [Next]_vars
  PROVE  \/ \E t \in Crew : Within(t)
         \/ \E t \in Crew : Passes(t)
         \/ Quiet /\ TypeOK' /\ PlaceInv'
         \/ GraphCompute \/ KickThreads \/ KickGraph
<1>1. CASE \E t \in Thread : Compute(t)
  <2>1. PICK t \in Thread : Compute(t)
    BY <1>1
  <2>2. t \in Crew \/ (BarrierWait(t) /\ after[t] = "done")
    BY <2>1, CrewComputes DEF PoolInv
  <2> QED BY <2>1, <2>2, ComputeSplit, OutsiderQuiet
<1>2. CASE \E t \in Worker : Secondary(t) \/ SpuriousWake(t)
  BY <1>2, SecondaryQuiet
<1>3. CASE KickWake \/ Return \/ Join \/ Free \/ Freed \/ \E b \in BOOLEAN : SetPause(b)
  BY <1>3, CallerQuiet
<1>4. CASE UNCHANGED vars
  <2>1. UNCHANGED <<poolVars, pc, stateVars, localVars, callVars, dataVars>>
    BY <1>4 DEF vars
  <2>2. TypeOK'
    BY <2>1 DEF PoolInv, TypeOK, poolVars, stateVars, localVars, callVars, dataVars
  <2>3. PlaceInv'
    BY <2>1 DEF PoolInv, PlaceInv, Crew, poolVars, localVars
  <2>4. Quiet
    BY <2>1 DEF PoolInv, CrewInv, Quiet, Silent, poolVars, stateVars, localVars, callVars, dataVars
  <2> QED BY <2>2, <2>3, <2>4
<1> QED BY <1>1, <1>2, <1>3, <1>4 DEF Next, Caller

(* The invariants of the pool are inductive. *)
LEMMA PoolStep == ASSUME PoolInv, [Next]_vars PROVE PoolInv'
BY PoolSteps, WithinPool, PassPool, QuietPool, GraphComputePool, KickThreadsPool, KickGraphPool

(* Every variable of the pool, of the threads and of the caller keeps its  *)
(* type: the barrier's counter stays below the number of threads, a node   *)
(* number below the number of nodes.                                       *)
THEOREM TypeCorrect == ASSUME NeverMoreThreads PROVE Spec => []TypeOK
<1>1. Init => PoolInv
  BY PoolInit
<1>2. PoolInv /\ [Next]_vars => PoolInv'
  BY PoolStep
<1>3. PoolInv => TypeOK
  BY DEF PoolInv
<1> QED BY <1>1, <1>2, <1>3, PTL DEF Spec

-----------------------------------------------------------------------------
(* The operand and the chunks of a node                                    *)

DataInv == OperandInv /\ AbortInv /\ ResultInv /\ ChunkInv /\ CompleteInv

(* A poor chunking gives each thread one chunk, so there are never fewer   *)
(* chunks than threads.                                                    *)
LEMMA EnoughChunks ==
  ASSUME NEW n \in 0..NNodes - 1, NEW k \in Nat
  PROVE  NChunk(n, k) \in Nat /\ k <= NChunk(n, k)
<1>1. RawChunks[n] \in Nat
  BY ThreadpoolAssumption
<1> QED BY <1>1 DEF NChunk

(* A stage is even or odd, and Fin is even. *)
LEMMA FinEven == ASSUME NEW n \in 0..NNodes - 1 PROVE 2 * n + 1 # Fin /\ 2 * n + 1 # 0 /\ 2 * n # Fin
BY ThreadpoolAssumption DEF Fin

(* Between two graphs and before the first node the data of the last graph *)
(* stay, or there are none.                                                *)
LEMMA RestingData ==
  ASSUME \A u \in Crew' : ~Inside(u)', 0 \in Crew', Stage(0)' \in {0, Fin}, AbortInv',
         \A p \in result' : 2 * p[1] < Stage(0)',
         pc'[0] = "kickGraph" => result' = {},
         pc'[0] \in {"idle", "kick", "kickGraph", "join", "freed"} \/ Stage(0)' = 0
  PROVE  DataInv'
<1>1. OperandInv'
  BY FinEven DEF OperandInv
<1>2. ResultInv'
  BY DEF ResultInv
<1>3. ChunkInv'
  BY FinEven DEF ChunkInv, ChunksOf, ThreadChunks
<1>4. CompleteInv'
  <2>1. ASSUME NEW m \in 0..NNodes - 1 PROVE ~(2 * m + 1 < 0)
    BY ThreadpoolAssumption
  <2> QED BY <2>1 DEF CompleteInv
<1> QED BY <1>1, <1>2, <1>3, <1>4 DEF DataInv

(* A quiet step changes no data. *)
LEMMA QuietData == ASSUME PoolInv, DataInv, Quiet PROVE DataInv'
<1>ty. TypeOK /\ 0 \in Crew /\ PlaceInv
  BY CrewFacts DEF PoolInv
<1>q. UNCHANGED <<n_barrier, n_barrier_passed, n_graph, n_threads_cur, cgraph, abort, ec, current_chunk,
                 after, node, graph, nth, chunk, n_passed, todo, request, wdata, result>>
  BY DEF Quiet
<1>1. Crew' = Crew
  BY <1>q DEF Crew
<1>v. ASSUME NEW u \in Crew
      PROVE  /\ Stage(u)' = Stage(u) /\ Out(u)' = Out(u) /\ Inside(u)' = Inside(u)
             /\ \A l \in {"node", "prepare"} \union ChunkPc \union BarrierPc : pc'[u] = l <=> pc[u] = l
  BY <1>ty, QuietView
<1>w. ASSUME NEW u \in Crew
      PROVE  /\ First(u)' = First(u) /\ Inside(u)' = Inside(u)
             /\ pc'[u] = "chunk" <=> pc[u] = "chunk"
             /\ pc'[u] = "nextChunk" <=> pc[u] = "nextChunk"
             /\ pc'[u] \in {"nodeEnd", "node"} <=> pc[u] \in {"nodeEnd", "node"}
  BY <1>v, <1>q DEF First, ChunkPc
<1>s. Silent(0)
  BY <1>ty DEF Quiet
<1>2. OperandInv'
  BY <1>v, <1>q, <1>1, <1>ty DEF DataInv, OperandInv
<1>3. AbortInv'
  BY <1>q DEF DataInv, AbortInv
<1>4. ResultInv'
  <2>1. pc'[0] = "kickGraph" => pc[0] = "kickGraph"
    BY <1>s DEF Silent, IdlePc
  <2> QED BY <2>1, <1>v, <1>q, <1>ty DEF DataInv, ResultInv
<1>5. ChunkInv'
  BY <1>v, <1>w, <1>q, <1>1, <1>ty DEF DataInv, ChunkInv, ChunksOf, ThreadChunks
<1>6. CompleteInv'
  <2>1. pc'[0] \notin {"idle", "kick", "kickGraph", "join", "freed"} => pc[0] \notin {"idle", "kick", "kickGraph", "join", "freed"}
    BY <1>s, <1>ty DEF Silent, PlaceInv, IdlePc
  <2>2. ASSUME NEW m PROVE Filled(m)' = Filled(m)
    BY <1>q DEF Filled, NChunk
  <2> QED BY <2>1, <2>2, <1>v, <1>q, <1>ty DEF DataInv, CompleteInv
<1> QED BY <1>2, <1>3, <1>4, <1>5, <1>6 DEF DataInv

(* The data of the last graph stay until the new one is kicked off. *)
LEMMA GraphComputeData == ASSUME PoolInv, DataInv, GraphCompute PROVE DataInv'
<1>ty. TypeOK /\ 0 \in Crew /\ 0 \in Thread
  BY CrewFacts DEF PoolInv
<1>1. /\ pc[0] = "idle" /\ pc'[0] = "kick" /\ abort' = NoAbort /\ UNCHANGED <<result, n_threads_cur>>
      /\ UNCHANGED <<n_graph, n_barrier_passed, last_graph, node, n_passed, after>>
      /\ \A u \in Thread \ {0} : pc'[u] = pc[u]
  BY <1>ty DEF GraphCompute, Goto, stateVars, localVars, dataVars, TypeOK
<1>2. Crew' = Crew /\ Crew \subseteq Thread
  BY <1>1, <1>ty, CrewFacts DEF Crew
<1>3. ASSUME NEW u \in Crew PROVE ~Inside(u)' /\ Stage(u)' = Fin
  <2>1. ViewKept(u)
    BY <1>1, <1>2, <1>ty, ViewFrame DEF CallPc
  <2>2. ~Inside(u) /\ Stage(u) = Fin
    BY <1>1, AllFinished DEF CallPc
  <2> QED BY <2>1, <2>2 DEF ViewKept
<1>4. \A p \in result : 2 * p[1] < Fin
  BY <1>1, AllFinished DEF DataInv, ResultInv, CallPc
<1> QED BY <1>1, <1>2, <1>3, <1>4, <1>ty, RestingData DEF AbortInv

(* The new graph has no results. *)
LEMMA KickThreadsData == ASSUME PoolInv, DataInv, KickThreads PROVE DataInv'
<1>ty. TypeOK /\ 0 \in Crew /\ 0 \in Thread /\ TypeOK' /\ 0 \in Crew' /\ Crew' \subseteq Crew
  BY CrewFacts, KickThreadsPool DEF PoolInv
<1>1. /\ pc[0] = "kick" /\ pc'[0] = "kickGraph" /\ UNCHANGED <<abort, ec>> /\ result' = {}
      /\ UNCHANGED <<n_graph, n_barrier_passed, last_graph, node, n_passed, after>>
      /\ \A u \in Thread \ {0} : pc'[u] = pc[u]
  BY <1>ty DEF KickThreads, Goto, stateVars, localVars, dataVars, TypeOK
<1>3. ASSUME NEW u \in Crew PROVE ~Inside(u)' /\ Stage(u)' = Fin
  <2>0. u \in Thread
    BY <1>ty, CrewFacts
  <2>1. ViewKept(u)
    BY <2>0, <1>1, ViewFrame DEF CallPc
  <2>2. ~Inside(u) /\ Stage(u) = Fin
    BY <1>1, AllFinished DEF CallPc
  <2> QED BY <2>1, <2>2 DEF ViewKept
<1> QED BY <1>1, <1>3, <1>ty, RestingData DEF AbortInv, DataInv

(* Stage 0 has no results either. *)
LEMMA KickGraphData == ASSUME PoolInv, DataInv, KickGraph PROVE DataInv'
<1>ty. TypeOK /\ 0 \in Crew /\ Crew \subseteq Thread /\ 0 \in Thread
  BY CrewFacts DEF PoolInv
<1>1. /\ pc[0] = "kickGraph" /\ pc'[0] = "kickWake" /\ UNCHANGED <<abort, ec, result, n_passed, n_barrier_passed, after>>
      /\ \A u \in Thread \ {0} : pc'[u] = pc[u]
  BY <1>ty DEF KickGraph, Goto, localVars, dataVars, TypeOK
<1>2. Crew' = Crew /\ \A u \in Crew : Stage(u)' = 0
  BY KickGraphPool
<1>3. ASSUME NEW u \in Crew PROVE ~Inside(u)'
  <2>1. ~Inside(u)
    BY <1>1, AllFinished DEF CallPc
  <2>2. pc'[u] = pc[u] \/ pc'[u] = "kickWake"
    BY <1>1, <1>ty
  <2> QED BY <2>1, <2>2, <1>1 DEF Inside, Out, BarrierPc
<1>4. result = {}
  BY <1>1 DEF DataInv, ResultInv
<1> QED BY <1>1, <1>2, <1>3, <1>4, <1>ty, RestingData DEF AbortInv, DataInv

(* When the whole crew is in the barrier after node n, the node is done:   *)
(* each thread computed its first chunk, and the counter has passed the    *)
(* others.                                                                 *)
LEMMA CrewFilled ==
  ASSUME PoolInv, ChunkInv, NEW n \in 0..NNodes - 1, Stage(0) = 2 * n + 1, \A u \in Crew : Inside(u)
  PROVE  Filled(n)
<1>ty. TypeOK /\ n_threads_cur \in Nat /\ 0 \in Crew /\ Crew \subseteq Nat /\ current_chunk \in Nat
  BY CrewFacts DEF PoolInv, TypeOK
<1>n. NChunk(n, n_threads_cur) \in Nat /\ n_threads_cur <= NChunk(n, n_threads_cur)
  BY <1>ty, EnoughChunks
<1>1. \A u \in Crew : pc[u] # "chunk" /\ ~First(u)
  BY DEF Inside, First, BarrierPc
<1>2. \A u \in Crew : <<n, u>> \in result
  BY <1>1 DEF ChunkInv, ChunksOf, ThreadChunks
<1>3. NChunk(n, n_threads_cur) <= n_threads_cur \/ NChunk(n, n_threads_cur) <= current_chunk
  BY <1>ty DEF ChunkInv, ChunksOf, ThreadChunks
<1>4. \A c \in n_threads_cur..current_chunk - 1 : c < NChunk(n, n_threads_cur) => <<n, c>> \in result
  BY <1>1 DEF ChunkInv, ChunksOf, ThreadChunks
<1>5. ASSUME NEW c \in 0..NChunk(n, n_threads_cur) - 1 PROVE <<n, c>> \in result
  <2>1. CASE c < n_threads_cur
    BY <2>1, <1>2, <1>ty, <1>n DEF Crew
  <2>2. CASE ~(c < n_threads_cur)
    <3>1. c \in n_threads_cur..current_chunk - 1 /\ c < NChunk(n, n_threads_cur)
      BY <2>2, <1>3, <1>ty, <1>n
    <3> QED BY <3>1, <1>4
  <2> QED BY <2>1, <2>2
<1> QED BY <1>5 DEF Filled

(* What the whole crew did before the barrier holds after it. *)
LEMMA PassData == ASSUME PoolInv, DataInv, NEW t \in Crew, Passes(t) PROVE DataInv'
<1>ty. /\ TypeOK /\ t \in Thread /\ 0 \in Crew /\ Crew \subseteq Thread /\ Crew \subseteq Nat /\ n_threads_cur \in Nat
       /\ node[t] \in Nat /\ node[t] <= NNodes
       /\ NNodes \in Nat \ {0} /\ after[t] \in {"node", "chunks", "done"} /\ Fin = 2 * NNodes /\ NodeOK(t)
  BY CrewFacts, Places, PoolFacts DEF PoolInv
<1>1. /\ \A u \in Crew : /\ Inside(u) /\ after[u] = after[t] /\ node[u] = node[t]
                         /\ Stage(u) = Before(t) /\ Stage(u)' = NextStage(t)
      /\ \A u \in Crew \ {t} : Out(u)' /\ pc'[u] = pc[u]
      /\ pc'[t] = Leave(t)
      /\ UNCHANGED <<n_barrier, n_graph, current_chunk, abort, n_threads_cur, ec, cgraph,
                     graph, node, nth, chunk, n_passed, after, wdata, result>>
  BY PassFacts DEF localVars, dataVars
<1>2. Crew' = Crew
  BY <1>1 DEF Crew
<1>3. \A u \in Crew : ~Inside(u)' /\ pc'[u] \notin {"chunk", "nextChunk", "nodeEnd", "kickGraph"}
  BY <1>1, <1>ty DEF Inside, Out, Leave, BarrierPc
<1>4. /\ after[t] = "chunks" => node[t] \in 0..NNodes - 1 /\ Before(t) = 2 * node[t] /\ NextStage(t) = 2 * node[t] + 1
      /\ after[t] = "node" => node[t] - 1 \in 0..NNodes - 1 /\ node[t] < NNodes
                              /\ Before(t) = 2 * (node[t] - 1) + 1 /\ NextStage(t) = 2 * node[t]
      /\ after[t] = "done" => Before(t) = StageOf(node[t]) /\ NextStage(t) = Fin
                              /\ (node[t] = NNodes \/ abort = node[t])
  <2>1. pc[t] \in BarrierPc /\ Inside(t)
    BY <1>1 DEF Inside
  <2> QED BY <2>1, <1>ty DEF NodeOK, Before, NextStage
<1>5. ASSUME NEW n \in 0..NNodes - 1, NextStage(t) = 2 * n + 1 PROVE after[t] = "chunks" /\ node[t] = n
  BY <1>4, <1>5, <1>ty
<1>6. OperandInv'
  <2>1. ASSUME NEW n \in 0..NNodes - 1, Stage(0)' = 2 * n + 1, NEW u \in Crew PROVE wdata'[u] = <<cgraph', n + 1>>
    <3>1. after[u] = "chunks" /\ node[u] = n /\ Inside(u)
      BY <1>1, <1>5, <1>ty, <2>1
    <3> QED BY <3>1, <1>1 DEF DataInv, OperandInv
  <2> QED BY <2>1, <1>2, <1>3 DEF OperandInv
<1>7. AbortInv'
  BY <1>1 DEF DataInv, AbortInv
<1>8. ResultInv'
  <2>1. Before(t) \in Int /\ NextStage(t) \in Int /\ Before(t) <= NextStage(t)
    BY <1>4, <1>ty DEF StageOf
  <2>2. ASSUME NEW p \in result PROVE 2 * p[1] < Stage(0)'
    <3>1. 2 * p[1] < Before(t) /\ p[1] \in Nat
      BY <1>1, <1>ty DEF DataInv, ResultInv, TypeOK
    <3> QED BY <3>1, <2>1, <1>1, <1>ty
  <2> QED BY <2>2, <1>1, <1>3, <1>ty DEF ResultInv
<1>9. ChunkInv'
  <2> SUFFICES ASSUME NEW n \in 0..NNodes - 1, Stage(0)' = 2 * n + 1
               PROVE  /\ n_threads_cur <= current_chunk
                      /\ \A u \in Crew : First(u)' /\ <<n, u>> \notin result
                      /\ \A u \in Crew : ~Inside(u)' /\ pc'[u] \notin {"chunk", "nextChunk", "nodeEnd", "node"}
                      /\ \A c \in Nat : <<n, c>> \notin result
                      /\ current_chunk = n_threads_cur
    BY <1>1, <1>2, <1>ty DEF ChunkInv, ChunksOf, ThreadChunks
  <2>1. after[t] = "chunks" /\ node[t] = n
    BY <1>1, <1>5, <1>ty
  <2>2. current_chunk = n_threads_cur
    BY <1>1, <1>ty, <2>1 DEF DataInv, ResultInv
  <2>3. ASSUME NEW c PROVE <<n, c>> \notin result
    <3>1. <<n, c>> \in result => 2 * n < Stage(0)
      BY DEF DataInv, ResultInv
    <3>2. Stage(0) = 2 * n
      BY <1>1, <1>4, <1>ty, <2>1
    <3> QED BY <3>1, <3>2
  <2>4. pc'[t] = "chunks"
    BY <1>1, <2>1 DEF Leave
  <2>5. \A u \in Crew : First(u)' /\ pc'[u] # "node"
    BY <2>4, <1>1 DEF First, Out
  <2> QED BY <2>2, <2>3, <2>5, <1>3, <1>ty
<1>10. CompleteInv'
  <2> SUFFICES ASSUME NEW m \in 0..NNodes - 1, 2 * m + 1 < NextStage(t), NextStage(t) = Fin => ec = "success"
               PROVE  Filled(m)
    <3>1. ASSUME NEW m PROVE Filled(m)' = Filled(m)
      BY <1>1 DEF Filled, NChunk
    <3> QED BY <3>1, <1>1, <1>ty DEF CompleteInv
  <2>0. Before(t) < Fin
    BY <1>4, <1>ty DEF StageOf
  <2>1. CASE 2 * m + 1 < Before(t)
    <3>1. Stage(0) = Before(t) /\ Inside(0)
      BY <1>1, <1>ty
    <3>2. pc[0] \notin {"idle", "kick", "kickGraph", "join", "freed"} /\ Before(t) # Fin
      BY <3>1, <2>0, <1>4, <1>ty DEF Inside, BarrierPc, StageOf
    <3> QED BY <2>1, <3>1, <3>2 DEF DataInv, CompleteInv
  <2>2. CASE ~(2 * m + 1 < Before(t))
    <3>1. Before(t) = 2 * m + 1
      <4>1. CASE after[t] = "chunks"
        BY <4>1, <2>2, <1>4, <1>ty
      <4>2. CASE after[t] = "node"
        BY <4>2, <2>2, <1>4, <1>ty
      <4>3. CASE after[t] = "done"
        <5>1. abort = NoAbort
          BY <4>3, <1>4 DEF DataInv, AbortInv
        <5>2. node[t] = NNodes
          BY <4>3, <5>1, <1>4, <1>ty DEF NoAbort
        <5> QED BY <4>3, <5>2, <2>2, <1>4, <1>ty DEF StageOf
      <4> QED BY <4>1, <4>2, <4>3, <1>ty
    <3>2. Stage(0) = 2 * m + 1 /\ \A u \in Crew : Inside(u)
      BY <3>1, <1>1, <1>ty
    <3> QED BY <3>2, CrewFilled DEF DataInv
  <2> QED BY <2>1, <2>2
<1> QED BY <1>6, <1>7, <1>8, <1>9, <1>10 DEF DataInv

(* Only the preparation of a node takes a thread into the barrier before   *)
(* its chunks.                                                             *)
LEMMA WithinInside ==
  ASSUME PoolInv, NEW t \in Crew, Within(t), ~Prepare(t), Inside(t)', after'[t] = "chunks"
  PROVE  Inside(t) /\ after[t] = "chunks" /\ node'[t] = node[t]
<1>ty. TypeOK /\ t \in Thread /\ pc'[t] \in BarrierPc
  BY CrewFacts DEF PoolInv, Inside
<1>1. CASE (BarrierEnter(t) /\ n_threads_cur # 1) \/ BarrierAdd(t) \/ BarrierReset(t)
  BY <1>1 DEF BarrierEnter, BarrierAdd, BarrierReset, localVars, Inside, Out, BarrierPc
<1>2. CASE ComputeStart(t) \/ NodeLoop(t) \/ FirstChunk(t) \/ OneChunk(t) \/ NextChunk(t)
  BY <1>2, <1>ty DEF ComputeStart, NodeLoop, FirstChunk, OneChunk, NextChunk, Goto, TypeOK, BarrierPc
<1>3. CASE NodeEnd(t)
  BY <1>3, <1>ty DEF NodeEnd, Goto, TypeOK, BarrierPc
<1>4. CASE BarrierWait(t)
  BY <1>4, <1>ty DEF BarrierWait, Goto, TypeOK, BarrierPc, Leave
<1> QED BY <1>1, <1>2, <1>3, <1>4 DEF Within

(* A thread converts its part only in an even stage. *)
LEMMA WithinOperand == ASSUME PoolInv, OperandInv, NEW t \in Crew, Within(t) PROVE OperandInv'
<1>ty. TypeOK /\ t \in Thread /\ 0 \in Crew /\ Crew \subseteq Thread /\ node[t] \in Nat /\ NodeOK(t) /\ NNodes \in Nat
  BY CrewFacts, Places, PoolFacts DEF PoolInv
<1>1. /\ OthersKeep(t) /\ Crew' = Crew /\ \A u \in Crew \ {t} : ViewKept(u)
      /\ Stage(0)' = Stage(0) /\ cgraph' = cgraph
  BY WithinKeeps, <1>ty DEF OthersKeep
<1>2. CASE Prepare(t)
  <2>1. /\ pc[t] = "prepare" /\ wdata' = [wdata EXCEPT ![t] = <<graph[t], node[t] + 1>>] /\ node'[t] = node[t]
    BY <1>2 DEF Prepare
  <2>2. graph[t] = cgraph
    BY <2>1, PoolFacts DEF CrewOK, Engaged
  <2>3. wdata'[t] = <<cgraph, node[t] + 1>> /\ \A u \in Thread \ {t} : wdata'[u] = wdata[u]
    BY <2>1, <2>2, <1>ty DEF TypeOK
  <2>4. Stage(0) = 2 * node[t]
    <3>1. node[t] < NNodes
      BY <2>1, <1>ty DEF NodeOK
    <3>2. Stage(t) = StageOf(node[t])
      BY <2>1, <1>ty, Places DEF StageIs
    <3> QED BY <3>1, <3>2, PoolFacts DEF StageOf
  <2>5. ASSUME NEW n \in 0..NNodes - 1 PROVE Stage(0) # 2 * n + 1
    BY <2>4, <1>ty
  <2>6. ASSUME NEW u \in Crew, Inside(u)', after'[u] = "chunks" PROVE wdata'[u] = <<cgraph, node'[u] + 1>>
    <3>1. CASE u = t
      BY <3>1, <2>1, <2>3
    <3>2. CASE u # t
      BY <3>2, <2>3, <2>6, <1>1, <1>ty DEF OperandInv, OthersKeep, ViewKept
    <3> QED BY <3>1, <3>2
  <2> QED BY <2>5, <2>6, <1>1 DEF OperandInv
<1>3. CASE ~Prepare(t)
  <2>1. wdata' = wdata
    BY <1>3 DEF Within, ComputeStart, NodeLoop, FirstChunk, OneChunk, NextChunk, NodeEnd, BarrierEnter,
                BarrierAdd, BarrierReset, BarrierWait, dataVars
  <2>2. ASSUME NEW u \in Crew, Inside(u)', after'[u] = "chunks" PROVE wdata[u] = <<cgraph, node'[u] + 1>>
    <3>1. CASE u = t
      BY <3>1, <2>2, <1>3, WithinInside DEF OperandInv
    <3>2. CASE u # t
      BY <3>2, <2>2, <1>1, <1>ty DEF OperandInv, OthersKeep, ViewKept
    <3> QED BY <3>1, <3>2
  <2> QED BY <2>1, <2>2, <1>1 DEF OperandInv
<1> QED BY <1>2, <1>3

(* Chunks are computed in the stage of their node, the counter is reset before it. *)
LEMMA WithinResult == ASSUME PoolInv, ResultInv, NEW t \in Crew, Within(t) PROVE ResultInv'
<1>ty. /\ TypeOK /\ t \in Thread /\ 0 \in Crew /\ 0 \in Thread /\ node[t] \in Nat /\ NodeOK(t) /\ NNodes \in Nat \ {0}
       /\ Fin = 2 * NNodes
  BY CrewFacts, Places, PoolFacts DEF PoolInv
<1>1. OthersKeep(t) /\ Stage(0)' = Stage(0) /\ n_threads_cur' = n_threads_cur
  BY WithinKeeps, <1>ty DEF OthersKeep
<1>2. /\ pc[t] \in ChunkPc => Stage(0) = 2 * node[t] + 1 /\ Stage(0) < Fin
  <2>1. pc[t] \in ChunkPc => Stage(t) = 2 * node[t] + 1
    BY <1>ty, Places DEF StageIs
  <2> QED BY <2>1, <1>ty, PoolFacts DEF NodeOK
<1>3. pc'[0] = "kickGraph" => pc[0] = "kickGraph" /\ t # 0
  BY WithinPc, <1>1, <1>ty DEF CallPc, OthersKeep
<1>4. CASE OneChunk(t)
  <2>1. pc[t] = "chunk" /\ result' = result \union {<<node[t], chunk[t]>>} /\ current_chunk' = current_chunk
    BY <1>4 DEF OneChunk, poolVars
  <2>2. Stage(0) = 2 * node[t] + 1 /\ Stage(0) < Fin
    BY <2>1, <1>2 DEF ChunkPc
  <2>3. pc[0] # "kickGraph"
    <3>1. pc[0] = "kickGraph" => Stage(0) = Fin
      BY AllFinished DEF CallPc
    <3> QED BY <3>1, <2>2, <1>ty
  <2>4. \A p \in result' : 2 * p[1] < Stage(0)'
    <3>1. 2 * node[t] < 2 * node[t] + 1
      BY <1>ty
    <3> QED BY <2>1, <2>2, <3>1, <1>1 DEF ResultInv
  <2>5. Inside(0)' /\ after'[0] = "chunks" => Inside(0) /\ after[0] = "chunks"
    <3>1. CASE t = 0
      <4>1. ~Prepare(t)
        BY <2>1 DEF Prepare
      <4> QED BY <4>1, <3>1, WithinInside
    <3>2. CASE t # 0
      BY <3>2, WithinKeeps, <1>1, <1>ty DEF ViewKept, OthersKeep
    <3> QED BY <3>1, <3>2
  <2> QED BY <2>1, <2>3, <2>4, <2>5, <1>1, <1>3 DEF ResultInv
<1>5. CASE ~OneChunk(t)
  <2>1. result' = result
    BY <1>5 DEF Within, ComputeStart, NodeLoop, Prepare, FirstChunk, NextChunk, NodeEnd, BarrierEnter,
                BarrierAdd, BarrierReset, BarrierWait, dataVars
  <2>2. ASSUME Inside(0)', after'[0] = "chunks" PROVE current_chunk' = n_threads_cur
    <3>1. CASE Prepare(t) /\ t = 0
      <4>1. pc[t] = "prepare" /\ current_chunk' = nth[t]
        BY <3>1 DEF Prepare
      <4>2. nth[t] = n_threads_cur
        BY <4>1, PoolFacts DEF CrewOK, Engaged
      <4> QED BY <4>1, <4>2
    <3>2. CASE ~(Prepare(t) /\ t = 0)
      <4>1. Inside(0) /\ after[0] = "chunks"
        <5>1. CASE t = 0
          BY <2>2, <3>2, <5>1, WithinInside
        <5>2. CASE t # 0
          BY <2>2, <5>2, WithinKeeps, <1>1, <1>ty DEF ViewKept, OthersKeep
        <5> QED BY <5>1, <5>2
      <4>2. ~NextChunk(t)
        <5>1. Stage(0) = 2 * node[0]
          BY <4>1, <1>ty, Places DEF StageIs, Before
        <5>2. NextChunk(t) => Stage(0) = 2 * node[t] + 1
          BY <1>2 DEF NextChunk, ChunkPc
        <5>3. node[0] \in Nat
          BY <1>ty, Places
        <5> QED BY <5>1, <5>2, <5>3, <1>ty
      <4>3. current_chunk' = current_chunk
        BY <3>2, <4>2 DEF Within, ComputeStart, NodeLoop, Prepare, FirstChunk, OneChunk, NodeEnd, BarrierEnter,
                BarrierAdd, BarrierReset, BarrierWait, poolVars
      <4> QED BY <4>1, <4>3 DEF ResultInv
    <3> QED BY <3>1, <3>2
  <2> QED BY <2>1, <2>2, <1>1, <1>3 DEF ResultInv
<1> QED BY <1>4, <1>5

(* Results are only added. *)
LEMMA WithinComplete == ASSUME PoolInv, AbortInv, CompleteInv, NEW t \in Crew, Within(t) PROVE AbortInv' /\ CompleteInv'
<1>ty. TypeOK /\ t \in Thread /\ 0 \in Crew /\ 0 \in Thread
  BY CrewFacts DEF PoolInv
<1>1. OthersKeep(t) /\ Stage(0)' = Stage(0) /\ n_threads_cur' = n_threads_cur
  BY WithinKeeps, <1>ty DEF OthersKeep
<1>2. result \subseteq result'
  BY DEF Within, ComputeStart, NodeLoop, Prepare, FirstChunk, OneChunk, NextChunk, NodeEnd, BarrierEnter,
         BarrierAdd, BarrierReset, BarrierWait, dataVars
<1>3. (ec' = ec /\ abort' = abort) \/ ec' = "aborted"
  BY DEF Within, ComputeStart, NodeLoop, Prepare, FirstChunk, OneChunk, NextChunk, NodeEnd, BarrierEnter,
         BarrierAdd, BarrierReset, BarrierWait, poolVars
<1>4. pc'[0] \notin {"idle", "kick", "kickGraph", "join", "freed"} => pc[0] \notin {"idle", "kick", "kickGraph", "join", "freed"}
  <2>1. CASE t = 0
    BY <2>1 DEF Within, ComputeStart, NodeLoop, Prepare, FirstChunk, OneChunk, NextChunk, NodeEnd, BarrierEnter,
         BarrierAdd, BarrierReset, BarrierWait
  <2>2. CASE t # 0
    BY <2>2, <1>1, <1>ty DEF OthersKeep
  <2> QED BY <2>1, <2>2
<1>5. ASSUME NEW m, Filled(m) PROVE Filled(m)'
  BY <1>1, <1>2, <1>5 DEF Filled, NChunk
<1>6. CompleteInv'
  BY <1>1, <1>3, <1>4, <1>5 DEF CompleteInv
<1> QED BY <1>3, <1>6 DEF AbortInv

(* A step within the stage that computes node n *)
LEMMA WithinChunks ==
  ASSUME PoolInv, NEW n \in 0..NNodes - 1, Stage(0) = 2 * n + 1, ChunksOf(n), NEW t \in Crew, Within(t)
  PROVE  ChunksOf(n)'
<1>ty. /\ TypeOK /\ t \in Thread /\ 0 \in Crew /\ Crew \subseteq Thread /\ Crew \subseteq Nat /\ n_threads_cur \in Nat
       /\ current_chunk \in Nat /\ NodeOK(t) /\ NNodes \in Nat \ {0} /\ n \in Nat /\ n < NNodes
       /\ Crew = 0..n_threads_cur - 1 /\ \A u \in Crew : chunk[u] \in Nat
  <2>1. TypeOK /\ t \in Thread /\ 0 \in Crew /\ Crew \subseteq Thread /\ Thread \subseteq Nat /\ NNodes \in Nat \ {0} /\ NodeOK(t)
    BY CrewFacts, PoolFacts DEF PoolInv
  <2>2. current_chunk \in Nat /\ n_threads_cur \in Nat /\ \A u \in Thread : chunk[u] \in Nat
    BY <2>1, ThreadpoolAssumption DEF TypeOK
  <2> QED BY <2>1, <2>2 DEF Crew
<1>k. NChunk(n, n_threads_cur) \in Nat /\ n_threads_cur <= NChunk(n, n_threads_cur)
  BY <1>ty, EnoughChunks
<1>1. /\ OthersKeep(t) /\ Crew' = Crew /\ n_threads_cur' = n_threads_cur /\ n_barrier_passed' = n_barrier_passed
      /\ NChunk(n, n_threads_cur)' = NChunk(n, n_threads_cur)
  BY WithinKeeps DEF OthersKeep, NChunk
<1>2. ASSUME NEW u \in Crew \ {t}
      PROVE  pc'[u] = pc[u] /\ chunk'[u] = chunk[u] /\ First(u)' = First(u) /\ Inside(u)' = Inside(u)
  <2>1. ViewKept(u) /\ pc'[u] = pc[u] /\ chunk'[u] = chunk[u]
    BY WithinKeeps, <1>ty DEF OthersKeep
  <2> QED BY <2>1 DEF First, ViewKept
<1>3. Computing(t, n)
  <2>1. Stage(t) = 2 * n + 1
    BY PoolFacts
  <2> QED BY <2>1, <1>ty, OddPlaces
<1>4. pc[t] \in ChunkPc => node[t] = n /\ nth[t] = n_threads_cur
  <2>1. pc[t] \in ChunkPc => nth[t] = n_threads_cur
    BY PoolFacts DEF CrewOK, Engaged
  <2> QED BY <2>1, <1>3 DEF Computing, ChunkPc, BarrierPc, Out, Inside
<1>5. CASE OneChunk(t)
  <2>1. /\ pc[t] = "chunk" /\ UNCHANGED <<chunk, current_chunk>> /\ result' = result \union {<<n, chunk[t]>>}
        /\ pc'[t] = IF n_threads_cur >= NChunk(n, n_threads_cur) THEN "nodeEnd" ELSE "nextChunk"
    <3>1. node[t] = n /\ nth[t] = n_threads_cur /\ pc[t] = "chunk"
      BY <1>4, <1>5 DEF OneChunk, ChunkPc
    <3> QED BY <1>5, <1>ty, <3>1 DEF OneChunk, Goto, TypeOK, poolVars, localVars
  <2>2. chunk[t] = t \/ chunk[t] \in n_threads_cur..current_chunk - 1
    BY <2>1 DEF ChunksOf, ThreadChunks
  <2>3. ThreadChunks(t, n)'
    <3>1. ~First(t)' /\ ~Inside(t)'
      BY <2>1 DEF First, Out, Inside, BarrierPc
    <3>2. <<n, t>> \in result'
      <4>1. CASE chunk[t] = t
        BY <4>1, <2>1
      <4>2. CASE chunk[t] # t
        BY <4>2, <2>1 DEF ChunksOf, ThreadChunks, First, Out
      <4> QED BY <4>1, <4>2
    <3> QED BY <3>1, <3>2, <2>1, <1>1, <1>k, <1>ty DEF ThreadChunks
  <2>4. ASSUME NEW u \in Crew \ {t} PROVE ThreadChunks(u, n)'
    <3>1. u # chunk[t] /\ (pc[u] = "chunk" => chunk[u] # chunk[t])
      BY <2>1, <2>2, <1>ty DEF ChunksOf
    <3>2. ThreadChunks(u, n)
      BY DEF ChunksOf
    <3>3. /\ <<n, u>> \in result' <=> <<n, u>> \in result
          /\ pc[u] = "chunk" => (<<n, chunk[u]>> \in result' <=> <<n, chunk[u]>> \in result)
      BY <2>1, <3>1
    <3> QED BY <2>1, <3>2, <3>3, <1>1, <1>2 DEF ThreadChunks
  <2>5. \A u, v \in Crew : u # v /\ pc'[u] = "chunk" /\ pc'[v] = "chunk" => chunk'[u] # chunk'[v]
    BY <2>1, <1>2 DEF ChunksOf
  <2>6. \A c \in Nat : <<n, c>> \in result' => c < current_chunk'
    <3>1. t < n_threads_cur /\ n_threads_cur <= current_chunk
      BY <1>ty DEF ChunksOf
    <3>2. chunk[t] < current_chunk
      BY <2>2, <3>1, <1>ty
    <3> QED BY <2>1, <3>2 DEF ChunksOf
  <2>7. ASSUME NEW c \in n_threads_cur..current_chunk - 1, c < NChunk(n, n_threads_cur)
        PROVE  <<n, c>> \in result' \/ \E u \in Crew : pc'[u] = "chunk" /\ chunk'[u] = c
    <3>1. <<n, c>> \in result \/ \E u \in Crew : pc[u] = "chunk" /\ chunk[u] = c
      BY <2>7 DEF ChunksOf
    <3> QED BY <2>1, <3>1, <1>2
  <2>8. n_threads_cur' <= current_chunk'
    BY <2>1, <1>1 DEF ChunksOf
  <2>9. \A u \in Crew : ThreadChunks(u, n)'
    BY <2>3, <2>4
  <2> QED BY <2>1, <2>5, <2>6, <2>7, <2>8, <2>9, <1>1 DEF ChunksOf
<1>6. CASE NextChunk(t)
  <2>1. /\ pc[t] = "nextChunk" /\ chunk'[t] = current_chunk /\ current_chunk' = current_chunk + 1 /\ result' = result
        /\ pc'[t] = IF current_chunk < NChunk(n, n_threads_cur) THEN "chunk" ELSE "nodeEnd"
    <3>1. node[t] = n /\ nth[t] = n_threads_cur /\ pc[t] = "nextChunk"
      BY <1>4, <1>6 DEF NextChunk, ChunkPc
    <3> QED BY <1>6, <1>ty, <3>1 DEF NextChunk, Goto, TypeOK, dataVars
  <2>2. n_threads_cur <= current_chunk /\ t < current_chunk /\ t < n_threads_cur
    BY <1>ty DEF ChunksOf
  <2>3. <<n, current_chunk>> \notin result
    BY <1>ty DEF ChunksOf
  <2>4. ThreadChunks(t, n)'
    <3>1. ~First(t)' /\ ~Inside(t)'
      BY <2>1, <2>2, <1>ty DEF First, Out, Inside, BarrierPc
    <3>2. <<n, t>> \in result
      BY <2>1 DEF ChunksOf, ThreadChunks, First, Out
    <3>3. current_chunk \in n_threads_cur..(current_chunk + 1) - 1
      BY <2>2, <1>ty
    <3> QED BY <3>1, <3>2, <3>3, <2>1, <2>3, <1>1, <1>k, <1>ty DEF ThreadChunks
  <2>5. ASSUME NEW u \in Crew \ {t} PROVE ThreadChunks(u, n)'
    <3>1. ThreadChunks(u, n)
      BY DEF ChunksOf
    <3>2. pc[u] = "chunk" /\ chunk[u] # u => chunk[u] \in n_threads_cur..(current_chunk + 1) - 1
      BY <3>1, <1>ty DEF ThreadChunks
    <3>3. NChunk(n, n_threads_cur) <= current_chunk => NChunk(n, n_threads_cur) <= current_chunk + 1
      BY <1>ty, <1>k
    <3> QED BY <2>1, <3>1, <3>2, <3>3, <1>1, <1>2 DEF ThreadChunks
  <2>6. \A u, v \in Crew : u # v /\ pc'[u] = "chunk" /\ pc'[v] = "chunk" => chunk'[u] # chunk'[v]
    <3>1. ASSUME NEW u \in Crew \ {t}, pc[u] = "chunk" PROVE chunk[u] < current_chunk
      <4>1. u < n_threads_cur
        BY <1>ty
      <4>2. chunk[u] = u \/ chunk[u] \in n_threads_cur..current_chunk - 1
        BY <3>1 DEF ChunksOf, ThreadChunks
      <4> QED BY <4>1, <4>2, <2>2, <1>ty
    <3>2. ASSUME NEW u \in Crew \ {t}, pc'[u] = "chunk" PROVE chunk'[u] # chunk'[t]
      BY <3>1, <3>2, <2>1, <1>2, <1>ty
    <3>3. ASSUME NEW u \in Crew \ {t}, NEW v \in Crew \ {t}, u # v, pc'[u] = "chunk", pc'[v] = "chunk"
          PROVE  chunk'[u] # chunk'[v]
      BY <3>3, <1>2 DEF ChunksOf
    <3> QED BY <3>2, <3>3
  <2>7. \A c \in Nat : <<n, c>> \in result' => c < current_chunk'
    BY <2>1, <1>ty DEF ChunksOf
  <2>8. ASSUME NEW c \in n_threads_cur..(current_chunk + 1) - 1, c < NChunk(n, n_threads_cur)
        PROVE  <<n, c>> \in result' \/ \E u \in Crew : pc'[u] = "chunk" /\ chunk'[u] = c
    <3>1. CASE c = current_chunk
      BY <3>1, <2>1, <2>8
    <3>2. CASE c # current_chunk
      <4>1. c \in n_threads_cur..current_chunk - 1
        BY <3>2, <1>ty
      <4>2. <<n, c>> \in result \/ \E u \in Crew : pc[u] = "chunk" /\ chunk[u] = c
        BY <4>1, <2>8 DEF ChunksOf
      <4> QED BY <4>2, <2>1, <1>2
    <3> QED BY <3>1, <3>2
  <2>9. n_threads_cur' <= current_chunk'
    BY <2>1, <2>2, <1>1, <1>ty
  <2>10. \A u \in Crew : ThreadChunks(u, n)'
    BY <2>4, <2>5
  <2> QED BY <2>1, <2>6, <2>7, <2>8, <2>9, <2>10, <1>1 DEF ChunksOf
<1>7. CASE ~OneChunk(t) /\ ~NextChunk(t)
  <2>1. /\ UNCHANGED <<current_chunk, result>> /\ pc'[t] # "nextChunk" /\ pc[t] \notin {"chunk", "nextChunk"}
        /\ First(t)' = First(t) /\ (pc'[t] = "chunk" => chunk'[t] = t)
        /\ Inside(t)' \/ pc'[t] \in {"nodeEnd", "node"} => Inside(t) \/ pc[t] \in {"nodeEnd", "node"}
    <3>1. CASE FirstChunk(t)
      <4>1. t < NChunk(node[t], nth[t])
        BY <3>1, <1>4, <1>k, <1>ty DEF FirstChunk, ChunkPc
      <4>2. pc[t] = "chunks" /\ pc'[t] = "chunk" /\ chunk'[t] = t /\ UNCHANGED <<current_chunk, result>>
        BY <3>1, <4>1, <1>ty DEF FirstChunk, Goto, TypeOK, poolVars, dataVars
      <4> QED BY <4>2 DEF First, Inside, Out, BarrierPc
    <3>2. CASE NodeEnd(t)
      <4>1. pc[t] = "nodeEnd" /\ pc'[t] \in {"barrier", "node"} /\ UNCHANGED <<current_chunk, result>>
        BY <3>2, <1>ty DEF NodeEnd, Goto, TypeOK, dataVars
      <4> QED BY <4>1 DEF First, Inside, Out, BarrierPc
    <3>3. CASE NodeLoop(t)
      <4>1. pc[t] = "node" /\ node[t] = NNodes
        BY <3>3, <1>3 DEF NodeLoop, Computing, ChunkPc, BarrierPc, Out, Inside
      <4>2. pc'[t] = "barrier" /\ UNCHANGED <<current_chunk, result>>
        BY <3>3, <4>1, <1>ty DEF NodeLoop, Goto, TypeOK, poolVars, dataVars
      <4> QED BY <4>1, <4>2 DEF First, Inside, Out, BarrierPc
    <3>4. CASE (BarrierEnter(t) /\ n_threads_cur # 1) \/ BarrierAdd(t) \/ BarrierReset(t)
      <4>1. /\ pc[t] \in {"barrier", "barrierAdd", "barrierReset"} /\ UNCHANGED <<current_chunk, result>>
            /\ pc'[t] \in {"barrierAdd", "barrierPass", "barrierReset", "barrierWait"}
            /\ pc'[t] = "barrierWait" => pc[t] = "barrierAdd" /\ n_passed' = n_passed
        BY <3>4, <1>ty DEF BarrierEnter, BarrierAdd, BarrierReset, Goto, TypeOK, poolVars, dataVars, localVars
      <4>2. ~Out(t)'
        BY <4>1, <1>1, PoolFacts DEF Out
      <4> QED BY <4>1, <4>2 DEF First, Inside, Out, BarrierPc
    <3>5. CASE BarrierWait(t)
      <4>1. Out(t)
        BY <3>5 DEF BarrierWait, Out
      <4>2. after[t] = "chunks"
        BY <4>1, <1>3 DEF Out, Inside, Computing, ChunkPc
      <4>3. pc[t] = "barrierWait" /\ pc'[t] = "chunks" /\ UNCHANGED <<current_chunk, result>>
        BY <3>5, <4>2, <1>ty DEF BarrierWait, Leave, Goto, TypeOK, poolVars, dataVars
      <4> QED BY <4>1, <4>3 DEF First, Inside, Out, BarrierPc
    <3>6. ~ComputeStart(t) /\ ~Prepare(t)
      BY <1>3 DEF ComputeStart, Prepare, Computing, ChunkPc, BarrierPc, Out, Inside
    <3> QED BY <1>7, <3>1, <3>2, <3>3, <3>4, <3>5, <3>6 DEF Within
  <2>2. ThreadChunks(t, n)'
    <3>1. ThreadChunks(t, n)
      BY DEF ChunksOf
    <3> QED BY <2>1, <3>1, <1>1 DEF ThreadChunks
  <2>3. ASSUME NEW u \in Crew \ {t} PROVE ThreadChunks(u, n)'
    <3>1. ThreadChunks(u, n)
      BY DEF ChunksOf
    <3> QED BY <2>1, <3>1, <1>1, <1>2 DEF ThreadChunks
  <2>4. \A u, v \in Crew : u # v /\ pc'[u] = "chunk" /\ pc'[v] = "chunk" => chunk'[u] # chunk'[v]
    <3>1. ASSUME NEW u \in Crew \ {t}, pc[u] = "chunk", pc'[t] = "chunk" PROVE chunk[u] # t
      <4>1. chunk[u] = u \/ chunk[u] \in n_threads_cur..current_chunk - 1
        BY <3>1 DEF ChunksOf, ThreadChunks
      <4> QED BY <4>1, <1>ty
    <3>2. ASSUME NEW u \in Crew \ {t}, NEW v \in Crew \ {t}, u # v, pc'[u] = "chunk", pc'[v] = "chunk"
          PROVE  chunk'[u] # chunk'[v]
      BY <3>2, <1>2 DEF ChunksOf
    <3> QED BY <2>1, <3>1, <3>2, <1>2
  <2>5. ASSUME NEW c \in n_threads_cur..current_chunk - 1, c < NChunk(n, n_threads_cur)
        PROVE  <<n, c>> \in result' \/ \E u \in Crew : pc'[u] = "chunk" /\ chunk'[u] = c
    <3>1. <<n, c>> \in result \/ \E u \in Crew : pc[u] = "chunk" /\ chunk[u] = c
      BY <2>5 DEF ChunksOf
    <3> QED BY <2>1, <3>1, <1>2
  <2>6. \A u \in Crew : ThreadChunks(u, n)'
    BY <2>2, <2>3
  <2>7. n_threads_cur' <= current_chunk' /\ \A c \in Nat : <<n, c>> \in result' => c < current_chunk'
    BY <2>1, <1>1 DEF ChunksOf
  <2> QED BY <2>1, <2>4, <2>5, <2>6, <2>7, <1>1 DEF ChunksOf
<1> QED BY <1>5, <1>6, <1>7

(* Steps within a stage keep the data. *)
LEMMA WithinData == ASSUME PoolInv, DataInv, NEW t \in Crew, Within(t) PROVE DataInv'
<1>1. ChunkInv'
  <2> SUFFICES ASSUME NEW n \in 0..NNodes - 1, Stage(0)' = 2 * n + 1 PROVE ChunksOf(n)'
    BY DEF ChunkInv
  <2>1. Stage(0) = 2 * n + 1
    BY WithinKeeps, CrewFacts DEF PoolInv
  <2>2. ChunksOf(n)
    BY <2>1 DEF DataInv, ChunkInv
  <2> QED BY <2>1, <2>2, WithinChunks
<1> QED BY <1>1, WithinOperand, WithinResult, WithinComplete DEF DataInv

(* There are no data at first. *)
LEMMA DataInit == ASSUME NeverMoreThreads, Init PROVE DataInv
<1>1. Stage(0) = Fin /\ pc[0] = "idle" /\ result = {} /\ abort = NoAbort /\ PoolInv
  BY PoolInit DEF Init
<1>2. \A u \in Crew : ~Inside(u)
  BY <1>1, AllFinished DEF CallPc
<1>3. OperandInv
  BY <1>1, <1>2, FinEven DEF OperandInv
<1>4. AbortInv /\ ChunkInv /\ CompleteInv
  BY <1>1, FinEven DEF AbortInv, ChunkInv, CompleteInv
<1>5. ResultInv
  BY <1>1 DEF ResultInv, Inside, BarrierPc
<1> QED BY <1>3, <1>4, <1>5 DEF DataInv

(* The invariants about the data are inductive. *)
LEMMA DataStep == ASSUME PoolInv, DataInv, [Next]_vars PROVE DataInv'
BY PoolSteps, WithinData, PassData, QuietData, GraphComputeData, KickThreadsData, KickGraphData

(* Every reachable state satisfies both. *)
LEMMA PoolHolds == ASSUME NeverMoreThreads PROVE Spec => [](PoolInv /\ DataInv)
<1>1. Init => PoolInv /\ DataInv
  BY PoolInit, DataInit
<1>2. PoolInv /\ DataInv /\ [Next]_vars => PoolInv' /\ DataInv'
  BY PoolStep, DataStep
<1> QED BY <1>1, <1>2, PTL DEF Spec

(* A thread that computes a chunk is in the crew, in the stage of its node. *)
LEMMA AtChunk ==
  ASSUME PoolInv, NEW t \in Thread, pc[t] = "chunk"
  PROVE  /\ t \in Crew /\ node[t] \in 0..NNodes - 1 /\ Stage(0) = 2 * node[t] + 1
         /\ nth[t] = n_threads_cur /\ graph[t] = cgraph
<1>1. t \in Crew
  BY DEF PoolInv, PlaceInv, IdlePc
<1>2. CrewOK(t) /\ NodeOK(t) /\ Stage(t) = Stage(0) /\ TypeOK
  BY <1>1, PoolFacts DEF PoolInv
<1>3. nth[t] = n_threads_cur /\ graph[t] = cgraph
  BY <1>2 DEF CrewOK, Engaged, ChunkPc
<1>4. Stage(t) = 2 * node[t] + 1
  BY <1>2, Places DEF StageIs, ChunkPc
<1>5. node[t] \in 0..NNodes - 1
  BY <1>2, Places DEF NodeOK, ChunkPc
<1> QED BY <1>1, <1>2, <1>3, <1>4, <1>5

(* While a thread computes a chunk of a node, every thread of the graph    *)
(* has converted its part of the operand for that node, and nobody has     *)
(* overwritten one for a later node or graph: the barrier before the       *)
(* chunks and the one between the nodes keep all threads in one stage.     *)
THEOREM OperandsReady == ASSUME NeverMoreThreads PROVE Spec => []ChunkSeesItsOperand
<1>1. PoolInv /\ DataInv => ChunkSeesItsOperand
  <2> SUFFICES ASSUME PoolInv, DataInv, NEW t \in Thread, pc[t] = "chunk", NEW u \in 0..nth[t] - 1
               PROVE  wdata[u] = <<graph[t], node[t] + 1>>
    BY DEF ChunkSeesItsOperand
  <2>1. u \in Crew /\ node[t] \in 0..NNodes - 1 /\ Stage(0) = 2 * node[t] + 1 /\ graph[t] = cgraph
    BY AtChunk DEF Crew
  <2> QED BY <2>1 DEF DataInv, OperandInv
<1> QED BY <1>1, PoolHolds, PTL

(* No chunk is computed twice, and no two threads compute the same one,    *)
(* for any number of threads and chunks, although only thread 0 resets the *)
(* counter and every thread takes its first chunk without it.              *)
THEOREM ChunksComputedOnce == ASSUME NeverMoreThreads PROVE Spec => []ChunkOnce
<1>1. PoolInv /\ DataInv => ChunkOnce
  <2> SUFFICES ASSUME PoolInv, DataInv, NEW t \in Thread, pc[t] = "chunk"
               PROVE  /\ <<node[t], chunk[t]>> \notin result
                      /\ \A u \in Thread \ {t} : pc[u] = "chunk" => chunk[u] # chunk[t]
    BY DEF ChunkOnce
  <2>1. t \in Crew /\ ChunksOf(node[t])
    BY AtChunk DEF DataInv, ChunkInv
  <2>2. <<node[t], chunk[t]>> \notin result
    BY <2>1 DEF ChunksOf, ThreadChunks, First
  <2>3. \A u \in Thread \ {t} : pc[u] = "chunk" => chunk[u] # chunk[t]
    BY <2>1, AtChunk DEF ChunksOf
  <2> QED BY <2>2, <2>3
<1> QED BY <1>1, PoolHolds, PTL

-----------------------------------------------------------------------------
(* The pool implements GraphExec: KickThreads begins a graph, OneChunk     *)
(* computes a chunk, Return ends the call, and every other step changes    *)
(* nothing that GraphExec sees.                                            *)

Running == pc[0] \notin {"idle", "kick", "join", "freed"}

(* A step that keeps these is a stuttering step of GraphExec. *)
LEMMA ExecStutter == ASSUME Running' = Running, UNCHANGED <<n_threads_cur, result, ret>> PROVE UNCHANGED Exec!vars
BY DEF Running, Exec!vars

(* Complete nodes of GraphExec are the filled ones. *)
LEMMA ExecComplete == ASSUME NEW m PROVE Exec!Complete(m) <=> Filled(m)
BY DEF Exec!Complete, Filled

(* KickThreads begins a graph. *)
LEMMA ExecBegin == ASSUME PoolInv, KickThreads PROVE Exec!Next
<1>1. /\ pc[0] = "kick" /\ pc'[0] = "kickGraph" /\ n_threads_cur' = request /\ result' = {} /\ ret' = ret
  BY CrewFacts DEF PoolInv, KickThreads, Goto, callVars, TypeOK
<1>2. request \in 1..MaxThreads
  BY <1>1, KickThreadsPool DEF PoolInv, TypeOK
<1>3. Exec!Begin(request)
  BY <1>1 DEF Exec!Begin
<1> QED BY <1>2, <1>3 DEF Exec!Next

(* OneChunk computes a chunk of a node whose predecessors are complete. *)
LEMMA ExecChunk == ASSUME PoolInv, DataInv, NEW t \in Crew, OneChunk(t) PROVE Exec!Next
<1>ty. TypeOK /\ t \in Thread /\ 0 \in Crew /\ 0 \in Thread /\ n_threads_cur \in Nat /\ t \in Nat /\ t < n_threads_cur
       /\ chunk[t] \in Nat /\ NNodes \in Nat
  <2>1. TypeOK /\ t \in Thread /\ 0 \in Crew /\ 0 \in Thread /\ n_threads_cur \in Nat /\ NNodes \in Nat
    BY CrewFacts DEF PoolInv
  <2>2. t \in Nat /\ t < n_threads_cur
    BY <2>1 DEF Crew
  <2>3. chunk[t] \in Nat
    BY <2>1 DEF TypeOK
  <2> QED BY <2>1, <2>2, <2>3
<1>1. /\ pc[t] = "chunk" /\ result' = result \union {<<node[t], chunk[t]>>} /\ UNCHANGED <<n_threads_cur, ret>>
      /\ \A u \in Thread \ {t} : pc'[u] = pc[u] /\ pc'[t] \in {"nodeEnd", "nextChunk"}
  BY <1>ty DEF OneChunk, Goto, poolVars, callVars, TypeOK
<1>2. t \in Crew /\ node[t] \in 0..NNodes - 1 /\ Stage(0) = 2 * node[t] + 1
  BY <1>1, <1>ty, AtChunk
<1>3. NChunk(node[t], n_threads_cur) \in Nat /\ n_threads_cur <= NChunk(node[t], n_threads_cur)
  BY <1>2, <1>ty, EnoughChunks
<1>4. chunk[t] \in 0..NChunk(node[t], n_threads_cur) - 1
  <2>1. ThreadChunks(t, node[t])
    BY <1>2 DEF DataInv, ChunkInv, ChunksOf
  <2>2. chunk[t] < NChunk(node[t], n_threads_cur)
    BY <2>1, <1>1, <1>3, <1>ty DEF ThreadChunks
  <2> QED BY <2>2, <1>3, <1>ty
<1>5. pc[0] \notin CallPc \ {"kickWake"}
  BY <1>2, AllFinished, FinEven
<1>6. Running /\ Running'
  <2>1. pc[0] \notin {"idle", "kick", "join", "freed"}
    BY <1>5 DEF CallPc
  <2>2. pc'[0] \notin {"idle", "kick", "join", "freed"}
    <3>1. CASE t = 0
      BY <3>1, <1>ty DEF OneChunk, Goto, TypeOK
    <3>2. CASE t # 0
      BY <3>2, <2>1, <1>1, <1>ty
    <3> QED BY <3>1, <3>2
  <2> QED BY <2>1, <2>2 DEF Running
<1>7. ASSUME NEW m \in 0..node[t] - 1 PROVE Exec!Complete(m)
  <2>1. m \in 0..NNodes - 1 /\ 2 * m + 1 < 2 * node[t] + 1
    BY <1>2, <1>ty
  <2>2. Stage(0) # Fin
    BY <1>2, FinEven
  <2>3. Filled(m)
    BY <2>1, <2>2, <1>2, <1>5 DEF DataInv, CompleteInv, CallPc
  <2> QED BY <2>3, ExecComplete
<1>8. Exec!ComputeChunk(node[t], chunk[t])
  <2>1. chunk[t] < NChunk(node[t], n_threads_cur)
    BY <1>3, <1>4, <1>ty
  <2> QED BY <1>1, <1>6, <1>7, <2>1 DEF Exec!ComputeChunk, Running
<1> QED BY <1>2, <1>4, <1>8 DEF Exec!Next

(* Return reports success only when all nodes are complete. *)
LEMMA ExecEnd == ASSUME PoolInv, DataInv, Return PROVE Exec!Next
<1>1. pc[0] = "return" /\ pc'[0] = "idle" /\ ret' = ec /\ UNCHANGED <<n_threads_cur, result>>
  BY CrewFacts DEF PoolInv, TypeOK, Return, Goto, poolVars, dataVars
<1>2. ec \in {"success", "aborted"}
  BY DEF PoolInv, TypeOK
<1>3. Stage(0) = Fin
  BY <1>1, AllFinished DEF CallPc
<1>4. ASSUME ec = "success", NEW m \in 0..NNodes - 1 PROVE Exec!Complete(m)
  <2>1. 2 * m + 1 < Fin
    BY ThreadpoolAssumption DEF Fin
  <2>2. Filled(m)
    BY <2>1, <1>1, <1>3, <1>4 DEF DataInv, CompleteInv
  <2> QED BY <2>2, ExecComplete
<1>5. Exec!End(ec)
  BY <1>1, <1>4 DEF Exec!End
<1> QED BY <1>2, <1>5 DEF Exec!Next

(* The other steps of a thread at work *)
LEMMA ExecWithin == ASSUME PoolInv, NEW t \in Crew, Within(t), ~OneChunk(t) PROVE UNCHANGED Exec!vars
<1>ty. TypeOK /\ t \in Thread /\ 0 \in Thread
  BY CrewFacts DEF PoolInv
<1>1. OthersKeep(t) /\ n_threads_cur' = n_threads_cur /\ ret' = ret
  BY WithinKeeps DEF OthersKeep
<1>2. result' = result
  BY DEF Within, ComputeStart, NodeLoop, Prepare, FirstChunk, NextChunk, NodeEnd, BarrierEnter,
         BarrierAdd, BarrierReset, BarrierWait, dataVars
<1>3. Running' = Running
  <2>1. CASE t = 0
    <3>1. pc[0] \notin {"idle", "kick", "join", "freed"}
      BY <2>1 DEF Within, ComputeStart, NodeLoop, Prepare, FirstChunk, OneChunk, NextChunk, NodeEnd, BarrierEnter,
             BarrierAdd, BarrierReset, BarrierWait
    <3>2. pc'[0] \notin {"idle", "kick", "join", "freed"}
      BY <2>1, WithinPc DEF CallPc
    <3> QED BY <3>1, <3>2 DEF Running
  <2>2. CASE t # 0
    BY <2>2, <1>1, <1>ty DEF OthersKeep, Running
  <2> QED BY <2>1, <2>2
<1> QED BY <1>1, <1>2, <1>3, ExecStutter

(* Opening the barrier *)
LEMMA ExecPass == ASSUME PoolInv, NEW t \in Crew, Passes(t) PROVE UNCHANGED Exec!vars
<1>ty. TypeOK /\ t \in Thread /\ 0 \in Crew /\ 0 \in Thread /\ after[t] \in {"node", "chunks", "done"}
  BY CrewFacts, Places DEF PoolInv
<1>1. /\ Inside(0) /\ (t # 0 => pc'[0] = pc[0]) /\ pc'[t] = Leave(t) /\ UNCHANGED <<n_threads_cur, ret, result>>
  BY PassFacts, <1>ty DEF callVars, dataVars
<1>2. Running /\ Running'
  BY <1>1, <1>ty DEF Inside, BarrierPc, Running, Leave
<1> QED BY <1>1, <1>2, ExecStutter

(* The steps of the caller that GraphExec does not see *)
LEMMA ExecOther ==
  ASSUME PoolInv, GraphCompute \/ KickGraph \/ KickWake \/ Join \/ Free \/ Freed \/ \E b \in BOOLEAN : SetPause(b)
  PROVE  UNCHANGED Exec!vars
<1>ty. TypeOK /\ 0 \in Thread /\ PlaceInv
  BY CrewFacts DEF PoolInv
<1>b. Broadcast(pc) \in [Thread -> Pc] /\ Broadcast(pc)[0] = pc[0]
  BY <1>ty DEF Broadcast, Pc, PlaceInv, IdlePc, TypeOK
<1>1. UNCHANGED <<n_threads_cur, result, ret>>
  BY DEF GraphCompute, KickGraph, KickWake, Join, Free, Freed, SetPause, vars, poolVars, callVars, dataVars
<1>2. Running' = Running
  <2>1. CASE GraphCompute \/ Join
    BY <2>1, <1>ty DEF GraphCompute, Join, Goto, TypeOK, Running
  <2>2. CASE KickGraph
    BY <2>2, <1>ty DEF KickGraph, Goto, TypeOK, Running
  <2>3. CASE KickWake \/ Free
    BY <2>3, <1>ty, <1>b DEF KickWake, Free, Running
  <2>4. CASE Freed \/ \E b \in BOOLEAN : SetPause(b)
    BY <2>4, <1>b DEF Freed, SetPause, vars, Running
  <2> QED BY <2>1, <2>2, <2>3, <2>4
<1> QED BY <1>1, <1>2, ExecStutter

(* The steps of idle workers *)
LEMMA ExecQuiet ==
  ASSUME Quiet, ret' = ret, pc'[0] = pc[0]
  PROVE  UNCHANGED Exec!vars
BY ExecStutter DEF Quiet, Running

(* Every step of the pool is a step of GraphExec or a stuttering step. *)
LEMMA ExecStep == ASSUME PoolInv, DataInv, [Next]_vars PROVE [Exec!Next]_Exec!vars
<1>1. CASE \E t \in Thread : Compute(t)
  <2>1. PICK t \in Thread : Compute(t)
    BY <1>1
  <2>2. CASE t \in Crew
    BY <2>1, <2>2, ComputeSplit, ExecChunk, ExecWithin, ExecPass
  <2>3. CASE t \notin Crew
    <3>1. BarrierWait(t) /\ after[t] = "done"
      BY <2>1, <2>3, CrewComputes DEF PoolInv
    <3>2. t \in Thread \ Crew
      BY <2>3
    <3> QED BY <3>1, <3>2, OutsiderQuiet, ExecQuiet
  <2> QED BY <2>2, <2>3
<1>2. CASE \E t \in Worker : Secondary(t) \/ SpuriousWake(t)
  BY <1>2, SecondaryQuiet, ExecQuiet
<1>3. CASE KickThreads \/ Return
  BY <1>3, ExecBegin, ExecEnd
<1>4. CASE GraphCompute \/ KickGraph \/ KickWake \/ Join \/ Free \/ Freed \/ \E b \in BOOLEAN : SetPause(b)
  BY <1>4, ExecOther
<1>5. CASE UNCHANGED vars
  BY <1>5, ExecStutter DEF vars, poolVars, callVars, dataVars, Running
<1> QED BY <1>1, <1>2, <1>3, <1>4, <1>5 DEF Next, Caller

(* A new pool is an initial state of GraphExec. *)
LEMMA ExecInit == ASSUME Init PROVE Exec!Init
<1>1. 0 \in Thread
  BY ThreadpoolAssumption DEF Thread
<1> QED BY <1>1 DEF Init, Exec!Init

(* The pool implements GraphExec, for any number of threads, nodes and     *)
(* chunks: a chunk is computed only when every node before its own is      *)
(* complete, and ggml_graph_compute returns success only for a graph all   *)
(* of whose chunks were computed.                                          *)
THEOREM RefinesGraphExec == ASSUME NeverMoreThreads PROVE Spec => ImplementsGraphExec
<1>1. Init => Exec!Init
  BY ExecInit
<1>2. PoolInv /\ DataInv /\ [Next]_vars => [Exec!Next]_Exec!vars
  BY ExecStep
<1> QED BY <1>1, <1>2, PoolHolds, PTL DEF Spec, Exec!Spec, ImplementsGraphExec

=============================================================================

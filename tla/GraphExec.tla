----------------------------- MODULE GraphExec -----------------------------
(***************************************************************************)
(* What ggml_graph_compute promises its caller, however many threads work  *)
(* on a graph: the chunks of a node are computed only when every node      *)
(* before it is complete, and success is reported only for a graph that    *)
(* was computed to its end.  Module Threadpool implements this.            *)
(***************************************************************************)
EXTENDS Integers

CONSTANTS NNodes,        \* number of nodes of a graph
          NChunk(_, _),  \* chunks of a node when k threads work on it
          MaxThreads

VARIABLES running,   \* a call of ggml_graph_compute is computing
          threads,   \* number of threads that work on the graph
          done,      \* the pairs <<node, chunk>> that were computed
          ret        \* what the last call returned

vars == <<running, threads, done, ret>>

Complete(n) == \A c \in 0..NChunk(n, threads) - 1 : <<n, c>> \in done

Init ==
  /\ running = FALSE
  /\ threads = MaxThreads
  /\ done = {}
  /\ ret = "none"

Begin(k) ==
  /\ ~running
  /\ running' = TRUE
  /\ threads' = k
  /\ done' = {}
  /\ UNCHANGED ret

ComputeChunk(n, c) ==
  /\ running
  /\ c < NChunk(n, threads)
  /\ \A m \in 0..n - 1 : Complete(m)
  /\ done' = done \union {<<n, c>>}
  /\ UNCHANGED <<running, threads, ret>>

End(status) ==
  /\ running
  /\ status = "success" => \A n \in 0..NNodes - 1 : Complete(n)
  /\ running' = FALSE
  /\ ret' = status
  /\ UNCHANGED <<threads, done>>

Next ==
  \/ \E k \in 1..MaxThreads : Begin(k)
  \/ \E n \in 0..NNodes - 1 : \E c \in 0..NChunk(n, threads) - 1 : ComputeChunk(n, c)
  \/ \E status \in {"success", "aborted"} : End(status)

Spec == Init /\ [][Next]_vars
=============================================================================

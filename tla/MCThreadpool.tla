---------------------------- MODULE MCThreadpool ----------------------------
(* Instances of Threadpool for TLC.                                         *)
EXTENDS Threadpool

\* Two graphs, with no thread that sits out a graph and works on a later one.
SteadyPlans == {<<3, 3>>, <<2, 1>>, <<4, 2>>}
\* The first node has more chunks than two threads need, the second one has too few.
FewChunks == [n \in 0..NNodes - 1 |-> IF n = 0 THEN 8 ELSE 1]
=============================================================================

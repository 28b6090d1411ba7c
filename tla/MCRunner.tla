------------------------------- MODULE MCRunner -------------------------------
(* A small instance of Runner for TLC. *)
EXTENDS Runner

CONSTANTS q1, q2, ta, tb

AB == {ta, tb}
Call(prompt, n, keep, shift) ==
    [prompt |-> prompt, numPredict |-> n, numKeep |-> keep, shift |-> shift, truncate |-> n # 1]

TwoCalls ==
    [q \in Req |-> CASE q = q1 -> {Call(<<ta, tb, ta>>, 3, 0, TRUE)}
                     [] q = q2 -> {Call(<<ta, tb, tb, ta>>, 0, 2, FALSE)}]
TextKinds == [t \in Toks |-> IF t = ta THEN {"send", "hold", "stop"} ELSE {}]

TwoConfs == {[parallel |-> 1, multi |-> FALSE, shiftable |-> FALSE],
             [parallel |-> 2, multi |-> TRUE, shiftable |-> TRUE]}
=============================================================================

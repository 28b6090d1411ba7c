------------------------------ MODULE MCSched ------------------------------
(***************************************************************************)
(* Small instances of Sched for TLC.                                       *)
(***************************************************************************)
EXTENDS Sched, TLC

CONSTANTS q1, q2, q3

Call(m, g, k) == [model |-> m, gpu |-> g, rest |-> 1, keep |-> k]

(* Two models; automatic and fixed GPU counts; no keep-alive, a zero one   *)
(* and a finite one                                                        *)
AnyRequest ==
    [q \in Req |-> {Call(1, -1, Unset), Call(2, -1, Zero), Call(1, 1, Finite)}]

(* Two requests for one model and one, of either kind, for the other *)
Contention ==
    [q \in Req |-> CASE q = q1 -> {Call(1, -1, Finite)}
                      [] q = q2 -> {Call(2, -1, Finite)}
                      [] q = q3 -> {Call(1, -1, Zero), Call(1, 1, Unset)}]

(* The same, but the second request for the first model keeps it for ever *)
KeepForever == [Contention EXCEPT ![q3] = {Call(1, -1, Forever)}]

Symmetry == Permutations(Req)
=============================================================================

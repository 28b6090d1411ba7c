-------------------------------- MODULE MCPull --------------------------------
(* A small instance of Pull for TLC. *)
EXTENDS Pull

CONSTANTS p1, p2, m1, m2, b0, b1
Of == [p \in Pulls |-> IF p = p1 THEN m1 ELSE m2]
Reg == [m \in {m1, m2} |-> <<b1>>]
Old == [m \in {m1, m2} |-> IF m = m1 THEN {b0} ELSE {}]
=============================================================================

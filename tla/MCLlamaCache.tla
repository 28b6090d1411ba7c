---------------------------- MODULE MCLlamaCache -----------------------------
(* A small instance of LlamaCache for TLC: a long prompt and one that shares *)
(* only its first token with it.                                             *)
EXTENDS LlamaCache

CONSTANTS ta, tb

AB == {ta, tb}
Windowed == {[unified |-> FALSE, swa |-> "standard", ubatches |-> 4, text |-> MaxPos + 1,
              shift |-> FALSE, copies |-> 0]}
LongAndEdited == {<<ta, ta, ta, ta, ta, ta>>, <<ta, tb>>}
=============================================================================

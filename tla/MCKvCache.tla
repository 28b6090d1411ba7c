------------------------------ MODULE MCKvCache ------------------------------
(* Small instances of KvCache for TLC. *)
EXTENDS KvCache, TLC

Ctx(u, swa, n, text, sh, copies) ==
    [unified |-> u, swa |-> swa, ubatches |-> n, text |-> text, shift |-> sh, copies |-> copies]

\* Full attention with batches of several ubatches, in one stream or in one per
\* sequence; a window with one ubatch (chunks do not move with the text, so that
\* a chunked context is never shifted).
SafeModes == {Ctx(TRUE, "none", 3, 3, TRUE, 0),
              Ctx(FALSE, "none", 2, 2, TRUE, 1), Ctx(FALSE, "none", 2, 2, FALSE, 2),
              Ctx(TRUE, "standard", 1, 3, TRUE, 0), Ctx(TRUE, "standard", 1, 4, FALSE, 0),
              Ctx(TRUE, "chunked", 1, 3, FALSE, 0)}
\* A window and batches of two ubatches.
TrialModes == {Ctx(FALSE, "standard", 2, 6, FALSE, 0)}
\* One full context that is shifted.
ShiftModes == {Ctx(TRUE, "none", 1, 3, TRUE, 0)}

Values == Permutations(Toks)
=============================================================================

------------------------------- MODULE KvCells -------------------------------
(***************************************************************************)
(* llama.cpp's bookkeeping of a key/value buffer: the class                *)
(* llama_kv_cells (one position, one pending shift and a set of sequences  *)
(* per cell, with two indexes kept beside them) and the operations of      *)
(* llama_kv_cache that are functions of that bookkeeping.  Every operator  *)
(* takes the old value and returns the new one; KvCache gives them state.  *)
(***************************************************************************)
EXTENDS Integers, FiniteSets, Sequences, FiniteSetsExt, SequencesExt

CONSTANTS Size,    \* cells of one stream
          NSeq,    \* n_seq_max: sequences 0 .. NSeq - 1
          MaxPos,  \* bound: the positions a caller uses are 0 .. MaxPos
          NSwa     \* n_swa: the attention window

ASSUME SizesAssumption == /\ Size \in Nat \ {0} /\ NSeq \in Nat \ {0}
                          /\ MaxPos \in Nat     /\ NSwa \in Nat \ {0}

Idx  == 0 .. Size - 1
Seqs == 0 .. NSeq - 1
Pos  == 0 .. MaxPos
SwaTypes == {"none", "standard", "chunked"}

(***************************************************************************)
(* llama_hparams::is_masked_swa: is a key at position p0 outside the       *)
(* window of a token at position p1?  (The symmetric window belongs to     *)
(* encoders, which keep no cache.)                                         *)
(***************************************************************************)
IsMaskedSwa(type, p0, p1) ==
    \/ type = "standard" /\ p1 - p0 >= NSwa
    \/ type = "chunked"  /\ p0 < (p1 \div NSwa) * NSwa

---------------------------------------------------------------------------
(* One llama_kv_cells.  seq_pos[s][p] counts the cells of s at p; in the   *)
(* code an absent map entry is the 0 here.                                 *)

CellsType ==
    [pos : [Idx -> {-1} \cup Pos], shift : [Idx -> Int],
     seq : [Idx -> SUBSET Seqs],   used : SUBSET Idx,
     seq_pos : [Seqs -> [Pos -> Nat]], has_shift : BOOLEAN]

Reset == [pos |-> [i \in Idx |-> -1], shift |-> [i \in Idx |-> 0],
          seq |-> [i \in Idx |-> {}], used |-> {},
          seq_pos |-> [s \in Seqs |-> [p \in Pos |-> 0]], has_shift |-> FALSE]

ResetShift(c) == [c EXCEPT !.shift = [i \in Idx |-> 0], !.has_shift = FALSE]

IsEmpty(c, i)      == c.pos[i] = -1
PosIn(c, i, p0, p1) == c.pos[i] >= p0 /\ c.pos[i] < p1
SeqPositions(c, s) == {p \in Pos : c.seq_pos[s][p] > 0}
SeqPosMin(c, s)    == IF SeqPositions(c, s) = {} THEN -1 ELSE Min(SeqPositions(c, s))
SeqPosMax(c, s)    == IF SeqPositions(c, s) = {} THEN -1 ELSE Max(SeqPositions(c, s))
UsedMaxP1(c)       == IF c.used = {} THEN 0 ELSE Max(c.used) + 1

SeqPosInc(c, s, p) == [c EXCEPT !.seq_pos[s][p] = @ + 1]
SeqPosDec(c, s, p) == [c EXCEPT !.seq_pos[s][p] = @ - 1]
SeqPosAdd(c, i) == FoldSet(LAMBDA s, a : SeqPosInc(a, s, c.pos[i]), c, c.seq[i])
SeqPosRm(c, i)  == FoldSet(LAMBDA s, a : SeqPosDec(a, s, c.pos[i]), c, c.seq[i])

\* What every operation does to a cell that is left without an owner.
Vacate(c, i) == [c EXCEPT !.pos[i] = -1, !.shift[i] = 0, !.seq[i] = {},
                          !.used = @ \ {i}]

CellRm(c, i) == Vacate(SeqPosRm(c, i), i)

CellSeqRm(c, i, s) ==
    LET a == [SeqPosDec(c, s, c.pos[i]) EXCEPT !.seq[i] = @ \ {s}]
    IN  IF a.seq[i] = {} THEN Vacate(a, i) ELSE a

\* slip: the counts of the sequences that lose the cell are left as they were
KeepNoCount(c, i, s) ==
    IF s \in c.seq[i] THEN [c EXCEPT !.seq[i] = {s}]
    ELSE IF c.seq[i] # {} THEN CellRm(c, i) ELSE c

CellSeqKeep(c, i, s) ==
    IF s \in c.seq[i]
    THEN SeqPosInc([SeqPosRm(c, i) EXCEPT !.seq[i] = {s}], s, c.pos[i])
    ELSE IF c.seq[i] # {} THEN CellRm(c, i) ELSE c

CellSeqAdd(c, i, s) == SeqPosInc([c EXCEPT !.seq[i] = @ \cup {s}], s, c.pos[i])

PosSet(c, i, p) == [c EXCEPT !.pos[i] = p, !.used = @ \cup {i}]

PosAdd(c, i, d) ==
    LET a == [SeqPosRm(c, i) EXCEPT !.has_shift = TRUE]
    IN  IF c.pos[i] + d < 0
        THEN Vacate(a, i)
        ELSE SeqPosAdd([a EXCEPT !.pos[i] = @ + d, !.shift[i] = @ + d], i)

\* cp and set: what prepare saves of the cells it is about to use, and how
\* it puts them back (the pending shifts are neither saved nor restored).
Cp(c, idxs) == [j \in DOMAIN idxs |-> [pos |-> c.pos[idxs[j]], seq |-> c.seq[idxs[j]]]]

SetOne(c, i, old) ==
    LET a == IF IsEmpty(c, i) THEN c ELSE SeqPosRm(c, i)
        b == [a EXCEPT !.pos[i] = old.pos, !.seq[i] = old.seq,
                       !.used = IF old.pos = -1 THEN @ \ {i} ELSE @ \cup {i}]
    IN  IF old.pos = -1 THEN b ELSE SeqPosAdd(b, i)
Set(c, idxs, saved) ==
    FoldLeft(LAMBDA a, j : SetOne(a, idxs[j], saved[j]), c, [j \in DOMAIN idxs |-> j])

---------------------------------------------------------------------------
(* llama_kv_cache: kv.cells and kv.head per stream.                        *)

Lo(p0) == IF p0 < 0 THEN 0 ELSE p0
Hi(p1) == IF p1 < 0 THEN MaxPos + 1 ELSE p1

\* The cells of s in a range, and the search head after some were freed.
InRange(c, s, p0, p1) == {i \in Idx : PosIn(c, i, Lo(p0), Hi(p1)) /\ s \in c.seq[i]}
Freed(c, d) == {i \in Idx : ~IsEmpty(c, i) /\ IsEmpty(d, i)}
HeadBack(head, c, d) ==
    IF Freed(c, d) # {} /\ Min(Freed(c, d)) < head THEN Min(Freed(c, d)) ELSE head

\* The elements of a sequence that are in S, in their order.
Only(seq, S) == FoldLeft(LAMBDA a, x : IF x \in S THEN Append(a, x) ELSE a, << >>, seq)

Put(kv, st, c, head) == [kv EXCEPT !.cells[st] = c, !.head[st] = head]

SeqRm(kv, st, s, p0, p1) ==
    LET c == kv.cells[st]
        d == FoldSet(LAMBDA i, a : CellSeqRm(a, i, s), c, InRange(c, s, p0, p1))
    IN  Put(kv, st, d, HeadBack(kv.head[st], c, d))

SeqKeep(kv, st, s) ==
    LET c == kv.cells[st]
        d == FoldSet(LAMBDA i, a : CellSeqKeep(a, i, s), c, Idx)
    IN  Put(kv, st, d, HeadBack(kv.head[st], c, d))

SeqAdd(kv, st, s, p0, p1, d) ==
    LET c == kv.cells[st]
        e == FoldSet(LAMBDA i, a : PosAdd(a, i, d), c, InRange(c, s, p0, p1))
    IN  IF d = 0 \/ Lo(p0) = Hi(p1) THEN kv
        ELSE Put(kv, st, e, IF Freed(c, e) = {} THEN 0 ELSE Min(Freed(c, e)))

\* seq_cp inside one stream shares the cells; between streams it rebuilds
\* the bookkeeping and leaves the buffer copy to the next update.
SeqCpShare(kv, st, src, dst, p0, p1) ==
    [kv EXCEPT !.cells[st] =
        FoldSet(LAMBDA i, a : CellSeqAdd(a, i, dst), @, InRange(@, src, p0, p1))]

SeqCpStream(kv, s0, s1, src, dst) ==
    LET c == kv.cells[s0]
        Copy(i, a) ==
            LET b == CellSeqAdd(PosSet(a, i, c.pos[i] - c.shift[i]), i, dst)
            IN  IF c.shift[i] # 0 THEN PosAdd(b, i, c.shift[i]) ELSE b
    IN  Put(kv, s1, FoldSet(Copy, Reset, {i \in Idx : src \in c.seq[i]}), kv.head[s0])

(***************************************************************************)
(* find_slot with cont = FALSE, for n tokens of one stream: the first n    *)
(* usable cells met going round from the head; << >> when they are fewer.  *)
(* A cell is usable when it is empty, or holds one sequence only and its   *)
(* position is outside the window of that sequence's next token.           *)
(***************************************************************************)
\* slip: a cell that several sequences share is taken when one of them can
\* do without it
UseShared(type, c, i) ==
    \/ IsEmpty(c, i)
    \/ \E s \in c.seq[i] : IsMaskedSwa(type, c.pos[i], SeqPosMax(c, s) + 1)

CanUse(type, c, i) ==
    \/ IsEmpty(c, i)
    \/ \E s \in Seqs : /\ c.seq[i] = {s}
                       /\ IsMaskedSwa(type, c.pos[i], SeqPosMax(c, s) + 1)

FindSlot(type, c, head, n) ==
    LET start == IF head > Cardinality(c.used) + 2 * n THEN 0 ELSE head
        round == [k \in 1 .. Size |-> (start + k - 1) % Size]
        free  == Only(round, {i \in Idx : CanUse(type, c, i)})
    IN  IF Len(free) < n THEN << >> ELSE SubSeq(free, 1, n)

(***************************************************************************)
(* apply_ubatch.  A ubatch is a sequence of groups, one per stream it      *)
(* touches: [strm, idxs, toks] with toks a sequence of [s, p].  Each token *)
(* takes its cell, the owner of an overwritten position loses every lower  *)
(* one too, and the head moves behind the slot.                            *)
(***************************************************************************)
Place(c, i, t) ==
    CellSeqAdd(PosSet(IF IsEmpty(c, i) THEN c ELSE CellRm(c, i), i, t.p), i, t.s)

Overwritten(c, g, s) == {c.pos[g.idxs[j]] : j \in {k \in DOMAIN g.idxs : s \in c.seq[g.idxs[k]]}}

\* slip: the positions below an overwritten one are kept
NoPurge(kv, st, s, top) == kv

Purge(kv, st, s, top) ==
    IF top # {} /\ SeqPosMin(kv.cells[st], s) <= Max(top)
    THEN SeqRm(kv, st, s, SeqPosMin(kv.cells[st], s), Max(top) + 1) ELSE kv

\* The tokens take their cells; then the purge for what c had in them.
PlaceAll(c, g) == FoldLeft(LAMBDA a, j : Place(a, g.idxs[j], g.toks[j]), c, [j \in DOMAIN g.idxs |-> j])
PurgeAll(kv, g, c) == FoldSet(LAMBDA s, a : Purge(a, g.strm, s, Overwritten(c, g, s)), kv, Seqs)

\* slip: the head is moved past the end of the slot
ApplyHeadPast(kv, g) == Put(kv, g.strm, PlaceAll(kv.cells[g.strm], g), Last(g.idxs) + 2)

ApplyGroup(kv, g) ==
    LET c == kv.cells[g.strm]
        e == PurgeAll([kv EXCEPT !.cells[g.strm] = PlaceAll(c, g)], g, c)
    IN  [e EXCEPT !.head[g.strm] = Last(g.idxs) + 1]

ApplyUbatch(kv, ub) == FoldLeft(ApplyGroup, kv, ub)
=============================================================================

------------------------------- MODULE KvCache -------------------------------
(***************************************************************************)
(* llama.cpp's key/value cache in use: decodes in progress, the operations *)
(* a caller applies to the sequences between them, and the updates of the  *)
(* buffers that those operations leave to the next decode.  The caller is  *)
(* any program that keeps to the interface; LlamaCache is the one caller   *)
(* this repository has.                                                    *)
(*                                                                         *)
(* A stored key is the token it was computed from and the position it is   *)
(* rotated for; hist is the text of every sequence as its caller sees it.  *)
(***************************************************************************)
EXTENDS KvCells

CONSTANTS Modes,    \* the contexts and what a caller does with one: [unified,
                    \* swa, ubatches: most of one batch, text: longest of a
                    \* sequence, shift: whether it shifts contexts, copies:
                    \* most stream copies waiting for one update]
          NUbatch,  \* n_ubatch
          MaxTok,   \* bound: tokens of one sequence in one batch
          Toks,     \* token values
          NoTok     \* what a cell holds that was never written

ASSUME CallerAssumption == /\ Modes \subseteq [unified : BOOLEAN, swa : SwaTypes,
                                              ubatches : Nat, text : 0 .. MaxPos + 1,
                                              shift : BOOLEAN, copies : Nat]
                           /\ NUbatch \in Nat /\ NUbatch >= NSeq
                           /\ MaxTok \in Nat \ {0}

VARIABLES
    mode,     \* the chosen member of Modes
    kv,       \* v_cells and v_heads
    sc_info,  \* the stream copies the next update performs
    data,     \* the key tensors: [tok, rot] per stream and cell
    hist,     \* the text of every sequence: its i-th token is at position i - 1
    dec,      \* the decode in progress
    cur       \* the tokens of the ubatch just computed

vars == <<mode, kv, sc_info, data, hist, dec, cur>>

Unified     == mode.unified
Masked(p, q) == IsMaskedSwa(mode.swa, p, q)
Strm(s)     == IF Unified THEN 0 ELSE s
Cells(s)    == kv.cells[Strm(s)]
Idle        == dec.status = "idle"
AtRest      == [status |-> "idle", ubs |-> << >>]

Blank       == [tok |-> NoTok, rot |-> 0]    \* never written
Spoilt      == [tok |-> NoTok, rot |-> -1]   \* a K-shift of it has failed

Init ==
    /\ mode \in Modes
    /\ kv = [cells |-> [s \in Seqs |-> Reset], head |-> [s \in Seqs |-> 0]]
    /\ sc_info = << >>
    /\ data = [s \in Seqs |-> [i \in Idx |-> Blank]]
    /\ hist = [s \in Seqs |-> << >>]
    /\ dec = AtRest
    /\ cur = {}

---------------------------------------------------------------------------
(* The operations of the interface.                                        *)

\* What a caller may rely on before it keeps only the positions below p:
\* seq_pos_min tells it whether the window of position p is still stored.
WindowStored(s, p) ==
    \A q \in 0 .. p - 1 : ~Masked(q, p) => q >= SeqPosMin(Cells(s), s) /\ SeqPosMin(Cells(s), s) >= 0

\* The key of a cell without owner is never read; it is forgotten as soon as
\* no queued copy can still move it under a cell that has one.
Forget(d, x, q) ==
    [s \in Seqs |-> [i \in Idx |->
        IF q = << >> /\ IsEmpty(x.cells[s], i) THEN Blank ELSE d[s][i]]]

SetKv(x) == /\ kv' = x
            /\ data' = Forget(data, x, sc_info)
            /\ cur' = {}

Clear ==
    /\ SetKv([cells |-> [s \in Seqs |-> Reset], head |-> [s \in Seqs |-> 0]])
    /\ hist' = [s \in Seqs |-> << >>]
    /\ dec' = AtRest
    /\ UNCHANGED <<mode, sc_info>>

SeqRmOp(s, p) ==
    /\ Idle
    /\ SetKv(SeqRm(kv, Strm(s), s, p, -1))
    /\ hist' = [hist EXCEPT ![s] = SubSeq(@, 1, p)]
    /\ UNCHANGED <<mode, sc_info, dec>>

\* A prefix of src becomes the text of dst: dst is emptied, then the copy.
\* Between streams only a whole sequence can be copied.
SeqCpOp(src, dst, p) ==
    /\ Idle /\ src # dst
    /\ hist' = [hist EXCEPT ![dst] = SubSeq(hist[src], 1, p)]
    /\ LET k == SeqRm(kv, Strm(dst), dst, 0, -1)
       IN  \/ /\ Unified
              /\ SetKv(SeqCpShare(k, 0, src, dst, 0, p))
              /\ UNCHANGED sc_info
           \/ /\ ~Unified /\ p = Len(hist[src]) /\ Len(sc_info) < mode.copies
              /\ SetKv(SeqCpStream(k, src, dst, src, dst))
              /\ sc_info' = Append(sc_info, <<src, dst>>)
    /\ UNCHANGED <<mode, dec>>

SeqKeepOp(s) ==
    /\ Idle
    /\ SetKv(SeqKeep(kv, Strm(s), s))
    /\ hist' = IF Unified THEN [t \in Seqs |-> IF t = s THEN hist[s] ELSE << >>] ELSE hist
    /\ UNCHANGED <<mode, sc_info, dec>>

\* A context shift: drop [keep, keep + d) and move the rest down by d.  The
\* cells that move belong to s alone (a moved cell moves for all its owners).
ShiftOp(s, keep, d) ==
    LET k == SeqRm(kv, Strm(s), s, keep, keep + d)
        n == Len(hist[s])
    IN  /\ Idle /\ keep + d < n
        /\ \A i \in InRange(k.cells[Strm(s)], s, keep + d, n) : k.cells[Strm(s)].seq[i] = {s}
        /\ SetKv(SeqAdd(k, Strm(s), s, keep + d, n, -d))
        /\ hist' = [hist EXCEPT ![s] = SubSeq(@, 1, keep) \o SubSeq(@, keep + d + 1, n)]
        /\ UNCHANGED <<mode, sc_info, dec>>

---------------------------------------------------------------------------
(* llama_context::decode.                                                  *)

\* memory_update: the queued copies in the order they were asked for, then
\* the K-shift of every stream.
CopyStreams(d, q) == FoldLeft(LAMBDA a, c : [a EXCEPT ![c[2]] = a[c[1]]], d, q)
HasShift(k) == \E s \in Seqs : k.cells[s].has_shift
Rotate(d, k) == [s \in Seqs |-> [i \in Idx |->
                   IF d[s][i] = Spoilt THEN Spoilt
                   ELSE [d[s][i] EXCEPT !.rot = @ + k.cells[s].shift[i]]]]
Spoil(d, k) == [s \in Seqs |-> [i \in Idx |->
                   IF k.cells[s].shift[i] = 0 THEN d[s][i] ELSE Spoilt]]

\* The outcomes of the K-shift.  When its graph cannot be allocated or its
\* computation fails, update returns early and the shifts stay pending; the
\* failure is logged and decode goes on.  The keys that were to be rotated
\* are then rotated in all layers, in some or in none, and what a later
\* K-shift makes of them is not told apart: they are spoilt.
KShift(d, k) ==
    IF ~HasShift(k) THEN {[data |-> d, kv |-> k]}
    ELSE {[data |-> Rotate(d, k), kv |-> [k EXCEPT !.cells = [s \in Seqs |-> ResetShift(@[s])]]],
          [data |-> Spoil(d, k), kv |-> k]}

\* The tokens of a batch: n[s] tokens of every sequence, from sequence f on.
BatchOf(n, f) ==
    LET order == [k \in 1 .. NSeq |-> (f + k - 1) % NSeq]
        Of(s) == [j \in 1 .. n[s] |-> [s |-> s, p |-> Len(hist[s]) + j - 1]]
    IN  FoldLeft(LAMBDA a, s : a \o Of(s), << >>, order)

Batches == {BatchOf(n, f) : f \in Seqs,
                n \in {m \in [Seqs -> 0 .. MaxTok] :
                          \A s \in Seqs : Len(hist[s]) + m[s] <= mode.text}}

Group(st, toks) == [strm |-> st, toks |-> toks, idxs |-> << >>]
TokensOf(ub) == UNION {Range(ub[j].toks) : j \in DOMAIN ub}

\* split_simple: NUbatch tokens at a time, in the order of the batch.
SplitSimple(b) ==
    [k \in 1 .. (Len(b) + NUbatch - 1) \div NUbatch |->
        <<Group(0, SubSeq(b, (k - 1) * NUbatch + 1, Min({k * NUbatch, Len(b)})))>>]

\* split_equal(sequential): the first sequence with tokens left and those
\* whose ids follow it, with the same number of tokens each.
Joining(b) ==
    FoldLeft(LAMBDA a, t : IF a = << >> \/ t.s = Last(a) + 1 THEN Append(a, t.s) ELSE a, << >>, b)
TakeEqual(b) ==
    LET ss == Joining(b)
        Of(s) == Only(b, {t \in Range(b) : t.s = s})
        k  == Min({Len(Of(ss[j])) : j \in DOMAIN ss} \cup {Max({1, NUbatch \div Len(ss)})})
    IN  [j \in DOMAIN ss |-> Group(ss[j], SubSeq(Of(ss[j]), 1, k))]
SplitEqual(b) ==
    LET Left(a, ub) == Only(a, Range(a) \ TokensOf(ub))
        More(a, t) == IF a.left = << >> THEN a
                      ELSE LET ub == TakeEqual(a.left)
                           IN  [left |-> Left(a.left, ub), ubs |-> Append(a.ubs, ub)]
    IN  FoldLeft(More, [left |-> b, ubs |-> << >>], b).ubs

Split(b) == IF Unified THEN SplitSimple(b) ELSE SplitEqual(b)

\* prepare: find a slot for each ubatch, place it to see where the next one
\* would go, and in the end put back the cells and heads that were saved.
WithSlot(k, ub) ==
    [j \in DOMAIN ub |-> [ub[j] EXCEPT !.idxs =
        FindSlot(mode.swa, k.cells[ub[j].strm], k.head[ub[j].strm], Len(ub[j].toks))]]
SlotFound(ub) == \A j \in DOMAIN ub : ub[j].idxs # << >>

TryOne(a, ub) ==
    LET u == WithSlot(a.kv, ub)
    IN  IF ~a.ok \/ ~SlotFound(u) THEN [a EXCEPT !.ok = FALSE]
        ELSE [ok |-> TRUE, kv |-> ApplyUbatch(a.kv, u), found |-> Append(a.found, u),
              undo |-> Append(a.undo,
                  [ub |-> u, head |-> a.kv.head,
                   saved |-> [j \in DOMAIN u |-> Cp(a.kv.cells[u[j].strm], u[j].idxs)]])]

\* The head put back is the one at the index of the group, not of its stream.
UndoOne(k, u) ==
    FoldLeft(LAMBDA a, j : LET g == u.ub[j] IN
                Put(a, g.strm, Set(a.cells[g.strm], g.idxs, u.saved[j]), u.head[j - 1]),
             k, [j \in DOMAIN u.ub |-> j])

Prepare(k, ubs) ==
    LET a == FoldLeft(TryOne, [ok |-> TRUE, kv |-> k, found |-> << >>, undo |-> << >>], ubs)
    IN  [ok |-> a.ok, found |-> a.found, kv |-> FoldLeft(UndoOne, a.kv, Reverse(a.undo))]

\* decode up to its first ubatch, on a cache k with texts h.  A batch that
\* does not fit is tried once more if there is still something to update,
\* which is a K-shift that has failed.  In the end the outputs of the batch
\* may find no memory.
Refused == [status |-> "refused", ubs |-> << >>]
Tried(u, try) ==
    /\ kv' = try.kv
    /\ data' = Forget(u.data, try.kv, << >>)
    /\ dec' \in {Refused} \cup (IF try.ok THEN {[status |-> "ubatches", ubs |-> try.found]} ELSE {})
DecodeFrom(k, h, b) ==
    LET ubs == Split(b)
    IN  /\ Len(ubs) \in 1 .. mode.ubatches
        /\ \E u \in KShift(CopyStreams(data, sc_info), k) :
              LET try == Prepare(u.kv, ubs)
              IN  IF try.ok \/ ~HasShift(try.kv) THEN Tried(u, try)
                  ELSE \E v \in KShift(u.data, try.kv) : Tried(v, Prepare(v.kv, ubs))
        /\ hist' = h
        /\ sc_info' = << >>
        /\ cur' = {}
        /\ UNCHANGED mode

DecodeStart(b) == Idle /\ DecodeFrom(kv, hist, b)

\* process_ubatch: take the cells, write the keys of the tokens (tok[x] is the
\* value of x), compute the graph.
Written(ub, tok) ==
    [st \in Seqs |-> [i \in Idx |->
        IF \E j \in DOMAIN ub : ub[j].strm = st /\ Contains(ub[j].idxs, i)
        THEN LET g == CHOOSE g \in Range(ub) : g.strm = st
                 k == CHOOSE k \in DOMAIN g.idxs : g.idxs[k] = i
             IN  [tok |-> tok[g.toks[k]], rot |-> g.toks[k].p]
        ELSE data[st][i]]]

ComputeUbatch(tok) ==
    /\ dec.status = "ubatches"
    /\ LET ub == Head(dec.ubs)
       IN  /\ kv' = ApplyUbatch(kv, ub)
           /\ data' = Forget(Written(ub, tok), kv', << >>)
           /\ hist' = [s \in Seqs |-> hist[s] \o
                  [k \in 1 .. Cardinality({x \in TokensOf(ub) : x.s = s}) |->
                      tok[[s |-> s, p |-> Len(hist[s]) + k - 1]]]]
           /\ cur' = TokensOf(ub)
           /\ dec' = IF Len(dec.ubs) = 1 THEN AtRest ELSE [dec EXCEPT !.ubs = Tail(@)]
    /\ UNCHANGED <<mode, sc_info>>

\* The computation fails or is aborted: the positions of this ubatch are
\* removed again, the ubatches behind it are dropped.
Retract(k, ub) ==
    FoldSet(LAMBDA s, a : SeqRm(a, Strm(s), s, Min({t.p : t \in {x \in TokensOf(ub) : x.s = s}}), -1),
            k, {t.s : t \in TokensOf(ub)})

UbatchFails ==
    /\ dec.status = "ubatches"
    /\ kv' = Retract(ApplyUbatch(kv, Head(dec.ubs)), Head(dec.ubs))
    /\ data' = Forget(data, kv', << >>)
    /\ cur' = {}
    /\ dec' = AtRest
    /\ UNCHANGED <<mode, sc_info, hist>>

---------------------------------------------------------------------------
\* A caller that consults seq_pos_min before it rolls a sequence back, and
\* gives the cache up after a decode that was refused.
Next ==
    \/ \E b \in Batches : DecodeStart(b)
    \/ \E t \in Toks : ComputeUbatch([x \in TokensOf(Head(dec.ubs)) |-> t])
    \/ UbatchFails
    \/ \E s \in Seqs, p \in Pos :
          p < Len(hist[s]) /\ WindowStored(s, p) /\ SeqRmOp(s, p)
    \/ \E src, dst \in Seqs, p \in Pos :
          p \in 1 .. Len(hist[src]) /\ WindowStored(src, p) /\ SeqCpOp(src, dst, p)
    \/ \E s \in Seqs : SeqKeepOp(s)
    \/ \E s \in Seqs, keep \in 0 .. 1, d \in 1 .. 2 :
          mode.shift /\ ShiftOp(s, keep, d)
    \/ (Idle \/ dec.status = "refused") /\ Clear

Spec == Init /\ [][Next]_vars

---------------------------------------------------------------------------
(* Properties.                                                             *)

TypeOK ==
    /\ mode \in Modes
    /\ \A s \in Seqs : /\ kv.cells[s] \in CellsType
                       /\ kv.head[s] \in 0 .. Size
                       /\ Len(hist[s]) <= MaxPos + 1
    /\ sc_info \in Seq(Seqs \X Seqs)
    /\ dec.status \in {"idle", "ubatches", "refused"}

(***************************************************************************)
(* The three views llama_kv_cells keeps of the cells agree whatever the    *)
(* order of operations, prepare's trial placement and recovery included: a *)
(* cell is in "used" exactly when it has a position, which it has exactly  *)
(* when some sequence owns it, and seq_pos counts the cells of every       *)
(* sequence at every position.  A wrong count is a wrong seq_pos_max, from *)
(* which find_slot decides what may be overwritten.                        *)
(***************************************************************************)
IndexExact ==
    \A st \in Seqs :
        LET c == kv.cells[st]
        IN  /\ \A i \in Idx : /\ (i \in c.used) <=> (c.pos[i] # -1)
                              /\ (c.seq[i] = {}) <=> (c.pos[i] = -1)
            /\ \A s \in Seqs, p \in Pos :
                  c.seq_pos[s][p] = Cardinality({i \in Idx : s \in c.seq[i] /\ c.pos[i] = p})

\* What set_input_kq_mask leaves visible to token t at position q: the cells
\* below get_n_kv (with a padding of 1) that its sequence has there.
NKv == Max({UsedMaxP1(kv.cells[s]) : s \in {Strm(x.s) : x \in cur}})
Visible(t, q) == {i \in Idx : /\ i < NKv
                              /\ t.s \in Cells(t.s).seq[i]
                              /\ Cells(t.s).pos[i] = q}

(***************************************************************************)
(* When a ubatch is computed, each of its tokens attends to its whole      *)
(* window and to nothing else: for every position of its sequence that is  *)
(* not masked there is exactly one cell, and the key in it was computed    *)
(* from the token that the text has there and is rotated for that          *)
(* position.  Overwriting, purging, sharing, shifting, copies that were    *)
(* queued and failed ubatches all have to be right for this.  A key whose  *)
(* K-shift has failed is excepted, that key alone: see ShiftsHandled.      *)
(***************************************************************************)
AttentionExact ==
    \A t \in cur : \A q \in 0 .. t.p :
        ~Masked(q, t.p) =>
            \E i \in Idx : /\ Visible(t, q) = {i}
                           /\ data[Strm(t.s)][i] \in {[tok |-> hist[t.s][q + 1], rot |-> q], Spoilt}

(***************************************************************************)
(* Before a batch is prepared, decode is to "handle any pending shifts":   *)
(* no token attends to a key that is rotated for another position than the *)
(* one its cell has now.                                                   *)
(***************************************************************************)
ShiftsHandled ==
    \A t \in cur : \A q \in 0 .. t.p :
        ~Masked(q, t.p) => \A i \in Visible(t, q) : data[Strm(t.s)][i] # Spoilt

(***************************************************************************)
(* llama.h on seq_pos_min and seq_pos_max: all positions between them are  *)
(* present (the purge of apply_ubatch is there for this), and the last of  *)
(* them is the end of the text, where the batch check makes a caller go on *)
(***************************************************************************)
PositionsPresent ==
    Idle =>
        \A s \in Seqs : LET c == Cells(s)
                        IN  /\ SeqPositions(c, s) = SeqPosMin(c, s) .. SeqPosMax(c, s) \ {-1}
                            /\ SeqPosMax(c, s) \in {-1, Len(hist[s]) - 1}

(***************************************************************************)
(* prepare "only find[s] a suitable slot for the ubatch. don't modify the  *)
(* cells yet" and "restore[s] the cells to their original state": after it *)
(* every cell has the position it had, whether the batch fits or not.      *)
(***************************************************************************)
PrepareRestores ==
    [][Idle /\ dec'.status # "idle" =>
          \A s \in Seqs : kv'.cells[s].pos = kv.cells[s].pos]_vars
=============================================================================

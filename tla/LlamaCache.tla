----------------------------- MODULE LlamaCache ------------------------------
(***************************************************************************)
(* The llama.cpp runner over its key/value cache: the slots of             *)
(* runner/llamarunner/cache.go, the batch loop that fills them and the     *)
(* windowed cache (KvCache with swa_full = FALSE and a stream per slot)    *)
(* they stand for.  The full-size cache of the layers without a window     *)
(* holds whatever the windowed one holds and is left out.  One mutex is    *)
(* held by LoadCacheSlot and by a whole pass of the batch loop, so that no *)
(* slot is loaded while a decode is in progress.                           *)
(***************************************************************************)
EXTENDS KvCache

CONSTANTS Prompts,   \* the prompts of requests, sequences over Toks of at most NumCtx
          NumCtx,    \* numCtx: the context of one slot
          BatchSize  \* batchSize: inputs of one sequence in one pass

VARIABLE slots  \* per slot: Inputs and InUse, and of its sequence inputs,
                \* the number of pendingInputs and whether it may be shifted

Free(in) == [Inputs |-> in, InUse |-> FALSE, left |-> << >>, pending |-> 0, shift |-> FALSE]

LInit == Init /\ slots = [s \in Seqs |-> Free(<< >>)]

CommonPrefix(a, b) == Max({n \in 0 .. Min({Len(a), Len(b)}) : SubSeq(a, 1, n) = SubSeq(b, 1, n)})

\* findLongestCacheSlot: the first of the slots not in use with the longest
\* prefix of the prompt.
Longest(prompt) ==
    LET free == {s \in Seqs : ~slots[s].InUse}
        n(s) == CommonPrefix(slots[s].Inputs, prompt)
    IN  Min({s \in free : \A t \in free : n(t) <= n(s)})

\* KvCacheSeqRm always succeeds on this cache: the prefix is kept.
LoadCacheSlot(prompt, cachePrompt, shift) ==
    LET s == Longest(prompt)
        n == IF cachePrompt THEN CommonPrefix(slots[s].Inputs, prompt) ELSE 0
        numPast == IF n = Len(prompt) THEN n - 1 ELSE n
    IN  /\ \E t \in Seqs : ~slots[t].InUse
        /\ SeqRmOp(s, numPast)
        /\ slots' = [slots EXCEPT ![s] =
              [Inputs |-> SubSeq(prompt, 1, numPast), InUse |-> TRUE, pending |-> 0,
               left |-> SubSeq(prompt, numPast + 1, Len(prompt)), shift |-> shift]]

(***************************************************************************)
(* A pass of processBatch up to its Decode.  A sequence whose slot is full *)
(* ends, or, as a windowed cache cannot be shifted, has its slot cleared   *)
(* and its inputs (without the half that is discarded) put back before the *)
(* others.                                                                 *)
(***************************************************************************)
Full(s) == slots[s].InUse /\ Len(slots[s].Inputs) + 1 > NumCtx
Discard == Max({NumCtx \div 2, 1})   \* ShiftDiscard with nothing free and numKeep = 0
Reprocess(x) == [x EXCEPT !.Inputs = << >>,
                          !.left = SubSeq(x.Inputs, Discard + 1, Len(x.Inputs)) \o @]
Take(s) == IF ~slots[s].InUse \/ Full(s) THEN 0
           ELSE Min({Len(slots[s].left), BatchSize, NumCtx - Len(slots[s].Inputs)})

Cleared(k) == FoldSet(LAMBDA s, a : SeqRm(a, s, s, 0, -1), k, {s \in Seqs : Full(s) /\ slots[s].shift})

ProcessBatch ==
    LET b == BatchOf([s \in Seqs |-> Take(s)], 0)
        h == [s \in Seqs |-> IF Full(s) /\ slots[s].shift THEN << >> ELSE hist[s]]
    IN  /\ Idle /\ \E s \in Seqs : slots[s].InUse
        /\ slots' = [s \in Seqs |->
              IF ~Full(s) THEN [slots[s] EXCEPT !.pending = Take(s)]
              ELSE IF slots[s].shift THEN Reprocess(slots[s]) ELSE Free(slots[s].Inputs)]
        /\ \/ b # << >> /\ DecodeFrom(Cleared(kv), h, b)
           \/ /\ b = << >> /\ SetKv(Cleared(kv)) /\ hist' = h
              /\ UNCHANGED <<mode, sc_info, dec>>

\* What a sequence does with its sampled token: go on with it, or end with
\* an end-of-sequence token or a stop string that takes cut inputs back.
Sampled(x, t) == [x EXCEPT !.left = <<t>>]
Ended(x, cut) == Free(SubSeq(x.Inputs, 1, Len(x.Inputs) - cut))

\* One ubatch of the decode; after the last one the pending inputs are in
\* the cache and every sequence without inputs samples a token.
Decode ==
    LET tok == [x \in TokensOf(Head(dec.ubs)) |-> slots[x.s].left[x.p - Len(slots[x.s].Inputs) + 1]]
        In(x) == [x EXCEPT !.Inputs = @ \o SubSeq(x.left, 1, x.pending), !.pending = 0,
                           !.left = SubSeq(@, x.pending + 1, Len(@))]
        Next1(x) == IF ~x.InUse \/ x.left # << >> THEN {x}
                    ELSE {Sampled(x, t) : t \in Toks}
                         \cup {Ended(x, c) : c \in 0 .. Min({1, Len(x.Inputs)})}
    IN  /\ ComputeUbatch(tok)
        /\ IF Len(dec.ubs) > 1 THEN slots' = slots
           ELSE \E x \in [Seqs -> UNION {Next1(In(slots[s])) : s \in Seqs}] :
                    /\ \A s \in Seqs : x[s] \in Next1(In(slots[s]))
                    /\ slots' = x

LNext ==
    \/ \E p \in Prompts, c, sh \in BOOLEAN : LoadCacheSlot(p, c, sh)
    \/ ProcessBatch
    \/ Decode

LSpec == LInit /\ [][LNext]_<<vars, slots>>

(***************************************************************************)
(* "Inputs that are stored in the KV cache" (InputCacheSlot.Inputs): the   *)
(* next input of a sequence finds in the windowed cache every position of  *)
(* its slot's inputs that its window reaches.                              *)
(***************************************************************************)
InputsAreStored ==
    Idle => \A s \in Seqs :
        LET n == Len(slots[s].Inputs)
        IN  slots[s].InUse =>
              \A q \in 0 .. n - 1 : ~Masked(q, n) => Cells(s).seq_pos[s][q] > 0
=============================================================================

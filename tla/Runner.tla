-------------------------------- MODULE Runner --------------------------------
(***************************************************************************)
(* The batch loop of the runner (runner/ollamarunner/runner.go) and its    *)
(* input cache (cache.go).  Three kinds of process share the state under   *)
(* the mutex mu: the handlers of completion requests, the loop of run,     *)
(* which builds batches (forwardBatch), and a goroutine per batch          *)
(* (computeBatch).  A batch is built while its predecessor is computed:    *)
(* the token its inputs need is not known yet, so the input is a           *)
(* placeholder that is filled in when the predecessor's output is sampled. *)
(*                                                                         *)
(* A section under mu is one action.  flushPending may wait inside one for *)
(* room in a request's channel; the action waits for that room instead,    *)
(* as the reader of the channel needs nothing that mu protects.  Inputs    *)
(* are text tokens, and a cache of full attention keeps every position.    *)
(***************************************************************************)
EXTENDS Integers, Sequences, FiniteSets, SequencesExt, FiniteSetsExt

CONSTANTS Req,        \* completion requests
          Calls,      \* per request: its possible [prompt, numPredict, numKeep, shift, truncate]
          Impatient,  \* the requests whose client may hang up
          Toks,       \* token values
          Kinds,      \* per token: what its text may do when sampled, see Outcomes
          NumCtx,     \* numCtx: context of one slot
          BatchSize,  \* batchSize
          RespCap,    \* capacity of the channel of responses
          Confs,      \* [parallel: places for sequences, and cache slots; multi:
                      \*  multiUserCache; shiftable: the cache has a shiftFn]
          None, Zero, Eos, Pending, Panicked  \* model values

ASSUME SizesAssumption ==
    /\ {NumCtx, BatchSize, RespCap} \cup {c.parallel : c \in Confs} \subseteq Nat \ {0}
    /\ BatchSize <= NumCtx
    \* every generation has an end: a limit, or a context that is not shifted
    /\ \A q \in Req : \A c \in Calls[q] : c.numPredict > 0 \/ ~c.shift

\* NewSequence refuses a prompt without inputs.
ASSUME ArgsAssumption ==
    /\ None \notin Req
    /\ \A c \in Confs : {c.multi, c.shiftable} \subseteq BOOLEAN
    /\ \A q \in Req : \A c \in Calls[q] :
          /\ c.prompt \in Seq(Toks) /\ c.prompt # << >>
          /\ {c.numPredict, c.numKeep} \subseteq Int /\ c.shift \in BOOLEAN

\* The mark of a key that is still to be computed is no token.
ASSUME MarkAssumption == Pending \notin Toks \cup {Zero, Eos}

VARIABLES conf,    \* chosen once
          hpc,     \* per request: where its handler is
          gone,    \* the requests whose client has hung up
          queue,   \* requests waiting for seqsSem, first come first served
          got,     \* per request: the items its handler has sent on
          srv,     \* the state under mu, see Init
          last,    \* previousBatch: "nil" (no ctx), "flying" or "done"
          flight,  \* the batches not yet done, in the order they were built
          early,   \* an empty batch has let one start before its predecessor's outputs
          down     \* the runner has panicked

vars == <<conf, hpc, gone, queue, got, srv, last, flight, early, down>>

Parallel == conf.parallel
Idx == 0 .. Parallel - 1
CellIds == 1 .. Parallel * NumCtx

-----------------------------------------------------------------------------
(***************************************************************************)
(* Inputs.  An input of a prompt is its token; the k-th token predicted    *)
(* for q is the object <<q, k>>, whose Token field is tok[q][k], Zero      *)
(* until it is sampled.  A piece of text is named by its token's object.   *)
(***************************************************************************)
Val(tok, inp) == IF inp \in Toks THEN inp ELSE tok[inp[1]][inp[2]]
Vals(tok, ins) == [i \in 1 .. Len(ins) |-> Val(tok, ins[i])]

CommonPrefix(x, y) == Max({n \in 0 .. Min({Len(x), Len(y)}) : SubSeq(x, 1, n) = SubSeq(y, 1, n)})

NoSeq == [inputs |-> << >>, pending |-> << >>, numPredicted |-> 0, slot |-> 0, held |-> << >>,
          iBatch |-> 0, numPredict |-> 0, numKeep |-> 0, shift |-> FALSE, prompt |-> << >>]

Init ==
    /\ conf \in Confs
    /\ hpc = [q \in Req |-> "new"] /\ gone = {} /\ queue = << >>
    /\ got = [q \in Req |-> << >>]
    /\ srv = [sem |-> Parallel,                              \* permits of seqsSem
              seqs |-> [i \in Idx |-> None],
              seq |-> [q \in Req |-> NoSeq],
              tok |-> [q \in Req |-> << >>],
              ch |-> [q \in Req |-> << >>],                   \* responses
              closed |-> {},                                  \* whose channels are closed
              slots |-> [s \in Idx |-> [Inputs |-> << >>, InUse |-> FALSE]],
              lru |-> [i \in 1 .. Parallel |-> i - 1],        \* by lastUsed
              kv |-> [s \in Idx |-> << >>],                   \* cells of a slot by position
              cell |-> [c \in CellIds |-> None],              \* what was computed into a cell
              nextSeq |-> 0]
    /\ last = "nil" /\ flight = << >> /\ early = FALSE /\ down = FALSE

-----------------------------------------------------------------------------
(* The input cache. *)

\* countCommonPrefix of each slot's inputs and a prompt
CachedPrefixes(x, prompt) == [s \in Idx |-> CommonPrefix(Vals(x.tok, x.slots[s].Inputs), prompt)]

\* findLongestCacheSlot and findBestCacheSlot, given those lengths: the slot,
\* the inputs to reuse and the slot that has them
Find(x, n) ==
    LET free == {s \in Idx : ~x.slots[s].InUse}
        Longest(S) == Min({s \in S : \A t \in S : n[t] <= n[s]})
        Use(s, from) == [slot |-> s, numPast |-> n[from], from |-> IF n[from] > 0 THEN from ELSE s]
        long == Longest(Idx)
        oldest == x.lru[Min({j \in DOMAIN x.lru : x.lru[j] \in free})]
    IN  IF ~conf.multi THEN Use(Longest(free), Longest(free))
        ELSE IF n[long] = Len(x.slots[long].Inputs) /\ long \in free THEN Use(long, long)
        ELSE Use(oldest, long)

\* LoadCacheSlot with cachePrompt: a prefix found in another slot is copied
\* (the cells are shared), the rest of the slot is removed and one input is
\* left to sample from.
LoadCacheSlot(x, q, f) ==
    LET prompt == x.seq[q].prompt
        numPast == IF f.numPast = Len(prompt) THEN f.numPast - 1 ELSE f.numPast
    IN  [x EXCEPT !.slots[f.slot] = [Inputs |-> SubSeq(prompt, 1, numPast), InUse |-> TRUE],
                  !.lru = Append(RemoveAt(@, CHOOSE j \in DOMAIN @ : @[j] = f.slot), f.slot),
                  !.kv[f.slot] = SubSeq(x.kv[f.from], 1, numPast),
                  !.seq[q].slot = f.slot,
                  !.seq[q].inputs = SubSeq(prompt, numPast + 1, Len(prompt))]

Owned(x) == UNION {Range(x.kv[s]) : s \in Idx}
\* What a cell holds that no slot owns does not matter.
Tidy(x) == [x EXCEPT !.cell = [c \in CellIds |-> IF c \in Owned(x) THEN @[c] ELSE None]]

ShiftDiscard(x, s, keep) == Max({Max({(NumCtx - keep) \div 2, 1}) - (NumCtx - Len(x.slots[s].Inputs)), 0})

\* Remove of a range in the middle: refused without a shiftFn, and when a
\* cell that would move is shared with another slot.
CanShift(x, s, keep, discard) ==
    /\ conf.shiftable
    /\ \A t \in Idx \ {s} : Range(SubSeq(x.kv[s], keep + discard + 1, Len(x.kv[s]))) \cap Range(x.kv[t]) = {}

Without(sq, keep, discard) == SubSeq(sq, 1, keep) \o SubSeq(sq, keep + discard + 1, Len(sq))

-----------------------------------------------------------------------------
(***************************************************************************)
(* Ending a sequence.  The operators from here on give the set of possible *)
(* results; there is none when the code waits for room in a channel.       *)
(***************************************************************************)
QuitClosed(q) == hpc[q] = "done"

\* flushPending: the held pieces go as one message, or are lost when the
\* client has gone.
SentKept(x, q) == [x EXCEPT !.ch[q] = Append(@, x.seq[q].held)]  \* slip: not emptied
Sent(x, q) == [x EXCEPT !.ch[q] = Append(@, x.seq[q].held), !.seq[q].held = << >>]
Lost(x, q) == [x EXCEPT !.seq[q].held = << >>]
FlushPending(x, q) ==
    IF x.seq[q].held = << >> THEN {[x |-> x, ok |-> TRUE]}
    ELSE (IF Len(x.ch[q]) < RespCap THEN {[x |-> Sent(x, q), ok |-> TRUE]} ELSE {})
         \cup (IF QuitClosed(q) THEN {[x |-> Lost(x, q), ok |-> FALSE]} ELSE {})

RemoveKeepSlot(x, i) ==   \* slip: the slot stays in use
    LET q == x.seqs[i]
    IN  {[f.x EXCEPT !.closed = @ \cup {q}, !.seqs[i] = None, !.sem = @ + 1,
                     !.seq[q] = [NoSeq EXCEPT !.numPredict = x.seq[q].numPredict]] :
            f \in FlushPending(x, q)}
RemoveSequence(x, i) ==
    LET q == x.seqs[i]
    IN  {[f.x EXCEPT !.closed = @ \cup {q}, !.slots[x.seq[q].slot].InUse = FALSE,
                     !.seqs[i] = None, !.sem = @ + 1,
                     !.seq[q] = [NoSeq EXCEPT !.numPredict = x.seq[q].numPredict]] :
            f \in FlushPending(x, q)}

-----------------------------------------------------------------------------
(***************************************************************************)
(* forwardBatch.  The accumulator a has the state x, the batch so far (its *)
(* inputs with their cells, the owners of its output rows, its sequences)  *)
(* and resumeSeq.                                                          *)
(***************************************************************************)
DroppedSkip(a, i) == {[a EXCEPT !.seqs[i] = None]}   \* slip: skipped, not removed
Dropped(a, i) == {[a EXCEPT !.x = y, !.seqs[i] = None] : y \in RemoveSequence(a.x, i)}

\* ErrReprocessInputs: the slot is emptied and what is kept of its inputs is
\* to be computed again.  (When a context is full the sequence has one input
\* left, see FitsContext, so the loop over its inputs ends here.)
ReprocessOnly(a, i, q, keep, discard) ==   \* slip: the input that did not fit is lost
    LET s == a.x.seq[q].slot
    IN  [a EXCEPT !.x.seq[q].inputs = Without(a.x.slots[s].Inputs, keep, discard),
                  !.x.slots[s].Inputs = << >>, !.x.kv[s] = << >>, !.seqs[i] = None]
Reprocess(a, i, q, keep, discard) ==
    LET s == a.x.seq[q].slot
    IN  [a EXCEPT !.x.seq[q].inputs = Without(a.x.slots[s].Inputs, keep, discard) \o @,
                  !.x.slots[s].Inputs = << >>, !.x.kv[s] = << >>, !.seqs[i] = None]

Shifted(a, s, keep, discard) ==
    [a EXCEPT !.x.slots[s].Inputs = Without(@, keep, discard), !.x.kv[s] = Without(@, keep, discard)]

\* The first free cells, for the inputs that fit into batch and context.
Fresh(a, r) ==
    LET free == CellIds \ Owned(a.x)
        take == Min({Len(r.inputs), BatchSize - Len(a.ins), NumCtx - Len(a.x.slots[r.slot].Inputs)})
    IN  [j \in 1 .. take |-> CHOOSE c \in free : Cardinality({d \in free : d <= c}) = j]

\* Adding q's first inputs to the batch, in the cells new.
Fill(a, i, q, new) ==
    LET r == a.x.seq[q]
        take == Len(new)
    IN  [a EXCEPT !.ins = @ \o [j \in 1 .. take |-> [inp |-> r.inputs[j], cell |-> new[j]]],
                  !.outs = IF take = Len(r.inputs) THEN Append(@, <<q, r.numPredicted + 1>>) ELSE @,
                  !.resume = IF take = 0 /\ @ = -1 THEN i ELSE @,
                  !.x.kv[r.slot] = @ \o new,
                  !.x.cell = [c \in CellIds |-> IF c \in Range(new) THEN Pending ELSE @[c]],
                  !.x.seq[q] = [r EXCEPT !.pending = SubSeq(r.inputs, 1, take),
                                         !.inputs = SubSeq(r.inputs, take + 1, Len(r.inputs)),
                                         !.iBatch = IF take = 0 THEN r.iBatch ELSE Len(a.outs) + 1]]

PastLimit(r) == r.numPredict > 0 /\ r.numPredicted >= r.numPredict

ForwardSeq(a, i) ==
    LET q == a.x.seqs[i]
        r == a.x.seq[q]
        full == Len(a.ins) < BatchSize /\ Len(a.x.slots[r.slot].Inputs) + 1 > NumCtx
        discard == ShiftDiscard(a.x, r.slot, r.numKeep)
    IN  IF q = None THEN {a}
        ELSE IF PastLimit(r) \/ (full /\ ~r.shift) THEN Dropped(a, i)
        ELSE IF full /\ ~CanShift(a.x, r.slot, r.numKeep, discard)
             THEN {Reprocess(a, i, q, r.numKeep, discard)}
        ELSE UNION {{Fill(b, i, q, new) : new \in {Fresh(b, r)}} :
                       b \in {IF full THEN Shifted(a, r.slot, r.numKeep, discard) ELSE a}}

ForwardOne(A, k) == UNION {ForwardSeq(a, k) : a \in A}

StartedAlways == TRUE   \* slip: computeStartedCh is not waited for
PendingStarted == last = "flying" => flight[Len(flight)].st # "built"

\* Waits for the pending batch to have started and for a sequence; a batch
\* without a pending one has its inputs ready.
Order == [j \in 1 .. Parallel |-> (srv.nextSeq + j - 1) % Parallel]
ForwardBatch ==
    /\ ~down
    /\ PendingStarted
    /\ \E i \in Idx : srv.seqs[i] # None
    /\ \E a \in FoldLeft(ForwardOne,
                         {[x |-> srv, ins |-> << >>, outs |-> << >>, seqs |-> srv.seqs, resume |-> -1]},
                         Order) :
        /\ srv' = [Tidy(a.x) EXCEPT !.nextSeq = IF a.resume # -1 THEN a.resume ELSE (Order[Parallel] + 1) % Parallel]
        /\ IF a.ins = << >>
           THEN /\ last' = "nil"
                /\ early' = (early \/ (last = "flying" /\ \E i \in Idx : a.x.seqs[i] # None))
                /\ UNCHANGED flight
           ELSE /\ flight' = Append(flight,
                       [st |-> "built", ready |-> last # "flying", seqs |-> a.seqs, ins |-> a.ins,
                        outs |-> a.outs, next |-> [i \in Idx |-> None], rows |-> [i \in Idx |-> 0]])
                /\ last' = "flying"
                /\ UNCHANGED early
        /\ UNCHANGED <<conf, hpc, gone, queue, got, down>>

-----------------------------------------------------------------------------
(***************************************************************************)
(* computeBatch.  Its first section reads the inputs' tokens, moves the    *)
(* pending inputs into the slots and gives every sequence that will sample *)
(* a placeholder; then the computation starts, which lets forwardBatch go  *)
(* on.  The keys of the batch are those of the tokens read here.           *)
(***************************************************************************)
Gathers(b, i) == srv.seqs[i] # None /\ b.seqs[i] = srv.seqs[i]

ReadyAlways(b) == TRUE   \* slip: the predecessor's outputs are not waited for
InputsReady(b) == b.ready

\* The sequences of the batch that are still there, and those that will sample.
Mine(b) == {srv.seqs[i] : i \in {j \in Idx : Gathers(b, j)}}
Samplers(b) == {q \in Mine(b) : srv.seq[q].inputs = << >>}
Place(q) == <<q, srv.seq[q].numPredicted + 1>>

\* The pending inputs of G go to their slots, S get a placeholder for the token
\* to be sampled, and the batch takes what it has to compute.
Gathered(b, G, S) ==
    LET Read(c) == Val(srv.tok, (CHOOSE e \in Range(b.ins) : e.cell = c).inp)
    IN  [srv EXCEPT
            !.cell = [c \in CellIds |-> IF @[c] = Pending THEN Read(c) ELSE @[c]],
            !.slots = [s \in Idx |->
                IF \E q \in G : srv.seq[q].slot = s
                THEN [srv.slots[s] EXCEPT !.Inputs =
                         srv.slots[s].Inputs \o srv.seq[CHOOSE q \in G : srv.seq[q].slot = s].pending]
                ELSE srv.slots[s]],
            !.seq = [q \in Req |->
                IF q \in S THEN [srv.seq[q] EXCEPT !.pending = << >>, !.inputs = <<Place(q)>>,
                                                   !.numPredicted = srv.seq[q].numPredicted + 1]
                ELSE IF q \in G THEN [srv.seq[q] EXCEPT !.pending = << >>] ELSE srv.seq[q]],
            !.tok = [q \in Req |-> IF q \in S THEN Append(@[q], Zero) ELSE @[q]]]

Computing(b, S) ==
    [b EXCEPT !.st = "computing",
              !.next = [i \in Idx |-> IF srv.seqs[i] \in S THEN Place(srv.seqs[i]) ELSE None],
              !.rows = [i \in Idx |-> IF srv.seqs[i] \in S THEN srv.seq[srv.seqs[i]].iBatch ELSE 0]]

Gather(k) ==
    LET b == flight[k]
    IN  /\ ~down /\ b.st = "built" /\ InputsReady(b)
        /\ \E G \in {Mine(b)}, S \in {Samplers(b)} :
              /\ srv' = Gathered(b, G, S)
              /\ flight' = [flight EXCEPT ![k] = Computing(b, S)]
        /\ UNCHANGED <<conf, hpc, gone, queue, got, last, early, down>>

(***************************************************************************)
(* The second section: every sequence now in a place that had one to       *)
(* sample takes a token from that place's row.  Its text goes to the       *)
(* client (send), is held back as the possible start of a stop sequence or *)
(* half a character (hold), or completes a stop sequence that began        *)
(* cut pieces earlier (stop), which are taken back from the slot; or the   *)
(* token is an end of sequence.                                            *)
(***************************************************************************)
Outcomes(x, q) ==
    {[tok |-> Eos, kind |-> "eos", cut |-> 0]}
    \cup {o \in [tok : Toks, kind : {"send", "hold", "stop"}, cut : 0 .. Len(x.seq[q].held)] :
             o.kind \in Kinds[o.tok] /\ (o.kind # "stop" => o.cut = 0)}

HeldAfter(held, piece, o) ==
    CASE o.kind = "eos" -> held
      [] o.kind = "stop" -> SubSeq(held, 1, Len(held) - o.cut)
      [] OTHER -> Append(held, piece)

Decoded(x, b, i, o) ==
    LET s == x.seq[x.seqs[i]].slot
    IN  [x EXCEPT !.tok[b.next[i][1]][b.next[i][2]] = o.tok,
                  !.seq[x.seqs[i]].held = HeldAfter(@, b.outs[b.rows[i]], o),
                  !.slots[s].Inputs = SubSeq(@, 1, Len(@) - o.cut)]

DecodeOne(x, b, i, o) ==
    LET q == x.seqs[i]
        y == Decoded(x, b, i, o)
    IN  IF Len(x.slots[x.seq[q].slot].Inputs) < o.cut THEN {Panicked}
        ELSE CASE o.kind \in {"eos", "stop"} -> RemoveSequence(y, i)
               [] o.kind = "hold" -> {y}
               [] o.kind = "send" -> UNION {IF f.ok THEN {f.x} ELSE RemoveSequence(f.x, i) : f \in FlushPending(y, q)}

DecodeSeq(x, b, i) ==
    IF x = Panicked \/ x.seqs[i] = None \/ b.next[i] = None THEN {x}
    ELSE UNION {DecodeOne(x, b, i, o) : o \in Outcomes(x, x.seqs[i])}

DecodePlace(b, X, i) == UNION {DecodeSeq(x, b, i) : x \in X}
DecodeAll(b) == FoldLeft(LAMBDA X, i : DecodePlace(b, X, i), {srv}, [j \in 1 .. Parallel |-> j - 1])

Decode(k) ==
    LET b == flight[k]
    IN  /\ ~down /\ b.st = "computing"
        /\ \E x \in DecodeAll(b) :
              /\ srv' = IF x = Panicked THEN srv ELSE x
              /\ down' = (x = Panicked)
        /\ LET rest == IF k < Len(flight) THEN [flight EXCEPT ![k + 1].ready = TRUE] ELSE flight
           IN  flight' = RemoveAt(rest, k)
        /\ last' = IF k = Len(flight) /\ last = "flying" THEN "done" ELSE last
        /\ UNCHANGED <<conf, hpc, gone, queue, got, early>>

-----------------------------------------------------------------------------
(* The handler of a completion request. *)

\* NewSequence: a prompt longer than the context is cut in its middle, or refused.
Truncated(c) ==
    LET n == Len(c.prompt)
        keep == Min({IF c.numKeep < 0 THEN n ELSE c.numKeep, NumCtx - 1})
    IN  [NoSeq EXCEPT !.prompt = IF n > NumCtx THEN Without(c.prompt, keep, n - NumCtx) ELSE c.prompt,
                      !.numKeep = keep, !.shift = c.shift, !.numPredict = c.numPredict]

Arrive(q) ==
    /\ hpc[q] = "new"
    /\ \E c \in Calls[q] :
          IF Len(c.prompt) > NumCtx /\ ~c.truncate
          THEN hpc' = [hpc EXCEPT ![q] = "done"] /\ UNCHANGED <<queue, srv>>
          ELSE /\ hpc' = [hpc EXCEPT ![q] = "waiting"]
               /\ queue' = Append(queue, q)
               /\ srv' = [srv EXCEPT !.seq[q] = Truncated(c)]
    /\ UNCHANGED <<conf, gone, got, last, flight, early, down>>

HangUp(q) ==
    /\ q \in Impatient \ gone /\ hpc[q] \in {"waiting", "admit", "stream"}
    /\ gone' = gone \cup {q}
    /\ UNCHANGED <<conf, hpc, queue, got, srv, last, flight, early, down>>

\* seqsSem.Acquire
Acquire(q) ==
    /\ hpc[q] = "waiting"
    /\ \/ /\ Head(queue) = q /\ srv.sem > 0
          /\ srv' = [srv EXCEPT !.sem = @ - 1]
          /\ hpc' = [hpc EXCEPT ![q] = "admit"]
       \/ /\ q \in gone
          /\ srv' = [srv EXCEPT !.seq[q] = NoSeq]
          /\ hpc' = [hpc EXCEPT ![q] = "done"]
    /\ queue' = SelectSeq(queue, LAMBDA p : p # q)
    /\ UNCHANGED <<conf, gone, got, last, flight, early, down>>

\* The first free place gets the sequence.
Admit(q) ==
    /\ ~down /\ hpc[q] = "admit"
    /\ \E n \in {CachedPrefixes(srv, srv.seq[q].prompt)} : \E f \in {Find(srv, n)} :
          srv' = [Tidy(LoadCacheSlot(srv, q, f))
                      EXCEPT !.seqs[Min({i \in Idx : srv.seqs[i] = None})] = q]
    /\ hpc' = [hpc EXCEPT ![q] = "stream"]
    /\ UNCHANGED <<conf, gone, queue, got, last, flight, early, down>>

\* One turn of the loop that sends responses to the client.
Stream(q) ==
    /\ hpc[q] = "stream"
    /\ \/ /\ srv.ch[q] # << >>
          /\ got' = [got EXCEPT ![q] = @ \o Head(srv.ch[q])]
          /\ srv' = [srv EXCEPT !.ch[q] = Tail(@)]
          /\ UNCHANGED hpc
       \/ /\ (srv.ch[q] = << >> /\ q \in srv.closed) \/ q \in gone
          /\ hpc' = [hpc EXCEPT ![q] = "done"]
          /\ UNCHANGED <<got, srv>>
    /\ UNCHANGED <<conf, gone, queue, last, flight, early, down>>

-----------------------------------------------------------------------------
Finished == /\ \A q \in Req : hpc[q] = "done"
            /\ flight = << >> /\ \A i \in Idx : srv.seqs[i] = None
            /\ UNCHANGED vars
Halted == down /\ UNCHANGED vars

Handler(q) == Arrive(q) \/ Acquire(q) \/ Admit(q) \/ Stream(q)
Compute(k) == k <= Len(flight) /\ (Gather(k) \/ Decode(k))

Next == \/ \E q \in Req : Handler(q) \/ HangUp(q)
        \/ ForwardBatch
        \/ \E k \in 1 .. Len(flight) : Compute(k)
        \/ Finished
        \/ Halted

Spec == Init /\ [][Next]_vars

\* Every goroutine runs, a computation ends, and a client reads or hangs up.
\* The batch that waits for no other is the first in flight.
FairSpec ==
    /\ Spec
    /\ \A q \in Req : WF_vars(Acquire(q)) /\ WF_vars(Admit(q)) /\ WF_vars(Stream(q))
    /\ WF_vars(ForwardBatch)
    /\ WF_vars(Compute(1))

-----------------------------------------------------------------------------
(* Properties.                                                             *)

Live == {srv.seqs[i] : i \in Idx} \ {None}
InputSet == Toks \cup (Req \X Nat)

TypeOK ==
    /\ conf \in Confs /\ gone \subseteq Req /\ down \in BOOLEAN /\ early \in BOOLEAN
    /\ hpc \in [Req -> {"new", "waiting", "admit", "stream", "done"}]
    /\ srv.sem \in 0 .. Parallel /\ srv.seqs \in [Idx -> Req \cup {None}]
    /\ srv.nextSeq \in Idx
    /\ \A q \in Req : /\ Len(srv.ch[q]) <= RespCap
                      /\ Range(srv.seq[q].inputs \o srv.seq[q].pending) \subseteq InputSet
                      /\ Range(srv.tok[q]) \subseteq Toks \cup {Zero, Eos}
    /\ \A s \in Idx : Range(srv.slots[s].Inputs) \subseteq InputSet /\ Len(srv.kv[s]) <= NumCtx
    /\ last = "flying" => flight # << >>
    /\ \A k \in DOMAIN flight : flight[k].st = "built" => k = Len(flight)

(***************************************************************************)
(* "Inputs that are stored in the KV cache" (InputCacheSlot.Inputs): at    *)
(* every position that a slot claims, the cache holds the key of that very *)
(* token, also when the slot was forked, shifted, taken over in mid-flight *)
(* or cut at a stop sequence, and no key was computed from a placeholder.  *)
(* (Except after the case that early records; see the README.)             *)
(***************************************************************************)
StoredInputs ==
    ~early => \A s \in Idx : \A p \in DOMAIN srv.slots[s].Inputs :
        /\ p <= Len(srv.kv[s])
        /\ srv.cell[srv.kv[s][p]] = Val(srv.tok, srv.slots[s].Inputs[p])

(***************************************************************************)
(* What is cached, pending and still to come of a sequence is its prompt   *)
(* and all its predicted tokens in order, less what shifting has discarded *)
(* behind the inputs to keep, and exceeds the context by at most the one   *)
(* token that makes forwardBatch shift.                                    *)
(***************************************************************************)
WholeText ==
    \A q \in Live :
        LET r == srv.seq[q]
            text == r.prompt \o [k \in 1 .. r.numPredicted |-> <<q, k>>]
            now == srv.slots[r.slot].Inputs \o r.pending \o r.inputs
            gap == Len(text) - Len(now)
        IN  /\ now = IF gap = 0 THEN text ELSE Without(text, r.numKeep, gap)
            /\ Len(now) <= NumCtx \/ (Len(now) = NumCtx + 1 /\ Len(r.inputs \o r.pending) = 1)

(***************************************************************************)
(* Of its own tokens a request receives the first ones, each once and in   *)
(* order; a sequence that goes on has had all that were sampled for it     *)
(* sent or held back; and there are never more than num_predict.           *)
(***************************************************************************)
OwnTokensInOrder ==
    ~early => \A q \in Req :
        LET all == got[q] \o FlattenSeq(srv.ch[q]) \o srv.seq[q].held
            own == SelectSeq(all, LAMBDA x : x[1] = q)
            limit == srv.seq[q].numPredict
        IN  /\ own = [k \in 1 .. Len(own) |-> <<q, k>>]
            /\ q \in Live => Len(own) = Cardinality({k \in DOMAIN srv.tok[q] : srv.tok[q][k] # Zero})
            /\ limit > 0 => Len(own) <= limit

(***************************************************************************)
(* The permits of seqsSem are the free places that no admitted request is  *)
(* about to take (so that a place and a slot are always found), and the    *)
(* slots in use are those of the sequences, one each.                      *)
(***************************************************************************)
PlacesCounted ==
    /\ srv.sem + Cardinality({q \in Req : hpc[q] = "admit"}) = Cardinality({i \in Idx : srv.seqs[i] = None})
    /\ \A s \in Idx : Cardinality({q \in Live : srv.seq[q].slot = s}) = IF srv.slots[s].InUse THEN 1 ELSE 0

\* Every request that waits for a place is answered to its end.
EveryRequestEnds == \A q \in Req : hpc[q] = "waiting" ~> (hpc[q] = "done" \/ down)

(***************************************************************************)
(* "No pendingBatch, so the inputs will be ready in the seqs immediately": *)
(* no batch has computed a key from a placeholder, whose token is sampled  *)
(* only when its predecessor's outputs are there.                          *)
(***************************************************************************)
InputsWereReady == \A c \in Owned(srv) : srv.cell[c] # Zero

(***************************************************************************)
(* "Detect if the sequence we're processing has already been completed and *)
(* replaced with a new sequence", "discarding its results": no request is  *)
(* sent, or has held back for it, a piece that was sampled from the output *)
(* of another request's sequence.                                          *)
(***************************************************************************)
ReplacedDiscarded ==
    \A q \in Req : \A x \in Range(got[q] \o FlattenSeq(srv.ch[q]) \o srv.seq[q].held) : x[1] = q

(***************************************************************************)
(* "We have 1 token more than is currently in the cache because the last   *)
(* one generated wasn't submitted to Decode": the pieces that are held     *)
(* back as the start of a stop sequence are in the slot, so that the slot  *)
(* can always be cut in front of them and the runner does not panic.       *)
(***************************************************************************)
HeldIsCached == ~down
=============================================================================
